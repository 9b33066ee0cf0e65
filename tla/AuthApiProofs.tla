---------------------------- MODULE AuthApiProofs ----------------------------
(***************************************************************************)
(* Proofs about AuthApi, for any number of accounts, requests and Gates,   *)
(* and any times and capacities:                                           *)
(*   OneRolePerAccount   a login under the lock knows the account that     *)
(*                       Mongo holds (RoleInv);                            *)
(*   WaitingKeepsPlace   no script call drops an entry whose TTL runs,     *)
(*                       since a request's clock reading is never ahead of *)
(*                       the clock (PlaceInv);                             *)
(*   BookingsBounded     the requests that have seen room are counted in   *)
(*                       the bound before they take it (BookInv).          *)
(***************************************************************************)
EXTENDS AuthApi, FiniteSetTheorems, TLAPS

USE AuthConfig, NoneIsNew

\* Every slot is a record of a request.  (Nothing is said of `avail`, a sum.)
Fields == {"pc", "account", "gid", "avail", "time"}
SlotShape == DOMAIN slot = Slots /\ \A s \in Slots : DOMAIN slot[s] = Fields

\* Request s moves on to slot'[s]; the others stay as they are.
Moves(s) == \A t \in Slots : t # s => slot'[t] = slot[t]

\* Goto changes the phase of a request only.
LEMMA GotoEffect == ASSUME SlotShape, NEW s \in Slots, NEW p, Goto(s, p)
                    PROVE  /\ SlotShape' /\ Moves(s) /\ slot'[s].pc = p
                           /\ slot'[s].account = slot[s].account /\ slot'[s].gid = slot[s].gid
                           /\ slot'[s].avail = slot[s].avail /\ slot'[s].time = slot[s].time
BY DEF SlotShape, Goto, Moves, Fields

\* End makes the slot idle.
LEMMA EndEffect == ASSUME SlotShape, NEW s \in Slots, End(s)
                   PROVE  SlotShape' /\ Moves(s) /\ slot'[s] = Idle
BY DEF SlotShape, End, Moves, Fields, Idle

\* A record in place of a slot's.
LEMMA PutEffect == ASSUME SlotShape, NEW s \in Slots, NEW rec, slot' = [slot EXCEPT ![s] = rec], DOMAIN rec = Fields
                   PROVE  SlotShape' /\ Moves(s) /\ slot'[s] = rec
BY DEF SlotShape, Moves

-----------------------------------------------------------------------------
(* One role per account *)

LoginTypes == /\ account \in [Accounts -> Nat \cup {None}] /\ lastGid \in Nat
              /\ lock \in [Accounts -> Slots \cup {None}] /\ DOMAIN told = Accounts

UnderLock == {"load", "save", "unlock"}

\* A login has the lock of its account while it loads or creates it, ...
LoginLocked == \A s \in Slots : slot[s].pc \in UnderLock =>
                   slot[s].account \in Accounts /\ lock[slot[s].account] = s

\* ... creates it only where there is none, and knows the gid that Mongo holds.
LoginKnows(s) ==
    /\ slot[s].pc = "load" => slot[s].gid = None
    /\ slot[s].pc = "save" => account[slot[s].account] = None /\ slot[s].gid \in Nat
    /\ slot[s].pc \in {"unlock", "token"} /\ slot[s].gid # None =>
          slot[s].account \in Accounts /\ account[slot[s].account] = slot[s].gid
    /\ slot[s].pc = "token" => slot[s].gid # None

\* Only stored gids were told.
Told == \A a \in Accounts : told[a] # {} => told[a] = {account[a]} /\ account[a] # None

RoleInv == SlotShape /\ LoginTypes /\ LoginLocked /\ (\A s \in Slots : LoginKnows(s)) /\ Told

\* A request outside of login, or one that ends, changes nothing of this.
LEMMA AwayRole == ASSUME RoleInv, SlotShape', NEW s \in Slots, Moves(s), UNCHANGED loginVars,
                         slot'[s].pc \notin UnderLock \cup {"token"}
                  PROVE  RoleInv'
<1>1. LoginTypes' /\ Told' BY DEF RoleInv, LoginTypes, Told, loginVars
<1>2. LoginLocked' BY DEF RoleInv, LoginLocked, Moves, loginVars, UnderLock
<1>3. \A t \in Slots : LoginKnows(t)' BY DEF RoleInv, LoginKnows, Moves, loginVars, UnderLock
<1> QED BY <1>1, <1>2, <1>3 DEF RoleInv

\* The phases of use_role.
LEMMA QueueRole == ASSUME RoleInv, NEW s \in Slots,
                          \/ EnqueueLogin(s) \/ EnqueueFails(s) \/ Limited(s) \/ PickGate(s) \/ NoGate(s)
                          \/ LeaveLoginQueue(s) \/ Cancel(s) \/ SetTokenFails(s) \/ \E g \in Gids : UseRole(s, g)
                   PROVE  RoleInv'
<1>0. SlotShape BY DEF RoleInv
<1>1. UNCHANGED loginVars
  BY DEF EnqueueLogin, EnqueueFails, Limited, PickGate, NoGate, LeaveLoginQueue, Cancel, SetTokenFails, UseRole
<1>2. \/ End(s) \/ Goto(s, "leave")
      \/ \E rec : DOMAIN rec = Fields /\ rec.pc \in {"full", "limit", "enqueue"} /\ slot' = [slot EXCEPT ![s] = rec]
  <2>1. CASE EnqueueFails(s) \/ Limited(s) \/ NoGate(s) \/ LeaveLoginQueue(s) \/ Cancel(s) \/ SetTokenFails(s)
    BY <2>1 DEF EnqueueFails, Limited, NoGate, LeaveLoginQueue, Cancel, SetTokenFails
  <2>2. CASE PickGate(s) BY <2>2 DEF PickGate
  <2>3. ASSUME NEW g \in Gids, UseRole(s, g)
        PROVE  \E rec : DOMAIN rec = Fields /\ rec.pc = "enqueue" /\ slot' = [slot EXCEPT ![s] = rec]
    <3> DEFINE rec == [Idle EXCEPT !.pc = "enqueue", !.gid = g, !.avail = Available, !.time = now]
    <3>1. DOMAIN rec = Fields /\ rec.pc = "enqueue" BY DEF Idle, Fields
    <3>2. slot' = [slot EXCEPT ![s] = rec] BY <2>3 DEF UseRole
    <3> QED BY <3>1, <3>2
  <2>4. CASE EnqueueLogin(s)
    <3>1. \A p : LET rec == [Idle EXCEPT !.pc = p, !.gid = slot[s].gid] IN DOMAIN rec = Fields /\ rec.pc = p
      BY DEF Idle, Fields
    <3>2. End(s) \/ \E p \in {"full", "limit"} : slot' = [slot EXCEPT ![s] = [Idle EXCEPT !.pc = p, !.gid = slot[s].gid]]
      BY <2>4 DEF EnqueueLogin
    <3> QED BY <3>1, <3>2
  <2> QED BY <2>1, <2>2, <2>3, <2>4
<1>3. SlotShape' /\ Moves(s) /\ slot'[s].pc \notin UnderLock \cup {"token"}
  BY <1>0, <1>2, GotoEffect, EndEffect, PutEffect DEF UnderLock, Idle
<1> QED BY <1>1, <1>3, AwayRole

\* login takes the lock only when it is free: no other login of the account is under way.
LEMMA LoginRole == ASSUME RoleInv, NEW s \in Slots, NEW a \in Accounts, Login(s, a) PROVE RoleInv'
<1> DEFINE rec == [Idle EXCEPT !.pc = "load", !.account = a]
<1>1. DOMAIN rec = Fields /\ rec.pc = "load" /\ rec.account = a /\ rec.gid = None BY DEF Idle, Fields
<1>2. SlotShape' /\ Moves(s) /\ slot'[s] = rec BY <1>1, PutEffect DEF Login, RoleInv
<1>3. lock[a] = None /\ UNCHANGED <<account, lastGid, told>> /\ lock' = [lock EXCEPT ![a] = s]
  BY DEF Login, LockFree
<1> HIDE DEF rec
<1>4. LoginTypes' BY <1>3 DEF RoleInv, LoginTypes
<1>5. LoginLocked' BY <1>1, <1>2, <1>3 DEF RoleInv, LoginLocked, LoginTypes, Moves
<1>6. \A t \in Slots : LoginKnows(t)' BY <1>1, <1>2, <1>3 DEF RoleInv, LoginKnows, Moves
<1> QED BY <1>2, <1>3, <1>4, <1>5, <1>6 DEF RoleInv, Told

\* load keeps the lock; it makes a gid only for an account that has none.
LEMMA LoadRole == ASSUME RoleInv, NEW s \in Slots, LoadAccount(s) PROVE RoleInv'
<1> DEFINE a == slot[s].account
<1>1. UNCHANGED <<account, lock, told>> /\ slot[s].pc = "load" /\ slot[s].gid = None /\ a \in Accounts /\ lock[a] = s
  BY DEF LoadAccount, At, RoleInv, LoginLocked, LoginKnows, UnderLock
<1>2. /\ SlotShape' /\ Moves(s) /\ slot'[s].account = a /\ lastGid' \in Nat
      /\ \/ slot'[s].pc = "unlock" /\ account[a] # None /\ slot'[s].gid = account[a]
         \/ slot'[s].pc = "unlock" /\ slot'[s].gid = None
         \/ slot'[s].pc = "save" /\ account[a] = None /\ slot'[s].gid \in Nat
  <2>1. CASE account[a] # None /\ slot' = [slot EXCEPT ![s].pc = "unlock", ![s].gid = account[a]] /\ UNCHANGED lastGid
    BY <2>1 DEF RoleInv, SlotShape, Moves, Fields, LoginTypes
  <2>2. CASE Goto(s, "unlock") /\ UNCHANGED lastGid BY <1>1, <2>2, GotoEffect DEF RoleInv, LoginTypes
  <2>3. CASE /\ account[a] = None /\ lastGid' = lastGid + 1
             /\ slot' = [slot EXCEPT ![s].pc = "save", ![s].gid = lastGid + 1]
    <3>1. lastGid \in Nat /\ lastGid + 1 \in Nat BY DEF RoleInv, LoginTypes
    <3> QED BY <2>3, <3>1 DEF RoleInv, SlotShape, Moves, Fields
  <2> QED BY <2>1, <2>2, <2>3 DEF LoadAccount
<1>3. LoginLocked' BY <1>1, <1>2 DEF RoleInv, LoginLocked, Moves, UnderLock
<1>4. \A t \in Slots : LoginKnows(t)' BY <1>1, <1>2 DEF RoleInv, LoginKnows, Moves
<1> QED BY <1>1, <1>2, <1>3, <1>4 DEF RoleInv, LoginTypes, Told

\* The save, or the one that reached Mongo although it failed, fills an empty account:
\* nobody knew a gid of it.
LEMMA SaveRole == ASSUME RoleInv, NEW s \in Slots, SaveAccount(s) \/ SaveAccountFails(s) PROVE RoleInv'
<1> DEFINE a == slot[s].account
<1>1. /\ UNCHANGED <<lastGid, lock, told>> /\ slot[s].pc = "save" /\ a \in Accounts /\ lock[a] = s
      /\ account[a] = None /\ slot[s].gid \in Nat
  BY DEF SaveAccount, SaveAccountFails, At, RoleInv, LoginLocked, LoginKnows, UnderLock
<1>2. /\ SlotShape' /\ Moves(s) /\ slot'[s].account = a /\ slot'[s].pc = "unlock"
      /\ \/ slot'[s].gid = None /\ account' \in {account, [account EXCEPT ![a] = slot[s].gid]}
         \/ slot'[s].gid = slot[s].gid /\ account' = [account EXCEPT ![a] = slot[s].gid]
  <2>1. CASE SaveAccount(s) BY <2>1, GotoEffect DEF SaveAccount, RoleInv
  <2>2. CASE SaveAccountFails(s) BY <2>2 DEF SaveAccountFails, RoleInv, SlotShape, Moves, Fields
  <2> QED BY <2>1, <2>2
<1>3. \A b \in Accounts : account'[b] = account[b] \/ (b = a /\ account'[b] = slot[s].gid)
  BY <1>2 DEF RoleInv, LoginTypes
<1>4. LoginTypes' BY <1>1, <1>2 DEF RoleInv, LoginTypes
<1>5. LoginLocked' BY <1>1, <1>2 DEF RoleInv, LoginLocked, Moves, UnderLock
<1>6. ASSUME NEW t \in Slots PROVE LoginKnows(t)'
  <2>1. CASE t = s BY <1>1, <1>2, <2>1 DEF LoginKnows, RoleInv, LoginTypes
  <2>2. CASE t # s
    <3>1. slot'[t] = slot[t] /\ LoginKnows(t) BY <1>2, <2>2 DEF RoleInv, Moves
    <3>2. slot[t].pc \in UnderLock => slot[t].account # a BY <1>1, <2>2 DEF RoleInv, LoginLocked
    <3>3. slot[t].pc = "save" => slot[t].account \in Accounts BY DEF RoleInv, LoginLocked, UnderLock
    <3>4. slot[t].pc \in {"unlock", "token"} /\ slot[t].gid # None => slot[t].account # a
      BY <1>1, <3>1 DEF LoginKnows
    <3> QED BY <1>3, <3>1, <3>2, <3>3, <3>4 DEF LoginKnows, UnderLock
  <2> QED BY <2>1, <2>2
<1>7. Told' BY <1>1, <1>3 DEF RoleInv, Told
<1> QED BY <1>2, <1>4, <1>5, <1>6, <1>7 DEF RoleInv

\* release deletes the request's own lock only.
LEMMA UnlockRole == ASSUME RoleInv, NEW s \in Slots, Unlock(s) PROVE RoleInv'
<1> DEFINE a == slot[s].account
<1>1. UNCHANGED <<account, lastGid, told>> /\ slot[s].pc = "unlock" /\ a \in Accounts /\ lock[a] = s
  BY DEF Unlock, At, RoleInv, LoginLocked, UnderLock
<1>2. SlotShape' /\ Moves(s) /\ slot'[s].pc \in {"idle", "token"}
      /\ (slot'[s].pc = "token" => slot'[s].account = a /\ slot'[s].gid = slot[s].gid /\ slot[s].gid # None)
  BY GotoEffect, EndEffect DEF Unlock, RoleInv, Idle
<1>3. lock' \in {lock, [lock EXCEPT ![a] = None]} BY DEF Unlock
<1>4. LoginTypes' BY <1>1, <1>3 DEF RoleInv, LoginTypes
<1>5. LoginLocked' BY <1>1, <1>2, <1>3 DEF RoleInv, LoginLocked, LoginTypes, Moves, UnderLock
<1>6. \A t \in Slots : LoginKnows(t)' BY <1>1, <1>2 DEF RoleInv, LoginKnows, Moves
<1> QED BY <1>1, <1>2, <1>4, <1>5, <1>6 DEF RoleInv, Told

\* The token and the answer name the stored gid.
LEMMA TokenRole == ASSUME RoleInv, NEW s \in Slots, SetToken(s) PROVE RoleInv'
<1> DEFINE a == slot[s].account
<1>1. /\ UNCHANGED <<account, lastGid, lock>> /\ slot[s].pc = "token" /\ a \in Accounts
      /\ slot[s].gid # None /\ account[a] = slot[s].gid /\ told' = [told EXCEPT ![a] = @ \cup {slot[s].gid}]
  BY DEF SetToken, At, RoleInv, LoginKnows
<1>2. SlotShape' /\ Moves(s) /\ slot'[s].pc = "idle" BY EndEffect DEF SetToken, RoleInv, Idle
<1>3. LoginTypes' BY <1>1 DEF RoleInv, LoginTypes
<1>4. LoginLocked' BY <1>1, <1>2 DEF RoleInv, LoginLocked, Moves, UnderLock
<1>5. \A t \in Slots : LoginKnows(t)' BY <1>1, <1>2 DEF RoleInv, LoginKnows, Moves
<1>6. Told'
  <2>1. \A b \in Accounts : told'[b] = IF b = a THEN told[a] \cup {slot[s].gid} ELSE told[b]
    BY <1>1 DEF RoleInv, LoginTypes
  <2> QED BY <1>1, <2>1 DEF RoleInv, Told
<1> QED BY <1>2, <1>3, <1>4, <1>5, <1>6 DEF RoleInv

\* The TTL of a lock runs out when no login uses it.
LEMMA ExpireRole == ASSUME "slow" \notin Faults, RoleInv, NEW a \in Accounts, LockExpires(a) PROVE RoleInv'
<1>1. /\ UNCHANGED <<account, lastGid, told, slot>> /\ lock[a] # None /\ ~Locked(lock[a], a)
      /\ lock' = [lock EXCEPT ![a] = None]
  BY DEF LockExpires
<1>2. LoginTypes' BY <1>1 DEF RoleInv, LoginTypes
<1>3. LoginLocked' BY <1>1 DEF RoleInv, LoginLocked, LoginTypes, Locked, UnderLock
<1> QED BY <1>1, <1>2, <1>3 DEF RoleInv, SlotShape, LoginKnows, Told

\* Every step keeps the roles.
LEMMA RoleNext == ASSUME "slow" \notin Faults, RoleInv, [Next]_vars PROVE RoleInv'
<1>1. ASSUME NEW a \in Accounts, LockExpires(a) \/ \E s \in Slots : Login(s, a) PROVE RoleInv'
  BY <1>1, ExpireRole, LoginRole
<1>2. ASSUME NEW s \in Slots, LoadAccount(s) \/ SaveAccount(s) \/ SaveAccountFails(s) \/ Unlock(s) \/ SetToken(s)
      PROVE  RoleInv'
  BY <1>2, LoadRole, SaveRole, UnlockRole, TokenRole
<1>3. ASSUME NEW s \in Slots,
             \/ EnqueueLogin(s) \/ EnqueueFails(s) \/ Limited(s) \/ PickGate(s) \/ NoGate(s)
             \/ LeaveLoginQueue(s) \/ Cancel(s) \/ SetTokenFails(s) \/ \E g \in Gids : UseRole(s, g)
      PROVE  RoleInv'
  BY <1>3, QueueRole
<1>4. CASE (\E h \in Gates : Publish(h) \/ GateShutdown(h)) \/ PublishedExpires \/ RefreshOnline \/ Tick \/ UNCHANGED vars
  <2>1. UNCHANGED <<account, lastGid, lock, told, slot>>
    BY <1>4 DEF Publish, GateShutdown, PublishedExpires, RefreshOnline, Tick, vars, loginVars
  <2> QED BY <2>1 DEF RoleInv, SlotShape, LoginTypes, LoginLocked, LoginKnows, Told
<1> QED BY <1>1, <1>2, <1>3, <1>4 DEF Next

\* For any number of accounts and logins, failed saves, cancelled requests and locks that
\* are left to their TTL, as long as a lock outlives the login that uses it: an account has
\* one player.
THEOREM OneRolePerAccount == ASSUME "slow" \notin Faults PROVE Spec => []OneRole
<1>1. Init => RoleInv
  BY DEF Init, RoleInv, SlotShape, Fields, Idle, LoginTypes, LoginLocked, UnderLock, LoginKnows, Told
<1>2. RoleInv /\ [Next]_vars => RoleInv' BY RoleNext
<1>3. RoleInv => OneRole BY DEF RoleInv, Told, OneRole
<1> QED BY <1>1, <1>2, <1>3, PTL DEF Spec

-----------------------------------------------------------------------------
(* The place in the queue *)

\* A clock reading of a request is not ahead of the clock, and scores and places are readings.
QueueTypes == /\ now \in Nat /\ DOMAIN place = Gids
              /\ \A g \in Gids : place[g] \in Nat \cup {None}
              /\ \A g \in DOMAIN queue : queue[g] \in Nat
              /\ \A s \in Slots : slot[s].time \in Nat /\ slot[s].time <= now

\* The entry of a player who was told to wait, and whose TTL runs, holds its place; also
\* while a request of that player is under way.
Kept(g) == place[g] # None /\ ~Expired(g) => g \in DOMAIN queue /\ queue[g] = place[g]

PlaceInv == SlotShape /\ QueueTypes /\ \A g \in Gids : Kept(g)

\* The script of enqueue_login drops no entry that may still be counted on, and changes
\* no score.
LEMMA AddNewKeeps == ASSUME PlaceInv, NEW s \in Slots, NEW e, NEW q, q = AddNew(queue, e, slot[s].time)
                     PROVE  /\ \A g \in DOMAIN q : q[g] \in Nat
                            /\ \A g \in Gids : place[g] # None /\ ~Expired(g) => g \in DOMAIN q /\ q[g] = place[g]
                            /\ e \in DOMAIN q
<1>1. slot[s].time \in Nat /\ now \in Nat /\ slot[s].time <= now BY DEF PlaceInv, QueueTypes
<1>2. DOMAIN q = Fresh(queue, slot[s].time) \cup {e} BY DEF AddNew
<1>3. \A g \in DOMAIN q : q[g] = IF g \in Fresh(queue, slot[s].time) THEN queue[g] ELSE slot[s].time BY DEF AddNew
<1>4. \A g \in Fresh(queue, slot[s].time) : g \in DOMAIN queue BY DEF Fresh
<1>5. \A g \in DOMAIN q : q[g] \in Nat BY <1>1, <1>3, <1>4 DEF PlaceInv, QueueTypes
<1>6. ASSUME NEW g \in Gids, place[g] # None, ~Expired(g) PROVE g \in DOMAIN q /\ q[g] = place[g]
  <2>1. g \in DOMAIN queue /\ queue[g] = place[g] /\ place[g] \in Nat BY <1>6 DEF PlaceInv, Kept, QueueTypes
  <2>2. place[g] > now - EntryTTL BY <1>1, <1>6, <2>1 DEF Expired
  <2>3. g \in Fresh(queue, slot[s].time) BY <1>1, <2>1, <2>2 DEF Fresh
  <2> QED BY <1>2, <1>3, <2>1, <2>3
<1> QED BY <1>2, <1>5, <1>6

\* What the steps of a request do to the places: with a queue q that still holds the places
\* of all players but those of request s, its player keeps its place, takes that of q, or quits.
LEMMA PlaceStep == ASSUME PlaceInv, SlotShape', NEW s \in Slots, Moves(s), UNCHANGED now,
                          slot'[s].time \in Nat /\ slot'[s].time <= now,
                          \A g \in DOMAIN queue' : queue'[g] \in Nat,
                          NEW e,
                          \A g \in Gids \ {e} : place[g] # None /\ ~Expired(g) => g \in DOMAIN queue' /\ queue'[g] = place[g],
                          \/ place' = [place EXCEPT ![e] = None]
                          \/ /\ place' = place \/ (e \in DOMAIN queue' /\ Waits(e, queue'))
                             /\ e \in Gids /\ place[e] # None /\ ~Expired(e) => e \in DOMAIN queue' /\ queue'[e] = place[e]
                   PROVE  PlaceInv'
<1>1. /\ DOMAIN place' = Gids /\ \A g \in Gids \ {e} : place'[g] = place[g]
      /\ e \in Gids => \/ place'[e] = None
                       \/ place'[e] = place[e] /\ ~Expired(e) /\ e \in DOMAIN queue' /\ queue'[e] = place[e]
                       \/ place'[e] = place[e] /\ Expired(e)
                       \/ e \in DOMAIN queue' /\ place'[e] = queue'[e]
  <2>0. DOMAIN place = Gids BY DEF PlaceInv, QueueTypes
  <2>1. CASE place' = [place EXCEPT ![e] = None] BY <2>0, <2>1
  <2>2. CASE place' = place
    BY <2>0, <2>2
  <2>3. CASE Waits(e, queue') /\ e \in DOMAIN queue'
    BY <2>0, <2>3 DEF Waits
  <2> QED BY <2>1, <2>2, <2>3
<1>2. \A g \in Gids : place'[g] \in Nat \cup {None} BY <1>1 DEF PlaceInv, QueueTypes
<1>3. QueueTypes' BY <1>1, <1>2 DEF PlaceInv, QueueTypes, Moves
<1>4. ASSUME NEW g \in Gids PROVE Kept(g)'
  <2>1. place'[g] = place[g] => (Expired(g)' <=> Expired(g)) BY DEF Expired
  <2> QED BY <1>1, <2>1 DEF Kept
<1> QED BY <1>3, <1>4 DEF PlaceInv

\* A step that leaves the queue, the places and the clock alone.
LEMMA PlaceAway == ASSUME PlaceInv, SlotShape', UNCHANGED <<queueVars, now>>,
                          \A s \in Slots : slot'[s].time \in Nat /\ slot'[s].time <= now
                   PROVE  PlaceInv'
BY DEF PlaceInv, QueueTypes, Kept, Expired, queueVars

\* login, and the start of use_role, which reads the clock.
LEMMA LoginPlace == ASSUME PlaceInv, NEW s \in Slots,
                           \/ \E a \in Accounts : Login(s, a)
                           \/ LoadAccount(s) \/ SaveAccount(s) \/ SaveAccountFails(s) \/ Unlock(s)
                           \/ SetToken(s) \/ SetTokenFails(s) \/ PickGate(s) \/ \E g \in Gids : UseRole(s, g)
                    PROVE  PlaceInv'
<1>0. SlotShape /\ now \in Nat /\ \A t \in Slots : slot[t].time \in Nat /\ slot[t].time <= now BY SMTT(30) DEF PlaceInv, QueueTypes
<1>1. UNCHANGED <<queueVars, now>>
  BY DEF Login, LoadAccount, SaveAccount, SaveAccountFails, Unlock, SetToken, SetTokenFails, PickGate, UseRole, gateVars
<1>2. SlotShape' /\ Moves(s) /\ slot'[s].time \in {0, slot[s].time, now}
  <2>1. CASE Unlock(s) \/ SetToken(s) \/ SetTokenFails(s)
    BY <1>0, <2>1, GotoEffect, EndEffect DEF Unlock, SetToken, SetTokenFails, Idle
  <2>2. CASE SaveAccount(s) \/ PickGate(s) BY <1>0, <2>2, GotoEffect DEF SaveAccount, PickGate
  <2>3. CASE LoadAccount(s)
    <3>1. Goto(s, "unlock") \/ \E p, g : slot' = [slot EXCEPT ![s].pc = p, ![s].gid = g] BY <2>3 DEF LoadAccount
    <3>2. ASSUME NEW p, NEW g, slot' = [slot EXCEPT ![s].pc = p, ![s].gid = g]
          PROVE  SlotShape' /\ Moves(s) /\ slot'[s].time = slot[s].time
      <4> DEFINE rec == [slot[s] EXCEPT !.pc = p, !.gid = g]
      <4>1. slot' = [slot EXCEPT ![s] = rec] BY <1>0, <3>2 DEF SlotShape
      <4>2. DOMAIN rec = Fields /\ rec.time = slot[s].time BY <1>0 DEF SlotShape, Fields
      <4> QED BY <1>0, <4>1, <4>2, PutEffect
    <3>3. CASE Goto(s, "unlock") BY <1>0, <3>3, GotoEffect
    <3> QED BY <3>1, <3>2, <3>3
  <2>4. CASE SaveAccountFails(s) BY <1>0, <2>4 DEF SaveAccountFails, SlotShape, Moves, Fields
  <2>5. ASSUME NEW a \in Accounts, Login(s, a) PROVE SlotShape' /\ Moves(s) /\ slot'[s].time = 0
    <3> DEFINE rec == [Idle EXCEPT !.pc = "load", !.account = a]
    <3>1. DOMAIN rec = Fields /\ rec.time = 0 BY DEF Idle, Fields
    <3>2. slot' = [slot EXCEPT ![s] = rec] BY <2>5 DEF Login
    <3> QED BY <1>0, <3>1, <3>2, PutEffect
  <2>6. ASSUME NEW g \in Gids, UseRole(s, g) PROVE SlotShape' /\ Moves(s) /\ slot'[s].time = now
    <3> DEFINE rec == [Idle EXCEPT !.pc = "enqueue", !.gid = g, !.avail = Available, !.time = now]
    <3>1. DOMAIN rec = Fields /\ rec.time = now BY DEF Idle, Fields
    <3>2. slot' = [slot EXCEPT ![s] = rec] BY <2>6 DEF UseRole
    <3> QED BY <1>0, <3>1, <3>2, PutEffect
  <2> QED BY <2>1, <2>2, <2>3, <2>4, <2>5, <2>6
<1>3. \A t \in Slots : slot'[t].time \in Nat /\ slot'[t].time <= now BY <1>0, <1>2 DEF Moves
<1> QED BY <1>1, <1>2, <1>3, PlaceAway

\* The request that enters the queue.
LEMMA EnqueuePlace == ASSUME PlaceInv, NEW s \in Slots, EnqueueLogin(s) \/ EnqueueFails(s) PROVE PlaceInv'
<1> DEFINE g == slot[s].gid
           q == AddNew(queue, g, slot[s].time)
<1>0. SlotShape /\ now \in Nat /\ UNCHANGED now BY DEF PlaceInv, QueueTypes, EnqueueLogin, EnqueueFails, gateVars
<1>1. queue' \in {queue, q} /\ (EnqueueLogin(s) => queue' = q) BY DEF EnqueueLogin, EnqueueFails
<1>2. SlotShape' /\ Moves(s) /\ slot'[s].time = 0
  <2>1. \A p : LET rec == [Idle EXCEPT !.pc = p, !.gid = g] IN DOMAIN rec = Fields /\ rec.time = 0 BY DEF Idle, Fields
  <2>2. End(s) \/ \E p : slot' = [slot EXCEPT ![s] = [Idle EXCEPT !.pc = p, !.gid = g]] BY DEF EnqueueLogin, EnqueueFails
  <2>3. CASE End(s) BY <1>0, <2>3, EndEffect DEF Idle
  <2>4. ASSUME NEW p, slot' = [slot EXCEPT ![s] = [Idle EXCEPT !.pc = p, !.gid = g]]
        PROVE  SlotShape' /\ Moves(s) /\ slot'[s].time = 0
    BY <1>0, <2>1, <2>4, PutEffect
  <2> QED BY <2>2, <2>3, <2>4
<1>3. /\ \A h \in DOMAIN q : q[h] \in Nat
      /\ \A h \in Gids : place[h] # None /\ ~Expired(h) => h \in DOMAIN q /\ q[h] = place[h]
      /\ g \in DOMAIN q
  BY AddNewKeeps
<1>4. \/ place' = [place EXCEPT ![g] = None]
      \/ queue' = q /\ (UNCHANGED place \/ Waits(g, queue'))
  BY DEF EnqueueLogin, EnqueueFails, Quits
<1> HIDE DEF q, g
<1>5. /\ \A h \in DOMAIN queue' : queue'[h] \in Nat
      /\ \A h \in Gids : place[h] # None /\ ~Expired(h) => h \in DOMAIN queue' /\ queue'[h] = place[h]
  BY <1>1, <1>3 DEF PlaceInv, QueueTypes, Kept
<1>6. slot'[s].time \in Nat /\ slot'[s].time <= now BY <1>0, <1>2
<1> QED BY <1>0, <1>2, <1>3, <1>4, <1>5, <1>6, PlaceStep

\* The steps of a request that ends.
LEMMA EndPlace == ASSUME PlaceInv, NEW s \in Slots, Limited(s) \/ NoGate(s) \/ LeaveLoginQueue(s) \/ Cancel(s)
                  PROVE  PlaceInv'
<1> DEFINE g == slot[s].gid
<1>0. SlotShape /\ now \in Nat /\ UNCHANGED now /\ End(s)
  BY DEF PlaceInv, QueueTypes, Limited, NoGate, LeaveLoginQueue, Cancel, gateVars
<1>1. SlotShape' /\ Moves(s) /\ slot'[s].time \in Nat /\ slot'[s].time <= now BY <1>0, EndEffect DEF Idle
<1>2. \/ queue' = queue /\ (UNCHANGED place \/ (g \in DOMAIN queue /\ Waits(g, queue)) \/ place' = [place EXCEPT ![g] = None])
      \/ queue' = Remove(queue, g) /\ place' = [place EXCEPT ![g] = None]
  BY DEF Limited, NoGate, LeaveLoginQueue, Cancel, Quits
<1>3. CASE queue' = queue
  <2>1. \A h \in Gids : place[h] # None /\ ~Expired(h) => h \in DOMAIN queue' /\ queue'[h] = place[h]
    BY <1>3 DEF PlaceInv, Kept
  <2>2. \A h \in DOMAIN queue' : queue'[h] \in Nat BY <1>3 DEF PlaceInv, QueueTypes
  <2>3. UNCHANGED place \/ (g \in DOMAIN queue' /\ Waits(g, queue')) \/ place' = [place EXCEPT ![g] = None]
    BY <1>2, <1>3
  <2> QED BY <1>0, <1>1, <2>1, <2>2, <2>3, PlaceStep
<1>4. CASE queue' = Remove(queue, g) /\ place' = [place EXCEPT ![g] = None]
  <2>1. \A h \in DOMAIN queue' : queue'[h] \in Nat BY <1>4 DEF PlaceInv, QueueTypes, Remove
  <2>2. \A h \in Gids \ {g} : place[h] # None /\ ~Expired(h) => h \in DOMAIN queue' /\ queue'[h] = place[h]
    BY <1>4 DEF PlaceInv, Kept, Remove
  <2> QED BY <1>0, <1>1, <1>4, <2>1, <2>2, PlaceStep
<1> QED BY <1>2, <1>3, <1>4

\* Every step keeps the places; the clock can only end a TTL.
LEMMA PlaceNext == ASSUME PlaceInv, [Next]_vars PROVE PlaceInv'
<1>1. ASSUME NEW s \in Slots,
             \/ \E a \in Accounts : Login(s, a)
             \/ LoadAccount(s) \/ SaveAccount(s) \/ SaveAccountFails(s) \/ Unlock(s)
             \/ SetToken(s) \/ SetTokenFails(s) \/ PickGate(s) \/ \E g \in Gids : UseRole(s, g)
      PROVE  PlaceInv'
  BY <1>1, LoginPlace
<1>2. ASSUME NEW s \in Slots,
             EnqueueLogin(s) \/ EnqueueFails(s) \/ Limited(s) \/ NoGate(s) \/ LeaveLoginQueue(s) \/ Cancel(s)
      PROVE  PlaceInv'
  BY <1>2, EnqueuePlace, EndPlace
<1>3. CASE \/ (\E h \in Gates : Publish(h) \/ GateShutdown(h)) \/ PublishedExpires \/ RefreshOnline \/ UNCHANGED vars
           \/ \E a \in Accounts : LockExpires(a)
  <2>1. UNCHANGED <<slot, queueVars, now>>
    BY <1>3 DEF Publish, GateShutdown, PublishedExpires, RefreshOnline, LockExpires, vars, queueVars, gateVars
  <2> QED BY <2>1, PlaceAway DEF PlaceInv, SlotShape, QueueTypes
<1>4. CASE Tick
  <2>1. now' = now + 1 /\ UNCHANGED <<slot, queue, place>> BY <1>4 DEF Tick, queueVars
  <2>2. QueueTypes' BY <2>1 DEF PlaceInv, QueueTypes
  <2>3. ASSUME NEW g \in Gids PROVE Kept(g)'
    <3>1. place[g] \in Nat \cup {None} /\ now \in Nat BY DEF PlaceInv, QueueTypes
    <3>2. Expired(g) => Expired(g)' BY <2>1, <3>1 DEF Expired
    <3> QED BY <2>1, <3>2 DEF PlaceInv, Kept
  <2> QED BY <2>1, <2>2, <2>3 DEF PlaceInv, SlotShape
<1> QED BY <1>1, <1>2, <1>3, <1>4 DEF Next

\* Whatever requests overlap, are cancelled or lose an answer of Redis, and even if locks
\* expire under their login: a player who was told to wait keeps its first score for the
\* TTL of its entry.
THEOREM WaitingKeepsPlace == Spec => []PlaceKept
<1>1. Init => PlaceInv
  BY DEF Init, PlaceInv, SlotShape, Fields, Idle, QueueTypes, Kept, Gids
<1>2. PlaceInv /\ [Next]_vars => PlaceInv' BY PlaceNext
<1>3. PlaceInv => PlaceKept BY DEF PlaceInv, Kept, PlaceKept
<1> QED BY <1>1, <1>2, <1>3, PTL DEF Spec

-----------------------------------------------------------------------------
(* The bookings of a single Gate *)

\* The room of no Gate is nothing.
LEMMA RoomOfNone == MapThenSumSet(Room, {}) = 0
<1> DEFINE P(f) == f = [S \in SUBSET {} |-> IF S = {} THEN 0
                                            ELSE Room(CHOOSE x \in S : TRUE) + f[S \ {CHOOSE x \in S : TRUE}]]
           zero == [S \in SUBSET {} |-> 0]
<1>1. P(zero) OBVIOUS
<1>2. P(CHOOSE f : P(f)) BY <1>1
<1>3. (CHOOSE f : P(f))[{}] = 0 BY <1>2
<1> QED BY <1>3 DEF MapThenSumSet, MapThenFoldSet

\* The room of one Gate is its own: the recursive function that adds it up exists.
LEMMA RoomOfOne == ASSUME NEW h, Room(h) \in Nat PROVE MapThenSumSet(Room, {h}) = Room(h)
<1> DEFINE P(f) == f = [S \in SUBSET {h} |-> IF S = {} THEN 0
                                             ELSE Room(CHOOSE x \in S : TRUE) + f[S \ {CHOOSE x \in S : TRUE}]]
           sum == [S \in SUBSET {h} |-> IF S = {} THEN 0 ELSE Room(h)]
<1>1. \A S \in SUBSET {h} : S # {} => (CHOOSE x \in S : TRUE) = h /\ S \ {h} = {} OBVIOUS
<1>2. P(sum)
  <2>1. ASSUME NEW S \in SUBSET {h}
        PROVE  sum[S] = IF S = {} THEN 0 ELSE Room(CHOOSE x \in S : TRUE) + sum[S \ {CHOOSE x \in S : TRUE}]
    <3>1. CASE S = {} BY <3>1
    <3>2. CASE S # {}
      <4>1. (CHOOSE x \in S : TRUE) = h /\ S \ {h} = {} BY <1>1, <3>2
      <4> HIDE DEF sum
      <4>2. sum[{}] = 0 /\ sum[S] = Room(h) BY <3>2 DEF sum
      <4> QED BY <3>2, <4>1, <4>2
    <3> QED BY <3>1, <3>2
  <2> QED BY <2>1
<1>3. P(CHOOSE f : P(f)) BY <1>2
<1>4. (CHOOSE f : P(f))[{h}] = Room(h)
  <2> DEFINE g == CHOOSE f : P(f)
  <2>0. P(g) BY <1>3
  <2> HIDE DEF g
  <2>1. g[{}] = 0 BY <2>0
  <2>2. (CHOOSE x \in {h} : TRUE) = h /\ {h} \ {h} = {} BY <1>1
  <2>3. g[{h}] = Room(h) + g[{}] BY <2>0, <2>2
  <2> QED BY <2>1, <2>3 DEF g
<1> QED BY <1>4 DEF MapThenSumSet, MapThenFoldSet

\* The requests that have seen room and may still take a place.
Counting == {s \in Slots : slot[s].pc = "limit" \/ (slot[s].pc = "enqueue" /\ slot[s].avail # 0)}

Counts(h) == seen[h] \in Nat /\ base[h] \in Nat /\ published[h] \in Nat \cup {None}
Ceiling(h) == Cardinality(Slots) + IF base[h] > PlayerCapacity - 1 THEN base[h] ELSE PlayerCapacity - 1

\* Every such request is already counted in the bound.
BookInv == /\ SlotShape /\ DOMAIN seen = Gates /\ DOMAIN base = Gates /\ DOMAIN published = Gates
           /\ \A h \in Gates : Counts(h)
           /\ \A h \in Gates : Gates = {h} => seen[h] + Cardinality(Counting) <= Ceiling(h)

\* There are no more of them than slots.
LEMMA CountingBound == /\ IsFiniteSet(Counting) /\ Cardinality(Counting) \in Nat
                       /\ Cardinality(Slots) \in Nat /\ Cardinality(Counting) <= Cardinality(Slots)
BY Permits, FS_Subset, FS_CardinalityType DEF Counting

\* A step in which no request begins to count.
LEMMA BookAway == ASSUME BookInv, SlotShape', UNCHANGED <<published, seen, base>>, Counting' \subseteq Counting
                  PROVE  BookInv'
<1>1. Cardinality(Counting') \in Nat /\ Cardinality(Counting') <= Cardinality(Counting)
  BY CountingBound, FS_Subset, FS_CardinalityType
<1>2. \A h \in Gates : Gates = {h} => seen[h] + Cardinality(Counting') <= Ceiling(h)
  BY <1>1, CountingBound DEF BookInv, Counts, Ceiling
<1>3. \A h \in Gates : Counts(h)' /\ Ceiling(h)' = Ceiling(h) BY DEF BookInv, Counts, Ceiling
<1> QED BY <1>2, <1>3 DEF BookInv

\* The steps of login and of a request that does not get or take a place.
LEMMA SlotBook == ASSUME BookInv, NEW s \in Slots,
                         \/ \E a \in Accounts : Login(s, a)
                         \/ LoadAccount(s) \/ SaveAccount(s) \/ SaveAccountFails(s) \/ Unlock(s)
                         \/ SetToken(s) \/ SetTokenFails(s)
                         \/ EnqueueLogin(s) \/ EnqueueFails(s) \/ Limited(s) \/ NoGate(s)
                         \/ LeaveLoginQueue(s) \/ Cancel(s)
                  PROVE  BookInv'
<1>0. SlotShape BY SMTT(30) DEF BookInv
<1>1. UNCHANGED <<published, seen, base>>
  BY DEF Login, LoadAccount, SaveAccount, SaveAccountFails, Unlock, SetToken, SetTokenFails, EnqueueLogin, EnqueueFails,
         Limited, NoGate, LeaveLoginQueue, Cancel, gateVars
<1>2. /\ SlotShape' /\ Moves(s)
      /\ \/ slot'[s].pc \in {"idle", "load", "save", "unlock", "token", "full"}
         \/ slot'[s].pc = "limit" /\ slot[s].pc = "enqueue" /\ slot[s].avail # 0
  <2>1. CASE \/ Unlock(s) \/ SetToken(s) \/ SetTokenFails(s) \/ EnqueueFails(s) \/ Limited(s) \/ NoGate(s)
             \/ LeaveLoginQueue(s) \/ Cancel(s) \/ SaveAccount(s)
    <3>1. End(s) \/ \E p \in {"token", "unlock"} : Goto(s, p)
      BY <2>1 DEF Unlock, SetToken, SetTokenFails, EnqueueFails, Limited, NoGate, LeaveLoginQueue, Cancel, SaveAccount
    <3>2. CASE End(s) BY <1>0, <3>2, EndEffect DEF Idle
    <3>3. ASSUME NEW p \in {"token", "unlock"}, Goto(s, p) PROVE SlotShape' /\ Moves(s) /\ slot'[s].pc = p
      BY <1>0, <3>3, GotoEffect
    <3> QED BY <3>1, <3>2, <3>3
  <2>2. CASE LoadAccount(s) \/ SaveAccountFails(s)
    <3>1. Goto(s, "unlock") \/ \E p \in {"unlock", "save"} : \E g : slot' = [slot EXCEPT ![s].pc = p, ![s].gid = g]
      BY <2>2 DEF LoadAccount, SaveAccountFails
    <3>2. ASSUME NEW p \in {"unlock", "save"}, NEW g, slot' = [slot EXCEPT ![s].pc = p, ![s].gid = g]
          PROVE  SlotShape' /\ Moves(s) /\ slot'[s].pc = p
      <4> DEFINE rec == [slot[s] EXCEPT !.pc = p, !.gid = g]
      <4>1. slot' = [slot EXCEPT ![s] = rec] BY <1>0, <3>2 DEF SlotShape
      <4>2. DOMAIN rec = Fields /\ rec.pc = p BY <1>0 DEF SlotShape, Fields
      <4> QED BY <1>0, <4>1, <4>2, PutEffect
    <3>3. CASE Goto(s, "unlock") BY <1>0, <3>3, GotoEffect
    <3> QED BY <3>1, <3>2, <3>3
  <2>3. ASSUME NEW a \in Accounts, Login(s, a) PROVE SlotShape' /\ Moves(s) /\ slot'[s].pc = "load"
    <3> DEFINE rec == [Idle EXCEPT !.pc = "load", !.account = a]
    <3>1. DOMAIN rec = Fields /\ rec.pc = "load" BY DEF Idle, Fields
    <3>2. slot' = [slot EXCEPT ![s] = rec] BY <2>3 DEF Login
    <3> QED BY <1>0, <3>1, <3>2, PutEffect
  <2>4. CASE EnqueueLogin(s)
    <3> DEFINE rec(p) == [Idle EXCEPT !.pc = p, !.gid = slot[s].gid]
    <3>1. \A p : DOMAIN rec(p) = Fields /\ rec(p).pc = p BY DEF Idle, Fields
    <3>2. \/ End(s) \/ slot' = [slot EXCEPT ![s] = rec("full")]
          \/ slot' = [slot EXCEPT ![s] = rec("limit")] /\ slot[s].pc = "enqueue" /\ slot[s].avail > 0
      BY <2>4 DEF EnqueueLogin, At
    <3> HIDE DEF rec
    <3>3. CASE End(s) BY <1>0, <3>3, EndEffect DEF Idle
    <3>4. ASSUME NEW p, slot' = [slot EXCEPT ![s] = rec(p)] PROVE SlotShape' /\ Moves(s) /\ slot'[s].pc = p
      BY <1>0, <3>1, <3>4, PutEffect
    <3>5. slot[s].avail > 0 => slot[s].avail # 0 OBVIOUS
    <3> QED BY <3>2, <3>3, <3>4, <3>5
  <2> QED BY <2>1, <2>2, <2>3, <2>4
<1>3. Counting' \subseteq Counting BY <1>2 DEF Counting, Moves
<1> QED BY <1>1, <1>2, <1>3, BookAway

\* use_role begins to count only on room that Auth sees.
LEMMA UseBook == ASSUME BookInv, NEW s \in Slots, NEW g \in Gids, UseRole(s, g) PROVE BookInv'
<1> DEFINE rec == [Idle EXCEPT !.pc = "enqueue", !.gid = g, !.avail = Available, !.time = now]
<1>1. DOMAIN rec = Fields /\ rec.pc = "enqueue" /\ rec.avail = Available BY DEF Idle, Fields
<1>2. slot' = [slot EXCEPT ![s] = rec] /\ UNCHANGED <<published, seen, base>> BY DEF UseRole, gateVars
<1>3. SlotShape' /\ Moves(s) /\ slot'[s] = rec BY <1>1, <1>2, PutEffect DEF BookInv
<1> HIDE DEF rec
<1>4. CASE Available = 0
  <2>1. Counting' \subseteq Counting BY <1>1, <1>3, <1>4 DEF Counting, Moves
  <2> QED BY <1>2, <1>3, <2>1, BookAway
<1>5. CASE Available # 0
  <2>1. ASSUME NEW h \in Gates, Gates = {h} PROVE seen[h] <= PlayerCapacity - 1
    <3>0. seen[h] \in Nat BY DEF BookInv, Counts
    <3>1. Discovered = {h} \/ Discovered = {} BY <2>1 DEF Discovered
    <3>2. Room(h) \in Nat BY <3>0 DEF Room
    <3>3. Room(h) # 0 BY <1>5, <3>1, <3>2, RoomOfNone, RoomOfOne DEF Available
    <3> QED BY <3>0, <3>3 DEF Room
  <2>2. Cardinality(Counting') \in Nat /\ Cardinality(Counting') <= Cardinality(Slots) /\ Cardinality(Slots) \in Nat
    <3>1. Counting' \in SUBSET Slots BY DEF Counting
    <3> QED BY <3>1, Permits, FS_Subset, FS_CardinalityType
  <2>3. \A h \in Gates : Counts(h)' /\ Ceiling(h)' = Ceiling(h) BY <1>2 DEF BookInv, Counts, Ceiling
  <2>4. ASSUME NEW h \in Gates, Gates = {h} PROVE seen'[h] + Cardinality(Counting') <= Ceiling(h)
    BY <1>2, <2>1, <2>2, <2>4 DEF BookInv, Counts, Ceiling
  <2> QED BY <1>2, <1>3, <2>3, <2>4 DEF BookInv
<1> QED BY <1>4, <1>5

\* A booking: the request that takes the place no longer counts on one.
LEMMA PickBook == ASSUME BookInv, NEW s \in Slots, PickGate(s) PROVE BookInv'
<1>1. SlotShape' /\ Moves(s) /\ slot'[s].pc = "leave" /\ slot[s].pc = "limit" BY GotoEffect DEF PickGate, At, BookInv
<1>2. PICK k \in Gates : seen' = [seen EXCEPT ![k] = @ + 1] BY DEF PickGate, Discovered
<1>3. UNCHANGED <<published, base>> BY DEF PickGate
<1>4. Counting' = Counting \ {s} /\ s \in Counting BY <1>1 DEF Counting, Moves
<1>5. Cardinality(Counting') = Cardinality(Counting) - 1 BY <1>4, CountingBound, FS_RemoveElement
<1>6. \A h \in Gates : Counts(h)' /\ Ceiling(h)' = Ceiling(h) BY <1>2, <1>3 DEF BookInv, Counts, Ceiling
<1>7. ASSUME NEW h \in Gates, Gates = {h} PROVE seen'[h] + Cardinality(Counting') <= Ceiling(h)
  <2>1. k = h /\ seen'[h] = seen[h] + 1 BY <1>2, <1>7 DEF BookInv
  <2>2. seen[h] + Cardinality(Counting) <= Ceiling(h) /\ seen[h] \in Nat /\ Ceiling(h) \in Int
    BY <1>7, CountingBound DEF BookInv, Counts, Ceiling
  <2> QED BY <1>5, <2>1, <2>2, CountingBound
<1> QED BY <1>1, <1>2, <1>3, <1>6, <1>7 DEF BookInv

\* What a Gate publishes, and its shutdown.
LEMMA GateBook == ASSUME BookInv,
                         \/ \E h \in Gates : Publish(h) \/ GateShutdown(h)
                         \/ PublishedExpires
                  PROVE  BookInv'
<1>1. UNCHANGED <<slot, seen, base>>
  BY DEF Publish, GateShutdown, PublishedExpires
<1>2. DOMAIN published' = Gates /\ \A h \in Gates : published'[h] \in Nat \cup {None}
  <2>1. DOMAIN published = Gates /\ \A h \in Gates : published[h] \in Nat \cup {None} BY DEF BookInv, Counts
  <2>2. ASSUME NEW h \in Gates, Publish(h) PROVE DOMAIN published' = Gates /\ \A k \in Gates : published'[k] \in Nat \cup {None}
    <3>1. PICK n \in 0..MaxOnline : published' = [published EXCEPT ![h] = n] BY <2>2 DEF Publish, PublishServiceOnline
    <3> QED BY <2>1, <3>1
  <2>3. ASSUME NEW h \in Gates, GateShutdown(h) PROVE DOMAIN published' = Gates /\ \A k \in Gates : published'[k] \in Nat \cup {None}
    <3>1. published' = published \/ published' = [published EXCEPT ![h] = None] BY <2>3 DEF GateShutdown, DeleteServiceOnline
    <3> QED BY <2>1, <3>1
  <2>4. CASE PublishedExpires BY <2>4 DEF PublishedExpires
  <2> QED BY <2>2, <2>3, <2>4
<1>3. SlotShape' /\ Counting' = Counting BY <1>1 DEF BookInv, SlotShape, Counting
<1>4. \A h \in Gates : Counts(h)' /\ Ceiling(h)' = Ceiling(h) BY <1>1, <1>2 DEF BookInv, Counts, Ceiling
<1> QED BY <1>1, <1>2, <1>3, <1>4 DEF BookInv

\* A refresh takes the published count for the base of the bound as well.
LEMMA RefreshBook == ASSUME BookInv, RefreshOnline PROVE BookInv'
<1> DEFINE counts == LoadServiceOnlineCounts
<1>1. DOMAIN counts \subseteq Gates /\ \A h \in DOMAIN counts : counts[h] = published[h] /\ published[h] # None
  BY DEF LoadServiceOnlineCounts, Discovered
<1>2. seen' = Overwrite(seen, counts) /\ base' = Overwrite(base, counts) /\ UNCHANGED <<slot, published>>
  BY DEF RefreshOnline
<1> HIDE DEF counts
<1>3. /\ DOMAIN seen' = Gates /\ DOMAIN base' = Gates
      /\ \A h \in Gates : IF h \in DOMAIN counts THEN seen'[h] = published[h] /\ base'[h] = published[h] /\ published[h] \in Nat
                          ELSE seen'[h] = seen[h] /\ base'[h] = base[h]
  BY <1>1, <1>2 DEF BookInv, Counts, Overwrite
<1>4. SlotShape' /\ Counting' = Counting BY <1>2 DEF BookInv, SlotShape, Counting
<1>5. \A h \in Gates : Counts(h)' BY <1>2, <1>3 DEF BookInv, Counts
<1>6. ASSUME NEW h \in Gates, Gates = {h} PROVE seen'[h] + Cardinality(Counting) <= Ceiling(h)'
  <2>1. seen[h] + Cardinality(Counting) <= Ceiling(h) /\ seen[h] \in Nat /\ base[h] \in Nat BY <1>6 DEF BookInv, Counts
  <2>2. CASE h \in DOMAIN counts BY <1>3, <2>2, CountingBound DEF Ceiling
  <2>3. CASE h \notin DOMAIN counts BY <1>3, <2>1, <2>3 DEF Ceiling
  <2> QED BY <2>2, <2>3
<1> QED BY <1>2, <1>3, <1>4, <1>5, <1>6 DEF BookInv

\* Every step keeps the bound.
LEMMA BookNext == ASSUME BookInv, [Next]_vars PROVE BookInv'
<1>1. ASSUME NEW s \in Slots,
             \/ \E a \in Accounts : Login(s, a)
             \/ LoadAccount(s) \/ SaveAccount(s) \/ SaveAccountFails(s) \/ Unlock(s)
             \/ SetToken(s) \/ SetTokenFails(s)
             \/ EnqueueLogin(s) \/ EnqueueFails(s) \/ Limited(s) \/ NoGate(s)
             \/ LeaveLoginQueue(s) \/ Cancel(s)
      PROVE  BookInv'
  BY <1>1, SlotBook
<1>2. ASSUME NEW s \in Slots, PickGate(s) \/ \E g \in Gids : UseRole(s, g) PROVE BookInv'
  BY <1>2, PickBook, UseBook
<1>3. CASE (\E h \in Gates : Publish(h) \/ GateShutdown(h)) \/ PublishedExpires BY <1>3, GateBook
<1>4. CASE RefreshOnline BY <1>4, RefreshBook
<1>5. CASE Tick \/ UNCHANGED vars \/ \E a \in Accounts : LockExpires(a)
  <2>1. UNCHANGED <<slot, published, seen, base>> BY <1>5 DEF Tick, LockExpires, vars, gateVars
  <2>2. SlotShape' /\ Counting' = Counting BY <2>1 DEF BookInv, SlotShape, Counting
  <2> QED BY <2>1, <2>2, BookAway
<1> QED BY <1>1, <1>2, <1>3, <1>4, <1>5 DEF Next

\* For any capacity, any number of permits and any counts the Gate publishes: Auth books its
\* only Gate beyond its capacity, or beyond what the Gate itself published, by no more than
\* its permits.
THEOREM BookingsBounded == Spec => []BookingBound
<1>1. Init => BookInv
  <2> SUFFICES ASSUME Init PROVE BookInv OBVIOUS
  <2>1. SlotShape /\ DOMAIN seen = Gates /\ DOMAIN base = Gates /\ DOMAIN published = Gates
    BY DEF Init, SlotShape, Fields, Idle
  <2>2. \A h \in Gates : Counts(h) /\ seen[h] = 0 /\ base[h] = 0 BY DEF Init, Counts
  <2>3. \A h \in Gates : seen[h] + Cardinality(Counting) <= Ceiling(h) BY <2>2, CountingBound DEF Ceiling
  <2> QED BY <2>1, <2>2, <2>3 DEF BookInv
<1>2. BookInv /\ [Next]_vars => BookInv' BY BookNext
<1>3. BookInv => BookingBound BY CountingBound DEF BookInv, BookingBound, Counts, Ceiling
<1> QED BY <1>1, <1>2, <1>3, PTL DEF Spec
=============================================================================
