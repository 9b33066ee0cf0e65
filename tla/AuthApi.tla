------------------------------- MODULE AuthApi -------------------------------
(* Auth (service/auth/src/api.rs): login creates an account under a Redis lock *)
(* and issues a token; use_role passes a player through the login queue       *)
(* (cache/src/login_queue.rs) to a Gate with room, by the online counts that  *)
(* Gates publish (cache/src/service_online.rs) and Auth refreshes.            *)
(* A slot is a permit of the `inflight` semaphore and the request that has it. *)
(* Every handler is cut at its awaits.                                        *)
EXTENDS Integers, FiniteSets, FiniteSetsExt

CONSTANTS Accounts, Gates, Slots, None,
          PlayerCapacity,   \* GATE_PLAYER_CAPACITY
          QueueCapacity,    \* LOGIN_QUEUE_CAPACITY
          EntryTTL,         \* LOGIN_QUEUE_ENTRY_TTL
          MaxGids,          \* bound: gids that are generated
          MaxTime,          \* bound: the clock
          MaxOnline,        \* bound: players on one Gate
          Faults            \* what may go wrong, of {"mongo", "redis", "cancel", "slow"}

ASSUME AuthConfig == /\ PlayerCapacity \in Nat \ {0} /\ QueueCapacity \in Nat \ {0} /\ EntryTTL \in Nat \ {0}
                     /\ MaxGids \in Nat /\ MaxTime \in Nat /\ MaxOnline \in Nat
ASSUME NoneIsNew == None \notin Nat /\ None \notin Slots
ASSUME Permits == IsFiniteSet(Slots)

VARIABLES
    account,     \* Mongo: the gid of an account, or None
    lastGid,     \* gids handed out by xfastid
    lock,        \* Redis: the slot that locked an account
    slot,        \* the request of each permit
    queue,       \* Redis: the sorted set xkk:login_queue, gid to score
    now,         \* the clock of the Auth instance
    published,   \* Redis: the count each Gate published last, or None
    gate,        \* "up" or "down"
    seen,        \* Auth's count of each discovered Gate
    told,        \* the gids that successful logins of an account returned, with their token
    \* History, for the properties only:
    place,       \* per gid, its score when it was first told to wait, or None
    base         \* the count of each Gate at its last refresh

vars == <<account, lastGid, lock, slot, queue, now, published, gate, seen, told, place, base>>
loginVars == <<account, lastGid, lock, told>>
queueVars == <<queue, place>>
gateVars == <<now, published, gate, seen, base>>

Gids == 1..MaxGids
Idle == [pc |-> "idle", account |-> None, gid |-> None, avail |-> 0, time |-> 0]
Total == Cardinality(Gates) * PlayerCapacity

TypeOK ==
    /\ account \in [Accounts -> Gids \cup {None}] /\ lastGid \in 0..MaxGids
    /\ lock \in [Accounts -> Slots \cup {None}]
    /\ told \in [Accounts -> SUBSET Gids]
    /\ slot \in [Slots -> [pc : {"idle", "load", "save", "unlock", "token", "enqueue", "full", "limit", "leave"},
                           account : Accounts \cup {None}, gid : Gids \cup {None},
                           avail : 0..Total, time : 0..MaxTime]]
    /\ DOMAIN queue \subseteq Gids /\ \A g \in DOMAIN queue : queue[g] \in 0..now
    /\ now \in 0..MaxTime /\ place \in [Gids -> 0..MaxTime \cup {None}]
    /\ published \in [Gates -> 0..MaxOnline \cup {None}]
    /\ gate \in [Gates -> {"up", "down"}]
    /\ seen \in [Gates -> Nat] /\ base \in [Gates -> 0..MaxOnline]

Init ==
    /\ account = [a \in Accounts |-> None] /\ lastGid = 0 /\ lock = [a \in Accounts |-> None]
    /\ told = [a \in Accounts |-> {}]
    /\ slot = [s \in Slots |-> Idle]
    /\ queue = [g \in {} |-> 0] /\ place = [g \in Gids |-> None] /\ now = 0
    /\ published = [h \in Gates |-> 0] /\ gate = [h \in Gates |-> "up"]
    /\ seen = [h \in Gates |-> 0] /\ base = [h \in Gates |-> 0]

At(s, pc) == slot[s].pc = pc
Goto(s, pc) == slot' = [slot EXCEPT ![s].pc = pc]
End(s) == slot' = [slot EXCEPT ![s] = Idle]

-----------------------------------------------------------------------------
(* login *)

\* try_lock finds the key free.
\* Mutant: the lock is not exclusive.
AlwaysFree(a) == a \in Accounts
LockFree(a) == lock[a] = None

\* login up to the lock.  A request that a limiter, the validation or a held
\* lock turns away changes nothing.
Login(s, a) ==
    /\ At(s, "idle") /\ LockFree(a)
    /\ lock' = [lock EXCEPT ![a] = s]
    /\ slot' = [slot EXCEPT ![s] = [Idle EXCEPT !.pc = "load", !.account = a]]
    /\ UNCHANGED <<account, lastGid, told, queueVars, gateVars>>

\* load: the account is there, or its credential differs or Mongo fails, or it is
\* created with a new gid.
LoadAccount(s) ==
    LET a == slot[s].account
    IN /\ At(s, "load")
       /\ \/ account[a] # None /\ slot' = [slot EXCEPT ![s].pc = "unlock", ![s].gid = account[a]] /\ UNCHANGED lastGid
          \/ (account[a] # None \/ "mongo" \in Faults) /\ Goto(s, "unlock") /\ UNCHANGED lastGid
          \/ /\ account[a] = None /\ lastGid < MaxGids
             /\ lastGid' = lastGid + 1
             /\ slot' = [slot EXCEPT ![s].pc = "save", ![s].gid = lastGid + 1]
       /\ UNCHANGED <<account, lock, told, queueVars, gateVars>>

SaveAccount(s) ==
    /\ At(s, "save") /\ Goto(s, "unlock")
    /\ account' = [account EXCEPT ![slot[s].account] = slot[s].gid]
    /\ UNCHANGED <<lastGid, lock, told, queueVars, gateVars>>

\* A failed save may have reached Mongo.
SaveAccountFails(s) ==
    /\ "mongo" \in Faults /\ At(s, "save")
    /\ slot' = [slot EXCEPT ![s].pc = "unlock", ![s].gid = None]
    /\ account' \in {account, [account EXCEPT ![slot[s].account] = slot[s].gid]}
    /\ UNCHANGED <<lastGid, lock, told, queueVars, gateVars>>

\* release() deletes the lock only when it is still this request's; a release
\* that fails leaves it to its TTL.
Unlock(s) ==
    LET a == slot[s].account
    IN /\ At(s, "unlock")
       /\ \/ lock' = IF lock[a] = s THEN [lock EXCEPT ![a] = None] ELSE lock
          \/ "redis" \in Faults /\ UNCHANGED lock
       /\ IF slot[s].gid = None THEN End(s) ELSE Goto(s, "token")
       /\ UNCHANGED <<account, lastGid, told, queueVars, gateVars>>

\* set_token and the answer.
SetToken(s) ==
    /\ At(s, "token") /\ End(s)
    /\ told' = [told EXCEPT ![slot[s].account] = @ \cup {slot[s].gid}]
    /\ UNCHANGED <<account, lastGid, lock, queueVars, gateVars>>

SetTokenFails(s) ==
    /\ "redis" \in Faults /\ At(s, "token") /\ End(s)
    /\ UNCHANGED <<loginVars, queueVars, gateVars>>

\* The lock's TTL runs out.  ACCOUNT_LOCK_TTL is far above the time of the two
\* Mongo calls it covers; "slow" drops that assumption.
Locked(s, a) == slot[s].account = a /\ slot[s].pc \in {"load", "save", "unlock"}
LockExpires(a) ==
    /\ lock[a] # None /\ (Locked(lock[a], a) => "slow" \in Faults)
    /\ lock' = [lock EXCEPT ![a] = None]
    /\ UNCHANGED <<account, lastGid, told, slot, queueVars, gateVars>>

-----------------------------------------------------------------------------
(* use_role *)

\* Gates that discovery offers, and the room Auth believes them to have.
Discovered == {h \in Gates : gate[h] # "down"}
\* Mutant: a Gate is full one player late.
RoomOneMore(h) == IF seen[h] <= PlayerCapacity THEN 1 + PlayerCapacity - seen[h] ELSE 0
Room(h) == IF seen[h] < PlayerCapacity THEN PlayerCapacity - seen[h] ELSE 0
Available == MapThenSumSet(Room, Discovered)

\* The token is one that login returned; the counts and the clock are read before the queue's await.
\* A client has one use_role request at a time.
UseRole(s, g) ==
    /\ At(s, "idle") /\ (\E a \in Accounts : g \in told[a]) /\ \A t \in Slots : slot[t].gid # g
    /\ slot' = [slot EXCEPT ![s] = [Idle EXCEPT !.pc = "enqueue", !.gid = g, !.avail = Available, !.time = now]]
    /\ UNCHANGED <<loginVars, queueVars, gateVars>>

\* The script of enqueue_login: drop stale entries, ZADD NX, ZRANK + 1.
Fresh(q, time) == {g \in DOMAIN q : q[g] > time - EntryTTL}
\* Mutant: ZADD without NX.
AddAgain(q, g, time) == [h \in Fresh(q, time) \cup {g} |-> IF h = g THEN time ELSE q[h]]
AddNew(q, g, time) == [h \in Fresh(q, time) \cup {g} |-> IF h \in Fresh(q, time) THEN q[h] ELSE time]
Ahead(q, g) == {h \in DOMAIN q : q[h] < q[g] \/ (q[h] = q[g] /\ h < g)}
Position(q, g) == Cardinality(Ahead(q, g)) + 1

Remove(q, g) == [h \in DOMAIN q \ {g} |-> q[h]]

\* The answer "wait": the player keeps the place it was first told of.
Expired(g) == place[g] # None /\ now >= place[g] + EntryTTL
Waits(g, q) == place' = [place EXCEPT ![g] = IF place[g] = None \/ Expired(g) THEN q[g] ELSE place[g]]
Quits(g) == place' = [place EXCEPT ![g] = None]

EnqueueLogin(s) ==
    LET g == slot[s].gid
        q == AddNew(queue, g, slot[s].time)
        pos == Position(q, g)
    IN /\ At(s, "enqueue") /\ queue' = q
       /\ \/ /\ pos > QueueCapacity
             /\ slot' = [slot EXCEPT ![s] = [Idle EXCEPT !.pc = "full", !.gid = g]] /\ UNCHANGED place
          \/ /\ pos <= QueueCapacity /\ (slot[s].avail = 0 \/ pos > slot[s].avail)
             /\ End(s) /\ Waits(g, q)
          \/ /\ pos <= QueueCapacity /\ slot[s].avail > 0 /\ pos <= slot[s].avail
             /\ slot' = [slot EXCEPT ![s] = [Idle EXCEPT !.pc = "limit", !.gid = g]] /\ UNCHANGED place
       /\ UNCHANGED <<loginVars, gateVars>>

EnqueueFails(s) ==
    /\ "redis" \in Faults /\ At(s, "enqueue") /\ End(s)
    /\ queue' \in {queue, AddNew(queue, slot[s].gid, slot[s].time)}
    /\ Quits(slot[s].gid) /\ UNCHANGED <<loginVars, gateVars>>

\* role_admission refuses for now: the player waits on; or the limiter fails.
Limited(s) ==
    /\ At(s, "limit") /\ End(s)
    /\ \/ IF slot[s].gid \in DOMAIN queue THEN Waits(slot[s].gid, queue) ELSE Quits(slot[s].gid)
       \/ "redis" \in Faults /\ Quits(slot[s].gid)
    /\ UNCHANGED <<loginVars, queue, gateVars>>

\* pick_min_online_discovered_and_increment.  A Gate's configuration has a primary
\* transport, so gate_endpoints is not empty.
PickGate(s) ==
    /\ At(s, "limit") /\ Goto(s, "leave")
    /\ \E h \in Discovered : /\ \A k \in Discovered : seen[h] <= seen[k]
                             /\ seen' = [seen EXCEPT ![h] = @ + 1]
    /\ UNCHANGED <<loginVars, queueVars, now, published, gate, base>>

NoGate(s) ==
    /\ At(s, "limit") /\ Discovered = {} /\ End(s) /\ Quits(slot[s].gid)
    /\ UNCHANGED <<loginVars, queue, gateVars>>

\* leave_login_queue of an admitted player or of one beyond the capacity; its
\* failure is only logged.
LeaveLoginQueue(s) ==
    /\ slot[s].pc \in {"leave", "full"} /\ End(s) /\ Quits(slot[s].gid)
    /\ queue' \in {Remove(queue, slot[s].gid)} \cup (IF "redis" \in Faults THEN {queue} ELSE {})
    /\ UNCHANGED <<loginVars, gateVars>>

\* The client hangs up: the handler is dropped at its await, before or after the
\* operation it awaited took effect (the latter is that operation's own action).
Cancel(s) ==
    /\ "cancel" \in Faults /\ ~At(s, "idle") /\ End(s)
    /\ IF slot[s].gid # None /\ slot[s].pc \in {"enqueue", "full", "limit", "leave"} THEN Quits(slot[s].gid) ELSE UNCHANGED place
    /\ UNCHANGED <<loginVars, queue, gateVars>>

-----------------------------------------------------------------------------
(* Online counts *)

\* Of the Gate: the task that publishes its online_count (PlayerSessions!CountsExact),
\* and the shutdown, which stops the task and then deletes the count.  The TTL is
\* one of the whole hash.
PublishServiceOnline(h, n) == published' = [published EXCEPT ![h] = n]
DeleteServiceOnline(h) ==
    published' \in {[published EXCEPT ![h] = None]} \cup (IF "redis" \in Faults THEN {published} ELSE {})

Publish(h) == /\ gate[h] = "up" /\ \E n \in 0..MaxOnline : PublishServiceOnline(h, n)
              /\ UNCHANGED <<loginVars, slot, queueVars, now, gate, seen, base>>
GateShutdown(h) == /\ gate[h] = "up" /\ gate' = [gate EXCEPT ![h] = "down"]
                   /\ DeleteServiceOnline(h)
                   /\ UNCHANGED <<loginVars, slot, queueVars, now, seen, base>>
PublishedExpires == /\ published' = [h \in Gates |-> None] /\ \A h \in Gates : gate[h] # "up" \/ "redis" \in Faults
                    /\ UNCHANGED <<loginVars, slot, queueVars, now, gate, seen, base>>

\* Of Auth: refresh_service_online overwrites its counts of the discovered Gates
\* with those it finds.
LoadServiceOnlineCounts == [h \in {k \in Discovered : published[k] # None} |-> published[h]]
Overwrite(old, counts) == [h \in Gates |-> IF h \in DOMAIN counts THEN counts[h] ELSE old[h]]
RefreshOnline ==
    LET counts == LoadServiceOnlineCounts
    IN /\ seen' = Overwrite(seen, counts) /\ base' = Overwrite(base, counts)
       /\ UNCHANGED <<loginVars, slot, queueVars, now, published, gate>>

Tick == /\ now < MaxTime /\ now' = now + 1
        /\ UNCHANGED <<loginVars, slot, queueVars, published, gate, seen, base>>

-----------------------------------------------------------------------------
Next ==
    \/ \E a \in Accounts : LockExpires(a) \/ \E s \in Slots : Login(s, a)
    \/ \E s \in Slots : \/ LoadAccount(s) \/ SaveAccount(s) \/ SaveAccountFails(s) \/ Unlock(s)
                        \/ SetToken(s) \/ SetTokenFails(s)
                        \/ EnqueueLogin(s) \/ EnqueueFails(s) \/ Limited(s) \/ PickGate(s) \/ NoGate(s)
                        \/ LeaveLoginQueue(s) \/ Cancel(s)
                        \/ \E g \in Gids : UseRole(s, g)
    \/ \E h \in Gates : Publish(h) \/ GateShutdown(h)
    \/ PublishedExpires \/ RefreshOnline \/ Tick

Spec == Init /\ [][Next]_vars

-----------------------------------------------------------------------------
(* Properties *)

\* An account has one player: all successful logins return the same gid, the one
\* in Mongo, whatever the order of logins, failed saves and abandoned locks.
OneRole == \A a \in Accounts : told[a] = {} \/ told[a] = {account[a]}

\* Auth overbooks its only Gate by no more than the requests that were under way:
\* those that read the room before others took it.  (Of several Gates one can be
\* overbooked by more: when another one shuts down or fills, the requests that
\* counted on its room all go to the Gates that are left.)
BookingBound ==
    \A h \in Gates : Gates = {h} =>
        seen[h] <= Cardinality(Slots) + IF base[h] > PlayerCapacity - 1 THEN base[h] ELSE PlayerCapacity - 1

\* A player who was told to wait keeps its place, the score of its first
\* request, until the entry's TTL has passed, whatever the other requests do.
PlaceKept ==
    \A g \in Gids : /\ place[g] # None /\ ~Expired(g) /\ \A s \in Slots : slot[s].gid # g
                    => g \in DOMAIN queue /\ queue[g] = place[g]
=============================================================================
