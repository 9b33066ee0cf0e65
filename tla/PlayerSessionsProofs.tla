------------------------ MODULE PlayerSessionsProofs ------------------------
(***************************************************************************)
(* Proofs about PlayerSessions, in four parts.                             *)
(*                                                                         *)
(* Types: TypeOK without the bounds of the counts is not inductive, since  *)
(* a step reads the Gate and the Logic of the worker it moves.  Begun says *)
(* that what has begun has them, and that what names a session names one   *)
(* that began.  The effect of every action is stated once, field by field  *)
(* (the lemmas ...Fx), and all the invariants are shown from that.         *)
(*                                                                         *)
(* Tokens: a worker that holds the record holds the last token too, unless *)
(* a token was issued meanwhile (TokenCurrent).  No condition.             *)
(*                                                                         *)
(* Owner: with logins and reconnects in turn, one request is under way, it *)
(* goes to the Logic of the record, and only that Logic has a session      *)
(* (Owned, from which OneOwner).  Most steps only stand aside (Aside).     *)
(*                                                                         *)
(* Takeover: Agree relates the sessions that are live at a Gate, the       *)
(* record, what Logic knows and the counts in the middle of every handler. *)
(* A live session whose connection closed is one that disconnect or a      *)
(* draining Gate will still take off; the record names a live session, or  *)
(* one that a named handler is still to clear or replace; a count differs  *)
(* from what is live by the kick that has still to subtract.  When nothing *)
(* is under way those exceptions are empty, and what is left is OneActive, *)
(* RecordRight, ActiveKnown and CountsExact.                               *)
(***************************************************************************)
EXTENDS PlayerSessions, FiniteSetTheorems, TLAPS

-----------------------------------------------------------------------------
(* Types *)

RedisRec == [token : Nat, sess : Conns \cup {None}, gate : Gates \cup {None}, logic : Logics \cup {None}]
ConnRec == [gate : Gates \cup {None}, pc : ConnPc, reconnect : BOOLEAN, prev : Conns \cup {None},
            open : BOOLEAN, user : BOOLEAN, aborted : BOOLEAN, token : Nat,
            owner : Logics \cup {None}, logic : Logics \cup {None}]
StreamRec == [sid : Conns \cup {None}, active : BOOLEAN, logic : Logics \cup {None}]
KickRec == [pc : {"idle", "asked", "taken", "clear", "done"}, obj : Conns \cup {None}, active : BOOLEAN]
DownRec == [pc : {"up", "draining", "notify", "clear", "down"}, sid : Conns \cup {None}]

\* TypeOK by groups of variables, the counts without their bounds.
RedisTypes == redis \in RedisRec /\ issued \in Nat /\ raced \in BOOLEAN
ConnTypes == conn \in [Conns -> ConnRec]
GateTypes == table \in [Gates -> Conns \cup {None}] /\ stream \in [Conns -> StreamRec] /\ count \in [Gates -> Nat]
LeaveTypes ==
    /\ leaving \in [Conns -> {"no", "take", "notify", "clear", "done"}]
    /\ kick \in [Conns -> [Kickers -> KickRec]]
    /\ down \in [Gates -> DownRec]
LogicTypes ==
    /\ ask \in [Conns -> {"none", "sent", "kick", "owner", "undo", "ok", "err"}]
    /\ ntf \subseteq Conns
    /\ lsess \in [Logics -> Conns \cup {None}] /\ lbusy \in [Logics -> Conns \cup {None}]
    /\ lcount \in [Logics -> Nat]

\* Phases of a worker that has chosen a Logic.
Routed == {"rpc", "checked", "save", "on", "kicking", "invalidate", "outNotify", "outClear"}

\* What has begun has the Gate and the Logic that its further steps use.
BegunConn ==
    /\ \A c \in Conns : conn[c].pc # "none" => conn[c].gate \in Gates
    /\ \A c \in Conns : conn[c].pc \in Routed \/ conn[c].user => ask[c] # "none"
    /\ \A c \in Conns : ask[c] # "none" => conn[c].logic \in Logics /\ conn[c].pc \notin {"none", "loaded"}
    /\ \A c \in Conns : conn[c].pc = "none" => ~conn[c].reconnect /\ ~conn[c].open /\ ~conn[c].aborted
BegunAsk == \A c \in Conns : ask[c] = "kick" => lbusy[conn[c].logic] = c /\ lsess[conn[c].logic] # None
BegunLeave == \A c \in Conns : /\ leaving[c] # "no" => conn[c].pc # "none"
                               /\ leaving[c] \in {"notify", "clear"} => ask[c] # "none"
BegunKick == \A c \in Conns, who \in Kickers : kick[c][who].pc # "idle" => conn[c].pc # "none"
BegunNtf == \A c \in ntf : ask[c] # "none"
BegunLogic == \A l \in Logics : lsess[l] # None => ask[lsess[l]] # "none"
BegunStream == \A o \in Conns : stream[o].sid # None =>
                   /\ stream[o].logic \in Logics /\ ask[stream[o].sid] # "none"
                   /\ conn[o].pc # "none" /\ conn[stream[o].sid].gate = conn[o].gate
BegunTable == \A g \in Gates : table[g] # None => stream[table[g]].sid # None /\ conn[table[g]].gate = g
BegunDown == \A g \in Gates : down[g].pc \in {"notify", "clear"} => down[g].sid # None /\ ask[down[g].sid] # "none"

Begun == /\ BegunConn /\ BegunAsk /\ BegunLeave /\ BegunKick /\ BegunNtf /\ BegunLogic /\ BegunStream /\ BegunTable
         /\ BegunDown

Types == RedisTypes /\ ConnTypes /\ GateTypes /\ LeaveTypes /\ LogicTypes /\ Begun

-----------------------------------------------------------------------------
(* What the updates of the actions do, field by field *)

\* The fields that stay as they are once the worker has chosen its Logic.
Keeps(c) == /\ conn'[c].gate = conn[c].gate /\ conn'[c].reconnect = conn[c].reconnect /\ conn'[c].prev = conn[c].prev
            /\ conn'[c].token = conn[c].token /\ conn'[c].owner = conn[c].owner /\ conn'[c].logic = conn[c].logic
Others(c) == \A d \in Conns : d # c => conn'[d] = conn[d]

\* The worker of c goes to p.
Moves(c, p) == /\ ConnTypes' /\ Others(c) /\ Keeps(c) /\ conn'[c].pc = p /\ conn'[c].open = conn[c].open
               /\ conn'[c].user = conn[c].user /\ conn'[c].aborted = conn[c].aborted

\* The connection c closes.
Closes(c) == /\ ConnTypes' /\ Others(c) /\ Keeps(c) /\ conn'[c].pc = conn[c].pc /\ conn'[c].open = FALSE
             /\ conn'[c].user = conn[c].user /\ conn'[c].aborted = conn[c].aborted

\* The worker of c closes its connection and ends.
Ends(c) == /\ ConnTypes' /\ Others(c) /\ Keeps(c) /\ conn'[c].pc = "end" /\ conn'[c].open = FALSE
           /\ conn'[c].user = conn[c].user /\ conn'[c].aborted = conn[c].aborted

\* An assignment of the phase.
LEMMA SetPc == ASSUME ConnTypes, NEW c \in Conns, NEW p \in ConnPc, conn' = [conn EXCEPT ![c].pc = p]
               PROVE  Moves(c, p)
<1>1. ConnTypes' BY DEF ConnTypes, ConnRec
<1> QED BY <1>1 DEF Moves, Others, Keeps, ConnTypes, ConnRec

\* A close.
LEMMA SetClosed == ASSUME ConnTypes, NEW c \in Conns, conn' = [conn EXCEPT ![c].open = FALSE] PROVE Closes(c)
<1>1. [conn[c] EXCEPT !.open = FALSE] \in ConnRec BY DEF ConnTypes, ConnRec
<1>2. conn' = [conn EXCEPT ![c] = [conn[c] EXCEPT !.open = FALSE]] BY DEF ConnTypes
<1>3. ConnTypes' BY <1>1, <1>2 DEF ConnTypes
<1> QED BY <1>3, <1>2 DEF Closes, Others, Keeps, ConnTypes, ConnRec

\* A rejection.
LEMMA SetRejected == ASSUME ConnTypes, NEW c \in Conns, conn' = [conn EXCEPT ![c] = Rejected(conn[c])] PROVE Ends(c)
<1>1. PICK r : r = Rejected(conn[c]) OBVIOUS
<1>2. conn[c] \in ConnRec BY DEF ConnTypes
<1>3. /\ r \in ConnRec /\ r.pc = "end" /\ r.open = FALSE /\ r.user = conn[c].user /\ r.aborted = conn[c].aborted
      /\ r.gate = conn[c].gate /\ r.reconnect = conn[c].reconnect /\ r.prev = conn[c].prev
      /\ r.token = conn[c].token /\ r.owner = conn[c].owner /\ r.logic = conn[c].logic
  BY ONLY <1>1, <1>2 DEF Rejected, ConnRec, ConnPc
<1>4. ConnTypes' /\ conn'[c] = r /\ Others(c) BY <1>1, <1>3 DEF ConnTypes, Others
<1> QED BY <1>3, <1>4 DEF Ends, Keeps

\* The Logic that a resumed session is on.
LEMMA SetRoute == ASSUME ConnTypes, NEW c \in Conns, NEW l \in Logics, conn' = [conn EXCEPT ![c].pc = "rpc", ![c].logic = l]
                  PROVE  ConnTypes' /\ Others(c)
<1>1. [conn[c] EXCEPT !.pc = "rpc", !.logic = l] \in ConnRec BY ZenonT(60) DEF ConnTypes, ConnRec, ConnPc
<1>2. conn' = [conn EXCEPT ![c] = [conn[c] EXCEPT !.pc = "rpc", !.logic = l]] BY DEF ConnTypes
<1>3. ConnTypes' BY <1>1, <1>2 DEF ConnTypes
<1> QED BY <1>3, <1>2 DEF Others, ConnTypes

\* A user is bound.
LEMMA SetUser == ASSUME ConnTypes, NEW c \in Conns, NEW p \in ConnPc,
                        conn' = [conn EXCEPT ![c] = [conn[c] EXCEPT !.user = TRUE, !.pc = p]]
                 PROVE  ConnTypes'
<1>1. [conn[c] EXCEPT !.user = TRUE, !.pc = p] \in ConnRec BY DEF ConnTypes, ConnRec
<1> QED BY <1>1 DEF ConnTypes

\* The record, when only the session and Gate may have been cleared.
Cleared(sid) == /\ RedisTypes' /\ issued' = issued /\ raced' = raced
                /\ redis'.token = redis.token /\ redis'.logic = redis.logic
                /\ \/ redis.sess = sid /\ redis'.sess = None /\ redis'.gate = None
                   \/ redis' = redis /\ (redis.sess # sid \/ May("redis"))

\* clear_gate_by_session.
LEMMA ClearFx == ASSUME RedisTypes, NEW sid \in Conns, Clear(sid), issued' = issued, raced' = raced PROVE Cleared(sid)
<1>1. \/ redis' = [redis EXCEPT !.sess = None, !.gate = None] /\ redis.sess = sid
      \/ redis' = redis /\ (redis.sess # sid \/ May("redis"))
  BY DEF Clear, ClearGateBySession
<1>2. redis' \in RedisRec BY <1>1 DEF RedisTypes, RedisRec
<1>3. RedisTypes' BY <1>2 DEF RedisTypes
<1> QED BY <1>1, <1>3 DEF Cleared, RedisTypes, RedisRec

\* An object of the table of a Gate goes offline.
Offline(o) == /\ stream' \in [Conns -> StreamRec] /\ stream'[o].active = FALSE
              /\ stream'[o].sid = stream[o].sid /\ stream'[o].logic = stream[o].logic
              /\ \A p \in Conns : p # o => stream'[p] = stream[p]

\* An assignment of active.
LEMMA SetOffline == ASSUME stream \in [Conns -> StreamRec], NEW o \in Conns, stream' = [stream EXCEPT ![o].active = FALSE]
                    PROVE  Offline(o)
BY DEF Offline, StreamRec

\* A step of a kick that leaves the object it took alone.
KickMoves(c, who, p) == /\ kick' \in [Conns -> [Kickers -> KickRec]]
                        /\ kick'[c][who].pc = p /\ kick'[c][who].obj = kick[c][who].obj /\ kick'[c][who].active = kick[c][who].active
                        /\ \A d \in Conns, w \in Kickers : <<d, w>> # <<c, who>> => kick'[d][w] = kick[d][w]

\* An assignment of the phase of a kick.
LEMMA SetKick == ASSUME kick \in [Conns -> [Kickers -> KickRec]], NEW c \in Conns, NEW who \in Kickers,
                        NEW p \in {"idle", "asked", "taken", "clear", "done"}, kick' = [kick EXCEPT ![c][who].pc = p]
                 PROVE  KickMoves(c, who, p)
<1>1. /\ kick'[c] = [kick[c] EXCEPT ![who].pc = p] /\ kick[c] \in [Kickers -> KickRec]
      /\ \A d \in Conns : d # c => kick'[d] = kick[d]
  OBVIOUS
<1>2. /\ kick'[c][who] = [kick[c][who] EXCEPT !.pc = p] /\ kick[c][who] \in KickRec
      /\ \A w \in Kickers : w # who => kick'[c][w] = kick[c][w]
      /\ kick'[c] = [w \in Kickers |-> kick'[c][w]]
  BY <1>1
<1>4. kick'[c][who] \in KickRec /\ kick'[c][who].pc = p BY <1>2 DEF KickRec
<1>5. kick'[c][who].obj = kick[c][who].obj /\ kick'[c][who].active = kick[c][who].active BY <1>2 DEF KickRec
<1>6. kick'[c] \in [Kickers -> KickRec] BY <1>1, <1>2, <1>4
<1>3. kick' \in [Conns -> [Kickers -> KickRec]] BY <1>1, <1>6
<1> QED BY <1>1, <1>2, <1>3, <1>4, <1>5 DEF KickMoves

\* An assignment of a kick as a whole.
LEMMA PutKick == ASSUME kick \in [Conns -> [Kickers -> KickRec]], NEW c \in Conns, NEW who \in Kickers,
                        NEW r \in KickRec, kick' = [kick EXCEPT ![c][who] = r]
                 PROVE  /\ kick' \in [Conns -> [Kickers -> KickRec]] /\ kick'[c][who] = r
                        /\ \A d \in Conns, w \in Kickers : <<d, w>> # <<c, who>> => kick'[d][w] = kick[d][w]
<1>1. /\ kick'[c] = [kick[c] EXCEPT ![who] = r] /\ kick[c] \in [Kickers -> KickRec]
      /\ \A d \in Conns : d # c => kick'[d] = kick[d]
  OBVIOUS
<1>2. kick'[c] \in [Kickers -> KickRec] /\ kick'[c][who] = r /\ \A w \in Kickers : w # who => kick'[c][w] = kick[c][w]
  BY <1>1
<1>3. kick' \in [Conns -> [Kickers -> KickRec]] BY <1>1, <1>2
<1> QED BY <1>1, <1>2, <1>3

\* Auth issues a token.
LEMMA SetTokenFx == ASSUME Types, SetToken
                    PROVE  /\ RedisTypes' /\ issued' = issued + 1 /\ (raced' \/ \A c \in Conns : ~HoldsRecord(c))
                           /\ redis'.token = issued' /\ redis'.sess = redis.sess /\ redis'.gate = redis.gate
                           /\ redis'.logic = redis.logic
                           /\ UNCHANGED <<conn, table, stream, count, leaving, kick, down, ask, lsess, lbusy, lcount, ntf>>
<1>1. raced' \in BOOLEAN /\ (raced' \/ \A c \in Conns : ~HoldsRecord(c)) BY Zenon DEF SetToken
<1>2. redis' = [redis EXCEPT !.token = issued + 1] /\ issued' = issued + 1 /\ issued \in Nat /\ redis \in RedisRec
  BY DEF SetToken, Types, RedisTypes
<1>3. redis' \in RedisRec /\ issued' \in Nat BY <1>2 DEF RedisRec
<1>4. UNCHANGED <<conn, table, stream, count, leaving, kick, down, ask, lsess, lbusy, lcount, ntf>>
  BY DEF SetToken, gateVars, logicVars
<1> QED BY <1>1, <1>2, <1>3, <1>4 DEF RedisTypes, RedisRec

\* prune_expired forgets an offline session.
LEMMA PruneFx == ASSUME Types, NEW g \in Gates, PruneExpired(g)
                 PROVE  /\ table \in [Gates -> Conns \cup {None}] /\ table' \in [Gates -> Conns \cup {None}]
                        /\ table[g] # None /\ ~Active(g) /\ table'[g] = None
                        /\ \A h \in Gates : h # g => table'[h] = table[h]
                        /\ UNCHANGED <<redis, issued, raced, conn, stream, count, leaving, kick, down, ask, lsess, lbusy, lcount, ntf>>
BY DEF PruneExpired, Types, GateTypes, logicVars

\* The shutdown of a Gate closes its connections.
LEMMA BeginShutdownFx == ASSUME Types, NEW g \in Gates, BeginShutdown(g)
                         PROVE  /\ g \in MayStop /\ down[g].pc = "up" /\ down'[g].pc = "draining" /\ down'[g].sid = down[g].sid
                                /\ down' \in [Gates -> DownRec] /\ \A h \in Gates : h # g => down'[h] = down[h]
                                /\ ConnTypes'
                                /\ \A c \in Conns : /\ conn[c].gate # g => conn'[c] = conn[c]
                                                    /\ conn[c].gate = g => conn'[c].open = FALSE
                                                    /\ Keeps(c) /\ conn'[c].pc = conn[c].pc /\ conn'[c].user = conn[c].user
                                                    /\ conn'[c].aborted = conn[c].aborted
                                /\ UNCHANGED <<redis, issued, raced, table, stream, count, leaving, kick, ask, lsess, lbusy, lcount, ntf>>
<1>1. down' = [down EXCEPT ![g].pc = "draining"] /\ down \in [Gates -> DownRec] /\ g \in MayStop /\ down[g].pc = "up"
  BY DEF BeginShutdown, Types, LeaveTypes
<1>2. /\ down'[g].pc = "draining" /\ down'[g].sid = down[g].sid
      /\ down' \in [Gates -> DownRec] /\ \A h \in Gates : h # g => down'[h] = down[h]
  BY <1>1 DEF DownRec
<1>3. conn' = [c \in Conns |-> IF conn[c].gate = g THEN [conn[c] EXCEPT !.open = FALSE] ELSE conn[c]] /\ conn \in [Conns -> ConnRec]
  BY DEF BeginShutdown, Here, Types, ConnTypes
<1>4. ASSUME NEW c \in Conns
      PROVE  /\ conn'[c] \in ConnRec
             /\ conn[c].gate # g => conn'[c] = conn[c]
             /\ conn[c].gate = g => conn'[c].open = FALSE
             /\ Keeps(c) /\ conn'[c].pc = conn[c].pc /\ conn'[c].user = conn[c].user
             /\ conn'[c].aborted = conn[c].aborted
  <2>1. conn[c] \in ConnRec BY <1>3
  <2>2. conn'[c] = IF conn[c].gate = g THEN [conn[c] EXCEPT !.open = FALSE] ELSE conn[c] BY <1>3
  <2> QED BY <2>1, <2>2 DEF Keeps, ConnRec
<1>5. ConnTypes'
  <2>1. conn' = [c \in Conns |-> conn'[c]] BY <1>3
  <2> QED BY <2>1, <1>4 DEF ConnTypes
<1>6. UNCHANGED <<redis, issued, raced, table, stream, count, leaving, kick, ask, lsess, lbusy, lcount, ntf>>
  BY DEF BeginShutdown, gateVars, logicVars
<1> QED BY <1>1, <1>2, <1>4, <1>5, <1>6

\* The drain of the table.
LEMMA ShutdownDrainFx == ASSUME Types, NEW g \in Gates, ShutdownDrain(g)
                         PROVE  /\ down[g].pc = "draining" /\ WorkersEnded(g)
                                /\ GateTypes' /\ table'[g] = None /\ \A h \in Gates : h # g => table'[h] = table[h]
                                /\ \A h \in Gates : h # g => count'[h] = count[h]
                                /\ down' \in [Gates -> DownRec] /\ \A h \in Gates : h # g => down'[h] = down[h]
                                /\ table[g] = None => down'[g].pc = "down" /\ stream' = stream
                                /\ table[g] # None => down'[g].pc = "notify" /\ down'[g].sid = stream[table[g]].sid /\ Offline(table[g])
                                /\ UNCHANGED <<redis, issued, raced, conn, leaving, kick, ask, lsess, lbusy, lcount, ntf>>
<1>1. /\ down[g].pc = "draining" /\ WorkersEnded(g)
      /\ down' = [down EXCEPT ![g] = IF table[g] = None THEN [pc |-> "down", sid |-> None]
                                   ELSE [pc |-> "notify", sid |-> stream[table[g]].sid]]
      /\ stream' = IF table[g] = None THEN stream ELSE [stream EXCEPT ![table[g]].active = FALSE]
      /\ table' = [table EXCEPT ![g] = None]
      /\ count' = [count EXCEPT ![g] = 0]
      /\ UNCHANGED <<redis, issued, raced, conn, leaving, kick, ask, lsess, lbusy, lcount, ntf>>
  BY DEF ShutdownDrain, logicVars
<1>2. /\ table \in [Gates -> Conns \cup {None}] /\ stream \in [Conns -> StreamRec] /\ count \in [Gates -> Nat]
      /\ down \in [Gates -> DownRec]
  BY DEF Types, GateTypes, LeaveTypes
<1>3. /\ table' \in [Gates -> Conns \cup {None}] /\ table'[g] = None /\ \A h \in Gates : h # g => table'[h] = table[h]
      /\ count' \in [Gates -> Nat] /\ \A h \in Gates : h # g => count'[h] = count[h]
  BY <1>1, <1>2
<1>4. table[g] # None => Offline(table[g]) BY <1>1, <1>2, SetOffline
<1>5. stream' \in [Conns -> StreamRec] BY <1>1, <1>2, <1>4 DEF Offline
<1>6. table[g] # None => stream[table[g]].sid \in Conns \cup {None} BY <1>2 DEF StreamRec
<1>7. /\ down' \in [Gates -> DownRec] /\ \A h \in Gates : h # g => down'[h] = down[h]
      /\ table[g] = None => down'[g].pc = "down"
      /\ table[g] # None => down'[g].pc = "notify" /\ down'[g].sid = stream[table[g]].sid
  BY <1>1, <1>2, <1>6 DEF DownRec
<1> QED BY <1>1, <1>3, <1>4, <1>5, <1>7 DEF GateTypes

\* A step of a shutdown that only advances it.
DownMoves(g, p) == /\ down' \in [Gates -> DownRec] /\ down'[g].pc = p /\ down'[g].sid = down[g].sid
                   /\ \A h \in Gates : h # g => down'[h] = down[h]

\* LogicDisconnectNtf of the drained session.
LEMMA ShutdownNotifyFx == ASSUME Types, NEW g \in Gates, ShutdownNotify(g)
                          PROVE  /\ down[g].pc = "notify" /\ DownMoves(g, "clear")
                                 /\ ntf' = ntf \cup {down[g].sid} \/ (May("notify") /\ ntf' = ntf)
                                 /\ UNCHANGED <<redis, issued, raced, conn, table, stream, count, leaving, kick, ask, lsess, lbusy, lcount>>
BY DEF ShutdownNotify, Notify, Types, LeaveTypes, DownRec, DownMoves, gateVars, logicVars

\* The record of the drained session.
LEMMA ShutdownClearFx == ASSUME Types, NEW g \in Gates, ShutdownClear(g)
                         PROVE  /\ down[g].pc = "clear" /\ DownMoves(g, "down") /\ down[g].sid \in Conns /\ Cleared(down[g].sid)
                                /\ UNCHANGED <<conn, table, stream, count, leaving, kick, ask, lsess, lbusy, lcount, ntf>>
<1>1. /\ down[g].pc = "clear" /\ DownMoves(g, "down") /\ Clear(down[g].sid) /\ issued' = issued /\ raced' = raced
      /\ UNCHANGED <<conn, table, stream, count, leaving, kick, ask, lsess, lbusy, lcount, ntf>>
  BY DEF ShutdownClear, Types, LeaveTypes, DownRec, DownMoves, gateVars, logicVars
<1>2. down[g].sid \in Conns BY <1>1 DEF Types, LeaveTypes, DownRec, Begun, BegunDown
<1>3. RedisTypes BY DEF Types
<1> QED BY <1>1, <1>2, <1>3, ClearFx

\* authorize_reconnect: the request goes to the Logic of the session that is resumed.
LEMMA AuthorizeFx == ASSUME Types, NEW c \in Conns, AuthorizeReconnect(c)
                     PROVE  /\ conn[c].pc = "loaded" /\ conn[c].gate \in Gates /\ ConnTypes' /\ LogicTypes' /\ Others(c)
                            /\ \/ /\ Holds(conn[c].gate, conn[c].prev) /\ table[conn[c].gate] \in Conns
                                  /\ conn[c].owner = stream[table[conn[c].gate]].logic /\ conn[c].owner \in Logics
                                  /\ conn'[c].pc = "rpc" /\ conn'[c].logic = conn[c].owner
                                  /\ conn'[c].gate = conn[c].gate /\ conn'[c].reconnect = conn[c].reconnect
                                  /\ conn'[c].prev = conn[c].prev /\ conn'[c].token = conn[c].token
                                  /\ conn'[c].owner = conn[c].owner /\ conn'[c].open = conn[c].open
                                  /\ conn'[c].user = conn[c].user /\ conn'[c].aborted = conn[c].aborted
                                  /\ ask'[c] = "sent" /\ \A d \in Conns : d # c => ask'[d] = ask[d]
                               \/ Ends(c) /\ ask' = ask
                            /\ UNCHANGED <<redis, issued, raced, table, stream, count, leaving, kick, down, lsess, lbusy, lcount, ntf>>
<1> DEFINE g == conn[c].gate
           l == stream[table[g]].logic
<1>1. /\ conn[c].pc = "loaded"
      /\ \/ /\ Holds(g, conn[c].prev) /\ conn[c].owner = l
            /\ conn' = [conn EXCEPT ![c].pc = "rpc", ![c].logic = l]
            /\ ask' = [ask EXCEPT ![c] = "sent"]
         \/ conn' = [conn EXCEPT ![c] = Rejected(conn[c])] /\ ask' = ask
      /\ UNCHANGED <<redis, issued, raced, table, stream, count, leaving, kick, down, lsess, lbusy, lcount, ntf>>
  BY DEF AuthorizeReconnect, gateVars
<1>2. ConnTypes /\ g \in Gates BY <1>1 DEF Types, Begun, BegunConn
<1>3. CASE conn' = [conn EXCEPT ![c] = Rejected(conn[c])] /\ ask' = ask
  <2>1. Ends(c) BY <1>2, <1>3, SetRejected
  <2>2. LogicTypes' BY <1>1, <1>3 DEF Types, LogicTypes
  <2> QED BY <1>1, <1>2, <1>3, <2>1, <2>2 DEF Ends
<1>4. CASE /\ Holds(g, conn[c].prev) /\ conn[c].owner = l
           /\ conn' = [conn EXCEPT ![c].pc = "rpc", ![c].logic = l]
           /\ ask' = [ask EXCEPT ![c] = "sent"]
  <2>1. table[g] \in Conns /\ l \in Logics
    BY <1>2, <1>4 DEF Holds, Types, GateTypes, Begun, BegunConn, BegunTable, BegunStream
  <2>2. ConnTypes' /\ Others(c) BY ONLY <1>2, <1>4, <2>1, SetRoute, c \in Conns
  <2>3. /\ conn'[c].pc = "rpc" /\ conn'[c].logic = conn[c].owner
        /\ conn'[c].gate = conn[c].gate /\ conn'[c].reconnect = conn[c].reconnect
        /\ conn'[c].prev = conn[c].prev /\ conn'[c].token = conn[c].token
        /\ conn'[c].owner = conn[c].owner /\ conn'[c].open = conn[c].open
        /\ conn'[c].user = conn[c].user /\ conn'[c].aborted = conn[c].aborted
    BY <1>2, <1>4 DEF ConnTypes, ConnRec
  <2>4. LogicTypes' /\ ask'[c] = "sent" /\ \A d \in Conns : d # c => ask'[d] = ask[d]
    BY <1>1, <1>4 DEF Types, LogicTypes
  <2> QED BY <1>1, <1>2, <1>4, <2>1, <2>2, <2>3, <2>4
<1> QED BY <1>1, <1>3, <1>4

\* The answer of Logic.
LEMMA AnswersFx == ASSUME Types, NEW c \in Conns, LogicAnswers(c)
                   PROVE  /\ conn[c].pc = "rpc" /\ conn[c].gate \in Gates
                          /\ \/ /\ ask[c] = "ok" /\ ConnTypes' /\ Others(c) /\ Keeps(c) /\ conn'[c].user = TRUE
                                /\ conn'[c].open = conn[c].open /\ conn'[c].aborted = conn[c].aborted
                                /\ conn[c].open => conn'[c].pc = "checked"
                                /\ ~conn[c].open => conn'[c].pc = "end"
                             \/ (ask[c] = "err" \/ May("rpc")) /\ Ends(c)
                          /\ UNCHANGED <<redis, issued, raced, table, stream, count, leaving, kick, down, ask, lsess, lbusy, lcount, ntf>>
<1>1. /\ conn[c].pc = "rpc"
      /\ UNCHANGED <<redis, issued, raced, table, stream, count, leaving, kick, down, ask, lsess, lbusy, lcount, ntf>>
  BY DEF LogicAnswers, gateVars, logicVars
<1>2. conn \in [Conns -> ConnRec] /\ conn[c].gate \in Gates BY <1>1 DEF Types, Begun, BegunConn, ConnTypes
<1>3. CASE (ask[c] = "err" \/ May("rpc")) /\ conn' = [conn EXCEPT ![c] = Rejected(conn[c])]
  <2>1. Ends(c) BY <1>2, <1>3, SetRejected DEF ConnTypes
  <2> QED BY <1>1, <1>2, <1>3, <2>1
<1>4. CASE ask[c] = "ok" /\ conn[c].open /\ conn' = [conn EXCEPT ![c] = [conn[c] EXCEPT !.user = TRUE, !.pc = "checked"]]
  <2>1. ConnTypes' BY <1>2, <1>4, SetUser DEF ConnTypes, ConnPc
  <2>2. Others(c) /\ Keeps(c) /\ conn'[c].user = TRUE /\ conn'[c].open = conn[c].open /\ conn'[c].aborted = conn[c].aborted
        /\ conn'[c].pc = "checked"
    BY <1>2, <1>4 DEF Others, Keeps, ConnRec
  <2> QED BY <1>1, <1>2, <1>4, <2>1, <2>2
<1>5. CASE ask[c] = "ok" /\ ~conn[c].open /\ conn' = [conn EXCEPT ![c] = [conn[c] EXCEPT !.user = TRUE, !.pc = "end"]]
  <2>1. ConnTypes' BY <1>2, <1>5, SetUser DEF ConnTypes, ConnPc
  <2>2. Others(c) /\ Keeps(c) /\ conn'[c].user = TRUE /\ conn'[c].open = conn[c].open /\ conn'[c].aborted = conn[c].aborted
        /\ conn'[c].pc = "end"
    BY <1>2, <1>5 DEF Others, Keeps, ConnRec
  <2> QED BY <1>1, <1>2, <1>5, <2>1, <2>2
<1> QED BY <1>3, <1>4, <1>5 DEF LogicAnswers

\* The count of a Gate after a session became active, for one that is not counted yet.
CountsUp(g) == /\ count' \in [Gates -> Nat] /\ \A h \in Gates : h # g => count'[h] = count[h]
               /\ Active(g) => count'[g] = count[g]
               /\ ~Active(g) => count'[g] = count[g] + 1

\* CountActive is as its comment says.
LEMMA CountFx == ASSUME count \in [Gates -> Nat], NEW g \in Gates, count' = CountActive(g) PROVE CountsUp(g)
<1>1. CASE Active(g) BY <1>1 DEF CountActive, CountsUp
<1>2. CASE ~Active(g) BY <1>2 DEF CountActive, CountsUp
<1> QED BY <1>1, <1>2

\* The object o now is the live session c.
Resumed(o, c) == /\ stream' \in [Conns -> StreamRec] /\ stream'[o].sid = c /\ stream'[o].active = TRUE
                 /\ \A p \in Conns : p # o => stream'[p] = stream[p]

\* install_login.
LEMMA InstallFx == ASSUME Types, NEW c \in Conns, InstallLogin(c)
                   PROVE  /\ conn[c].pc = "checked" /\ ~conn[c].reconnect /\ Moves(c, "save")
                          /\ conn[c].gate \in Gates /\ conn[c].logic \in Logics /\ GateTypes'
                          /\ table'[conn[c].gate] = c /\ \A h \in Gates : h # conn[c].gate => table'[h] = table[h]
                          /\ Resumed(c, c) /\ stream'[c].logic = conn[c].logic /\ CountsUp(conn[c].gate)
                          /\ UNCHANGED <<redis, issued, raced, leaving, kick, down, ask, lsess, lbusy, lcount, ntf>>
<1>1. /\ conn[c].pc = "checked" /\ ~conn[c].reconnect
      /\ table' = [table EXCEPT ![conn[c].gate] = c]
      /\ stream' = [stream EXCEPT ![c] = [sid |-> c, active |-> TRUE, logic |-> conn[c].logic]]
      /\ count' = CountActive(conn[c].gate)
      /\ conn' = [conn EXCEPT ![c].pc = "save"]
      /\ UNCHANGED <<redis, issued, raced, leaving, kick, down, ask, lsess, lbusy, lcount, ntf>>
  BY DEF InstallLogin, Here, logicVars
<1>2. /\ table \in [Gates -> Conns \cup {None}] /\ stream \in [Conns -> StreamRec] /\ count \in [Gates -> Nat]
      /\ ConnTypes /\ conn[c].gate \in Gates /\ conn[c].logic \in Logics
  BY <1>1 DEF Types, GateTypes, Begun, BegunConn, Routed
<1>3. Moves(c, "save") BY <1>1, <1>2, SetPc DEF ConnPc
<1>4. Resumed(c, c) /\ stream'[c].logic = conn[c].logic BY <1>1, <1>2 DEF Resumed, StreamRec
<1>5. CountsUp(conn[c].gate) BY <1>1, <1>2, CountFx
<1>6. /\ table' \in [Gates -> Conns \cup {None}] /\ table'[conn[c].gate] = c
      /\ \A h \in Gates : h # conn[c].gate => table'[h] = table[h]
  BY <1>1, <1>2
<1> QED BY <1>1, <1>2, <1>3, <1>4, <1>5, <1>6 DEF GateTypes, Resumed, CountsUp

\* complete_reconnect.
LEMMA CompleteFx == ASSUME Types, NEW c \in Conns, CompleteReconnect(c)
                    PROVE  /\ conn[c].pc = "checked" /\ conn[c].reconnect /\ conn[c].gate \in Gates /\ GateTypes' /\ table' = table
                           /\ \/ /\ Holds(conn[c].gate, conn[c].prev) /\ table[conn[c].gate] \in Conns
                                 /\ Resumed(table[conn[c].gate], c)
                                 /\ stream'[table[conn[c].gate]].logic = stream[table[conn[c].gate]].logic
                                 /\ CountsUp(conn[c].gate) /\ Moves(c, "save")
                              \/ Ends(c) /\ stream' = stream /\ count' = count
                           /\ UNCHANGED <<redis, issued, raced, leaving, kick, down, ask, lsess, lbusy, lcount, ntf>>
<1> DEFINE g == conn[c].gate
           o == table[g]
<1>1. /\ conn[c].pc = "checked" /\ conn[c].reconnect
      /\ table' = table
      /\ UNCHANGED <<redis, issued, raced, leaving, kick, down, ask, lsess, lbusy, lcount, ntf>>
  BY DEF CompleteReconnect, logicVars
<1>2. /\ table \in [Gates -> Conns \cup {None}] /\ stream \in [Conns -> StreamRec] /\ count \in [Gates -> Nat]
      /\ ConnTypes /\ g \in Gates
  BY <1>1 DEF Types, GateTypes, Begun, BegunConn
<1>3. CASE conn' = [conn EXCEPT ![c] = Rejected(conn[c])] /\ stream' = stream /\ count' = count
  <2>1. Ends(c) BY <1>2, <1>3, SetRejected
  <2> QED BY <1>1, <1>2, <1>3, <2>1 DEF GateTypes
<1>4. CASE /\ Holds(g, conn[c].prev) /\ stream' = [stream EXCEPT ![o].sid = c, ![o].active = TRUE]
           /\ count' = CountActive(g) /\ conn' = [conn EXCEPT ![c].pc = "save"]
  <2>1. o \in Conns BY <1>2, <1>4 DEF Holds
  <2>2. Moves(c, "save") BY <1>2, <1>4, SetPc DEF ConnPc
  <2>3. Resumed(o, c) /\ stream'[o].logic = stream[o].logic
    <3>1. stream'[o] = [stream[o] EXCEPT !.sid = c, !.active = TRUE] /\ stream[o] \in StreamRec
      BY <1>2, <1>4, <2>1
    <3>2. stream'[o] \in StreamRec /\ stream'[o].sid = c /\ stream'[o].active = TRUE /\ stream'[o].logic = stream[o].logic
      BY <3>1 DEF StreamRec
    <3>3. \A p \in Conns : p # o => stream'[p] = stream[p] BY <1>2, <1>4, <2>1
    <3>4. stream' = [p \in Conns |-> stream'[p]] BY <1>2, <1>4, <2>1
    <3>5. stream' \in [Conns -> StreamRec] BY <1>2, <3>2, <3>3, <3>4
    <3> QED BY <3>2, <3>3, <3>5 DEF Resumed
  <2>4. CountsUp(g) BY <1>2, <1>4, CountFx
  <2> QED BY <1>1, <1>2, <1>4, <2>1, <2>2, <2>3, <2>4 DEF GateTypes, Resumed, CountsUp
<1> QED BY <1>3, <1>4 DEF CompleteReconnect, Here

\* The record that a worker writes.
Written(c) == /\ RedisTypes' /\ issued' = issued /\ raced' = raced
              /\ redis'.token = conn[c].token /\ redis'.sess = c /\ redis'.gate = conn[c].gate
              /\ conn[c].reconnect => redis'.logic = conn[c].owner
              /\ ~conn[c].reconnect => redis'.logic = conn[c].logic

\* save_online writes what Saved says.
LEMMA SavedFx == ASSUME Types, NEW c \in Conns, redis' = Saved(c), issued' = issued, raced' = raced PROVE Written(c)
<1>1. conn[c] \in ConnRec BY DEF Types, ConnTypes
<1>2. redis' \in RedisRec BY <1>1 DEF Saved, Here, RedisRec, ConnRec
<1>3. RedisTypes' BY <1>2 DEF Types, RedisTypes
<1> QED BY <1>1, <1>3 DEF Written, Saved, Here

\* save_online.
LEMMA SaveFx == ASSUME Types, NEW c \in Conns, SaveOnline(c)
                PROVE  /\ conn[c].pc = "save" /\ conn[c].gate \in Gates
                       /\ \/ Written(c)
                          \/ conn[c].aborted /\ redis' = redis /\ issued' = issued /\ raced' = raced
                       /\ \/ conn[c].aborted /\ Moves(c, "end")
                          \/ ~conn[c].aborted /\ Moves(c, "on")
                       /\ UNCHANGED <<table, stream, count, leaving, kick, down, ask, lsess, lbusy, lcount, ntf>>
<1>1. /\ conn[c].pc = "save"
      /\ redis' = Saved(c) \/ (conn[c].aborted /\ redis' = redis)
      /\ conn' = [conn EXCEPT ![c].pc = IF conn[c].aborted THEN "end" ELSE "on"] /\ issued' = issued /\ raced' = raced
      /\ UNCHANGED <<table, stream, count, leaving, kick, down, ask, lsess, lbusy, lcount, ntf>>
  BY DEF SaveOnline, gateVars, logicVars
<1>2. conn[c].gate \in Gates /\ ConnTypes BY <1>1 DEF Types, Begun, BegunConn
<1>3. CASE conn[c].aborted
  <2>1. Moves(c, "end") BY <1>1, <1>2, <1>3, SetPc DEF ConnPc
  <2> QED BY <1>1, <1>2, <1>3, <2>1, SavedFx
<1>4. CASE ~conn[c].aborted
  <2>1. Moves(c, "on") BY <1>1, <1>2, <1>4, SetPc DEF ConnPc
  <2> QED BY <1>1, <1>2, <1>4, <2>1, SavedFx
<1> QED BY <1>3, <1>4

\* kick_local.
LEMMA KickLocalFx == ASSUME Types, NEW c \in Conns, KickLocal(c)
                     PROVE  /\ conn[c].pc = "save" /\ ~conn[c].aborted /\ conn[c].gate \in Gates
                            /\ \/ May("redis") /\ redis' = redis /\ issued' = issued /\ raced' = raced
                               \/ (May("redis") \/ conn[c].reconnect) /\ Written(c)
                            /\ Moves(c, "kicking") /\ KickMoves(c, "gate", "asked")
                            /\ UNCHANGED <<table, stream, count, leaving, down, ask, lsess, lbusy, lcount, ntf>>
<1>1. /\ conn[c].pc = "save" /\ ~conn[c].aborted
      /\ \/ May("redis") /\ redis' = redis
         \/ (May("redis") \/ conn[c].reconnect) /\ redis' = Saved(c)
      /\ conn' = [conn EXCEPT ![c].pc = "kicking"] /\ kick' = [kick EXCEPT ![c]["gate"].pc = "asked"]
      /\ issued' = issued /\ raced' = raced
      /\ UNCHANGED <<table, stream, count, leaving, down, ask, lsess, lbusy, lcount, ntf>>
  BY DEF KickLocal, gateVars, logicVars
<1>2. conn[c].gate \in Gates /\ ConnTypes /\ kick \in [Conns -> [Kickers -> KickRec]]
  BY <1>1 DEF Types, Begun, BegunConn, LeaveTypes
<1>3. Moves(c, "kicking") BY <1>1, <1>2, SetPc DEF ConnPc
<1>4. KickMoves(c, "gate", "asked") BY <1>1, <1>2, SetKick DEF Kickers
<1> QED BY <1>1, <1>2, <1>3, <1>4, SavedFx

\* The first critical section of a kick.
LEMMA KickTakeFx == ASSUME Types, NEW c \in Conns, NEW who \in Kickers, KickTake(c, who)
                    PROVE  /\ kick[c][who].pc = "asked" /\ conn[c].gate \in Gates /\ (who = "logic" => down[conn[c].gate].pc = "up")
                           /\ \/ /\ Holds(conn[c].gate, c) /\ table[conn[c].gate] \in Conns /\ Offline(table[conn[c].gate])
                                 /\ kick' \in [Conns -> [Kickers -> KickRec]]
                                 /\ kick'[c][who].pc = "taken" /\ kick'[c][who].obj = table[conn[c].gate]
                                 /\ kick'[c][who].active = Active(conn[c].gate)
                                 /\ \A d \in Conns, w \in Kickers : <<d, w>> # <<c, who>> => kick'[d][w] = kick[d][w]
                              \/ ~Holds(conn[c].gate, c) /\ who = "gate" /\ KickMoves(c, who, "clear") /\ stream' = stream
                              \/ ~Holds(conn[c].gate, c) /\ who = "logic" /\ KickMoves(c, who, "done") /\ stream' = stream
                           /\ UNCHANGED <<redis, issued, raced, conn, table, count, leaving, down, ask, lsess, lbusy, lcount, ntf>>
<1> DEFINE g == conn[c].gate
           o == table[g]
<1>1. /\ kick[c][who].pc = "asked" /\ (who = "logic" => down[g].pc = "up")
      /\ UNCHANGED <<redis, issued, raced, conn, table, count, leaving, down, ask, lsess, lbusy, lcount, ntf>>
  BY DEF KickTake, Here, logicVars
<1>2. /\ table \in [Gates -> Conns \cup {None}] /\ stream \in [Conns -> StreamRec] /\ g \in Gates
      /\ kick \in [Conns -> [Kickers -> KickRec]]
  BY <1>1 DEF Types, GateTypes, LeaveTypes, Begun, BegunConn, BegunKick
<1>3. CASE Holds(g, c)
  <2>1. o \in Conns BY <1>2, <1>3 DEF Holds
  <2>2. /\ kick' = [kick EXCEPT ![c][who] = [pc |-> "taken", obj |-> o, active |-> Active(g)]]
        /\ stream' = [stream EXCEPT ![o].active = FALSE]
    BY <1>3 DEF KickTake, Here
  <2>3. Offline(o) BY <1>2, <2>1, <2>2, SetOffline
  <2>4. Active(g) \in BOOLEAN BY DEF Active
  <2>5. [pc |-> "taken", obj |-> o, active |-> Active(g)] \in KickRec BY <2>1, <2>4 DEF KickRec
  <2>6. /\ kick' \in [Conns -> [Kickers -> KickRec]]
        /\ kick'[c][who] = [pc |-> "taken", obj |-> o, active |-> Active(g)]
        /\ \A d \in Conns, w \in Kickers : <<d, w>> # <<c, who>> => kick'[d][w] = kick[d][w]
    <3> DEFINE r == [pc |-> "taken", obj |-> o, active |-> Active(g)]
    <3> HIDE DEF r, o, g
    <3>1. r \in KickRec /\ kick' = [kick EXCEPT ![c][who] = r] BY <2>2, <2>5 DEF r
    <3>2. kick \in [Conns -> [Kickers -> KickRec]] BY <1>2
    <3>3. /\ kick' \in [Conns -> [Kickers -> KickRec]] /\ kick'[c][who] = r
          /\ \A d \in Conns, w \in Kickers : <<d, w>> # <<c, who>> => kick'[d][w] = kick[d][w]
      BY ONLY <3>1, <3>2, c \in Conns, who \in Kickers, PutKick
    <3> QED BY <3>3 DEF r
  <2>7. kick'[c][who].pc = "taken" /\ kick'[c][who].obj = o /\ kick'[c][who].active = Active(g) BY <2>6
  <2> QED BY <1>1, <1>2, <1>3, <2>1, <2>3, <2>6, <2>7
<1>4. CASE ~Holds(g, c)
  <2>1. kick' = [kick EXCEPT ![c][who].pc = IF who = "gate" THEN "clear" ELSE "done"] /\ stream' = stream
    BY <1>4 DEF KickTake, Here
  <2>2. CASE who = "gate"
    <3>1. KickMoves(c, who, "clear") BY <1>2, <2>1, <2>2, SetKick
    <3> QED BY <1>1, <1>2, <1>4, <2>1, <2>2, <3>1
  <2>3. CASE who = "logic"
    <3>1. KickMoves(c, who, "done") BY <1>2, <2>1, <2>3, SetKick
    <3> QED BY <1>1, <1>2, <1>4, <2>1, <2>3, <3>1
  <2> QED BY <2>2, <2>3 DEF Kickers
<1> QED BY <1>3, <1>4

\* A session of g that was counted is not counted any more.
CountsDown(g) == /\ count' \in [Gates -> Nat] /\ \A h \in Gates : h # g => count'[h] = count[h]
                 /\ count[g] > 0 => count'[g] = count[g] - 1

\* decrement_online.
LEMMA DecrementFx == ASSUME count \in [Gates -> Nat], NEW g \in Gates, count' = [count EXCEPT ![g] = Decrement(@)]
                     PROVE  CountsDown(g)
BY DEF CountsDown, Decrement

\* The second critical section of a kick.
LEMMA KickRemoveFx == ASSUME Types, NEW c \in Conns, NEW who \in Kickers, KickRemove(c, who)
                      PROVE  /\ kick[c][who].pc = "taken" /\ conn[c].gate \in Gates /\ KickMoves(c, who, "clear")
                             /\ GateTypes' /\ ConnTypes' /\ stream' = stream /\ \A h \in Gates : h # conn[c].gate => table'[h] = table[h]
                             /\ table[conn[c].gate] = kick[c][who].obj => table'[conn[c].gate] = None
                             /\ table[conn[c].gate] # kick[c][who].obj => table'[conn[c].gate] = table[conn[c].gate]
                             /\ kick[c][who].active => CountsDown(conn[c].gate) /\ Closes(c)
                             /\ ~kick[c][who].active => count' = count /\ conn' = conn
                             /\ UNCHANGED <<redis, issued, raced, leaving, down, ask, lsess, lbusy, lcount, ntf>>
<1> DEFINE g == conn[c].gate
           k == kick[c][who]
<1>1. /\ k.pc = "taken"
      /\ table' = IF table[g] = k.obj THEN [table EXCEPT ![g] = None] ELSE table
      /\ count' = IF k.active THEN [count EXCEPT ![g] = Decrement(@)] ELSE count
      /\ conn' = IF k.active THEN [conn EXCEPT ![c].open = FALSE] ELSE conn
      /\ kick' = [kick EXCEPT ![c][who].pc = "clear"]
      /\ UNCHANGED <<redis, issued, raced, stream, leaving, down, ask, lsess, lbusy, lcount, ntf>>
  BY DEF KickRemove, Here, logicVars
<1>2. /\ table \in [Gates -> Conns \cup {None}] /\ stream \in [Conns -> StreamRec] /\ count \in [Gates -> Nat] /\ g \in Gates
      /\ kick \in [Conns -> [Kickers -> KickRec]] /\ ConnTypes
  BY <1>1 DEF Types, GateTypes, LeaveTypes, Begun, BegunConn, BegunKick
<1>3. KickMoves(c, who, "clear") BY <1>1, <1>2, SetKick
<1>4. /\ table' \in [Gates -> Conns \cup {None}] /\ \A h \in Gates : h # g => table'[h] = table[h]
      /\ table[g] = k.obj => table'[g] = None
      /\ table[g] # k.obj => table'[g] = table[g]
  BY <1>1, <1>2
<1>5. CASE k.active
  <2>1. Closes(c) BY <1>1, <1>2, <1>5, SetClosed
  <2>2. CountsDown(g) BY <1>1, <1>2, <1>5, DecrementFx
  <2> QED BY <1>1, <1>2, <1>3, <1>4, <1>5, <2>1, <2>2 DEF Closes, CountsDown, GateTypes
<1>6. CASE ~k.active
  <2>1. count' = count /\ conn' = conn BY <1>1, <1>6
  <2>2. ConnTypes' BY <1>2, <2>1 DEF ConnTypes
  <2> QED BY <1>1, <1>2, <1>3, <1>4, <1>6, <2>1, <2>2 DEF GateTypes
<1> QED BY <1>5, <1>6

\* The record after a kick.
LEMMA KickClearFx == ASSUME Types, NEW c \in Conns, NEW who \in Kickers, KickClear(c, who)
                     PROVE  /\ kick[c][who].pc = "clear" /\ conn[c].gate \in Gates /\ KickMoves(c, who, "done")
                            /\ \/ Cleared(c)
                               \/ who = "gate" /\ leaving[c] # "no" /\ redis' = redis /\ issued' = issued /\ raced' = raced
                            /\ RedisTypes' /\ redis'.token = redis.token /\ redis'.logic = redis.logic
                            /\ issued' = issued /\ raced' = raced
                            /\ \/ who = "gate" /\ Moves(c, "end")
                               \/ who = "logic" /\ ConnTypes' /\ conn' = conn
                            /\ UNCHANGED <<table, stream, count, leaving, down, ask, lsess, lbusy, lcount, ntf>>
<1>1. /\ kick[c][who].pc = "clear"
      /\ Clear(c) \/ (who = "gate" /\ leaving[c] # "no" /\ redis' = redis)
      /\ kick' = [kick EXCEPT ![c][who].pc = "done"]
      /\ conn' = IF who = "gate" THEN [conn EXCEPT ![c].pc = "end"] ELSE conn
      /\ UNCHANGED <<issued, raced, table, stream, count, leaving, down, ask, lsess, lbusy, lcount, ntf>>
  BY DEF KickClear, gateVars, logicVars
<1>2. /\ conn[c].gate \in Gates /\ kick \in [Conns -> [Kickers -> KickRec]] /\ ConnTypes /\ RedisTypes
  BY <1>1 DEF Types, LeaveTypes, Begun, BegunConn, BegunKick
<1>3. KickMoves(c, who, "done") BY <1>1, <1>2, SetKick
<1>4. \/ Cleared(c)
      \/ who = "gate" /\ leaving[c] # "no" /\ redis' = redis /\ issued' = issued /\ raced' = raced
  BY <1>1, <1>2, ClearFx
<1>5. RedisTypes' /\ redis'.token = redis.token /\ redis'.logic = redis.logic /\ issued' = issued /\ raced' = raced
  BY <1>1, <1>2, <1>4 DEF Cleared, RedisTypes
<1>6. CASE who = "gate"
  <2>1. Moves(c, "end") BY <1>1, <1>2, <1>6, SetPc DEF ConnPc
  <2> QED BY <1>1, <1>2, <1>3, <1>4, <1>5, <1>6, <2>1
<1>7. CASE who = "logic"
  <2>1. conn' = conn BY <1>1, <1>7
  <2>2. ConnTypes' BY <1>2, <2>1 DEF ConnTypes
  <2> QED BY <1>1, <1>2, <1>3, <1>4, <1>5, <1>7, <2>1, <2>2
<1> QED BY <1>6, <1>7 DEF Kickers

\* handle_logout, its four steps.
LEMMA LogoutFx == ASSUME Types, NEW c \in Conns, HandleLogout(c)
                  PROVE  /\ Logouts /\ conn[c].pc = "on" /\ conn[c].gate \in Gates /\ Moves(c, "invalidate")
                         /\ UNCHANGED <<redis, issued, raced, table, stream, count, leaving, kick, down, ask, lsess, lbusy, lcount, ntf>>
<1>1. /\ Logouts /\ conn[c].pc = "on" /\ conn' = [conn EXCEPT ![c].pc = "invalidate"]
      /\ UNCHANGED <<redis, issued, raced, table, stream, count, leaving, kick, down, ask, lsess, lbusy, lcount, ntf>>
  BY DEF HandleLogout, gateVars, logicVars
<1>2. ConnTypes /\ conn[c].gate \in Gates BY <1>1 DEF Types, Begun, BegunConn
<1>3. Moves(c, "invalidate") BY <1>1, <1>2, SetPc DEF ConnPc
<1> QED BY <1>1, <1>2, <1>3

\* invalidate.
LEMMA InvalidateFx == ASSUME Types, NEW c \in Conns, LogoutInvalidate(c)
                      PROVE  /\ conn[c].pc = "invalidate" /\ conn[c].gate \in Gates /\ Moves(c, "outNotify") /\ GateTypes'
                             /\ \A h \in Gates : h # conn[c].gate => table'[h] = table[h]
                             /\ Holds(conn[c].gate, c) => table'[conn[c].gate] = None
                             /\ ~Holds(conn[c].gate, c) => table'[conn[c].gate] = table[conn[c].gate]
                             /\ UNCHANGED <<redis, issued, raced, stream, leaving, kick, down, ask, lsess, lbusy, lcount, ntf>>
<1> DEFINE g == conn[c].gate
<1>1. /\ conn[c].pc = "invalidate"
      /\ table' = IF Holds(g, c) THEN [table EXCEPT ![g] = None] ELSE table
      /\ count' = [count EXCEPT ![g] = Decrement(@)]
      /\ conn' = [conn EXCEPT ![c].pc = "outNotify"]
      /\ UNCHANGED <<redis, issued, raced, stream, leaving, kick, down, ask, lsess, lbusy, lcount, ntf>>
  BY DEF LogoutInvalidate, Here, logicVars
<1>2. /\ ConnTypes /\ g \in Gates
      /\ table \in [Gates -> Conns \cup {None}] /\ stream \in [Conns -> StreamRec] /\ count \in [Gates -> Nat]
  BY <1>1 DEF Types, GateTypes, Begun, BegunConn
<1>3. Moves(c, "outNotify") BY <1>1, <1>2, SetPc DEF ConnPc
<1>4. CountsDown(g) BY <1>1, <1>2, DecrementFx
<1>5. CASE Holds(g, c)
  <2>1. table' = [table EXCEPT ![g] = None] BY <1>1, <1>5
  <2>2. table' \in [Gates -> Conns \cup {None}] /\ table'[g] = None /\ \A h \in Gates : h # g => table'[h] = table[h]
    BY <1>2, <2>1
  <2> QED BY <1>1, <1>2, <1>3, <1>4, <1>5, <2>2 DEF GateTypes, CountsDown
<1>6. CASE ~Holds(g, c)
  <2>1. table' = table BY <1>1, <1>6
  <2> QED BY <1>1, <1>2, <1>3, <1>4, <1>6, <2>1 DEF GateTypes, CountsDown
<1> QED BY <1>5, <1>6

\* LogicDisconnectNtf of a logout.
LEMMA LogoutNotifyFx == ASSUME Types, NEW c \in Conns, LogoutNotify(c)
                        PROVE  /\ conn[c].pc = "outNotify" /\ conn[c].gate \in Gates /\ Moves(c, "outClear")
                               /\ ntf' = ntf \cup {c} \/ (May("notify") /\ ntf' = ntf)
                               /\ UNCHANGED <<redis, issued, raced, table, stream, count, leaving, kick, down, ask, lsess, lbusy, lcount>>
<1>1. /\ conn[c].pc = "outNotify" /\ conn' = [conn EXCEPT ![c].pc = "outClear"]
      /\ ntf' = ntf \cup {c} \/ (May("notify") /\ ntf' = ntf)
      /\ UNCHANGED <<redis, issued, raced, table, stream, count, leaving, kick, down, ask, lsess, lbusy, lcount>>
  BY DEF LogoutNotify, Notify, gateVars, logicVars
<1>2. ConnTypes /\ conn[c].gate \in Gates BY <1>1 DEF Types, Begun, BegunConn
<1>3. Moves(c, "outClear") BY <1>1, <1>2, SetPc DEF ConnPc
<1> QED BY <1>1, <1>2, <1>3

\* The record after a logout.
LEMMA LogoutClearFx == ASSUME Types, NEW c \in Conns, LogoutClear(c)
                       PROVE  /\ conn[c].pc = "outClear" /\ conn[c].gate \in Gates /\ Ends(c) /\ Cleared(c)
                              /\ UNCHANGED <<table, stream, count, leaving, kick, down, ask, lsess, lbusy, lcount, ntf>>
<1>1. /\ conn[c].pc = "outClear" /\ conn' = [conn EXCEPT ![c] = Rejected(conn[c])] /\ Clear(c)
      /\ UNCHANGED <<issued, raced, table, stream, count, leaving, kick, down, ask, lsess, lbusy, lcount, ntf>>
  BY DEF LogoutClear, gateVars, logicVars
<1>2. ConnTypes /\ RedisTypes /\ conn[c].gate \in Gates BY <1>1 DEF Types, Begun, BegunConn
<1>3. Ends(c) BY <1>1, <1>2, SetRejected
<1> QED BY <1>1, <1>2, <1>3, ClearFx

\* A connection breaks.
LEMMA BreakFx == ASSUME Types, NEW c \in Conns, Break(c)
                 PROVE  /\ conn[c].open /\ Closes(c)
                        /\ UNCHANGED <<redis, issued, raced, table, stream, count, leaving, kick, down, ask, lsess, lbusy, lcount, ntf>>
<1>1. /\ conn[c].open /\ conn' = [conn EXCEPT ![c].open = FALSE]
      /\ UNCHANGED <<redis, issued, raced, table, stream, count, leaving, kick, down, ask, lsess, lbusy, lcount, ntf>>
  BY DEF Break, gateVars, logicVars
<1>2. ConnTypes BY DEF Types
<1> QED BY <1>1, <1>2, SetClosed

\* Aborting the worker, at once or at its next await.
Aborts(c) == /\ ConnTypes' /\ Others(c) /\ Keeps(c) /\ conn'[c].pc = conn[c].pc /\ conn'[c].open = conn[c].open
             /\ conn'[c].user = conn[c].user /\ conn'[c].aborted = TRUE

\* An assignment of aborted.
LEMMA SetAborted == ASSUME ConnTypes, NEW c \in Conns, conn' = [conn EXCEPT ![c].aborted = TRUE] PROVE Aborts(c)
<1>1. ConnTypes' BY DEF ConnTypes, ConnRec
<1> QED BY <1>1 DEF Aborts, Others, Keeps, ConnTypes, ConnRec

\* on_disconnected.
LEMMA OnDisconnectedFx ==
    ASSUME Types, NEW c \in Conns, OnDisconnected(c)
    PROVE  /\ leaving[c] = "no" /\ ~conn[c].open /\ conn[c].pc # "none" /\ conn[c].gate \in Gates
           /\ conn[c].pc = "end" => conn[c].user
           /\ conn[c].pc = "checked" => CloseRace \/ down[conn[c].gate].pc # "up"
           /\ leaving' \in [Conns -> {"no", "take", "notify", "clear", "done"}] /\ ConnTypes'
           /\ \A d \in Conns : d # c => leaving'[d] = leaving[d]
           /\ \/ leaving'[c] = "done" /\ (down[conn[c].gate].pc # "up" \/ ~conn[c].user)
              \/ leaving'[c] = "take" /\ down[conn[c].gate].pc = "up" /\ conn[c].user
           /\ \/ conn' = conn /\ (down[conn[c].gate].pc # "up" \/ conn[c].pc = "kicking")
              \/ conn[c].pc = "checked" /\ Aborts(c) /\ down[conn[c].gate].pc = "up"
              \/ conn[c].pc \notin {"checked", "kicking"} /\ Moves(c, "end") /\ down[conn[c].gate].pc = "up"
           /\ UNCHANGED <<redis, issued, raced, table, stream, count, kick, down, ask, lsess, lbusy, lcount, ntf>>
<1> DEFINE draining == down[conn[c].gate].pc # "up"
<1>1. /\ leaving[c] = "no" /\ ~conn[c].open /\ conn[c].pc # "none"
      /\ conn[c].pc = "end" => conn[c].user
      /\ conn[c].pc = "checked" => CloseRace \/ draining
      /\ leaving' = [leaving EXCEPT ![c] = IF draining \/ ~conn[c].user THEN "done" ELSE "take"]
      /\ UNCHANGED <<redis, issued, raced, table, stream, count, kick, down, ask, lsess, lbusy, lcount, ntf>>
  BY DEF OnDisconnected, Here, gateVars, logicVars
<1>2. ConnTypes /\ conn[c].gate \in Gates /\ leaving \in [Conns -> {"no", "take", "notify", "clear", "done"}]
  BY <1>1 DEF Types, Begun, BegunConn, LeaveTypes
<1>3. /\ leaving' \in [Conns -> {"no", "take", "notify", "clear", "done"}]
      /\ \A d \in Conns : d # c => leaving'[d] = leaving[d]
      /\ \/ leaving'[c] = "done" /\ (draining \/ ~conn[c].user)
         \/ leaving'[c] = "take" /\ ~draining /\ conn[c].user
  BY <1>1, <1>2
<1>4. CASE draining \/ conn[c].pc = "kicking"
  <2>1. conn' = conn BY <1>4 DEF OnDisconnected, Here
  <2>2. ConnTypes' BY <1>2, <2>1 DEF ConnTypes
  <2> QED BY <1>1, <1>2, <1>3, <1>4, <2>1, <2>2
<1>5. CASE conn[c].pc = "checked" /\ ~draining
  <2>1. conn' = [conn EXCEPT ![c].aborted = TRUE] BY <1>5 DEF OnDisconnected, Here
  <2>2. Aborts(c) BY <1>2, <2>1, SetAborted
  <2> QED BY <1>1, <1>2, <1>3, <1>5, <2>2 DEF Aborts
<1>6. CASE conn[c].pc \notin {"checked", "kicking"} /\ ~draining
  <2>1. conn' = [conn EXCEPT ![c].pc = "end"] BY <1>6 DEF OnDisconnected, Here
  <2>2. Moves(c, "end") BY <1>2, <2>1, SetPc DEF ConnPc
  <2> QED BY <1>1, <1>2, <1>3, <1>6, <2>2 DEF Moves
<1> QED BY <1>4, <1>5, <1>6

\* A step of a disconnect.
Leaves(c, p) == /\ leaving' \in [Conns -> {"no", "take", "notify", "clear", "done"}] /\ leaving'[c] = p
                /\ \A d \in Conns : d # c => leaving'[d] = leaving[d]

\* disconnect, under the locks.
LEMMA DisconnectTakeFx ==
    ASSUME Types, NEW c \in Conns, DisconnectTake(c)
    PROVE  /\ leaving[c] = "take" /\ conn[c].gate \in Gates /\ GateTypes' /\ table' = table
           /\ \/ /\ Holds(conn[c].gate, c) /\ Active(conn[c].gate) /\ table[conn[c].gate] \in Conns
                 /\ Offline(table[conn[c].gate]) /\ CountsDown(conn[c].gate) /\ Leaves(c, "notify")
              \/ ~(Holds(conn[c].gate, c) /\ Active(conn[c].gate)) /\ stream' = stream /\ count' = count /\ Leaves(c, "done")
           /\ UNCHANGED <<redis, issued, raced, conn, kick, down, ask, lsess, lbusy, lcount, ntf>>
<1> DEFINE g == conn[c].gate
<1>1. /\ leaving[c] = "take" /\ table' = table
      /\ UNCHANGED <<redis, issued, raced, conn, kick, down, ask, lsess, lbusy, lcount, ntf>>
  BY DEF DisconnectTake, logicVars
<1>2. /\ g \in Gates /\ leaving \in [Conns -> {"no", "take", "notify", "clear", "done"}]
      /\ table \in [Gates -> Conns \cup {None}] /\ stream \in [Conns -> StreamRec] /\ count \in [Gates -> Nat]
  BY <1>1 DEF Types, GateTypes, Begun, BegunConn, BegunLeave, LeaveTypes
<1>3. CASE Holds(g, c) /\ Active(g)
  <2>1. /\ stream' = [stream EXCEPT ![table[g]].active = FALSE] /\ count' = [count EXCEPT ![g] = Decrement(@)]
        /\ leaving' = [leaving EXCEPT ![c] = "notify"]
    BY <1>3 DEF DisconnectTake, Here
  <2>2. table[g] \in Conns BY <1>2, <1>3 DEF Holds
  <2>3. Offline(table[g]) BY <1>2, <2>1, <2>2, SetOffline
  <2>4. CountsDown(g) BY <1>2, <2>1, DecrementFx
  <2>5. Leaves(c, "notify") BY <1>2, <2>1 DEF Leaves
  <2> QED BY <1>1, <1>2, <1>3, <2>2, <2>3, <2>4, <2>5 DEF GateTypes, Offline, CountsDown
<1>4. CASE ~(Holds(g, c) /\ Active(g))
  <2>1. leaving' = [leaving EXCEPT ![c] = "done"] /\ stream' = stream /\ count' = count
    BY <1>4 DEF DisconnectTake, Here
  <2>2. Leaves(c, "done") BY <1>2, <2>1 DEF Leaves
  <2> QED BY <1>1, <1>2, <1>4, <2>1, <2>2 DEF GateTypes
<1> QED BY <1>3, <1>4

\* LogicDisconnectNtf.
LEMMA DisconnectNotifyFx ==
    ASSUME Types, NEW c \in Conns, DisconnectNotify(c)
    PROVE  /\ leaving[c] = "notify" /\ Leaves(c, "clear") /\ (ntf' = ntf \cup {c} \/ (May("notify") /\ ntf' = ntf))
           /\ UNCHANGED <<redis, issued, raced, conn, table, stream, count, kick, down, ask, lsess, lbusy, lcount>>
BY DEF DisconnectNotify, Notify, Leaves, Types, LeaveTypes, gateVars, logicVars

\* The record after a disconnect.
LEMMA DisconnectClearFx ==
    ASSUME Types, NEW c \in Conns, DisconnectClear(c)
    PROVE  /\ leaving[c] = "clear" /\ Leaves(c, "done") /\ Cleared(c)
           /\ UNCHANGED <<conn, table, stream, count, kick, down, ask, lsess, lbusy, lcount, ntf>>
<1>1. /\ leaving[c] = "clear" /\ leaving' = [leaving EXCEPT ![c] = "done"] /\ Clear(c)
      /\ UNCHANGED <<issued, raced, conn, table, stream, count, kick, down, ask, lsess, lbusy, lcount, ntf>>
  BY DEF DisconnectClear, gateVars, logicVars
<1>2. RedisTypes /\ leaving \in [Conns -> {"no", "take", "notify", "clear", "done"}] BY DEF Types, LeaveTypes
<1>3. Leaves(c, "done") BY <1>1, <1>2 DEF Leaves
<1> QED BY <1>1, <1>2, <1>3, ClearFx

-----------------------------------------------------------------------------
(* ... on the side of Logic *)

\* One request changes its state.
Asks(c, p) == /\ ask' \in [Conns -> {"none", "sent", "kick", "owner", "undo", "ok", "err"}] /\ ask'[c] = p
              /\ \A d \in Conns : d # c => ask'[d] = ask[d]

\* The session of the player on l changes.
Sessions(l, s) == /\ lsess' \in [Logics -> Conns \cup {None}] /\ lsess'[l] = s
                  /\ \A m \in Logics : m # l => lsess'[m] = lsess[m]
Counted(l) == lcount' \in [Logics -> Nat] /\ \A m \in Logics : m # l => lcount'[m] = lcount[m]

\* PlayerState::login.
LoggedIn(l, c) == /\ Sessions(l, c) /\ Counted(l)
                  /\ \/ /\ Asks(c, "owner")
                        /\ lsess[l] = None => lcount'[l] = lcount[l] + 1
                        /\ lsess[l] # None => lcount'[l] = lcount[l]
                     \/ SaveFails(l) /\ Asks(c, "err") /\ lcount' = lcount

\* Login is as its comment says.
LEMMA LoginFx == ASSUME LogicTypes, NEW l \in Logics, NEW c \in Conns, Login(l, c) PROVE LoggedIn(l, c)
<1>1. /\ ask \in [Conns -> {"none", "sent", "kick", "owner", "undo", "ok", "err"}]
      /\ lsess \in [Logics -> Conns \cup {None}] /\ lcount \in [Logics -> Nat]
  BY DEF LogicTypes
<1>2. Sessions(l, c) BY <1>1 DEF Login, Sessions
<1>3. CASE ask' = [ask EXCEPT ![c] = "owner"] /\ lcount' = IF lsess[l] = None THEN [lcount EXCEPT ![l] = @ + 1] ELSE lcount
  <2>1. Asks(c, "owner") BY <1>1, <1>3 DEF Asks
  <2>2. /\ Counted(l) /\ (lsess[l] = None => lcount'[l] = lcount[l] + 1)
        /\ (lsess[l] # None => lcount'[l] = lcount[l])
    BY <1>1, <1>3 DEF Counted
  <2> QED BY <1>2, <2>1, <2>2 DEF LoggedIn
<1>4. CASE SaveFails(l) /\ ask' = [ask EXCEPT ![c] = "err"] /\ lcount' = lcount
  <2>1. Asks(c, "err") BY <1>1, <1>4 DEF Asks
  <2>2. Counted(l) BY <1>1, <1>4 DEF Counted
  <2> QED BY <1>2, <1>4, <2>1, <2>2 DEF LoggedIn
<1> QED BY <1>3, <1>4 DEF Login

\* PlayerState::disconnect.
LoggedOut(l, c) == /\ lsess' \in [Logics -> Conns \cup {None}] /\ Counted(l)
                   /\ \/ lsess[l] = c /\ Sessions(l, None) /\ (lcount'[l] = Decrement(lcount[l]) \/ SaveFails(l))
                      \/ lsess[l] # c /\ lsess' = lsess /\ lcount' = lcount
                      \/ May("busy") /\ lsess' = lsess /\ lcount' = lcount

\* Disconnect is as its comment says.
LEMMA DisconnectFx == ASSUME LogicTypes, NEW l \in Logics, NEW c \in Conns, Disconnect(l, c) PROVE LoggedOut(l, c)
<1>1. lsess \in [Logics -> Conns \cup {None}] /\ lcount \in [Logics -> Nat] BY DEF LogicTypes
<1>2. CASE May("busy") /\ lsess' = lsess /\ lcount' = lcount BY <1>1, <1>2 DEF LoggedOut, Counted
<1>3. CASE /\ lsess[l] # c /\ lsess' = lsess /\ lcount' = lcount BY <1>1, <1>3 DEF LoggedOut, Counted
<1>4. CASE /\ lsess[l] = c /\ lsess' = [lsess EXCEPT ![l] = None]
           /\ \/ lcount' = [lcount EXCEPT ![l] = Decrement(@)]
              \/ SaveFails(l) /\ lcount' = lcount
  <2>1. Sessions(l, None) BY <1>1, <1>4 DEF Sessions
  <2>2. Counted(l) /\ (lcount'[l] = Decrement(lcount[l]) \/ SaveFails(l)) BY <1>1, <1>4 DEF Counted, Decrement
  <2> QED BY <1>4, <2>1, <2>2 DEF LoggedOut, Sessions
<1>5. CASE lsess[l] = c BY <1>2, <1>4, <1>5 DEF Disconnect, Matches
<1>6. CASE lsess[l] # c BY <1>2, <1>3, <1>6 DEF Disconnect, Matches
<1> QED BY <1>5, <1>6

\* Who occupies the runner of the player on l changes.
Occupies(l, s) == /\ lbusy' \in [Logics -> Conns \cup {None}] /\ lbusy'[l] = s
                  /\ \A m \in Logics : m # l => lbusy'[m] = lbusy[m]

\* LogicLoginReq reaches the runner.
LEMMA LogicLoginFx ==
    ASSUME Types, NEW c \in Conns, LogicLogin(c)
    PROVE  /\ ask[c] = "sent" /\ conn[c].logic \in Logics /\ lbusy[conn[c].logic] = None
           /\ \/ /\ KicksOld(c, lsess[conn[c].logic]) /\ lsess[conn[c].logic] \in Conns
                 /\ KickMoves(lsess[conn[c].logic], "logic", "asked") /\ Occupies(conn[c].logic, c) /\ Asks(c, "kick")
                 /\ lsess' = lsess /\ lcount' = lcount
              \/ ~KicksOld(c, lsess[conn[c].logic]) /\ LoggedIn(conn[c].logic, c) /\ kick' = kick /\ lbusy' = lbusy
           /\ UNCHANGED <<redis, issued, raced, conn, table, stream, count, leaving, down, ntf>>
<1> DEFINE l == conn[c].logic
<1>1. /\ ask[c] = "sent" /\ lbusy[l] = None
      /\ UNCHANGED <<redis, issued, raced, conn, table, stream, count, leaving, down, ntf>>
  BY DEF LogicLogin, gateVars
<1>2. /\ l \in Logics /\ LogicTypes /\ kick \in [Conns -> [Kickers -> KickRec]]
  BY <1>1 DEF Types, Begun, BegunConn, LeaveTypes
<1>3. CASE /\ KicksOld(c, lsess[l]) /\ kick' = [kick EXCEPT ![lsess[l]]["logic"].pc = "asked"]
           /\ lbusy' = [lbusy EXCEPT ![l] = c] /\ ask' = [ask EXCEPT ![c] = "kick"] /\ lsess' = lsess /\ lcount' = lcount
  <2>1. lsess[l] \in Conns BY <1>2, <1>3 DEF KicksOld, LogicTypes
  <2>2. KickMoves(lsess[l], "logic", "asked") BY <1>2, <1>3, <2>1, SetKick DEF Kickers
  <2>3. Occupies(l, c) /\ Asks(c, "kick") BY <1>2, <1>3 DEF Occupies, Asks, LogicTypes
  <2> QED BY <1>1, <1>2, <1>3, <2>1, <2>2, <2>3
<1>4. CASE ~KicksOld(c, lsess[l]) /\ Login(l, c) /\ kick' = kick /\ lbusy' = lbusy
  <2>1. LoggedIn(l, c) BY <1>2, <1>4, LoginFx
  <2> QED BY <1>1, <1>2, <1>4, <2>1
<1> QED BY <1>3, <1>4 DEF LogicLogin

\* The runtime refuses the call.
LEMMA LogicRefusesFx ==
    ASSUME Types, NEW c \in Conns, LogicRefuses(c)
    PROVE  /\ ask[c] = "sent" /\ May("rpc") /\ Asks(c, "err")
           /\ UNCHANGED <<redis, issued, raced, conn, table, stream, count, leaving, kick, down, lsess, lbusy, lcount, ntf>>
BY SMTT(30) DEF LogicRefuses, Types, LogicTypes, Asks, gateVars

\* The kick is over.
LEMMA LogicKickedFx ==
    ASSUME Types, NEW c \in Conns, LogicKicked(c)
    PROVE  /\ ask[c] = "kick" /\ conn[c].logic \in Logics /\ lsess[conn[c].logic] \in Conns /\ lbusy[conn[c].logic] = c
           /\ \/ kick[lsess[conn[c].logic]]["logic"].pc = "done" \/ May("kick")
              \/ /\ kick[lsess[conn[c].logic]]["logic"].pc = "asked"
                 /\ down[conn[lsess[conn[c].logic]].gate].pc # "up"
           /\ LoggedIn(conn[c].logic, c) /\ Occupies(conn[c].logic, None)
           /\ \/ /\ kick[lsess[conn[c].logic]]["logic"].pc = "asked"
                 /\ down[conn[lsess[conn[c].logic]].gate].pc # "up"
                 /\ KickMoves(lsess[conn[c].logic], "logic", "done")
              \/ /\ ~(kick[lsess[conn[c].logic]]["logic"].pc = "asked" /\ down[conn[lsess[conn[c].logic]].gate].pc # "up")
                 /\ kick' = kick
           /\ UNCHANGED <<redis, issued, raced, conn, table, stream, count, leaving, down, ntf>>
<1> DEFINE l == conn[c].logic
           old == lsess[l]
           refused == kick[old]["logic"].pc = "asked" /\ down[conn[old].gate].pc # "up"
<1>1. /\ ask[c] = "kick"
      /\ kick[old]["logic"].pc = "done" \/ May("kick") \/ refused
      /\ Login(l, c) /\ lbusy' = [lbusy EXCEPT ![l] = None]
      /\ kick' = IF refused THEN [kick EXCEPT ![old]["logic"].pc = "done"] ELSE kick
      /\ UNCHANGED <<redis, issued, raced, conn, table, stream, count, leaving, down, ntf>>
  BY SMTT(30) DEF LogicKicked, Here, gateVars
<1>2. /\ l \in Logics /\ old \in Conns /\ lbusy[l] = c /\ LogicTypes /\ kick \in [Conns -> [Kickers -> KickRec]]
  BY SMTT(30), <1>1 DEF Types, Begun, BegunConn, BegunAsk, LeaveTypes, LogicTypes
<1>3. LoggedIn(l, c) BY SMTT(30), <1>1, <1>2, LoginFx
<1>4. Occupies(l, None) BY SMTT(30), <1>1, <1>2 DEF Occupies, LogicTypes
<1>5. CASE refused
  <2>1. KickMoves(old, "logic", "done") BY ZenonT(60), <1>1, <1>2, <1>5, SetKick DEF Kickers
  <2> QED BY SMTT(30), <1>1, <1>2, <1>3, <1>4, <1>5, <2>1
<1>6. CASE ~refused BY <1>1, <1>2, <1>3, <1>4, <1>6
<1> QED BY SMTT(30), <1>5, <1>6

\* set_logic_owner.
LEMMA SetOwnerFx ==
    ASSUME Types, NEW c \in Conns, SetLogicOwner(c)
    PROVE  /\ ask[c] = "owner" /\ conn[c].logic \in Logics /\ RedisTypes' /\ issued' = issued /\ raced' = raced
           /\ redis'.token = redis.token /\ redis'.sess = redis.sess /\ redis'.gate = redis.gate
           /\ \/ redis'.logic = conn[c].logic /\ Asks(c, "ok")
              \/ May("redis") /\ redis'.logic \in {redis.logic, conn[c].logic} /\ Asks(c, "undo")
           /\ UNCHANGED <<conn, table, stream, count, leaving, kick, down, lsess, lbusy, lcount, ntf>>
<1> DEFINE l == conn[c].logic
<1>1. /\ ask[c] = "owner" /\ issued' = issued /\ raced' = raced
      /\ \/ redis' = [redis EXCEPT !.logic = l] /\ ask' = [ask EXCEPT ![c] = "ok"]
         \/ May("redis") /\ redis' \in {redis, [redis EXCEPT !.logic = l]} /\ ask' = [ask EXCEPT ![c] = "undo"]
      /\ UNCHANGED <<conn, table, stream, count, leaving, kick, down, lsess, lbusy, lcount, ntf>>
  BY DEF SetLogicOwner, gateVars
<1>2. l \in Logics /\ redis \in RedisRec /\ RedisTypes BY <1>1 DEF Types, Begun, BegunConn, RedisTypes
<1>3. ASSUME NEW r, r = [redis EXCEPT !.logic = l]
      PROVE  r \in RedisRec /\ r.logic = l /\ r.token = redis.token /\ r.sess = redis.sess /\ r.gate = redis.gate
  BY <1>2, <1>3 DEF RedisRec
<1>4. redis' \in RedisRec /\ redis'.token = redis.token /\ redis'.sess = redis.sess /\ redis'.gate = redis.gate
  BY <1>1, <1>2, <1>3
<1>5. RedisTypes' BY <1>1, <1>2, <1>4 DEF RedisTypes
<1>6. \/ redis'.logic = l /\ Asks(c, "ok")
      \/ May("redis") /\ redis'.logic \in {redis.logic, l} /\ Asks(c, "undo")
  BY <1>1, <1>3 DEF Types, LogicTypes, Asks
<1> QED BY <1>1, <1>2, <1>4, <1>5, <1>6

\* The login is undone.
LEMMA UndoFx ==
    ASSUME Types, NEW c \in Conns, UndoLogin(c)
    PROVE  /\ ask[c] = "undo" /\ conn[c].logic \in Logics /\ lbusy[conn[c].logic] = None
           /\ LoggedOut(conn[c].logic, c) /\ Asks(c, "err")
           /\ UNCHANGED <<redis, issued, raced, conn, table, stream, count, leaving, kick, down, lbusy, ntf>>
<1>1. /\ ask[c] = "undo" /\ lbusy[conn[c].logic] = None /\ Disconnect(conn[c].logic, c) /\ ask' = [ask EXCEPT ![c] = "err"]
      /\ UNCHANGED <<redis, issued, raced, conn, table, stream, count, leaving, kick, down, lbusy, ntf>>
  BY DEF UndoLogin, gateVars
<1>2. conn[c].logic \in Logics /\ LogicTypes BY <1>1 DEF Types, Begun, BegunConn
<1>3. Asks(c, "err") BY <1>1, <1>2 DEF Asks, LogicTypes
<1> QED BY <1>1, <1>2, <1>3, DisconnectFx

\* LogicDisconnectNtf reaches the runner.
LEMMA LogicDisconnectFx ==
    ASSUME Types, NEW c \in Conns, LogicDisconnect(c)
    PROVE  /\ c \in ntf /\ conn[c].logic \in Logics /\ lbusy[conn[c].logic] = None /\ ntf' = ntf \ {c}
           /\ LoggedOut(conn[c].logic, c)
           /\ UNCHANGED <<redis, issued, raced, conn, table, stream, count, leaving, kick, down, ask, lbusy>>
<1>1. /\ c \in ntf /\ lbusy[conn[c].logic] = None /\ Disconnect(conn[c].logic, c) /\ ntf' = ntf \ {c}
      /\ UNCHANGED <<redis, issued, raced, conn, table, stream, count, leaving, kick, down, ask, lbusy>>
  BY DEF LogicDisconnect, gateVars
<1>2. conn[c].logic \in Logics /\ LogicTypes BY <1>1 DEF Types, Begun, BegunConn, BegunNtf
<1> QED BY <1>1, <1>2, DisconnectFx

-----------------------------------------------------------------------------
(* ... and when a connection begins *)

\* What a login or reconnect may begin with, and the record it loads.
Loads(c, g) == /\ conn[c].pc = "none" /\ ~conn[c].reconnect /\ ~conn[c].user /\ ~conn[c].aborted /\ ask[c] = "none"
               /\ leaving[c] = "no" /\ kick[c]["logic"].pc = "idle" /\ kick[c]["gate"].pc = "idle"
               /\ down[g].pc = "up" /\ (Overlap \/ \A d \in Conns : Settled(d))
               /\ ConnTypes' /\ Others(c) /\ conn'[c].gate = g /\ conn'[c].token = redis.token /\ conn'[c].owner = redis.logic
               /\ conn'[c].user = FALSE /\ conn'[c].aborted = FALSE

\* A connection that begins has done nothing yet.
LEMMA Blank == ASSUME Types, NEW c \in Conns, NEW g \in Gates, Starts(c, g)
               PROVE  /\ conn[c].pc = "none" /\ ~conn[c].reconnect /\ ~conn[c].user /\ ~conn[c].aborted /\ ask[c] = "none"
                      /\ leaving[c] = "no" /\ kick[c]["logic"].pc = "idle" /\ kick[c]["gate"].pc = "idle"
                      /\ down[g].pc = "up" /\ (Overlap \/ \A d \in Conns : Settled(d))
<1>1. conn[c].pc = "none" /\ down[g].pc = "up" /\ (Overlap \/ \A d \in Conns : Settled(d)) BY DEF Starts
<1>2. ask[c] = "none" BY <1>1 DEF Types, Begun, BegunConn
<1>3. ~conn[c].user BY <1>2 DEF Types, Begun, BegunConn
<1>4. leaving[c] = "no" BY <1>1 DEF Types, Begun, BegunLeave
<1>5. kick[c]["logic"].pc = "idle" /\ kick[c]["gate"].pc = "idle" BY <1>1 DEF Types, Begun, BegunKick, Kickers
<1>6. ~conn[c].reconnect /\ ~conn[c].aborted BY <1>1 DEF Types, Begun, BegunConn
<1> QED BY <1>1, <1>2, <1>3, <1>4, <1>5, <1>6

\* What load_online of a login, or of a reconnect, makes of the record r of its worker.
LoginLoads(r, g, s) == s = LoadOnline([r EXCEPT !.gate = g, !.open = TRUE])
ReconnectLoads(r, g, prev, s) == s = LoadOnline([r EXCEPT !.gate = g, !.open = TRUE, !.reconnect = TRUE, !.prev = prev])

\* What happens to it next.
GoesOn(r, s) == \/ \E l \in Logics : s = [r EXCEPT !.pc = "rpc", !.logic = l]
                \/ s = [r EXCEPT !.pc = "loaded"]
                \/ s = Rejected(r)

\* The fields in which s is as r.
Follows(r, s) == /\ s \in ConnRec /\ s.gate = r.gate /\ s.token = r.token /\ s.owner = r.owner
                 /\ s.reconnect = r.reconnect /\ s.prev = r.prev /\ s.user = r.user /\ s.aborted = r.aborted

\* The record s has loaded the one of the player.
HasLoaded(r, s, g) == /\ s \in ConnRec /\ s.gate = g /\ s.open = TRUE /\ s.token = redis.token /\ s.owner = redis.logic
                      /\ s.user = r.user /\ s.aborted = r.aborted

\* The record s is that of a reconnect to prev.
Resumes(s, prev) == s.reconnect = TRUE /\ s.prev = prev

\* load_online of a login.
LEMMA LoadedRec ==
    ASSUME NEW r \in ConnRec, NEW g \in Gates, redis \in RedisRec, NEW s, LoginLoads(r, g, s)
    PROVE  HasLoaded(r, s, g) /\ s.reconnect = r.reconnect
<1>1. redis.token \in Nat /\ redis.logic \in Logics \cup {None} BY DEF RedisRec
<1>2. PICK q : q = [r EXCEPT !.gate = g, !.open = TRUE] OBVIOUS
<1>3. /\ q \in ConnRec /\ q.gate = g /\ q.open = TRUE
      /\ q.reconnect = r.reconnect /\ q.prev = r.prev /\ q.user = r.user /\ q.aborted = r.aborted /\ q.logic = r.logic
  BY <1>2 DEF ConnRec
<1>4. s = [q EXCEPT !.token = redis.token, !.owner = redis.logic] BY <1>2 DEF LoadOnline, LoginLoads
<1>5. /\ s \in ConnRec /\ s.gate = q.gate /\ s.open = q.open /\ s.token = redis.token /\ s.owner = redis.logic
      /\ s.reconnect = q.reconnect /\ s.prev = q.prev /\ s.user = q.user /\ s.aborted = q.aborted /\ s.logic = q.logic
  BY ONLY <1>1, <1>3, <1>4 DEF ConnRec
<1> QED BY <1>3, <1>5 DEF HasLoaded

\* load_online of a reconnect.
LEMMA ReloadedRec ==
    ASSUME NEW r \in ConnRec, NEW g \in Gates, NEW prev \in Conns, redis \in RedisRec,
           NEW s, ReconnectLoads(r, g, prev, s)
    PROVE  HasLoaded(r, s, g) /\ Resumes(s, prev)
<1>1. redis.token \in Nat /\ redis.logic \in Logics \cup {None} BY DEF RedisRec
<1>2. PICK q : q = [r EXCEPT !.gate = g, !.open = TRUE, !.reconnect = TRUE, !.prev = prev] OBVIOUS
<1>3. /\ q \in ConnRec /\ q.gate = g /\ q.open = TRUE
      /\ q.reconnect = TRUE /\ q.prev = prev /\ q.user = r.user /\ q.aborted = r.aborted /\ q.logic = r.logic
  BY <1>2 DEF ConnRec
<1>4. s = [q EXCEPT !.token = redis.token, !.owner = redis.logic] BY <1>2 DEF LoadOnline, ReconnectLoads
<1>5. /\ s \in ConnRec /\ s.gate = q.gate /\ s.open = q.open /\ s.token = redis.token /\ s.owner = redis.logic
      /\ s.reconnect = q.reconnect /\ s.prev = q.prev /\ s.user = q.user /\ s.aborted = q.aborted /\ s.logic = q.logic
  BY ONLY <1>1, <1>3, <1>4 DEF ConnRec
<1> QED BY <1>3, <1>5 DEF HasLoaded, Resumes

\* Assignments of the phase, the Logic and open that keep the rest of a record.
LEMMA NextRec == ASSUME NEW r \in ConnRec, NEW s, GoesOn(r, s) PROVE Follows(r, s)
<1>1. ASSUME NEW l \in Logics, s = [r EXCEPT !.pc = "rpc", !.logic = l] PROVE Follows(r, s)
  BY <1>1 DEF ConnRec, ConnPc, Follows
<1>2. ASSUME s = [r EXCEPT !.pc = "loaded"] PROVE Follows(r, s)
  BY <1>2 DEF ConnRec, ConnPc, Follows
<1>3. ASSUME s = Rejected(r) PROVE Follows(r, s)
  BY <1>3 DEF ConnRec, ConnPc, Rejected, Follows
<1> QED BY <1>1, <1>2, <1>3 DEF GoesOn

\* The worker of a connection gets a new record.
LEMMA PutConn == ASSUME ConnTypes, NEW c \in Conns, NEW s \in ConnRec, conn' = [conn EXCEPT ![c] = s]
                 PROVE  ConnTypes' /\ Others(c) /\ conn'[c] = s
BY DEF ConnTypes, Others

\* handle_login up to its RPC.
LEMMA HandleLoginFx ==
    ASSUME Types, NEW c \in Conns, NEW g \in Gates, NEW token, HandleLogin(c, g, token)
    PROVE  /\ Loads(c, g) /\ conn'[c].reconnect = FALSE
           /\ \/ /\ conn'[c].pc = "rpc" /\ conn'[c].open = TRUE /\ conn'[c].logic \in Logics /\ Asks(c, "sent")
                 /\ redis.logic # None => conn'[c].logic = redis.logic
              \/ conn'[c].pc = "end" /\ conn'[c].open = FALSE /\ ask' = ask
           /\ UNCHANGED <<redis, issued, raced, table, stream, count, leaving, kick, down, lsess, lbusy, lcount, ntf>>
<1>1. Starts(c, g) BY DEF HandleLogin
<1>2. /\ conn[c].pc = "none" /\ ~conn[c].reconnect /\ ~conn[c].user /\ ~conn[c].aborted /\ ask[c] = "none"
      /\ leaving[c] = "no" /\ kick[c]["logic"].pc = "idle" /\ kick[c]["gate"].pc = "idle"
      /\ down[g].pc = "up" /\ (Overlap \/ \A d \in Conns : Settled(d))
  BY <1>1, Blank
<1>3. UNCHANGED <<redis, issued, raced, table, stream, count, leaving, kick, down, lsess, lbusy, lcount, ntf>>
  BY DEF HandleLogin, gateVars
<1>4. /\ ConnTypes /\ conn[c] \in ConnRec /\ redis \in RedisRec /\ redis.logic \in Logics \cup {None}
  BY DEF Types, ConnTypes, RedisTypes, RedisRec
<1>5. conn[c].reconnect = FALSE /\ conn[c].user = FALSE /\ conn[c].aborted = FALSE BY <1>2, <1>4 DEF ConnRec
<1>6. PICK r : r = LoadOnline([conn[c] EXCEPT !.gate = g, !.open = TRUE]) OBVIOUS
<1>61. LoginLoads(conn[c], g, r) BY <1>6 DEF LoginLoads
<1>7. /\ r \in ConnRec /\ r.gate = g /\ r.open = TRUE /\ r.token = redis.token /\ r.owner = redis.logic
      /\ r.reconnect = FALSE /\ r.user = FALSE /\ r.aborted = FALSE
  <2>1. HasLoaded(conn[c], r, g) /\ r.reconnect = conn[c].reconnect BY ONLY <1>4, <1>61, LoadedRec, g \in Gates
  <2> QED BY ONLY <1>5, <2>1 DEF HasLoaded
<1>8. \/ /\ \E l \in SelectLogic(r.owner) : conn' = [conn EXCEPT ![c] = [r EXCEPT !.pc = "rpc", !.logic = l]]
         /\ ask' = [ask EXCEPT ![c] = "sent"]
      \/ conn' = [conn EXCEPT ![c] = Rejected(r)] /\ ask' = ask
  BY <1>6 DEF HandleLogin
<1>9. ASSUME NEW s, conn' = [conn EXCEPT ![c] = s],
             /\ s \in ConnRec /\ s.gate = r.gate /\ s.token = r.token /\ s.owner = r.owner
             /\ s.reconnect = r.reconnect /\ s.user = r.user /\ s.aborted = r.aborted
      PROVE  Loads(c, g) /\ conn'[c] = s /\ conn'[c].reconnect = FALSE
  <2>1. ConnTypes' /\ Others(c) /\ conn'[c] = s BY ONLY <1>4, <1>9, PutConn, c \in Conns
  <2> QED BY <1>2, <1>7, <1>9, <2>1 DEF Loads
<1>10. CASE /\ \E l \in SelectLogic(r.owner) : conn' = [conn EXCEPT ![c] = [r EXCEPT !.pc = "rpc", !.logic = l]]
            /\ ask' = [ask EXCEPT ![c] = "sent"]
  <2>1. PICK l \in SelectLogic(redis.logic) : conn' = [conn EXCEPT ![c] = [r EXCEPT !.pc = "rpc", !.logic = l]]
    BY <1>7, <1>10
  <2>2. l \in Logics /\ (redis.logic # None => l = redis.logic) BY <1>4 DEF SelectLogic
  <2>3. PICK s : s = [r EXCEPT !.pc = "rpc", !.logic = l] OBVIOUS
  <2>4. /\ s \in ConnRec /\ s.gate = r.gate /\ s.token = r.token /\ s.owner = r.owner
        /\ s.reconnect = r.reconnect /\ s.user = r.user /\ s.aborted = r.aborted
    <3>1. GoesOn(r, s) BY <2>2, <2>3 DEF GoesOn
    <3>2. Follows(r, s) BY ONLY <1>7, <3>1, NextRec
    <3> QED BY ONLY <3>2 DEF Follows
  <2>5. s.pc = "rpc" /\ s.open = TRUE /\ s.logic = l BY ONLY <1>7, <2>3 DEF ConnRec
  <2>6. Loads(c, g) /\ conn'[c] = s /\ conn'[c].reconnect = FALSE BY <1>9, <2>1, <2>3, <2>4
  <2>7. Asks(c, "sent") BY <1>10 DEF Asks, Types, LogicTypes
  <2> QED BY <1>3, <2>2, <2>5, <2>6, <2>7
<1>11. CASE conn' = [conn EXCEPT ![c] = Rejected(r)] /\ ask' = ask
  <2>1. PICK s : s = Rejected(r) OBVIOUS
  <2>2. /\ s \in ConnRec /\ s.gate = r.gate /\ s.token = r.token /\ s.owner = r.owner
        /\ s.reconnect = r.reconnect /\ s.user = r.user /\ s.aborted = r.aborted
    <3>1. GoesOn(r, s) BY <2>1 DEF GoesOn
    <3>2. Follows(r, s) BY ONLY <1>7, <3>1, NextRec
    <3> QED BY ONLY <3>2 DEF Follows
  <2>3. s.pc = "end" /\ s.open = FALSE BY ONLY <1>7, <2>1 DEF ConnRec, Rejected
  <2>4. Loads(c, g) /\ conn'[c] = s /\ conn'[c].reconnect = FALSE BY <1>9, <1>11, <2>1, <2>2
  <2> QED BY <1>3, <1>11, <2>3, <2>4
<1> QED BY <1>8, <1>10, <1>11

\* handle_reconnect up to verify_online.
LEMMA HandleReconnectFx ==
    ASSUME Types, NEW c \in Conns, NEW prev \in Conns, NEW token, HandleReconnect(c, prev, token)
    PROVE  /\ conn[prev].gate \in Gates /\ prev # c /\ Loads(c, conn[prev].gate) /\ conn'[c].reconnect = TRUE /\ conn'[c].prev = prev
           /\ Reconnects # "none" /\ conn[prev].user /\ ~conn[prev].open /\ (Reconnects = "recorded" => redis.sess \in {prev, None})
           /\ \/ conn'[c].pc = "loaded" /\ conn'[c].open = TRUE
              \/ conn'[c].pc = "end" /\ conn'[c].open = FALSE
           /\ UNCHANGED <<redis, issued, raced, table, stream, count, leaving, kick, down, ask, lsess, lbusy, lcount, ntf>>
<1> DEFINE g == conn[prev].gate
<1>1. /\ Reconnects # "none" /\ conn[prev].user /\ ~conn[prev].open /\ (Reconnects = "recorded" => redis.sess \in {prev, None})
      /\ Starts(c, g)
  BY DEF HandleReconnect, Here
<1>2. g \in Gates BY <1>1 DEF Types, Begun, BegunConn
<1>3. /\ conn[c].pc = "none" /\ ~conn[c].reconnect /\ ~conn[c].user /\ ~conn[c].aborted /\ ask[c] = "none"
      /\ leaving[c] = "no" /\ kick[c]["logic"].pc = "idle" /\ kick[c]["gate"].pc = "idle"
      /\ down[g].pc = "up" /\ (Overlap \/ \A d \in Conns : Settled(d))
  BY <1>1, <1>2, Blank
<1>4. UNCHANGED <<redis, issued, raced, table, stream, count, leaving, kick, down, ask, lsess, lbusy, lcount, ntf>>
  BY DEF HandleReconnect, gateVars, logicVars
<1>5. prev # c BY <1>1, <1>3
<1>6. ConnTypes /\ conn[c] \in ConnRec /\ redis \in RedisRec BY DEF Types, ConnTypes, RedisTypes
<1>7. conn[c].user = FALSE /\ conn[c].aborted = FALSE BY <1>3, <1>6 DEF ConnRec
<1>8. PICK r : r = LoadOnline([conn[c] EXCEPT !.gate = g, !.open = TRUE, !.reconnect = TRUE, !.prev = prev]) OBVIOUS
<1>81. ReconnectLoads(conn[c], g, prev, r) BY <1>8 DEF ReconnectLoads
<1>9. /\ r \in ConnRec /\ r.gate = g /\ r.open = TRUE /\ r.token = redis.token /\ r.owner = redis.logic
      /\ r.reconnect = TRUE /\ r.prev = prev /\ r.user = FALSE /\ r.aborted = FALSE
  <2>1. HasLoaded(conn[c], r, g) /\ Resumes(r, prev)
    BY ONLY <1>2, <1>6, <1>81, ReloadedRec, prev \in Conns
  <2> QED BY ONLY <1>7, <2>1 DEF HasLoaded, Resumes
<1>10. PICK s : conn' = [conn EXCEPT ![c] = s] /\ (s = [r EXCEPT !.pc = "loaded"] \/ s = Rejected(r))
  <2>1. conn' = [conn EXCEPT ![c] = [r EXCEPT !.pc = "loaded"]] \/ conn' = [conn EXCEPT ![c] = Rejected(r)]
    BY <1>8 DEF HandleReconnect, Here
  <2> QED BY <2>1
<1>11. /\ s \in ConnRec /\ s.gate = r.gate /\ s.token = r.token /\ s.owner = r.owner
       /\ s.reconnect = r.reconnect /\ s.prev = r.prev /\ s.user = r.user /\ s.aborted = r.aborted
  <2>1. GoesOn(r, s) BY <1>10 DEF GoesOn
  <2>2. Follows(r, s) BY ONLY <1>9, <2>1, NextRec
  <2> QED BY ONLY <2>2 DEF Follows
<1>12. \/ s.pc = "loaded" /\ s.open = TRUE
       \/ s.pc = "end" /\ s.open = FALSE
  BY ONLY <1>9, <1>10 DEF ConnRec, Rejected
<1>13. ConnTypes' /\ Others(c) /\ conn'[c] = s BY ONLY <1>6, <1>10, <1>11, PutConn, c \in Conns
<1>14. Loads(c, g) BY <1>3, <1>9, <1>11, <1>13 DEF Loads
<1> QED BY <1>1, <1>2, <1>4, <1>5, <1>9, <1>11, <1>12, <1>13, <1>14
-----------------------------------------------------------------------------
(* The types are kept *)

\* What has begun stays begun, at the same Gate and Logic.
Grows == \A c \in Conns : /\ conn[c].pc # "none" => conn'[c].pc # "none" /\ conn'[c].gate = conn[c].gate
                          /\ ask[c] # "none" => ask'[c] # "none" /\ conn'[c].logic = conn[c].logic

\* A part of Begun whose own variables a step leaves alone is kept.
LEMMA FrameAsk == ASSUME Types, Grows, UNCHANGED <<ask, lbusy, lsess>> PROVE BegunAsk'
BY DEF Types, Begun, BegunAsk, Grows
\* The same for BegunLeave.
LEMMA FrameLeave == ASSUME Types, Grows, UNCHANGED leaving PROVE BegunLeave'
BY DEF Types, Begun, BegunLeave, Grows
\* The same for BegunNtf.
LEMMA FrameNtf == ASSUME Types, Grows, UNCHANGED ntf PROVE BegunNtf'
BY DEF Types, Begun, BegunNtf, Grows, LogicTypes
\* The same for BegunLogic.
LEMMA FrameLogic == ASSUME Types, Grows, UNCHANGED lsess PROVE BegunLogic'
BY DEF Types, Begun, BegunLogic, Grows, LogicTypes
\* The same for BegunDown.
LEMMA FrameDown == ASSUME Types, Grows, UNCHANGED down PROVE BegunDown'
<1>1. \A g \in Gates : down[g].sid \in Conns \cup {None} BY DEF Types, LeaveTypes, DownRec
<1> QED BY <1>1 DEF Types, Begun, BegunDown, Grows

\* BegunKick is kept when only kicks of workers that have begun begin.
LEMMA KickBegun == ASSUME Types, Grows,
                          \A c \in Conns, who \in Kickers : kick'[c][who].pc # "idle" => kick[c][who].pc # "idle" \/ conn[c].pc # "none"
                   PROVE  BegunKick'
BY DEF Types, Begun, BegunKick, Grows
\* The same for BegunKick.
LEMMA FrameKick == ASSUME Types, Grows, UNCHANGED kick PROVE BegunKick'
BY DEF Types, Begun, BegunKick, Grows

\* BegunStream depends on the session ids and Logics of the objects.
LEMMA StreamBegun == ASSUME Types, Grows, \A o \in Conns : stream'[o].sid = stream[o].sid /\ stream'[o].logic = stream[o].logic
                     PROVE  BegunStream'
<1>1. stream \in [Conns -> StreamRec] BY DEF Types, GateTypes
<1>2. \A o \in Conns : stream[o].sid \in Conns \cup {None} BY <1>1 DEF StreamRec
<1>3. \A o \in Conns : stream[o].sid # None => conn[stream[o].sid].pc # "none"
  BY <1>2 DEF Types, Begun, BegunStream, BegunConn
<1> QED BY <1>2, <1>3 DEF Types, Begun, BegunStream, Grows
\* The same for BegunStream.
LEMMA FrameStream == ASSUME Types, Grows, UNCHANGED stream PROVE BegunStream'
BY StreamBegun

\* BegunTable is kept when a table only loses objects.
LEMMA TableBegun == ASSUME Types, Grows, \A g \in Gates : table'[g] \in {None, table[g]}, \A o \in Conns : stream'[o].sid = stream[o].sid
                    PROVE  BegunTable'
BY DEF Types, Begun, BegunTable, BegunStream, Grows, GateTypes
\* The same for BegunTable.
LEMMA FrameTable == ASSUME Types, Grows, UNCHANGED <<table, stream>> PROVE BegunTable'
BY TableBegun

\* Going offline changes nothing else of an object.
LEMMA OfflineSame == ASSUME NEW p \in Conns, Offline(p)
                     PROVE  \A o \in Conns : stream'[o].sid = stream[o].sid /\ stream'[o].logic = stream[o].logic
BY DEF Offline

\* Workers and requests that stay as they are.
LEMMA StayBegun == ASSUME Types, conn' = conn, ask' = ask PROVE Grows /\ BegunConn'
BY DEF Types, Begun, BegunConn, Grows
\* A request that changes its state.
LEMMA AsksBegun ==
    ASSUME Types, conn' = conn, NEW c \in Conns, NEW p, p # "none", ask[c] # "none", Asks(c, p)
    PROVE  Grows /\ BegunConn'
BY DEF Types, Begun, BegunConn, Grows, Asks
\* A worker that goes on.
LEMMA MovesBegun == ASSUME Types, ask' = ask, NEW c \in Conns, NEW p \in ConnPc \ {"none", "loaded"}, Moves(c, p), conn[c].pc # "none",
                           p \in Routed => conn[c].pc \in Routed
                    PROVE  Grows /\ BegunConn'
<1>1. Grows BY DEF Grows, Moves, Keeps, Others
<1>2. BegunConn' BY DEF Types, Begun, BegunConn, Moves, Keeps, Others
<1> QED BY <1>1, <1>2
\* A worker that ends.
LEMMA EndsBegun == ASSUME Types, ask' = ask, NEW c \in Conns, Ends(c), conn[c].pc # "none" PROVE Grows /\ BegunConn'
<1>1. Grows BY DEF Grows, Ends, Keeps, Others
<1>2. BegunConn' BY DEF Types, Begun, BegunConn, Ends, Keeps, Others, Routed
<1> QED BY <1>1, <1>2
\* A connection that closes.
LEMMA ClosesBegun == ASSUME Types, ask' = ask, NEW c \in Conns, Closes(c) PROVE Grows /\ BegunConn'
<1>1. Grows BY DEF Grows, Closes, Keeps, Others
<1>2. BegunConn' BY DEF Types, Begun, BegunConn, Closes, Keeps, Others
<1> QED BY <1>1, <1>2
\* A worker that is to be aborted.
LEMMA AbortsBegun ==
    ASSUME Types, ask' = ask, NEW c \in Conns, Aborts(c), conn[c].pc # "none"
    PROVE  Grows /\ BegunConn'
<1>1. Grows BY DEF Grows, Aborts, Keeps, Others
<1>2. BegunConn' BY DEF Types, Begun, BegunConn, Aborts, Keeps, Others
<1> QED BY <1>1, <1>2

\* SetToken keeps the types.
LEMMA SetTokenTypes == ASSUME Types, SetToken PROVE Types'
<1>1. /\ RedisTypes' /\ issued' = issued + 1 /\ (raced' \/ \A c \in Conns : ~HoldsRecord(c))
      /\ redis'.token = issued' /\ redis'.sess = redis.sess /\ redis'.gate = redis.gate
      /\ redis'.logic = redis.logic
      /\ UNCHANGED <<conn, table, stream, count, leaving, kick, down, ask, lsess, lbusy, lcount, ntf>>
  BY SetTokenFx
<1>2. RedisTypes' /\ ConnTypes' /\ GateTypes' /\ LeaveTypes' /\ LogicTypes'
  BY <1>1 DEF Types, RedisTypes, ConnTypes, GateTypes, LeaveTypes, LogicTypes
<1>3. Grows /\ BegunConn' BY <1>1, StayBegun
<1> QED BY <1>1, <1>2, <1>3, FrameAsk, FrameLeave, FrameKick, FrameNtf, FrameLogic, FrameStream, FrameTable,
    FrameDown DEF Types, Begun

\* PruneExpired keeps the types.
LEMMA PruneExpiredTypes == ASSUME Types, NEW g \in Gates, PruneExpired(g) PROVE Types'
<1>1. /\ table \in [Gates -> Conns \cup {None}] /\ table' \in [Gates -> Conns \cup {None}]
      /\ table[g] # None /\ ~Active(g) /\ table'[g] = None
      /\ \A h \in Gates : h # g => table'[h] = table[h]
      /\ UNCHANGED <<redis, issued, raced, conn, stream, count, leaving, kick, down, ask, lsess, lbusy, lcount, ntf>>
  BY PruneFx
<1>2. RedisTypes' /\ ConnTypes' /\ GateTypes' /\ LeaveTypes' /\ LogicTypes'
  BY <1>1 DEF Types, RedisTypes, ConnTypes, GateTypes, LeaveTypes, LogicTypes
<1>3. Grows /\ BegunConn' BY <1>1, StayBegun
<1>4. BegunTable' BY <1>1, <1>3, TableBegun
<1> QED BY <1>1, <1>2, <1>3, <1>4, FrameAsk, FrameLeave, FrameKick, FrameNtf, FrameLogic, FrameStream, FrameDown DEF
    Types, Begun

\* BeginShutdown keeps the types.
LEMMA BeginShutdownTypes == ASSUME Types, NEW g \in Gates, BeginShutdown(g) PROVE Types'
<1>1. /\ g \in MayStop /\ down[g].pc = "up" /\ down'[g].pc = "draining" /\ down'[g].sid = down[g].sid
      /\ down' \in [Gates -> DownRec] /\ \A h \in Gates : h # g => down'[h] = down[h]
      /\ ConnTypes'
      /\ \A c \in Conns : /\ conn[c].gate # g => conn'[c] = conn[c]
                          /\ conn[c].gate = g => conn'[c].open = FALSE
                          /\ Keeps(c) /\ conn'[c].pc = conn[c].pc /\ conn'[c].user = conn[c].user
                          /\ conn'[c].aborted = conn[c].aborted
      /\ UNCHANGED <<redis, issued, raced, table, stream, count, leaving, kick, ask, lsess, lbusy, lcount, ntf>>
  BY BeginShutdownFx
<1>2. RedisTypes' /\ ConnTypes' /\ GateTypes' /\ LeaveTypes' /\ LogicTypes'
  BY <1>1 DEF Types, RedisTypes, ConnTypes, GateTypes, LeaveTypes, LogicTypes
<1>3. Grows /\ BegunConn' BY <1>1 DEF Types, Begun, BegunConn, Grows, Keeps, Routed
<1>4. BegunDown' BY <1>1 DEF Types, Begun, BegunDown
<1> QED BY <1>1, <1>2, <1>3, <1>4, FrameAsk, FrameLeave, FrameKick, FrameNtf, FrameLogic, FrameStream, FrameTable
    DEF Types, Begun

\* ShutdownDrain keeps the types.
LEMMA ShutdownDrainTypes == ASSUME Types, NEW g \in Gates, ShutdownDrain(g) PROVE Types'
<1>1. /\ down[g].pc = "draining" /\ WorkersEnded(g)
      /\ GateTypes' /\ table'[g] = None /\ \A h \in Gates : h # g => table'[h] = table[h]
      /\ \A h \in Gates : h # g => count'[h] = count[h]
      /\ down' \in [Gates -> DownRec] /\ \A h \in Gates : h # g => down'[h] = down[h]
      /\ table[g] = None => down'[g].pc = "down" /\ stream' = stream
      /\ table[g] # None => down'[g].pc = "notify" /\ down'[g].sid = stream[table[g]].sid /\ Offline(table[g])
      /\ UNCHANGED <<redis, issued, raced, conn, leaving, kick, ask, lsess, lbusy, lcount, ntf>>
  BY ShutdownDrainFx
<1>2. RedisTypes' /\ ConnTypes' /\ GateTypes' /\ LeaveTypes' /\ LogicTypes'
  BY <1>1 DEF Types, RedisTypes, ConnTypes, GateTypes, LeaveTypes, LogicTypes
<1>3. Grows /\ BegunConn' BY <1>1, StayBegun
<1>4. BegunStream' BY <1>1, <1>3, StreamBegun, OfflineSame DEF Types, GateTypes
<1>5. BegunTable' BY <1>1, <1>3, TableBegun, OfflineSame DEF Types, GateTypes
<1>6. BegunDown'
  <2>1. table[g] # None => stream[table[g]].sid # None /\ ask[stream[table[g]].sid] # "none"
    BY DEF Types, GateTypes, Begun, BegunTable, BegunStream
  <2> QED BY <1>1, <2>1 DEF Types, Begun, BegunDown
<1> QED BY <1>1, <1>2, <1>3, <1>4, <1>5, <1>6, FrameAsk, FrameLeave, FrameKick, FrameNtf, FrameLogic DEF Types, Begun

\* ShutdownNotify keeps the types.
LEMMA ShutdownNotifyTypes == ASSUME Types, NEW g \in Gates, ShutdownNotify(g) PROVE Types'
<1>1. /\ down[g].pc = "notify" /\ DownMoves(g, "clear")
      /\ ntf' = ntf \cup {down[g].sid} \/ (May("notify") /\ ntf' = ntf)
      /\ UNCHANGED <<redis, issued, raced, conn, table, stream, count, leaving, kick, ask, lsess, lbusy, lcount>>
  BY ShutdownNotifyFx
<1>2. RedisTypes' /\ ConnTypes' /\ GateTypes' /\ LeaveTypes' /\ LogicTypes'
  <2>1. down[g].sid \in Conns BY <1>1 DEF Types, LeaveTypes, DownRec, Begun, BegunDown
  <2>2. ntf' \subseteq Conns BY <1>1, <2>1 DEF Types, LogicTypes
  <2>3. LeaveTypes' /\ LogicTypes' BY <1>1, <2>2 DEF Types, LeaveTypes, LogicTypes, DownMoves
  <2> QED BY <1>1, <2>3 DEF Types, RedisTypes, ConnTypes, GateTypes
<1>3. Grows /\ BegunConn' BY <1>1, StayBegun
<1>4. BegunNtf' BY <1>1 DEF Types, Begun, BegunNtf, BegunDown
<1>5. BegunDown' BY <1>1 DEF Types, Begun, BegunDown, DownMoves
<1> QED BY <1>1, <1>2, <1>3, <1>4, <1>5, FrameAsk, FrameLeave, FrameKick, FrameLogic, FrameStream, FrameTable DEF
    Types, Begun

\* ShutdownClear keeps the types.
LEMMA ShutdownClearTypes == ASSUME Types, NEW g \in Gates, ShutdownClear(g) PROVE Types'
<1>1. /\ down[g].pc = "clear" /\ DownMoves(g, "down") /\ down[g].sid \in Conns /\ Cleared(down[g].sid)
      /\ UNCHANGED <<conn, table, stream, count, leaving, kick, ask, lsess, lbusy, lcount, ntf>>
  BY ShutdownClearFx
<1>2. RedisTypes' /\ ConnTypes' /\ GateTypes' /\ LeaveTypes' /\ LogicTypes'
  BY <1>1 DEF Types, RedisTypes, ConnTypes, GateTypes, LeaveTypes, LogicTypes, DownMoves, Cleared
<1>3. Grows /\ BegunConn' BY <1>1, StayBegun
<1>4. BegunDown' BY <1>1 DEF Types, Begun, BegunDown, DownMoves
<1> QED BY <1>1, <1>2, <1>3, <1>4, FrameAsk, FrameLeave, FrameKick, FrameNtf, FrameLogic, FrameStream, FrameTable
    DEF Types, Begun

\* AuthorizeReconnect keeps the types.
LEMMA AuthorizeReconnectTypes == ASSUME Types, NEW c \in Conns, AuthorizeReconnect(c) PROVE Types'
<1>1. /\ conn[c].pc = "loaded" /\ conn[c].gate \in Gates /\ ConnTypes' /\ LogicTypes' /\ Others(c)
      /\ \/ /\ Holds(conn[c].gate, conn[c].prev) /\ table[conn[c].gate] \in Conns
            /\ conn[c].owner = stream[table[conn[c].gate]].logic /\ conn[c].owner \in Logics
            /\ conn'[c].pc = "rpc" /\ conn'[c].logic = conn[c].owner
            /\ conn'[c].gate = conn[c].gate /\ conn'[c].reconnect = conn[c].reconnect
            /\ conn'[c].prev = conn[c].prev /\ conn'[c].token = conn[c].token
            /\ conn'[c].owner = conn[c].owner /\ conn'[c].open = conn[c].open
            /\ conn'[c].user = conn[c].user /\ conn'[c].aborted = conn[c].aborted
            /\ ask'[c] = "sent" /\ \A d \in Conns : d # c => ask'[d] = ask[d]
         \/ Ends(c) /\ ask' = ask
      /\ UNCHANGED <<redis, issued, raced, table, stream, count, leaving, kick, down, lsess, lbusy, lcount, ntf>>
  BY AuthorizeFx
<1>2. RedisTypes' /\ ConnTypes' /\ GateTypes' /\ LeaveTypes' /\ LogicTypes'
  BY <1>1 DEF Types, RedisTypes, ConnTypes, GateTypes, LeaveTypes, LogicTypes, Ends
<1>3. Grows /\ BegunConn'
  <2>1. CASE Ends(c) /\ ask' = ask BY <1>1, <2>1, EndsBegun
  <2>2. CASE ask'[c] = "sent" /\ conn'[c].pc = "rpc"
    <3>1. Grows BY <1>1, <2>2 DEF Grows, Types, Begun, BegunConn, Others
    <3>2. BegunConn' BY <1>1, <2>2 DEF Types, Begun, BegunConn, Others
    <3> QED BY <3>1, <3>2
  <2> QED BY <1>1, <2>1, <2>2
<1>4. BegunAsk'
  <2>1. \A d \in Conns : ask'[d] = "kick" => ask[d] = "kick" /\ conn'[d].logic = conn[d].logic
    BY <1>1 DEF Ends, Keeps, Others
  <2> QED BY <1>1, <2>1 DEF Types, Begun, BegunAsk
<1> QED BY <1>1, <1>2, <1>3, <1>4, FrameLeave, FrameKick, FrameNtf, FrameLogic, FrameStream, FrameTable, FrameDown
    DEF Types, Begun

\* LogicAnswers keeps the types.
LEMMA LogicAnswersTypes == ASSUME Types, NEW c \in Conns, LogicAnswers(c) PROVE Types'
<1>1. /\ conn[c].pc = "rpc" /\ conn[c].gate \in Gates
      /\ \/ /\ ask[c] = "ok" /\ ConnTypes' /\ Others(c) /\ Keeps(c) /\ conn'[c].user = TRUE
            /\ conn'[c].open = conn[c].open /\ conn'[c].aborted = conn[c].aborted
            /\ conn[c].open => conn'[c].pc = "checked"
            /\ ~conn[c].open => conn'[c].pc = "end"
         \/ (ask[c] = "err" \/ May("rpc")) /\ Ends(c)
      /\ UNCHANGED <<redis, issued, raced, table, stream, count, leaving, kick, down, ask, lsess, lbusy, lcount, ntf>>
  BY AnswersFx
<1>2. RedisTypes' /\ ConnTypes' /\ GateTypes' /\ LeaveTypes' /\ LogicTypes'
  BY <1>1 DEF Types, RedisTypes, ConnTypes, GateTypes, LeaveTypes, LogicTypes, Ends
<1>3. Grows /\ BegunConn'
  <2>1. CASE Ends(c) BY <1>1, <2>1, EndsBegun
  <2>2. CASE ask[c] = "ok" /\ Others(c) /\ Keeps(c) /\ conn'[c].pc \in {"checked", "end"}
    <3>1. Grows BY <1>1, <2>2 DEF Grows, Others, Keeps
    <3>2. BegunConn' BY <1>1, <2>2 DEF Types, Begun, BegunConn, Others, Keeps
    <3> QED BY <3>1, <3>2
  <2> QED BY <1>1, <2>1, <2>2
<1> QED BY <1>1, <1>2, <1>3, FrameAsk, FrameLeave, FrameKick, FrameNtf, FrameLogic, FrameStream, FrameTable,
    FrameDown DEF Types, Begun

\* InstallLogin keeps the types.
LEMMA InstallLoginTypes == ASSUME Types, NEW c \in Conns, InstallLogin(c) PROVE Types'
<1>1. /\ conn[c].pc = "checked" /\ ~conn[c].reconnect /\ Moves(c, "save")
      /\ conn[c].gate \in Gates /\ conn[c].logic \in Logics /\ GateTypes'
      /\ table'[conn[c].gate] = c /\ \A h \in Gates : h # conn[c].gate => table'[h] = table[h]
      /\ Resumed(c, c) /\ stream'[c].logic = conn[c].logic /\ CountsUp(conn[c].gate)
      /\ UNCHANGED <<redis, issued, raced, leaving, kick, down, ask, lsess, lbusy, lcount, ntf>>
  BY InstallFx
<1>2. RedisTypes' /\ ConnTypes' /\ GateTypes' /\ LeaveTypes' /\ LogicTypes'
  BY <1>1 DEF Types, RedisTypes, ConnTypes, GateTypes, LeaveTypes, LogicTypes, Moves
<1>3. Grows /\ BegunConn' BY <1>1, MovesBegun DEF Routed, ConnPc
<1>4. BegunStream'
  <2>1. /\ ask'[c] # "none" /\ stream'[c].logic \in Logics /\ conn'[c].pc # "none" /\ stream'[c].sid = c
    BY <1>1 DEF Types, Begun, BegunConn, Resumed, Moves, Routed
  <2>2. \A o \in Conns : stream[o].sid \in Conns \cup {None} BY DEF Types, GateTypes, StreamRec
  <2>3. \A o \in Conns : o # c => stream'[o] = stream[o] BY <1>1 DEF Resumed
  <2>4. \A o \in Conns : stream[o].sid # None => conn[stream[o].sid].pc # "none"
    BY <2>2 DEF Types, Begun, BegunStream, BegunConn
  <2> QED BY <1>3, <2>1, <2>2, <2>3, <2>4 DEF Types, Begun, BegunStream, Grows
<1>5. BegunTable' BY <1>1, <1>3 DEF Types, GateTypes, Begun, BegunTable, BegunStream, Resumed, Grows, Moves, Keeps
<1> QED BY <1>1, <1>2, <1>3, <1>4, <1>5, FrameAsk, FrameLeave, FrameKick, FrameNtf, FrameLogic, FrameDown DEF Types,
    Begun

\* CompleteReconnect keeps the types.
LEMMA CompleteReconnectTypes == ASSUME Types, NEW c \in Conns, CompleteReconnect(c) PROVE Types'
<1>1. /\ conn[c].pc = "checked" /\ conn[c].reconnect /\ conn[c].gate \in Gates /\ GateTypes' /\ table' = table
      /\ \/ /\ Holds(conn[c].gate, conn[c].prev) /\ table[conn[c].gate] \in Conns
            /\ Resumed(table[conn[c].gate], c)
            /\ stream'[table[conn[c].gate]].logic = stream[table[conn[c].gate]].logic
            /\ CountsUp(conn[c].gate) /\ Moves(c, "save")
         \/ Ends(c) /\ stream' = stream /\ count' = count
      /\ UNCHANGED <<redis, issued, raced, leaving, kick, down, ask, lsess, lbusy, lcount, ntf>>
  BY CompleteFx
<1>2. RedisTypes' /\ ConnTypes' /\ GateTypes' /\ LeaveTypes' /\ LogicTypes'
  BY <1>1 DEF Types, RedisTypes, ConnTypes, GateTypes, LeaveTypes, LogicTypes, Moves, Ends
<1>3. Grows /\ BegunConn' BY <1>1, MovesBegun, EndsBegun DEF Routed, ConnPc
<1>4. BegunStream'
  <2>1. CASE stream' = stream BY <1>3, <2>1, StreamBegun
  <2>2. CASE Resumed(table[conn[c].gate], c) /\ Holds(conn[c].gate, conn[c].prev)
    <3>1. /\ stream[table[conn[c].gate]].sid # None /\ conn[table[conn[c].gate]].gate = conn[c].gate
          /\ table[conn[c].gate] \in Conns /\ ask[c] # "none"
      BY <1>1, <2>2 DEF Holds, Types, Begun, BegunTable, BegunConn, GateTypes, Routed
    <3>2. \A o \in Conns : stream[o].sid \in Conns \cup {None} BY DEF Types, GateTypes, StreamRec
    <3>3. stream'[table[conn[c].gate]].logic = stream[table[conn[c].gate]].logic BY <1>1, <2>2
    <3> QED BY <1>1, <1>3, <2>2, <3>1, <3>2, <3>3 DEF Types, Begun, BegunStream, BegunConn, Resumed, Grows
  <2> QED BY <1>1, <2>1, <2>2
<1>5. BegunTable'
  <2>1. \A o \in Conns : stream[o].sid # None => stream'[o].sid # None
    BY <1>1, SessionConfig DEF Resumed, SessionConfig
  <2> QED BY <1>1, <1>3, <2>1 DEF Types, GateTypes, Begun, BegunTable, BegunStream, Grows
<1> QED BY <1>1, <1>2, <1>3, <1>4, <1>5, FrameAsk, FrameLeave, FrameKick, FrameNtf, FrameLogic, FrameDown DEF Types,
    Begun

\* SaveOnline keeps the types.
LEMMA SaveOnlineTypes == ASSUME Types, NEW c \in Conns, SaveOnline(c) PROVE Types'
<1>1. /\ conn[c].pc = "save" /\ conn[c].gate \in Gates
      /\ \/ Written(c)
         \/ conn[c].aborted /\ redis' = redis /\ issued' = issued /\ raced' = raced
      /\ \/ conn[c].aborted /\ Moves(c, "end")
         \/ ~conn[c].aborted /\ Moves(c, "on")
      /\ UNCHANGED <<table, stream, count, leaving, kick, down, ask, lsess, lbusy, lcount, ntf>>
  BY SaveFx
<1>2. RedisTypes' /\ ConnTypes' /\ GateTypes' /\ LeaveTypes' /\ LogicTypes'
  BY <1>1 DEF Types, RedisTypes, ConnTypes, GateTypes, LeaveTypes, LogicTypes, Moves, Written
<1>3. Grows /\ BegunConn' BY <1>1, MovesBegun DEF Routed, ConnPc
<1> QED BY <1>1, <1>2, <1>3, FrameAsk, FrameLeave, FrameKick, FrameNtf, FrameLogic, FrameStream, FrameTable,
    FrameDown DEF Types, Begun

\* KickLocal keeps the types.
LEMMA KickLocalTypes == ASSUME Types, NEW c \in Conns, KickLocal(c) PROVE Types'
<1>1. /\ conn[c].pc = "save" /\ ~conn[c].aborted /\ conn[c].gate \in Gates
      /\ \/ May("redis") /\ redis' = redis /\ issued' = issued /\ raced' = raced
         \/ (May("redis") \/ conn[c].reconnect) /\ Written(c)
      /\ Moves(c, "kicking") /\ KickMoves(c, "gate", "asked")
      /\ UNCHANGED <<table, stream, count, leaving, down, ask, lsess, lbusy, lcount, ntf>>
  BY KickLocalFx
<1>2. RedisTypes' /\ ConnTypes' /\ GateTypes' /\ LeaveTypes' /\ LogicTypes'
  BY <1>1 DEF Types, RedisTypes, ConnTypes, GateTypes, LeaveTypes, LogicTypes, Moves, Written, KickMoves
<1>3. Grows /\ BegunConn' BY <1>1, MovesBegun DEF Routed, ConnPc
<1>4. BegunKick' BY <1>1, <1>3, KickBegun DEF KickMoves
<1> QED BY <1>1, <1>2, <1>3, <1>4, FrameAsk, FrameLeave, FrameNtf, FrameLogic, FrameStream, FrameTable, FrameDown
    DEF Types, Begun

\* KickTake keeps the types.
LEMMA KickTakeTypes == ASSUME Types, NEW c \in Conns, NEW who \in Kickers, KickTake(c, who) PROVE Types'
<1>1. /\ kick[c][who].pc = "asked" /\ conn[c].gate \in Gates /\ (who = "logic" => down[conn[c].gate].pc = "up")
      /\ \/ /\ Holds(conn[c].gate, c) /\ table[conn[c].gate] \in Conns /\ Offline(table[conn[c].gate])
            /\ kick' \in [Conns -> [Kickers -> KickRec]]
            /\ kick'[c][who].pc = "taken" /\ kick'[c][who].obj = table[conn[c].gate]
            /\ kick'[c][who].active = Active(conn[c].gate)
            /\ \A d \in Conns, w \in Kickers : <<d, w>> # <<c, who>> => kick'[d][w] = kick[d][w]
         \/ ~Holds(conn[c].gate, c) /\ who = "gate" /\ KickMoves(c, who, "clear") /\ stream' = stream
         \/ ~Holds(conn[c].gate, c) /\ who = "logic" /\ KickMoves(c, who, "done") /\ stream' = stream
      /\ UNCHANGED <<redis, issued, raced, conn, table, count, leaving, down, ask, lsess, lbusy, lcount, ntf>>
  BY KickTakeFx
<1>2. RedisTypes' /\ ConnTypes' /\ GateTypes' /\ LeaveTypes' /\ LogicTypes'
  BY <1>1 DEF Types, RedisTypes, ConnTypes, GateTypes, LeaveTypes, LogicTypes, KickMoves, Offline
<1>3. Grows /\ BegunConn' BY <1>1, StayBegun
<1>4. BegunKick' BY <1>1, <1>3, KickBegun DEF KickMoves
<1>5. BegunStream' BY <1>1, <1>3, StreamBegun, OfflineSame
<1>6. BegunTable' BY <1>1, <1>3, TableBegun, OfflineSame DEF Types, GateTypes
<1> QED BY <1>1, <1>2, <1>3, <1>4, <1>5, <1>6, FrameAsk, FrameLeave, FrameNtf, FrameLogic, FrameDown DEF Types, Begun

\* KickRemove keeps the types.
LEMMA KickRemoveTypes == ASSUME Types, NEW c \in Conns, NEW who \in Kickers, KickRemove(c, who) PROVE Types'
<1>1. /\ kick[c][who].pc = "taken" /\ conn[c].gate \in Gates /\ KickMoves(c, who, "clear")
      /\ GateTypes' /\ ConnTypes' /\ stream' = stream /\ \A h \in Gates : h # conn[c].gate => table'[h] = table[h]
      /\ table[conn[c].gate] = kick[c][who].obj => table'[conn[c].gate] = None
      /\ table[conn[c].gate] # kick[c][who].obj => table'[conn[c].gate] = table[conn[c].gate]
      /\ kick[c][who].active => CountsDown(conn[c].gate) /\ Closes(c)
      /\ ~kick[c][who].active => count' = count /\ conn' = conn
      /\ UNCHANGED <<redis, issued, raced, leaving, down, ask, lsess, lbusy, lcount, ntf>>
  BY KickRemoveFx
<1>2. RedisTypes' /\ ConnTypes' /\ GateTypes' /\ LeaveTypes' /\ LogicTypes'
  BY <1>1 DEF Types, RedisTypes, ConnTypes, GateTypes, LeaveTypes, LogicTypes, KickMoves
<1>3. Grows /\ BegunConn' BY <1>1, ClosesBegun, StayBegun
<1>4. BegunKick' BY <1>1, <1>3, KickBegun DEF KickMoves
<1>5. BegunTable' BY <1>1, <1>3, TableBegun DEF Types, GateTypes
<1> QED BY <1>1, <1>2, <1>3, <1>4, <1>5, FrameAsk, FrameLeave, FrameNtf, FrameLogic, FrameStream, FrameDown DEF
    Types, Begun

\* KickClear keeps the types.
LEMMA KickClearTypes == ASSUME Types, NEW c \in Conns, NEW who \in Kickers, KickClear(c, who) PROVE Types'
<1>1. /\ kick[c][who].pc = "clear" /\ conn[c].gate \in Gates /\ KickMoves(c, who, "done")
      /\ \/ Cleared(c)
         \/ who = "gate" /\ leaving[c] # "no" /\ redis' = redis /\ issued' = issued /\ raced' = raced
      /\ RedisTypes' /\ redis'.token = redis.token /\ redis'.logic = redis.logic
      /\ issued' = issued /\ raced' = raced
      /\ \/ who = "gate" /\ Moves(c, "end")
         \/ who = "logic" /\ ConnTypes' /\ conn' = conn
      /\ UNCHANGED <<table, stream, count, leaving, down, ask, lsess, lbusy, lcount, ntf>>
  BY KickClearFx
<1>2. RedisTypes' /\ ConnTypes' /\ GateTypes' /\ LeaveTypes' /\ LogicTypes'
  <2>1. ConnTypes' BY <1>1 DEF Moves
  <2>2. LeaveTypes' BY <1>1 DEF Types, LeaveTypes, KickMoves
  <2> QED BY <1>1, <2>1, <2>2 DEF Types, GateTypes, LogicTypes
<1>3. Grows /\ BegunConn'
  <2>1. CASE Moves(c, "end")
    <3>1. conn[c].pc # "none" BY <1>1 DEF Types, Begun, BegunKick
    <3> QED BY <1>1, <2>1, <3>1, MovesBegun DEF Routed, ConnPc
  <2>2. CASE conn' = conn BY <1>1, <2>2, StayBegun
  <2> QED BY <1>1, <2>1, <2>2
<1>4. BegunKick' BY <1>1, <1>3, KickBegun DEF KickMoves
<1> QED BY <1>1, <1>2, <1>3, <1>4, FrameAsk, FrameLeave, FrameNtf, FrameLogic, FrameStream, FrameTable, FrameDown
    DEF Types, Begun

\* HandleLogout keeps the types.
LEMMA HandleLogoutTypes == ASSUME Types, NEW c \in Conns, HandleLogout(c) PROVE Types'
<1>1. /\ Logouts /\ conn[c].pc = "on" /\ conn[c].gate \in Gates /\ Moves(c, "invalidate")
      /\ UNCHANGED <<redis, issued, raced, table, stream, count, leaving, kick, down, ask, lsess, lbusy, lcount, ntf>>
  BY LogoutFx
<1>2. RedisTypes' /\ ConnTypes' /\ GateTypes' /\ LeaveTypes' /\ LogicTypes'
  BY <1>1 DEF Types, RedisTypes, ConnTypes, GateTypes, LeaveTypes, LogicTypes, Moves
<1>3. Grows /\ BegunConn' BY <1>1, MovesBegun DEF Routed, ConnPc
<1> QED BY <1>1, <1>2, <1>3, FrameAsk, FrameLeave, FrameKick, FrameNtf, FrameLogic, FrameStream, FrameTable,
    FrameDown DEF Types, Begun

\* LogoutInvalidate keeps the types.
LEMMA LogoutInvalidateTypes == ASSUME Types, NEW c \in Conns, LogoutInvalidate(c) PROVE Types'
<1>1. /\ conn[c].pc = "invalidate" /\ conn[c].gate \in Gates /\ Moves(c, "outNotify") /\ GateTypes'
      /\ \A h \in Gates : h # conn[c].gate => table'[h] = table[h]
      /\ Holds(conn[c].gate, c) => table'[conn[c].gate] = None
      /\ ~Holds(conn[c].gate, c) => table'[conn[c].gate] = table[conn[c].gate]
      /\ UNCHANGED <<redis, issued, raced, stream, leaving, kick, down, ask, lsess, lbusy, lcount, ntf>>
  BY InvalidateFx
<1>2. RedisTypes' /\ ConnTypes' /\ GateTypes' /\ LeaveTypes' /\ LogicTypes'
  BY <1>1 DEF Types, RedisTypes, ConnTypes, GateTypes, LeaveTypes, LogicTypes, Moves
<1>3. Grows /\ BegunConn' BY <1>1, MovesBegun DEF Routed, ConnPc
<1>4. BegunTable' BY <1>1, <1>3, TableBegun
<1> QED BY <1>1, <1>2, <1>3, <1>4, FrameAsk, FrameLeave, FrameKick, FrameNtf, FrameLogic, FrameStream, FrameDown DEF
    Types, Begun

\* LogoutNotify keeps the types.
LEMMA LogoutNotifyTypes == ASSUME Types, NEW c \in Conns, LogoutNotify(c) PROVE Types'
<1>1. /\ conn[c].pc = "outNotify" /\ conn[c].gate \in Gates /\ Moves(c, "outClear")
      /\ ntf' = ntf \cup {c} \/ (May("notify") /\ ntf' = ntf)
      /\ UNCHANGED <<redis, issued, raced, table, stream, count, leaving, kick, down, ask, lsess, lbusy, lcount>>
  BY LogoutNotifyFx
<1>2. RedisTypes' /\ ConnTypes' /\ GateTypes' /\ LeaveTypes' /\ LogicTypes'
  BY <1>1 DEF Types, RedisTypes, ConnTypes, GateTypes, LeaveTypes, LogicTypes, Moves
<1>3. Grows /\ BegunConn' BY <1>1, MovesBegun DEF Routed, ConnPc
<1>4. BegunNtf' BY <1>1 DEF Types, Begun, BegunNtf, BegunConn, Routed
<1> QED BY <1>1, <1>2, <1>3, <1>4, FrameAsk, FrameLeave, FrameKick, FrameLogic, FrameStream, FrameTable, FrameDown
    DEF Types, Begun

\* LogoutClear keeps the types.
LEMMA LogoutClearTypes == ASSUME Types, NEW c \in Conns, LogoutClear(c) PROVE Types'
<1>1. /\ conn[c].pc = "outClear" /\ conn[c].gate \in Gates /\ Ends(c) /\ Cleared(c)
      /\ UNCHANGED <<table, stream, count, leaving, kick, down, ask, lsess, lbusy, lcount, ntf>>
  BY LogoutClearFx
<1>2. RedisTypes' /\ ConnTypes' /\ GateTypes' /\ LeaveTypes' /\ LogicTypes'
  BY <1>1 DEF Types, RedisTypes, ConnTypes, GateTypes, LeaveTypes, LogicTypes, Ends, Cleared
<1>3. Grows /\ BegunConn' BY <1>1, EndsBegun
<1> QED BY <1>1, <1>2, <1>3, FrameAsk, FrameLeave, FrameKick, FrameNtf, FrameLogic, FrameStream, FrameTable,
    FrameDown DEF Types, Begun

\* Break keeps the types.
LEMMA BreakTypes == ASSUME Types, NEW c \in Conns, Break(c) PROVE Types'
<1>1. /\ conn[c].open /\ Closes(c)
      /\ UNCHANGED <<redis, issued, raced, table, stream, count, leaving, kick, down, ask, lsess, lbusy, lcount, ntf>>
  BY BreakFx
<1>2. RedisTypes' /\ ConnTypes' /\ GateTypes' /\ LeaveTypes' /\ LogicTypes'
  BY <1>1 DEF Types, RedisTypes, ConnTypes, GateTypes, LeaveTypes, LogicTypes, Closes
<1>3. Grows /\ BegunConn' BY <1>1, ClosesBegun
<1> QED BY <1>1, <1>2, <1>3, FrameAsk, FrameLeave, FrameKick, FrameNtf, FrameLogic, FrameStream, FrameTable,
    FrameDown DEF Types, Begun

\* OnDisconnected keeps the types.
LEMMA OnDisconnectedTypes == ASSUME Types, NEW c \in Conns, OnDisconnected(c) PROVE Types'
<1>1. /\ leaving[c] = "no" /\ ~conn[c].open /\ conn[c].pc # "none" /\ conn[c].gate \in Gates
      /\ conn[c].pc = "end" => conn[c].user
      /\ conn[c].pc = "checked" => CloseRace \/ down[conn[c].gate].pc # "up"
      /\ leaving' \in [Conns -> {"no", "take", "notify", "clear", "done"}] /\ ConnTypes'
      /\ \A d \in Conns : d # c => leaving'[d] = leaving[d]
      /\ \/ leaving'[c] = "done" /\ (down[conn[c].gate].pc # "up" \/ ~conn[c].user)
         \/ leaving'[c] = "take" /\ down[conn[c].gate].pc = "up" /\ conn[c].user
      /\ \/ conn' = conn /\ (down[conn[c].gate].pc # "up" \/ conn[c].pc = "kicking")
         \/ conn[c].pc = "checked" /\ Aborts(c) /\ down[conn[c].gate].pc = "up"
         \/ conn[c].pc \notin {"checked", "kicking"} /\ Moves(c, "end") /\ down[conn[c].gate].pc = "up"
      /\ UNCHANGED <<redis, issued, raced, table, stream, count, kick, down, ask, lsess, lbusy, lcount, ntf>>
  BY OnDisconnectedFx
<1>2. RedisTypes' /\ ConnTypes' /\ GateTypes' /\ LeaveTypes' /\ LogicTypes'
  BY <1>1 DEF Types, RedisTypes, ConnTypes, GateTypes, LeaveTypes, LogicTypes
<1>3. Grows /\ BegunConn'
  <2>1. CASE conn' = conn BY <1>1, <2>1, StayBegun
  <2>2. CASE Aborts(c) BY <1>1, <2>2, AbortsBegun
  <2>3. CASE Moves(c, "end") BY <1>1, <2>3, MovesBegun DEF Routed, ConnPc
  <2> QED BY <1>1, <2>1, <2>2, <2>3
<1>4. BegunLeave' BY <1>1, <1>3 DEF Types, Begun, BegunLeave, Grows
<1> QED BY <1>1, <1>2, <1>3, <1>4, FrameAsk, FrameKick, FrameNtf, FrameLogic, FrameStream, FrameTable, FrameDown DEF
    Types, Begun

\* DisconnectTake keeps the types.
LEMMA DisconnectTakeTypes == ASSUME Types, NEW c \in Conns, DisconnectTake(c) PROVE Types'
<1>1. /\ leaving[c] = "take" /\ conn[c].gate \in Gates /\ GateTypes' /\ table' = table
      /\ \/ /\ Holds(conn[c].gate, c) /\ Active(conn[c].gate) /\ table[conn[c].gate] \in Conns
            /\ Offline(table[conn[c].gate]) /\ CountsDown(conn[c].gate) /\ Leaves(c, "notify")
         \/ ~(Holds(conn[c].gate, c) /\ Active(conn[c].gate)) /\ stream' = stream /\ count' = count /\ Leaves(c, "done")
      /\ UNCHANGED <<redis, issued, raced, conn, kick, down, ask, lsess, lbusy, lcount, ntf>>
  BY DisconnectTakeFx
<1>2. RedisTypes' /\ ConnTypes' /\ GateTypes' /\ LeaveTypes' /\ LogicTypes'
  BY <1>1 DEF Types, RedisTypes, ConnTypes, GateTypes, LeaveTypes, LogicTypes, Leaves
<1>3. Grows /\ BegunConn' BY <1>1, StayBegun
<1>4. BegunLeave'
  <2>1. Holds(conn[c].gate, c) => ask[c] # "none"
    BY <1>1, SessionConfig DEF Types, GateTypes, Holds, Begun, BegunTable, BegunStream, SessionConfig
  <2>2. CASE Leaves(c, "notify") /\ Holds(conn[c].gate, c) BY <1>1, <2>1, <2>2 DEF Types, Begun, BegunLeave, Leaves
  <2>3. CASE Leaves(c, "done") BY <1>1, <2>3 DEF Types, Begun, BegunLeave, Leaves
  <2> QED BY <1>1, <2>2, <2>3
<1>5. BegunStream' BY <1>1, <1>3, StreamBegun, OfflineSame
<1>6. BegunTable' BY <1>1, <1>3, TableBegun, OfflineSame DEF Types, GateTypes
<1> QED BY <1>1, <1>2, <1>3, <1>4, <1>5, <1>6, FrameAsk, FrameKick, FrameNtf, FrameLogic, FrameDown DEF Types, Begun

\* DisconnectNotify keeps the types.
LEMMA DisconnectNotifyTypes == ASSUME Types, NEW c \in Conns, DisconnectNotify(c) PROVE Types'
<1>1. /\ leaving[c] = "notify" /\ Leaves(c, "clear") /\ (ntf' = ntf \cup {c} \/ (May("notify") /\ ntf' = ntf))
      /\ UNCHANGED <<redis, issued, raced, conn, table, stream, count, kick, down, ask, lsess, lbusy, lcount>>
  BY DisconnectNotifyFx
<1>2. RedisTypes' /\ ConnTypes' /\ GateTypes' /\ LeaveTypes' /\ LogicTypes'
  BY <1>1 DEF Types, RedisTypes, ConnTypes, GateTypes, LeaveTypes, LogicTypes, Leaves
<1>3. Grows /\ BegunConn' BY <1>1, StayBegun
<1>4. BegunLeave' BY <1>1 DEF Types, Begun, BegunLeave, Leaves
<1>5. BegunNtf' BY <1>1 DEF Types, Begun, BegunNtf, BegunLeave
<1> QED BY <1>1, <1>2, <1>3, <1>4, <1>5, FrameAsk, FrameKick, FrameLogic, FrameStream, FrameTable, FrameDown DEF
    Types, Begun

\* DisconnectClear keeps the types.
LEMMA DisconnectClearTypes == ASSUME Types, NEW c \in Conns, DisconnectClear(c) PROVE Types'
<1>1. /\ leaving[c] = "clear" /\ Leaves(c, "done") /\ Cleared(c)
      /\ UNCHANGED <<conn, table, stream, count, kick, down, ask, lsess, lbusy, lcount, ntf>>
  BY DisconnectClearFx
<1>2. RedisTypes' /\ ConnTypes' /\ GateTypes' /\ LeaveTypes' /\ LogicTypes'
  BY <1>1 DEF Types, RedisTypes, ConnTypes, GateTypes, LeaveTypes, LogicTypes, Leaves, Cleared
<1>3. Grows /\ BegunConn' BY <1>1, StayBegun
<1>4. BegunLeave' BY <1>1 DEF Types, Begun, BegunLeave, Leaves
<1> QED BY <1>1, <1>2, <1>3, <1>4, FrameAsk, FrameKick, FrameNtf, FrameLogic, FrameStream, FrameTable, FrameDown DEF
    Types, Begun

\* LogicLogin keeps the types.
LEMMA LogicLoginTypes == ASSUME Types, NEW c \in Conns, LogicLogin(c) PROVE Types'
<1>1. /\ ask[c] = "sent" /\ conn[c].logic \in Logics /\ lbusy[conn[c].logic] = None
      /\ \/ /\ KicksOld(c, lsess[conn[c].logic]) /\ lsess[conn[c].logic] \in Conns
            /\ KickMoves(lsess[conn[c].logic], "logic", "asked") /\ Occupies(conn[c].logic, c) /\ Asks(c, "kick")
            /\ lsess' = lsess /\ lcount' = lcount
         \/ ~KicksOld(c, lsess[conn[c].logic]) /\ LoggedIn(conn[c].logic, c) /\ kick' = kick /\ lbusy' = lbusy
      /\ UNCHANGED <<redis, issued, raced, conn, table, stream, count, leaving, down, ntf>>
  BY LogicLoginFx
<1>2. RedisTypes' /\ ConnTypes' /\ GateTypes' /\ LeaveTypes' /\ LogicTypes'
  BY <1>1 DEF Types, RedisTypes, ConnTypes, GateTypes, LeaveTypes, LogicTypes, LoggedIn, Asks, Sessions, Counted,
     Occupies, KickMoves
<1>3. Grows /\ BegunConn'
  <2>1. PICK p \in {"kick", "owner", "err"} : Asks(c, p) BY <1>1 DEF LoggedIn
  <2> QED BY <1>1, <2>1, AsksBegun
<1>4. BegunAsk'
  <2>0. LogicTypes /\ c # None BY SessionConfig DEF Types, SessionConfig
  <2>1. CASE Occupies(conn[c].logic, c) /\ Asks(c, "kick") /\ lsess' = lsess /\ lsess[conn[c].logic] \in Conns
    BY <1>1, <2>0, <2>1, SessionConfig DEF Types, Begun, BegunAsk, BegunConn, Occupies, Asks, SessionConfig
  <2>2. CASE LoggedIn(conn[c].logic, c) /\ lbusy' = lbusy
    BY <1>1, <2>0, <2>2 DEF Types, Begun, BegunAsk, BegunConn, LoggedIn, Asks, Sessions
  <2> QED BY <1>1, <2>1, <2>2
<1>5. BegunKick'
  <2>1. CASE kick' = kick BY <1>3, <2>1, KickBegun
  <2>2. CASE KickMoves(lsess[conn[c].logic], "logic", "asked") /\ lsess[conn[c].logic] \in Conns
    <3>1. conn[lsess[conn[c].logic]].pc # "none"
      BY <1>1, <2>2, SessionConfig DEF Types, Begun, BegunLogic, BegunConn, SessionConfig
    <3> QED BY <1>3, <2>2, <3>1, KickBegun DEF KickMoves
  <2> QED BY <1>1, <2>1, <2>2
<1>6. BegunLogic'
  <2>1. CASE lsess' = lsess BY <1>1, <1>3, <2>1, FrameLogic
  <2>2. CASE Sessions(conn[c].logic, c) BY <1>1, <1>3, <2>2 DEF Types, LogicTypes, Begun, BegunLogic, Grows, Sessions
  <2> QED BY <1>1, <2>1, <2>2 DEF LoggedIn
<1> QED BY <1>1, <1>2, <1>3, <1>4, <1>5, <1>6, FrameLeave, FrameNtf, FrameStream, FrameTable, FrameDown DEF Types,
    Begun

\* LogicRefuses keeps the types.
LEMMA LogicRefusesTypes == ASSUME Types, NEW c \in Conns, LogicRefuses(c) PROVE Types'
<1>1. /\ ask[c] = "sent" /\ May("rpc") /\ Asks(c, "err")
      /\ UNCHANGED <<redis, issued, raced, conn, table, stream, count, leaving, kick, down, lsess, lbusy, lcount, ntf>>
  BY LogicRefusesFx
<1>2. RedisTypes' /\ ConnTypes' /\ GateTypes' /\ LeaveTypes' /\ LogicTypes'
  BY <1>1 DEF Types, RedisTypes, ConnTypes, GateTypes, LeaveTypes, LogicTypes, Asks
<1>3. Grows /\ BegunConn' BY <1>1, AsksBegun
<1>4. BegunAsk' BY <1>1 DEF Types, Begun, BegunAsk, Asks
<1> QED BY <1>1, <1>2, <1>3, <1>4, FrameLeave, FrameKick, FrameNtf, FrameLogic, FrameStream, FrameTable, FrameDown
    DEF Types, Begun

\* LogicKicked keeps the types.
LEMMA LogicKickedTypes == ASSUME Types, NEW c \in Conns, LogicKicked(c) PROVE Types'
<1>1. /\ ask[c] = "kick" /\ conn[c].logic \in Logics /\ lsess[conn[c].logic] \in Conns /\ lbusy[conn[c].logic] = c
      /\ \/ kick[lsess[conn[c].logic]]["logic"].pc = "done" \/ May("kick")
         \/ /\ kick[lsess[conn[c].logic]]["logic"].pc = "asked"
            /\ down[conn[lsess[conn[c].logic]].gate].pc # "up"
      /\ LoggedIn(conn[c].logic, c) /\ Occupies(conn[c].logic, None)
      /\ \/ /\ kick[lsess[conn[c].logic]]["logic"].pc = "asked"
            /\ down[conn[lsess[conn[c].logic]].gate].pc # "up"
            /\ KickMoves(lsess[conn[c].logic], "logic", "done")
         \/ /\ ~(kick[lsess[conn[c].logic]]["logic"].pc = "asked" /\ down[conn[lsess[conn[c].logic]].gate].pc # "up")
            /\ kick' = kick
      /\ UNCHANGED <<redis, issued, raced, conn, table, stream, count, leaving, down, ntf>>
  BY SMTT(30), LogicKickedFx
<1>2. RedisTypes' /\ ConnTypes' /\ GateTypes' /\ LeaveTypes' /\ LogicTypes'
  BY <1>1 DEF Types, RedisTypes, ConnTypes, GateTypes, LeaveTypes, LogicTypes, LoggedIn, Asks, Sessions, Counted,
     Occupies, KickMoves
<1>3. Grows /\ BegunConn'
  <2>1. PICK p \in {"owner", "err"} : Asks(c, p) BY SMTT(30), <1>1 DEF LoggedIn
  <2> QED BY <1>1, <2>1, AsksBegun
<1>4. BegunAsk'
  <2>1. \A d \in Conns : d # c => ask'[d] = ask[d] BY <1>1 DEF LoggedIn, Asks
  <2>2. ask'[c] # "kick" BY <1>1 DEF LoggedIn, Asks
  <2>3. \A m \in Logics : m # conn[c].logic => lbusy'[m] = lbusy[m] /\ lsess'[m] = lsess[m]
    BY SMTT(30), <1>1 DEF LoggedIn, Sessions, Occupies
  <2>4. \A d \in Conns : d # c /\ ask[d] = "kick" => conn[d].logic \in Logics /\ conn[d].logic # conn[c].logic
    BY <1>1 DEF Types, Begun, BegunAsk, BegunConn
  <2> QED BY <1>1, <2>1, <2>2, <2>3, <2>4 DEF Types, Begun, BegunAsk
<1>5. BegunKick'
  <2>1. CASE kick' = kick BY <1>3, <2>1, KickBegun
  <2>2. CASE KickMoves(lsess[conn[c].logic], "logic", "done") /\ kick[lsess[conn[c].logic]]["logic"].pc = "asked"
    BY SMTT(30), <1>1, <1>3, <2>2, KickBegun DEF KickMoves
  <2> QED BY SMTT(30), <1>1, <2>1, <2>2
<1>6. BegunLogic' BY <1>1, <1>3 DEF Types, LogicTypes, Begun, BegunLogic, Grows, Sessions, LoggedIn
<1> QED BY SMTT(30), <1>1, <1>2, <1>3, <1>4, <1>5, <1>6, FrameLeave, FrameNtf, FrameStream, FrameTable, FrameDown DEF Types,
    Begun

\* SetLogicOwner keeps the types.
LEMMA SetLogicOwnerTypes == ASSUME Types, NEW c \in Conns, SetLogicOwner(c) PROVE Types'
<1>1. /\ ask[c] = "owner" /\ conn[c].logic \in Logics /\ RedisTypes' /\ issued' = issued /\ raced' = raced
      /\ redis'.token = redis.token /\ redis'.sess = redis.sess /\ redis'.gate = redis.gate
      /\ \/ redis'.logic = conn[c].logic /\ Asks(c, "ok")
         \/ May("redis") /\ redis'.logic \in {redis.logic, conn[c].logic} /\ Asks(c, "undo")
      /\ UNCHANGED <<conn, table, stream, count, leaving, kick, down, lsess, lbusy, lcount, ntf>>
  BY SetOwnerFx
<1>2. RedisTypes' /\ ConnTypes' /\ GateTypes' /\ LeaveTypes' /\ LogicTypes'
  BY <1>1 DEF Types, RedisTypes, ConnTypes, GateTypes, LeaveTypes, LogicTypes, Asks
<1>3. Grows /\ BegunConn'
  <2>1. PICK p \in {"ok", "undo"} : Asks(c, p) BY <1>1
  <2> QED BY <1>1, <2>1, AsksBegun
<1>4. BegunAsk' BY <1>1 DEF Types, Begun, BegunAsk, Asks
<1> QED BY <1>1, <1>2, <1>3, <1>4, FrameLeave, FrameKick, FrameNtf, FrameLogic, FrameStream, FrameTable, FrameDown
    DEF Types, Begun

\* UndoLogin keeps the types.
LEMMA UndoLoginTypes == ASSUME Types, NEW c \in Conns, UndoLogin(c) PROVE Types'
<1>1. /\ ask[c] = "undo" /\ conn[c].logic \in Logics /\ lbusy[conn[c].logic] = None
      /\ LoggedOut(conn[c].logic, c) /\ Asks(c, "err")
      /\ UNCHANGED <<redis, issued, raced, conn, table, stream, count, leaving, kick, down, lbusy, ntf>>
  BY UndoFx
<1>2. RedisTypes' /\ ConnTypes' /\ GateTypes' /\ LeaveTypes' /\ LogicTypes'
  BY <1>1 DEF Types, RedisTypes, ConnTypes, GateTypes, LeaveTypes, LogicTypes, Asks, LoggedOut, Sessions, Counted
<1>3. Grows /\ BegunConn' BY <1>1, AsksBegun
<1>4. BegunAsk'
  <2>1. \A d \in Conns : ask'[d] = "kick" => ask[d] = "kick" /\ conn[d].logic \in Logics /\ conn[d].logic # conn[c].logic
    BY <1>1, SessionConfig DEF Types, Begun, BegunAsk, BegunConn, Asks, SessionConfig
  <2>2. \A m \in Logics : m # conn[c].logic => lsess'[m] = lsess[m] BY <1>1 DEF LoggedOut, Sessions
  <2> QED BY <1>1, <2>1, <2>2 DEF Types, Begun, BegunAsk
<1>5. BegunLogic' BY <1>1, <1>3 DEF Types, LogicTypes, Begun, BegunLogic, Grows, Sessions, LoggedOut
<1> QED BY <1>1, <1>2, <1>3, <1>4, <1>5, FrameLeave, FrameKick, FrameNtf, FrameStream, FrameTable, FrameDown DEF
    Types, Begun

\* LogicDisconnect keeps the types.
LEMMA LogicDisconnectTypes == ASSUME Types, NEW c \in Conns, LogicDisconnect(c) PROVE Types'
<1>1. /\ c \in ntf /\ conn[c].logic \in Logics /\ lbusy[conn[c].logic] = None /\ ntf' = ntf \ {c}
      /\ LoggedOut(conn[c].logic, c)
      /\ UNCHANGED <<redis, issued, raced, conn, table, stream, count, leaving, kick, down, ask, lbusy>>
  BY LogicDisconnectFx
<1>2. RedisTypes' /\ ConnTypes' /\ GateTypes' /\ LeaveTypes' /\ LogicTypes'
  BY <1>1 DEF Types, RedisTypes, ConnTypes, GateTypes, LeaveTypes, LogicTypes, LoggedOut, Sessions, Counted
<1>3. Grows /\ BegunConn' BY <1>1, StayBegun
<1>4. BegunAsk'
  <2>1. \A d \in Conns : ask[d] = "kick" => conn[d].logic \in Logics /\ conn[d].logic # conn[c].logic
    BY <1>1, SessionConfig DEF Types, Begun, BegunAsk, BegunConn, SessionConfig
  <2>2. \A m \in Logics : m # conn[c].logic => lsess'[m] = lsess[m] BY <1>1 DEF LoggedOut, Sessions
  <2> QED BY <1>1, <2>1, <2>2 DEF Types, Begun, BegunAsk
<1>5. BegunNtf' BY <1>1 DEF Types, Begun, BegunNtf
<1>6. BegunLogic' BY <1>1, <1>3 DEF Types, LogicTypes, Begun, BegunLogic, Grows, Sessions, LoggedOut
<1> QED BY <1>1, <1>2, <1>3, <1>4, <1>5, <1>6, FrameLeave, FrameKick, FrameStream, FrameTable, FrameDown DEF Types,
    Begun

\* HandleLogin keeps the types.
LEMMA HandleLoginTypes ==
    ASSUME Types, NEW c \in Conns, NEW g \in Gates, NEW token, HandleLogin(c, g, token)
    PROVE  Types'
<1>1. /\ Loads(c, g) /\ conn'[c].reconnect = FALSE
      /\ \/ /\ conn'[c].pc = "rpc" /\ conn'[c].open = TRUE /\ conn'[c].logic \in Logics /\ Asks(c, "sent")
            /\ redis.logic # None => conn'[c].logic = redis.logic
         \/ conn'[c].pc = "end" /\ conn'[c].open = FALSE /\ ask' = ask
      /\ UNCHANGED <<redis, issued, raced, table, stream, count, leaving, kick, down, lsess, lbusy, lcount, ntf>>
  BY HandleLoginFx
<1>2. RedisTypes' /\ ConnTypes' /\ GateTypes' /\ LeaveTypes' /\ LogicTypes'
  BY <1>1 DEF Types, RedisTypes, ConnTypes, GateTypes, LeaveTypes, LogicTypes, Loads, Asks
<1>3. Grows /\ BegunConn'
  <2>1. Grows BY <1>1 DEF Grows, Loads, Others, Asks
  <2>2. BegunConn' BY <1>1 DEF Types, Begun, BegunConn, Loads, Others, Asks, Routed
  <2> QED BY <2>1, <2>2
<1>4. BegunAsk'
  <2>1. \A d \in Conns : ask'[d] = "kick" => d # c /\ ask[d] = "kick" BY <1>1 DEF Loads, Asks
  <2> QED BY <1>1, <2>1 DEF Types, Begun, BegunAsk, Loads, Others
<1> QED BY <1>1, <1>2, <1>3, <1>4, FrameLeave, FrameKick, FrameNtf, FrameLogic, FrameStream, FrameTable, FrameDown
    DEF Types, Begun

\* HandleReconnect keeps the types.
LEMMA HandleReconnectTypes ==
    ASSUME Types, NEW c \in Conns, NEW prev \in Conns, NEW token, HandleReconnect(c, prev, token)
    PROVE  Types'
<1>1. /\ conn[prev].gate \in Gates /\ prev # c /\ Loads(c, conn[prev].gate) /\ conn'[c].reconnect = TRUE /\ conn'[c].prev = prev
      /\ Reconnects # "none" /\ conn[prev].user /\ ~conn[prev].open /\ (Reconnects = "recorded" => redis.sess \in {prev, None})
      /\ \/ conn'[c].pc = "loaded" /\ conn'[c].open = TRUE
         \/ conn'[c].pc = "end" /\ conn'[c].open = FALSE
      /\ UNCHANGED <<redis, issued, raced, table, stream, count, leaving, kick, down, ask, lsess, lbusy, lcount, ntf>>
  BY HandleReconnectFx
<1>2. RedisTypes' /\ ConnTypes' /\ GateTypes' /\ LeaveTypes' /\ LogicTypes'
  BY <1>1 DEF Types, RedisTypes, ConnTypes, GateTypes, LeaveTypes, LogicTypes, Loads
<1>3. Grows /\ BegunConn'
  <2>1. Grows BY <1>1 DEF Grows, Loads, Others
  <2>2. BegunConn' BY <1>1 DEF Types, Begun, BegunConn, Loads, Others, Routed
  <2> QED BY <2>1, <2>2
<1> QED BY <1>1, <1>2, <1>3, FrameAsk, FrameLeave, FrameKick, FrameNtf, FrameLogic, FrameStream, FrameTable,
    FrameDown DEF Types, Begun
-----------------------------------------------------------------------------
(* Types and tokens *)

\* A player who was never online.
LEMMA InitTypes == ASSUME Init PROVE Types
<1>1. RedisTypes
  <2>1. redis \in RedisRec BY SessionConfig DEF Init, RedisRec
  <2>2. issued \in Nat /\ raced \in BOOLEAN BY DEF Init
  <2> QED BY <2>1, <2>2 DEF RedisTypes
<1>2. ConnTypes BY DEF Init, ConnTypes, ConnRec, ConnPc
<1>3. GateTypes BY DEF Init, GateTypes, StreamRec
<1>4. LeaveTypes
  <2>1. [pc |-> "idle", obj |-> None, active |-> FALSE] \in KickRec BY DEF KickRec
  <2>2. kick \in [Conns -> [Kickers -> KickRec]] BY <2>1 DEF Init
  <2>3. down \in [Gates -> DownRec] BY DEF Init, DownRec
  <2>4. leaving \in [Conns -> {"no", "take", "notify", "clear", "done"}] BY DEF Init
  <2> QED BY <2>2, <2>3, <2>4 DEF LeaveTypes
<1>5. LogicTypes BY DEF Init, LogicTypes
<1>6. BegunConn BY DEF Init, BegunConn, Routed
<1>7. BegunAsk /\ BegunNtf /\ BegunLogic /\ BegunLeave BY DEF Init, BegunAsk, BegunNtf, BegunLogic, BegunLeave
<1>8. BegunKick BY DEF Init, BegunKick
<1>9. BegunStream /\ BegunTable /\ BegunDown BY DEF Init, BegunStream, BegunTable, BegunDown
<1> QED BY <1>1, <1>2, <1>3, <1>4, <1>5, <1>6, <1>7, <1>8, <1>9 DEF Types, Begun

\* Every step keeps the types.
LEMMA NextTypes == ASSUME Types, Next PROVE Types'
<1>1. ASSUME SetToken PROVE Types' BY <1>1, SetTokenTypes
<1>2. ASSUME NEW g \in Gates, PruneExpired(g) PROVE Types' BY <1>2, PruneExpiredTypes
<1>3. ASSUME NEW g \in Gates, BeginShutdown(g) PROVE Types' BY <1>3, BeginShutdownTypes
<1>4. ASSUME NEW g \in Gates, ShutdownDrain(g) PROVE Types' BY <1>4, ShutdownDrainTypes
<1>5. ASSUME NEW g \in Gates, ShutdownNotify(g) PROVE Types' BY <1>5, ShutdownNotifyTypes
<1>6. ASSUME NEW g \in Gates, ShutdownClear(g) PROVE Types' BY <1>6, ShutdownClearTypes
<1>7. ASSUME NEW c \in Conns, AuthorizeReconnect(c) PROVE Types' BY <1>7, AuthorizeReconnectTypes
<1>8. ASSUME NEW c \in Conns, LogicAnswers(c) PROVE Types' BY <1>8, LogicAnswersTypes
<1>9. ASSUME NEW c \in Conns, InstallLogin(c) PROVE Types' BY <1>9, InstallLoginTypes
<1>10. ASSUME NEW c \in Conns, CompleteReconnect(c) PROVE Types' BY <1>10, CompleteReconnectTypes
<1>11. ASSUME NEW c \in Conns, SaveOnline(c) PROVE Types' BY <1>11, SaveOnlineTypes
<1>12. ASSUME NEW c \in Conns, KickLocal(c) PROVE Types' BY <1>12, KickLocalTypes
<1>13. ASSUME NEW c \in Conns, NEW who \in Kickers, KickTake(c, who) PROVE Types' BY <1>13, KickTakeTypes
<1>14. ASSUME NEW c \in Conns, NEW who \in Kickers, KickRemove(c, who) PROVE Types' BY <1>14, KickRemoveTypes
<1>15. ASSUME NEW c \in Conns, NEW who \in Kickers, KickClear(c, who) PROVE Types' BY <1>15, KickClearTypes
<1>16. ASSUME NEW c \in Conns, HandleLogout(c) PROVE Types' BY <1>16, HandleLogoutTypes
<1>17. ASSUME NEW c \in Conns, LogoutInvalidate(c) PROVE Types' BY <1>17, LogoutInvalidateTypes
<1>18. ASSUME NEW c \in Conns, LogoutNotify(c) PROVE Types' BY <1>18, LogoutNotifyTypes
<1>19. ASSUME NEW c \in Conns, LogoutClear(c) PROVE Types' BY <1>19, LogoutClearTypes
<1>20. ASSUME NEW c \in Conns, Break(c) PROVE Types' BY <1>20, BreakTypes
<1>21. ASSUME NEW c \in Conns, OnDisconnected(c) PROVE Types' BY <1>21, OnDisconnectedTypes
<1>22. ASSUME NEW c \in Conns, DisconnectTake(c) PROVE Types' BY <1>22, DisconnectTakeTypes
<1>23. ASSUME NEW c \in Conns, DisconnectNotify(c) PROVE Types' BY <1>23, DisconnectNotifyTypes
<1>24. ASSUME NEW c \in Conns, DisconnectClear(c) PROVE Types' BY <1>24, DisconnectClearTypes
<1>25. ASSUME NEW c \in Conns, LogicLogin(c) PROVE Types' BY <1>25, LogicLoginTypes
<1>26. ASSUME NEW c \in Conns, LogicRefuses(c) PROVE Types' BY <1>26, LogicRefusesTypes
<1>27. ASSUME NEW c \in Conns, LogicKicked(c) PROVE Types' BY <1>27, LogicKickedTypes
<1>28. ASSUME NEW c \in Conns, SetLogicOwner(c) PROVE Types' BY <1>28, SetLogicOwnerTypes
<1>29. ASSUME NEW c \in Conns, UndoLogin(c) PROVE Types' BY <1>29, UndoLoginTypes
<1>30. ASSUME NEW c \in Conns, LogicDisconnect(c) PROVE Types' BY <1>30, LogicDisconnectTypes
<1>31. ASSUME NEW c \in Conns, NEW g \in Gates, NEW token, HandleLogin(c, g, token) PROVE Types'
  BY <1>31, HandleLoginTypes
<1>32. ASSUME NEW c \in Conns, NEW prev \in Conns, NEW token, HandleReconnect(c, prev, token) PROVE Types'
  BY <1>32, HandleReconnectTypes
<1> QED BY <1>1, <1>2, <1>3, <1>4, <1>5, <1>6, <1>7, <1>8, <1>9, <1>10, <1>11, <1>12, <1>13, <1>14, <1>15, <1>16,
    <1>17, <1>18, <1>19, <1>20, <1>21, <1>22, <1>23, <1>24, <1>25, <1>26, <1>27, <1>28, <1>29, <1>30, <1>31, <1>32 DEF
    Next, Worker, Leave, Logic, Kickers

\* So does a step that changes nothing.
LEMMA SameTypes == ASSUME Types, UNCHANGED vars PROVE Types'
<1>1. UNCHANGED <<redis, issued, raced, conn, table, stream, count, leaving, kick, down, ask, lsess, lbusy, lcount, ntf>>
  BY DEF vars, gateVars, logicVars
<1>2. RedisTypes' /\ ConnTypes' /\ GateTypes' /\ LeaveTypes' /\ LogicTypes'
  BY <1>1 DEF Types, RedisTypes, ConnTypes, GateTypes, LeaveTypes, LogicTypes
<1>3. Grows /\ BegunConn' BY <1>1, StayBegun
<1> QED BY <1>1, <1>2, <1>3, FrameAsk, FrameLeave, FrameKick, FrameNtf, FrameLogic, FrameStream, FrameTable,
    FrameDown DEF Types, Begun

\* Every record, worker, object and notification has its type, and every handler that
\* goes on has the Gate and the Logic it goes on with.
THEOREM TypesHold == Spec => []Types
<1>1. Init => Types BY InitTypes
<1>2. Types /\ [Next]_vars => Types' BY NextTypes, SameTypes
<1> QED BY <1>1, <1>2, PTL DEF Spec

\* What a step other than set_token may do to tokens: the record gets one that a worker
\* holds, a worker the one of the record.
Carries == /\ issued' = issued /\ raced' = raced
           /\ redis'.token = redis.token \/ \E c \in Conns : HoldsRecord(c) /\ redis'.token = conn[c].token
           /\ \A c \in Conns : HoldsRecord(c)' => \/ conn'[c].token = redis.token
                                                  \/ HoldsRecord(c) /\ conn'[c].token = conn[c].token

\* PruneExpired only carries tokens.
LEMMA PruneExpiredCarries == ASSUME Types, NEW g \in Gates, PruneExpired(g) PROVE Carries
BY PruneFx DEF Carries, HoldsRecord

\* BeginShutdown only carries tokens.
LEMMA BeginShutdownCarries == ASSUME Types, NEW g \in Gates, BeginShutdown(g) PROVE Carries
BY BeginShutdownFx DEF Carries, HoldsRecord, Keeps

\* ShutdownDrain only carries tokens.
LEMMA ShutdownDrainCarries == ASSUME Types, NEW g \in Gates, ShutdownDrain(g) PROVE Carries
BY ShutdownDrainFx DEF Carries, HoldsRecord

\* ShutdownNotify only carries tokens.
LEMMA ShutdownNotifyCarries == ASSUME Types, NEW g \in Gates, ShutdownNotify(g) PROVE Carries
BY ShutdownNotifyFx DEF Carries, HoldsRecord

\* ShutdownClear only carries tokens.
LEMMA ShutdownClearCarries == ASSUME Types, NEW g \in Gates, ShutdownClear(g) PROVE Carries
BY ShutdownClearFx DEF Carries, HoldsRecord, Cleared

\* AuthorizeReconnect only carries tokens.
LEMMA AuthorizeReconnectCarries == ASSUME Types, NEW c \in Conns, AuthorizeReconnect(c) PROVE Carries
BY AuthorizeFx DEF Carries, HoldsRecord, Ends, Keeps, Others

\* LogicAnswers only carries tokens.
LEMMA LogicAnswersCarries == ASSUME Types, NEW c \in Conns, LogicAnswers(c) PROVE Carries
BY AnswersFx DEF Carries, HoldsRecord, Ends, Keeps, Others

\* InstallLogin only carries tokens.
LEMMA InstallLoginCarries == ASSUME Types, NEW c \in Conns, InstallLogin(c) PROVE Carries
BY InstallFx DEF Carries, HoldsRecord, Moves, Keeps, Others

\* CompleteReconnect only carries tokens.
LEMMA CompleteReconnectCarries == ASSUME Types, NEW c \in Conns, CompleteReconnect(c) PROVE Carries
BY CompleteFx DEF Carries, HoldsRecord, Moves, Ends, Keeps, Others

\* SaveOnline only carries tokens.
LEMMA SaveOnlineCarries == ASSUME Types, NEW c \in Conns, SaveOnline(c) PROVE Carries
BY SaveFx DEF Carries, HoldsRecord, Moves, Keeps, Others, Written

\* KickLocal only carries tokens.
LEMMA KickLocalCarries == ASSUME Types, NEW c \in Conns, KickLocal(c) PROVE Carries
BY KickLocalFx DEF Carries, HoldsRecord, Moves, Keeps, Others, Written

\* KickTake only carries tokens.
LEMMA KickTakeCarries == ASSUME Types, NEW c \in Conns, NEW who \in Kickers, KickTake(c, who) PROVE Carries
BY KickTakeFx DEF Carries, HoldsRecord

\* KickRemove only carries tokens.
LEMMA KickRemoveCarries == ASSUME Types, NEW c \in Conns, NEW who \in Kickers, KickRemove(c, who) PROVE Carries
BY KickRemoveFx DEF Carries, HoldsRecord, Closes, Keeps, Others

\* KickClear only carries tokens.
LEMMA KickClearCarries == ASSUME Types, NEW c \in Conns, NEW who \in Kickers, KickClear(c, who) PROVE Carries
BY KickClearFx DEF Carries, HoldsRecord, Moves, Keeps, Others

\* HandleLogout only carries tokens.
LEMMA HandleLogoutCarries == ASSUME Types, NEW c \in Conns, HandleLogout(c) PROVE Carries
BY LogoutFx DEF Carries, HoldsRecord, Moves, Keeps, Others

\* LogoutInvalidate only carries tokens.
LEMMA LogoutInvalidateCarries == ASSUME Types, NEW c \in Conns, LogoutInvalidate(c) PROVE Carries
BY InvalidateFx DEF Carries, HoldsRecord, Moves, Keeps, Others

\* LogoutNotify only carries tokens.
LEMMA LogoutNotifyCarries == ASSUME Types, NEW c \in Conns, LogoutNotify(c) PROVE Carries
BY LogoutNotifyFx DEF Carries, HoldsRecord, Moves, Keeps, Others

\* LogoutClear only carries tokens.
LEMMA LogoutClearCarries == ASSUME Types, NEW c \in Conns, LogoutClear(c) PROVE Carries
BY LogoutClearFx DEF Carries, HoldsRecord, Ends, Keeps, Others, Cleared

\* Break only carries tokens.
LEMMA BreakCarries == ASSUME Types, NEW c \in Conns, Break(c) PROVE Carries
BY BreakFx DEF Carries, HoldsRecord, Closes, Keeps, Others

\* OnDisconnected only carries tokens.
LEMMA OnDisconnectedCarries == ASSUME Types, NEW c \in Conns, OnDisconnected(c) PROVE Carries
<1>1. redis' = redis /\ issued' = issued /\ raced' = raced BY OnDisconnectedFx
<1>2. \/ conn' = conn
      \/ Aborts(c)
      \/ Moves(c, "end")
  BY OnDisconnectedFx
<1> QED BY <1>1, <1>2 DEF Carries, HoldsRecord, Moves, Aborts, Keeps, Others

\* DisconnectTake only carries tokens.
LEMMA DisconnectTakeCarries == ASSUME Types, NEW c \in Conns, DisconnectTake(c) PROVE Carries
BY DisconnectTakeFx DEF Carries, HoldsRecord

\* DisconnectNotify only carries tokens.
LEMMA DisconnectNotifyCarries == ASSUME Types, NEW c \in Conns, DisconnectNotify(c) PROVE Carries
BY DisconnectNotifyFx DEF Carries, HoldsRecord

\* DisconnectClear only carries tokens.
LEMMA DisconnectClearCarries == ASSUME Types, NEW c \in Conns, DisconnectClear(c) PROVE Carries
BY DisconnectClearFx DEF Carries, HoldsRecord, Cleared

\* LogicLogin only carries tokens.
LEMMA LogicLoginCarries == ASSUME Types, NEW c \in Conns, LogicLogin(c) PROVE Carries
BY LogicLoginFx DEF Carries, HoldsRecord

\* LogicRefuses only carries tokens.
LEMMA LogicRefusesCarries == ASSUME Types, NEW c \in Conns, LogicRefuses(c) PROVE Carries
BY LogicRefusesFx DEF Carries, HoldsRecord

\* LogicKicked only carries tokens.
LEMMA LogicKickedCarries == ASSUME Types, NEW c \in Conns, LogicKicked(c) PROVE Carries
BY LogicKickedFx DEF Carries, HoldsRecord

\* SetLogicOwner only carries tokens.
LEMMA SetLogicOwnerCarries == ASSUME Types, NEW c \in Conns, SetLogicOwner(c) PROVE Carries
BY SetOwnerFx DEF Carries, HoldsRecord

\* UndoLogin only carries tokens.
LEMMA UndoLoginCarries == ASSUME Types, NEW c \in Conns, UndoLogin(c) PROVE Carries
BY UndoFx DEF Carries, HoldsRecord

\* LogicDisconnect only carries tokens.
LEMMA LogicDisconnectCarries == ASSUME Types, NEW c \in Conns, LogicDisconnect(c) PROVE Carries
BY LogicDisconnectFx DEF Carries, HoldsRecord

\* HandleLogin only carries tokens.
LEMMA HandleLoginCarries ==
    ASSUME Types, NEW c \in Conns, NEW g \in Gates, NEW token, HandleLogin(c, g, token)
    PROVE  Carries
<1>1. Others(c) /\ conn'[c].token = redis.token /\ redis' = redis /\ issued' = issued /\ raced' = raced
  BY HandleLoginFx DEF Loads
<1> QED BY <1>1 DEF Carries, HoldsRecord, Others

\* HandleReconnect only carries tokens.
LEMMA HandleReconnectCarries ==
    ASSUME Types, NEW c \in Conns, NEW prev \in Conns, NEW token, HandleReconnect(c, prev, token)
    PROVE  Carries
<1>1. Others(c) /\ conn'[c].token = redis.token /\ redis' = redis /\ issued' = issued /\ raced' = raced
  BY HandleReconnectFx DEF Loads
<1> QED BY <1>1 DEF Carries, HoldsRecord, Others

\* The inductive form of TokenCurrent: a worker's copy is as good as the record.
TokensCurrent == /\ redis.token = issued \/ raced
                 /\ \A c \in Conns : HoldsRecord(c) => conn[c].token = issued \/ raced

\* Every step keeps it: set_token either races with a worker, or no worker holds a record.
LEMMA NextTokens == ASSUME Types, TokensCurrent, Next PROVE TokensCurrent'
<1>1. ASSUME NEW g \in Gates, PruneExpired(g) PROVE Carries BY <1>1, PruneExpiredCarries
<1>2. ASSUME NEW g \in Gates, BeginShutdown(g) PROVE Carries BY <1>2, BeginShutdownCarries
<1>3. ASSUME NEW g \in Gates, ShutdownDrain(g) PROVE Carries BY <1>3, ShutdownDrainCarries
<1>4. ASSUME NEW g \in Gates, ShutdownNotify(g) PROVE Carries BY <1>4, ShutdownNotifyCarries
<1>5. ASSUME NEW g \in Gates, ShutdownClear(g) PROVE Carries BY <1>5, ShutdownClearCarries
<1>6. ASSUME NEW c \in Conns, AuthorizeReconnect(c) PROVE Carries BY <1>6, AuthorizeReconnectCarries
<1>7. ASSUME NEW c \in Conns, LogicAnswers(c) PROVE Carries BY <1>7, LogicAnswersCarries
<1>8. ASSUME NEW c \in Conns, InstallLogin(c) PROVE Carries BY <1>8, InstallLoginCarries
<1>9. ASSUME NEW c \in Conns, CompleteReconnect(c) PROVE Carries BY <1>9, CompleteReconnectCarries
<1>10. ASSUME NEW c \in Conns, SaveOnline(c) PROVE Carries BY <1>10, SaveOnlineCarries
<1>11. ASSUME NEW c \in Conns, KickLocal(c) PROVE Carries BY <1>11, KickLocalCarries
<1>12. ASSUME NEW c \in Conns, NEW who \in Kickers, KickTake(c, who) PROVE Carries BY <1>12, KickTakeCarries
<1>13. ASSUME NEW c \in Conns, NEW who \in Kickers, KickRemove(c, who) PROVE Carries BY <1>13, KickRemoveCarries
<1>14. ASSUME NEW c \in Conns, NEW who \in Kickers, KickClear(c, who) PROVE Carries BY <1>14, KickClearCarries
<1>15. ASSUME NEW c \in Conns, HandleLogout(c) PROVE Carries BY <1>15, HandleLogoutCarries
<1>16. ASSUME NEW c \in Conns, LogoutInvalidate(c) PROVE Carries BY <1>16, LogoutInvalidateCarries
<1>17. ASSUME NEW c \in Conns, LogoutNotify(c) PROVE Carries BY <1>17, LogoutNotifyCarries
<1>18. ASSUME NEW c \in Conns, LogoutClear(c) PROVE Carries BY <1>18, LogoutClearCarries
<1>19. ASSUME NEW c \in Conns, Break(c) PROVE Carries BY <1>19, BreakCarries
<1>20. ASSUME NEW c \in Conns, OnDisconnected(c) PROVE Carries BY <1>20, OnDisconnectedCarries
<1>21. ASSUME NEW c \in Conns, DisconnectTake(c) PROVE Carries BY <1>21, DisconnectTakeCarries
<1>22. ASSUME NEW c \in Conns, DisconnectNotify(c) PROVE Carries BY <1>22, DisconnectNotifyCarries
<1>23. ASSUME NEW c \in Conns, DisconnectClear(c) PROVE Carries BY <1>23, DisconnectClearCarries
<1>24. ASSUME NEW c \in Conns, LogicLogin(c) PROVE Carries BY <1>24, LogicLoginCarries
<1>25. ASSUME NEW c \in Conns, LogicRefuses(c) PROVE Carries BY <1>25, LogicRefusesCarries
<1>26. ASSUME NEW c \in Conns, LogicKicked(c) PROVE Carries BY <1>26, LogicKickedCarries
<1>27. ASSUME NEW c \in Conns, SetLogicOwner(c) PROVE Carries BY <1>27, SetLogicOwnerCarries
<1>28. ASSUME NEW c \in Conns, UndoLogin(c) PROVE Carries BY <1>28, UndoLoginCarries
<1>29. ASSUME NEW c \in Conns, LogicDisconnect(c) PROVE Carries BY <1>29, LogicDisconnectCarries
<1>30. ASSUME NEW c \in Conns, NEW g \in Gates, NEW token, HandleLogin(c, g, token) PROVE Carries
  BY <1>30, HandleLoginCarries
<1>31. ASSUME NEW c \in Conns, NEW prev \in Conns, NEW token, HandleReconnect(c, prev, token) PROVE Carries
  BY <1>31, HandleReconnectCarries
<1>32. Carries => TokensCurrent' BY DEF Carries, TokensCurrent
<1>33. ASSUME SetToken PROVE TokensCurrent'
  <2>1. /\ RedisTypes' /\ issued' = issued + 1 /\ (raced' \/ \A c \in Conns : ~HoldsRecord(c))
        /\ redis'.token = issued' /\ conn' = conn
    BY <1>33, SetTokenFx
  <2> QED BY <2>1 DEF TokensCurrent, HoldsRecord
<1> QED BY <1>1, <1>2, <1>3, <1>4, <1>5, <1>6, <1>7, <1>8, <1>9, <1>10, <1>11, <1>12, <1>13, <1>14, <1>15, <1>16,
    <1>17, <1>18, <1>19, <1>20, <1>21, <1>22, <1>23, <1>24, <1>25, <1>26, <1>27, <1>28, <1>29, <1>30, <1>31, <1>32,
    <1>33 DEF Next, Worker, Leave, Logic, Kickers

\* The token of the last Auth login is the one in the record unless it was issued while a
\* worker held the record: for any Gates, Logics, clients, faults, overlaps and races.
THEOREM TokenStaysCurrent == Spec => []TokenCurrent
<1>1. Init => TokensCurrent BY DEF Init, TokensCurrent, HoldsRecord
<1>2. Types /\ TokensCurrent /\ [Next]_vars => TokensCurrent'
  <2>1. ASSUME TokensCurrent, UNCHANGED vars PROVE TokensCurrent' BY <2>1 DEF TokensCurrent, HoldsRecord, vars
  <2> QED BY <2>1, NextTokens
<1>3. TokensCurrent => TokenCurrent BY DEF TokensCurrent, TokenCurrent
<1> QED BY <1>1, <1>2, <1>3, TypesHold, PTL DEF Spec
-----------------------------------------------------------------------------
(* One Logic owns the player *)

\* The phases in which a worker holds the record; the states of a request that is under way.
Holding == {"loaded", "rpc", "checked", "save"}
Asking == {"sent", "kick", "owner", "undo"}
Busy(c) == conn[c].pc \in Holding \/ ask[c] \in Asking

\* The inductive form of OneOwner.  Logins and reconnects come one after another, ...
OneBusy == \A c, d \in Conns : Busy(c) /\ Busy(d) => c = d
\* ... each goes to the Logic that the record names, when it names one, ...
RoutedRight ==
    \A c \in Conns :
       /\ conn[c].pc = "loaded" => conn[c].owner = redis.logic
       /\ Busy(c) /\ conn[c].pc # "loaded" => redis.logic \in {None, conn[c].logic}
       /\ conn[c].pc \in {"rpc", "checked", "save"} /\ conn[c].reconnect => conn[c].owner = conn[c].logic
       /\ conn[c].pc \in {"checked", "save"} => ask[c] = "ok"
       /\ ask[c] = "ok" => redis.logic = conn[c].logic
       /\ ask[c] = "undo" => May("redis")
\* ... and so do the sessions; a Logic that the record does not name has a session only
\* while the login of it is about to be recorded or undone.
StreamsRight == \A o \in Conns : stream[o].sid # None => stream[o].logic = redis.logic
LogicRight ==
    \A l \in Logics : lsess[l] # None =>
       \/ redis.logic = l
       \/ redis.logic = None /\ \E c \in Conns : ask[c] \in {"owner", "undo"} /\ conn[c].logic = l /\ lsess[l] = c
Owned == OneBusy /\ RoutedRight /\ StreamsRight /\ LogicRight

\* A step that moves neither a request nor the Logic of the record: workers go on as their
\* request allows, objects get the Logic of an answered one, Logics lose sessions.
Aside ==
    /\ redis'.logic = redis.logic /\ ask' = ask
    /\ \A l \in Logics : lsess'[l] \in {None, lsess[l]}
    /\ \A o \in Conns : stream'[o].sid # None => \/ stream[o].sid # None /\ stream'[o].logic = stream[o].logic
                                                 \/ \E c \in Conns : ask[c] = "ok" /\ stream'[o].logic = conn[c].logic
    /\ \A c \in Conns : ask[c] # "none" => conn'[c].logic = conn[c].logic
    /\ \A c \in Conns : conn'[c].pc \in Holding =>
          /\ conn[c].pc \in Holding /\ (conn'[c].pc = "loaded" <=> conn[c].pc = "loaded")
          /\ conn'[c].pc \in {"checked", "save"} => ask[c] = "ok"
          /\ conn'[c].reconnect = conn[c].reconnect /\ conn'[c].owner = conn[c].owner /\ conn'[c].logic = conn[c].logic

\* Such a step keeps the owner.
LEMMA AsideOwned == ASSUME Types, Owned, Aside PROVE Owned'
<1>1. \A c \in Conns : Busy(c)' => Busy(c) BY DEF Busy, Aside
<1>2. OneBusy' BY <1>1 DEF OneBusy, Owned
<1>3. \A c \in Conns : ask[c] = "ok" => redis.logic = conn[c].logic BY DEF Owned, RoutedRight
<1>4. StreamsRight' BY <1>3 DEF Owned, StreamsRight, Aside
<1>5. LogicRight' BY DEF Owned, LogicRight, Aside
<1>6. ASSUME NEW c \in Conns
      PROVE  /\ conn'[c].pc = "loaded" => conn'[c].owner = redis'.logic
             /\ Busy(c)' /\ conn'[c].pc # "loaded" => redis'.logic \in {None, conn'[c].logic}
             /\ conn'[c].pc \in {"rpc", "checked", "save"} /\ conn'[c].reconnect => conn'[c].owner = conn'[c].logic
             /\ conn'[c].pc \in {"checked", "save"} => ask'[c] = "ok"
             /\ ask'[c] = "ok" => redis'.logic = conn'[c].logic
             /\ ask'[c] = "undo" => May("redis")
  <2>1. ask'[c] = ask[c] /\ redis'.logic = redis.logic BY DEF Aside
  <2>2. conn'[c].pc = "loaded" => conn'[c].owner = redis'.logic BY <2>1 DEF Aside, Holding, Owned, RoutedRight
  <2>3. conn'[c].pc \in {"rpc", "checked", "save"} /\ conn'[c].reconnect => conn'[c].owner = conn'[c].logic
    BY DEF Aside, Holding, Owned, RoutedRight
  <2>4. conn'[c].pc \in {"checked", "save"} => ask'[c] = "ok" BY <2>1 DEF Aside, Holding
  <2>5. /\ ask'[c] = "ok" => redis'.logic = conn'[c].logic
        /\ ask'[c] = "undo" => May("redis")
    BY <2>1 DEF Aside, Owned, RoutedRight
  <2>6. ASSUME Busy(c)', conn'[c].pc # "loaded" PROVE redis'.logic \in {None, conn'[c].logic}
    <3>1. CASE conn'[c].pc \in Holding
      BY <2>1, <2>6, <3>1 DEF Aside, Owned, RoutedRight, Busy
    <3>2. CASE ask[c] \in Asking
      <4>1. conn[c].pc # "loaded" BY <3>2 DEF Asking, Types, Begun, BegunConn
      <4> QED BY <2>1, <3>2, <4>1 DEF Aside, Owned, RoutedRight, Busy, Asking
    <3> QED BY <2>1, <2>6, <3>1, <3>2 DEF Busy
  <2> QED BY <2>2, <2>3, <2>4, <2>5, <2>6
<1>7. RoutedRight' BY <1>6 DEF RoutedRight, May
<1> QED BY <1>2, <1>4, <1>5, <1>7 DEF Owned

\* SetToken does not touch the owner.
LEMMA SetTokenAside == ASSUME Types, Owned, SetToken PROVE Aside
<1>1. \A d \in Conns : conn[d].pc \in {"checked", "save"} => ask[d] = "ok" BY DEF Owned, RoutedRight
<1> QED BY <1>1, SetTokenFx DEF Aside, Holding

\* PruneExpired does not touch the owner.
LEMMA PruneExpiredAside == ASSUME Types, Owned, NEW g \in Gates, PruneExpired(g) PROVE Aside
<1>1. \A d \in Conns : conn[d].pc \in {"checked", "save"} => ask[d] = "ok" BY DEF Owned, RoutedRight
<1> QED BY <1>1, PruneFx DEF Aside, Holding

\* BeginShutdown does not touch the owner.
LEMMA BeginShutdownAside == ASSUME Types, Owned, NEW g \in Gates, BeginShutdown(g) PROVE Aside
<1>1. \A d \in Conns : conn[d].pc \in {"checked", "save"} => ask[d] = "ok" BY DEF Owned, RoutedRight
<1> QED BY <1>1, BeginShutdownFx DEF Aside, Holding, Keeps

\* ShutdownDrain does not touch the owner.
LEMMA ShutdownDrainAside == ASSUME Types, Owned, NEW g \in Gates, ShutdownDrain(g) PROVE Aside
<1>1. \A d \in Conns : conn[d].pc \in {"checked", "save"} => ask[d] = "ok" BY DEF Owned, RoutedRight
<1> QED BY <1>1, ShutdownDrainFx DEF Aside, Holding, Offline

\* ShutdownNotify does not touch the owner.
LEMMA ShutdownNotifyAside == ASSUME Types, Owned, NEW g \in Gates, ShutdownNotify(g) PROVE Aside
<1>1. \A d \in Conns : conn[d].pc \in {"checked", "save"} => ask[d] = "ok" BY DEF Owned, RoutedRight
<1> QED BY <1>1, ShutdownNotifyFx DEF Aside, Holding

\* ShutdownClear does not touch the owner.
LEMMA ShutdownClearAside == ASSUME Types, Owned, NEW g \in Gates, ShutdownClear(g) PROVE Aside
<1>1. \A d \in Conns : conn[d].pc \in {"checked", "save"} => ask[d] = "ok" BY DEF Owned, RoutedRight
<1> QED BY <1>1, ShutdownClearFx DEF Aside, Holding, Cleared

\* LogicAnswers does not touch the owner.
LEMMA LogicAnswersAside == ASSUME Types, Owned, NEW c \in Conns, LogicAnswers(c) PROVE Aside
<1>1. /\ redis' = redis /\ ask' = ask /\ lsess' = lsess /\ stream' = stream /\ conn[c].pc = "rpc" /\ Others(c) /\ Keeps(c)
      /\ conn'[c].pc \in {"checked", "end"} /\ (conn'[c].pc = "checked" => ask[c] = "ok")
  BY AnswersFx DEF Ends
<1>2. \A d \in Conns : conn[d].pc \in {"checked", "save"} => ask[d] = "ok" BY DEF Owned, RoutedRight
<1> QED BY <1>1, <1>2 DEF Aside, Others, Keeps, Holding

\* InstallLogin does not touch the owner.
LEMMA InstallLoginAside == ASSUME Types, Owned, NEW c \in Conns, InstallLogin(c) PROVE Aside
<1>1. /\ redis' = redis /\ ask' = ask /\ lsess' = lsess /\ conn[c].pc = "checked" /\ Moves(c, "save")
      /\ Resumed(c, c) /\ stream'[c].logic = conn[c].logic
  BY InstallFx
<1>2. \A d \in Conns : conn[d].pc \in {"checked", "save"} => ask[d] = "ok" BY DEF Owned, RoutedRight
<1>3. \A o \in Conns : stream'[o].sid # None => \/ stream[o].sid # None /\ stream'[o].logic = stream[o].logic
                                                \/ \E d \in Conns : ask[d] = "ok" /\ stream'[o].logic = conn[d].logic
  BY <1>1, <1>2 DEF Resumed
<1> QED BY <1>1, <1>2, <1>3 DEF Aside, Moves, Keeps, Others, Holding

\* CompleteReconnect does not touch the owner.
LEMMA CompleteReconnectAside == ASSUME Types, Owned, NEW c \in Conns, CompleteReconnect(c) PROVE Aside
<1>1. /\ redis' = redis /\ ask' = ask /\ lsess' = lsess /\ conn[c].pc = "checked"
      /\ Moves(c, "save") \/ Ends(c)
  BY CompleteFx
<1>2. \A o \in Conns : stream'[o].sid # None => stream[o].sid # None /\ stream'[o].logic = stream[o].logic
  <2>1. CASE stream' = stream BY <2>1
  <2>2. CASE stream' # stream
    <3>1. /\ Holds(conn[c].gate, conn[c].prev) /\ table[conn[c].gate] \in Conns /\ conn[c].gate \in Gates
          /\ Resumed(table[conn[c].gate], c)
          /\ stream'[table[conn[c].gate]].logic = stream[table[conn[c].gate]].logic
      BY <2>2, CompleteFx
    <3>2. stream[table[conn[c].gate]].sid # None BY <3>1 DEF Types, Begun, BegunTable, Holds
    <3> QED BY <3>1, <3>2 DEF Resumed
  <2> QED BY <2>1, <2>2
<1>3. \A d \in Conns : conn[d].pc \in {"checked", "save"} => ask[d] = "ok" BY DEF Owned, RoutedRight
<1> QED BY <1>1, <1>2, <1>3 DEF Aside, Moves, Ends, Keeps, Others, Holding

\* SaveOnline does not touch the owner.
LEMMA SaveOnlineAside == ASSUME Types, Owned, NEW c \in Conns, SaveOnline(c) PROVE Aside
<1>1. /\ ask' = ask /\ lsess' = lsess /\ stream' = stream /\ conn[c].pc = "save" /\ Others(c) /\ Keeps(c)
      /\ conn'[c].pc \in {"end", "on"}
  BY SaveFx DEF Moves
<1>2. \/ redis' = redis
      \/ conn[c].reconnect /\ redis'.logic = conn[c].owner
      \/ ~conn[c].reconnect /\ redis'.logic = conn[c].logic
  BY SaveFx DEF Written
<1>3. redis'.logic = redis.logic BY <1>1, <1>2 DEF Owned, RoutedRight
<1>4. \A d \in Conns : conn[d].pc \in {"checked", "save"} => ask[d] = "ok" BY DEF Owned, RoutedRight
<1> QED BY <1>1, <1>3, <1>4 DEF Aside, Keeps, Others, Holding

\* KickLocal does not touch the owner.
LEMMA KickLocalAside == ASSUME Types, Owned, NEW c \in Conns, KickLocal(c) PROVE Aside
<1>1. /\ ask' = ask /\ lsess' = lsess /\ stream' = stream /\ conn[c].pc = "save" /\ Others(c) /\ Keeps(c)
      /\ conn'[c].pc = "kicking"
  BY KickLocalFx DEF Moves
<1>2. \/ redis' = redis
      \/ conn[c].reconnect /\ redis'.logic = conn[c].owner
      \/ ~conn[c].reconnect /\ redis'.logic = conn[c].logic
  BY KickLocalFx DEF Written
<1>3. redis'.logic = redis.logic BY <1>1, <1>2 DEF Owned, RoutedRight
<1>4. \A d \in Conns : conn[d].pc \in {"checked", "save"} => ask[d] = "ok" BY DEF Owned, RoutedRight
<1> QED BY <1>1, <1>3, <1>4 DEF Aside, Keeps, Others, Holding

\* KickTake does not touch the owner.
LEMMA KickTakeAside == ASSUME Types, Owned, NEW c \in Conns, NEW who \in Kickers, KickTake(c, who) PROVE Aside
<1>1. /\ redis' = redis /\ ask' = ask /\ lsess' = lsess /\ conn' = conn
      /\ stream' = stream \/ \E o \in Conns : Offline(o)
  BY KickTakeFx
<1>2. \A d \in Conns : conn[d].pc \in {"checked", "save"} => ask[d] = "ok" BY DEF Owned, RoutedRight
<1> QED BY <1>1, <1>2, OfflineSame DEF Aside, Holding

\* KickRemove does not touch the owner.
LEMMA KickRemoveAside == ASSUME Types, Owned, NEW c \in Conns, NEW who \in Kickers, KickRemove(c, who) PROVE Aside
<1>1. /\ redis' = redis /\ ask' = ask /\ lsess' = lsess /\ stream' = stream
      /\ conn' = conn \/ Closes(c)
  BY KickRemoveFx
<1>2. \A d \in Conns : conn[d].pc \in {"checked", "save"} => ask[d] = "ok" BY DEF Owned, RoutedRight
<1> QED BY <1>1, <1>2 DEF Aside, Holding, Closes, Keeps, Others

\* KickClear does not touch the owner.
LEMMA KickClearAside == ASSUME Types, Owned, NEW c \in Conns, NEW who \in Kickers, KickClear(c, who) PROVE Aside
<1>1. \A d \in Conns : conn[d].pc \in {"checked", "save"} => ask[d] = "ok" BY DEF Owned, RoutedRight
<1> QED BY <1>1, KickClearFx DEF Aside, Holding, Moves, Keeps, Others

\* HandleLogout does not touch the owner.
LEMMA HandleLogoutAside == ASSUME Types, Owned, NEW c \in Conns, HandleLogout(c) PROVE Aside
<1>1. \A d \in Conns : conn[d].pc \in {"checked", "save"} => ask[d] = "ok" BY DEF Owned, RoutedRight
<1> QED BY <1>1, LogoutFx DEF Aside, Holding, Moves, Keeps, Others

\* LogoutInvalidate does not touch the owner.
LEMMA LogoutInvalidateAside == ASSUME Types, Owned, NEW c \in Conns, LogoutInvalidate(c) PROVE Aside
<1>1. \A d \in Conns : conn[d].pc \in {"checked", "save"} => ask[d] = "ok" BY DEF Owned, RoutedRight
<1> QED BY <1>1, InvalidateFx DEF Aside, Holding, Moves, Keeps, Others

\* LogoutNotify does not touch the owner.
LEMMA LogoutNotifyAside == ASSUME Types, Owned, NEW c \in Conns, LogoutNotify(c) PROVE Aside
<1>1. \A d \in Conns : conn[d].pc \in {"checked", "save"} => ask[d] = "ok" BY DEF Owned, RoutedRight
<1> QED BY <1>1, LogoutNotifyFx DEF Aside, Holding, Moves, Keeps, Others

\* LogoutClear does not touch the owner.
LEMMA LogoutClearAside == ASSUME Types, Owned, NEW c \in Conns, LogoutClear(c) PROVE Aside
<1>1. \A d \in Conns : conn[d].pc \in {"checked", "save"} => ask[d] = "ok" BY DEF Owned, RoutedRight
<1> QED BY <1>1, LogoutClearFx DEF Aside, Holding, Ends, Keeps, Others, Cleared

\* Break does not touch the owner.
LEMMA BreakAside == ASSUME Types, Owned, NEW c \in Conns, Break(c) PROVE Aside
<1>1. \A d \in Conns : conn[d].pc \in {"checked", "save"} => ask[d] = "ok" BY DEF Owned, RoutedRight
<1> QED BY <1>1, BreakFx DEF Aside, Holding, Closes, Keeps, Others

\* OnDisconnected does not touch the owner.
LEMMA OnDisconnectedAside == ASSUME Types, Owned, NEW c \in Conns, OnDisconnected(c) PROVE Aside
<1>1. redis' = redis /\ ask' = ask /\ lsess' = lsess /\ stream' = stream BY OnDisconnectedFx
<1>2. \/ conn' = conn
      \/ Aborts(c)
      \/ Moves(c, "end")
  BY OnDisconnectedFx
<1>3. \A d \in Conns : conn[d].pc \in {"checked", "save"} => ask[d] = "ok" BY DEF Owned, RoutedRight
<1> QED BY <1>1, <1>2, <1>3 DEF Aside, Moves, Aborts, Keeps, Others, Holding

\* DisconnectTake does not touch the owner.
LEMMA DisconnectTakeAside == ASSUME Types, Owned, NEW c \in Conns, DisconnectTake(c) PROVE Aside
<1>1. \A d \in Conns : conn[d].pc \in {"checked", "save"} => ask[d] = "ok" BY DEF Owned, RoutedRight
<1> QED BY <1>1, DisconnectTakeFx DEF Aside, Holding, Offline

\* DisconnectNotify does not touch the owner.
LEMMA DisconnectNotifyAside == ASSUME Types, Owned, NEW c \in Conns, DisconnectNotify(c) PROVE Aside
<1>1. \A d \in Conns : conn[d].pc \in {"checked", "save"} => ask[d] = "ok" BY DEF Owned, RoutedRight
<1> QED BY <1>1, DisconnectNotifyFx DEF Aside, Holding

\* DisconnectClear does not touch the owner.
LEMMA DisconnectClearAside == ASSUME Types, Owned, NEW c \in Conns, DisconnectClear(c) PROVE Aside
<1>1. \A d \in Conns : conn[d].pc \in {"checked", "save"} => ask[d] = "ok" BY DEF Owned, RoutedRight
<1> QED BY <1>1, DisconnectClearFx DEF Aside, Holding, Cleared

\* LogicDisconnect does not touch the owner.
LEMMA LogicDisconnectAside == ASSUME Types, Owned, NEW c \in Conns, LogicDisconnect(c) PROVE Aside
<1>1. \A d \in Conns : conn[d].pc \in {"checked", "save"} => ask[d] = "ok" BY DEF Owned, RoutedRight
<1> QED BY <1>1, LogicDisconnectFx DEF Aside, Holding, LoggedOut, Sessions

\* The rule of the sequential instance and the assumption on failures: with both, an undone
\* login may leave its session on a Logic that the record does not name.
OwnerConfig == ~Overlap /\ ("busy" \notin Faults \/ "redis" \notin Faults)

\* A login or reconnect begins when no other is under way.
LEMMA NoneBusy == ASSUME ~Overlap, NEW c \in Conns, NEW g \in Gates, Starts(c, g) PROVE \A d \in Conns : ~Busy(d)
BY DEF Starts, Settled, Busy, Holding, Asking

\* handle_login goes to the recorded Logic.
LEMMA HandleLoginOwned ==
    ASSUME ~Overlap, Types, Owned, NEW c \in Conns, NEW g \in Gates, NEW token, HandleLogin(c, g, token)
    PROVE  Owned'
<1>1. \A d \in Conns : ~Busy(d) BY NoneBusy DEF HandleLogin
<1>2. /\ Others(c) /\ redis' = redis /\ stream' = stream /\ lsess' = lsess /\ ask[c] = "none" /\ conn'[c].reconnect = FALSE
      /\ \A d \in Conns : d # c => ask'[d] = ask[d]
      /\ \/ conn'[c].pc = "rpc" /\ ask'[c] = "sent" /\ (redis.logic # None => conn'[c].logic = redis.logic)
         \/ conn'[c].pc = "end" /\ ask'[c] = "none"
  <2>1. Loads(c, g) /\ redis' = redis /\ stream' = stream /\ lsess' = lsess /\ conn'[c].reconnect = FALSE
    BY HandleLoginFx
  <2>2. \/ conn'[c].pc = "rpc" /\ Asks(c, "sent") /\ (redis.logic # None => conn'[c].logic = redis.logic)
        \/ conn'[c].pc = "end" /\ ask' = ask
    BY HandleLoginFx
  <2> QED BY <2>1, <2>2 DEF Loads, Asks
<1>3. \A d \in Conns : d # c => ~Busy(d)' BY <1>1, <1>2 DEF Busy, Others
<1>4. OneBusy' BY <1>3 DEF OneBusy
<1>5. StreamsRight' BY <1>2 DEF Owned, StreamsRight
<1>6. LogicRight'
  <2>1. \A d \in Conns : ask[d] \notin {"owner", "undo"} BY <1>1 DEF Busy, Asking
  <2> QED BY <1>2, <2>1 DEF Owned, LogicRight
<1>7. RoutedRight' BY <1>2, <1>3 DEF Owned, RoutedRight, Others, May, Busy, Holding, Asking
<1> QED BY <1>4, <1>5, <1>6, <1>7 DEF Owned

\* handle_reconnect loads the recorded Logic.
LEMMA HandleReconnectOwned ==
    ASSUME ~Overlap, Types, Owned, NEW c \in Conns, NEW prev \in Conns, NEW token, HandleReconnect(c, prev,
           token)
    PROVE  Owned'
<1>0. conn[prev].gate \in Gates BY HandleReconnectFx
<1>1. \A d \in Conns : ~Busy(d) BY <1>0, NoneBusy DEF HandleReconnect, Here
<1>2. /\ Others(c) /\ redis' = redis /\ stream' = stream /\ lsess' = lsess /\ ask[c] = "none" /\ ask' = ask
      /\ conn'[c].owner = redis.logic /\ conn'[c].pc \in {"loaded", "end"}
  BY HandleReconnectFx DEF Loads
<1>3. \A d \in Conns : d # c => ~Busy(d)' BY <1>1, <1>2 DEF Busy, Others
<1>4. OneBusy' BY <1>3 DEF OneBusy
<1>5. StreamsRight' BY <1>2 DEF Owned, StreamsRight
<1>6. LogicRight'
  <2>1. \A d \in Conns : ask[d] \notin {"owner", "undo"} BY <1>1 DEF Busy, Asking
  <2> QED BY <1>2, <2>1 DEF Owned, LogicRight
<1>7. RoutedRight' BY <1>2, <1>3 DEF Owned, RoutedRight, Others, May, Busy, Holding, Asking
<1> QED BY <1>4, <1>5, <1>6, <1>7 DEF Owned

\* authorize_reconnect goes to the Logic of the session, which is the recorded one.
LEMMA AuthorizeReconnectOwned == ASSUME Types, Owned, NEW c \in Conns, AuthorizeReconnect(c) PROVE Owned'
<1>1. /\ conn[c].pc = "loaded" /\ Others(c) /\ redis' = redis /\ stream' = stream /\ lsess' = lsess /\ ask[c] = "none"
      /\ \A d \in Conns : d # c => ask'[d] = ask[d]
      /\ \/ conn'[c].pc = "rpc" /\ ask'[c] = "sent" /\ conn'[c].logic = conn[c].owner /\ conn'[c].owner = conn[c].owner
         \/ conn'[c].pc = "end" /\ ask'[c] = "none"
  BY AuthorizeFx DEF Ends, Types, Begun, BegunConn
<1>2. \A d \in Conns : Busy(d)' => Busy(d) BY <1>1 DEF Busy, Others, Holding, Asking
<1>3. OneBusy' BY <1>2 DEF OneBusy, Owned
<1>4. StreamsRight' BY <1>1 DEF Owned, StreamsRight
<1>5. LogicRight' BY <1>1 DEF Owned, LogicRight, Others
<1>6. RoutedRight' BY <1>1 DEF Owned, RoutedRight, Others, May, Busy, Holding, Asking
<1> QED BY <1>3, <1>4, <1>5, <1>6 DEF Owned

\* A request moves on, on the Logic that it was sent to.
LEMMA AsksOwned ==
    ASSUME Types, Owned, NEW c \in Conns, NEW p \in {"kick", "owner", "err", "ok", "undo"}, Asks(c, p), ask[c] \in Asking,
           conn' = conn, stream' = stream, redis'.logic \in {redis.logic, conn[c].logic}, conn[c].logic \in Logics,
           p = "ok" => redis'.logic = conn[c].logic, p = "undo" => May("redis"), LogicRight'
    PROVE  Owned'
<1>1. \A d \in Conns : Busy(d)' => Busy(d) BY DEF Busy, Asks
<1>2. OneBusy' BY <1>1 DEF OneBusy, Owned
<1>3. conn[c].pc # "loaded" /\ Busy(c) BY DEF Asking, Types, Begun, BegunConn, Busy
<1>4. redis.logic \in {None, conn[c].logic} BY <1>3 DEF Owned, RoutedRight
<1>5. redis.logic # None => redis'.logic = redis.logic BY <1>4
<1>6. StreamsRight' BY <1>5, SessionConfig DEF Owned, StreamsRight, Types, Begun, BegunStream, SessionConfig
<1>7. ASSUME NEW d \in Conns, d # c
      PROVE  /\ conn'[d].pc \notin Holding /\ ~Busy(d)'
             /\ ask'[d] = "ok" => redis'.logic = conn'[d].logic
             /\ ask'[d] = "undo" => May("redis")
  <2>1. ~Busy(d) BY <1>3, <1>7 DEF Owned, OneBusy
  <2>2. ask'[d] = ask[d] BY <1>7 DEF Asks
  <2>3. ask[d] = "ok" => redis.logic = conn[d].logic /\ conn[d].logic \in Logics
    BY DEF Owned, RoutedRight, Types, Begun, BegunConn
  <2> QED BY <1>5, <2>1, <2>2, <2>3, SessionConfig DEF Busy, Asking, SessionConfig
<1>8. ask'[c] = p BY DEF Asks
<1>9. \A d \in Conns : conn[d].pc \in {"checked", "save"} => d # c BY DEF Owned, RoutedRight, Asking
<1>10. RoutedRight'
  <2>1. /\ Busy(c)' /\ conn'[c].pc # "loaded" => redis'.logic \in {None, conn'[c].logic} BY <1>4
  <2>2. conn'[c].pc \in {"rpc", "checked", "save"} /\ conn'[c].reconnect => conn'[c].owner = conn'[c].logic
    BY DEF Owned, RoutedRight
  <2>3. ask'[c] = "ok" => redis'.logic = conn'[c].logic BY <1>8
  <2>4. conn'[c].pc \notin {"loaded", "checked", "save"} BY <1>3, <1>9
  <2>5. ask'[c] = "undo" => May("redis") BY <1>8
  <2> QED BY <1>7, <2>1, <2>2, <2>3, <2>4, <2>5 DEF RoutedRight, Holding, May
<1> QED BY <1>2, <1>6, <1>10 DEF Owned

\* The Logic that a login of c runs on gets its session.
LEMMA LoggedInRight == ASSUME Types, Owned, NEW c \in Conns, ask[c] \in {"sent", "kick"}, LoggedIn(conn[c].logic, c), conn' = conn, redis' = redis
                       PROVE  LogicRight' /\ \E p \in {"owner", "err"} : Asks(c, p)
<1>1. conn[c].logic \in Logics /\ conn[c].pc # "loaded" /\ Busy(c) BY DEF Types, Begun, BegunConn, Busy, Asking
<1>2. redis.logic \in {None, conn[c].logic} BY <1>1 DEF Owned, RoutedRight
<1>3. \A d \in Conns : ask[d] \notin {"owner", "undo"} BY <1>1 DEF Owned, OneBusy, Busy, Asking
<1>4. \A l \in Logics : l # conn[c].logic /\ lsess'[l] # None => redis'.logic = l
  BY <1>3 DEF LoggedIn, Sessions, Owned, LogicRight
<1>5. lsess'[conn[c].logic] = c BY DEF LoggedIn, Sessions
<1>6. \/ Asks(c, "owner")
      \/ redis.logic = conn[c].logic /\ Asks(c, "err")
  BY DEF LoggedIn, SaveFails
<1>7. LogicRight' BY <1>2, <1>4, <1>5, <1>6 DEF LogicRight, Asks
<1> QED BY <1>6, <1>7

\* The login of a connection runs, or kicks.
LEMMA LogicLoginOwned == ASSUME Types, Owned, NEW c \in Conns, LogicLogin(c) PROVE Owned'
<1>1. /\ ask[c] = "sent" /\ conn[c].logic \in Logics /\ conn' = conn /\ stream' = stream /\ redis' = redis
      /\ \/ Asks(c, "kick") /\ lsess' = lsess
         \/ LoggedIn(conn[c].logic, c)
  BY LogicLoginFx
<1>2. CASE Asks(c, "kick") /\ lsess' = lsess
  <2>1. \A d \in Conns : ask[d] \notin {"owner", "undo"} BY <1>1 DEF Owned, OneBusy, Busy, Asking
  <2>2. LogicRight' BY <1>1, <1>2, <2>1 DEF Owned, LogicRight
  <2> QED BY <1>1, <1>2, <2>2, AsksOwned DEF Asking
<1>3. CASE LoggedIn(conn[c].logic, c)
  <2>1. LogicRight' /\ \E p \in {"owner", "err"} : Asks(c, p) BY <1>1, <1>3, LoggedInRight
  <2> QED BY <1>1, <2>1, AsksOwned DEF Asking
<1> QED BY <1>1, <1>2, <1>3

\* The login goes on after the kick.
LEMMA LogicKickedOwned == ASSUME Types, Owned, NEW c \in Conns, LogicKicked(c) PROVE Owned'
<1>1. /\ ask[c] = "kick" /\ conn[c].logic \in Logics /\ conn' = conn /\ stream' = stream /\ redis' = redis
      /\ LoggedIn(conn[c].logic, c)
  BY LogicKickedFx
<1>2. LogicRight' /\ \E p \in {"owner", "err"} : Asks(c, p) BY <1>1, LoggedInRight
<1> QED BY <1>1, <1>2, AsksOwned DEF Asking

\* A request that is refused changes no session.
LEMMA LogicRefusesOwned == ASSUME Types, Owned, NEW c \in Conns, LogicRefuses(c) PROVE Owned'
<1>1. ask[c] = "sent" /\ conn[c].logic \in Logics /\ conn' = conn /\ stream' = stream /\ redis' = redis /\ Asks(c, "err") /\ lsess' = lsess
  BY LogicRefusesFx DEF Types, Begun, BegunConn
<1>2. \A d \in Conns : ask[d] \notin {"owner", "undo"} BY <1>1 DEF Owned, OneBusy, Busy, Asking
<1>3. LogicRight' BY <1>1, <1>2 DEF Owned, LogicRight
<1> QED BY <1>1, <1>3, AsksOwned DEF Asking

\* set_logic_owner records the Logic, or the login is to be undone.
LEMMA SetLogicOwnerOwned == ASSUME Types, Owned, NEW c \in Conns, SetLogicOwner(c) PROVE Owned'
<1>1. /\ ask[c] = "owner" /\ conn[c].logic \in Logics /\ conn' = conn /\ stream' = stream /\ lsess' = lsess
      /\ \/ redis'.logic = conn[c].logic /\ Asks(c, "ok")
         \/ May("redis") /\ redis'.logic \in {redis.logic, conn[c].logic} /\ Asks(c, "undo")
  BY SetOwnerFx
<1>2. conn[c].pc # "loaded" /\ Busy(c) BY <1>1 DEF Types, Begun, BegunConn, Busy, Asking
<1>3. redis.logic \in {None, conn[c].logic} BY <1>2 DEF Owned, RoutedRight
<1>4. \A d \in Conns : ask[d] \in {"owner", "undo"} => d = c BY <1>2 DEF Owned, OneBusy, Busy, Asking
<1>5. LogicRight'
  <2>1. ASSUME NEW l \in Logics, lsess[l] # None PROVE l = conn[c].logic /\ (redis.logic = l \/ (redis.logic = None /\ lsess[l] = c))
    BY <1>1, <1>3, <1>4, <2>1, SessionConfig DEF Owned, LogicRight, SessionConfig
  <2> QED BY <1>1, <2>1 DEF LogicRight, Asks
<1> QED BY <1>1, <1>5, AsksOwned DEF Asking

\* An undone login leaves no session, unless Redis and the runtime both fail.
LEMMA UndoLoginOwned == ASSUME OwnerConfig, Types, Owned, NEW c \in Conns, UndoLogin(c) PROVE Owned'
<1>1. /\ ask[c] = "undo" /\ conn[c].logic \in Logics /\ conn' = conn /\ stream' = stream /\ redis' = redis
      /\ LoggedOut(conn[c].logic, c) /\ Asks(c, "err")
  BY UndoFx
<1>2. ~May("busy") BY <1>1 DEF Owned, RoutedRight, OwnerConfig, May
<1>3. \A d \in Conns : ask[d] \in {"owner", "undo"} => d = c BY <1>1 DEF Owned, OneBusy, Busy, Asking
<1>4. \A l \in Logics : lsess'[l] \in {None, lsess[l]} BY <1>1 DEF LoggedOut, Sessions
<1>5. lsess'[conn[c].logic] # c BY <1>1, <1>2, SessionConfig DEF LoggedOut, Sessions, SessionConfig
<1>6. LogicRight' BY <1>1, <1>3, <1>4, <1>5 DEF Owned, LogicRight
<1> QED BY <1>1, <1>6, AsksOwned DEF Asking

\* Every step keeps the owner.
LEMMA NextOwned == ASSUME OwnerConfig, Types, Owned, Next PROVE Owned'
<1>1. ASSUME SetToken PROVE Owned' BY <1>1, SetTokenAside, AsideOwned
<1>2. ASSUME NEW g \in Gates, PruneExpired(g) PROVE Owned' BY <1>2, PruneExpiredAside, AsideOwned
<1>3. ASSUME NEW g \in Gates, BeginShutdown(g) PROVE Owned' BY <1>3, BeginShutdownAside, AsideOwned
<1>4. ASSUME NEW g \in Gates, ShutdownDrain(g) PROVE Owned' BY <1>4, ShutdownDrainAside, AsideOwned
<1>5. ASSUME NEW g \in Gates, ShutdownNotify(g) PROVE Owned' BY <1>5, ShutdownNotifyAside, AsideOwned
<1>6. ASSUME NEW g \in Gates, ShutdownClear(g) PROVE Owned' BY <1>6, ShutdownClearAside, AsideOwned
<1>7. ASSUME NEW c \in Conns, AuthorizeReconnect(c) PROVE Owned' BY <1>7, AuthorizeReconnectOwned
<1>8. ASSUME NEW c \in Conns, LogicAnswers(c) PROVE Owned' BY <1>8, LogicAnswersAside, AsideOwned
<1>9. ASSUME NEW c \in Conns, InstallLogin(c) PROVE Owned' BY <1>9, InstallLoginAside, AsideOwned
<1>10. ASSUME NEW c \in Conns, CompleteReconnect(c) PROVE Owned' BY <1>10, CompleteReconnectAside, AsideOwned
<1>11. ASSUME NEW c \in Conns, SaveOnline(c) PROVE Owned' BY <1>11, SaveOnlineAside, AsideOwned
<1>12. ASSUME NEW c \in Conns, KickLocal(c) PROVE Owned' BY <1>12, KickLocalAside, AsideOwned
<1>13. ASSUME NEW c \in Conns, NEW who \in Kickers, KickTake(c, who) PROVE Owned' BY <1>13, KickTakeAside, AsideOwned
<1>14. ASSUME NEW c \in Conns, NEW who \in Kickers, KickRemove(c, who) PROVE Owned'
  BY <1>14, KickRemoveAside, AsideOwned
<1>15. ASSUME NEW c \in Conns, NEW who \in Kickers, KickClear(c, who) PROVE Owned'
  BY <1>15, KickClearAside, AsideOwned
<1>16. ASSUME NEW c \in Conns, HandleLogout(c) PROVE Owned' BY <1>16, HandleLogoutAside, AsideOwned
<1>17. ASSUME NEW c \in Conns, LogoutInvalidate(c) PROVE Owned' BY <1>17, LogoutInvalidateAside, AsideOwned
<1>18. ASSUME NEW c \in Conns, LogoutNotify(c) PROVE Owned' BY <1>18, LogoutNotifyAside, AsideOwned
<1>19. ASSUME NEW c \in Conns, LogoutClear(c) PROVE Owned' BY <1>19, LogoutClearAside, AsideOwned
<1>20. ASSUME NEW c \in Conns, Break(c) PROVE Owned' BY <1>20, BreakAside, AsideOwned
<1>21. ASSUME NEW c \in Conns, OnDisconnected(c) PROVE Owned' BY <1>21, OnDisconnectedAside, AsideOwned
<1>22. ASSUME NEW c \in Conns, DisconnectTake(c) PROVE Owned' BY <1>22, DisconnectTakeAside, AsideOwned
<1>23. ASSUME NEW c \in Conns, DisconnectNotify(c) PROVE Owned' BY <1>23, DisconnectNotifyAside, AsideOwned
<1>24. ASSUME NEW c \in Conns, DisconnectClear(c) PROVE Owned' BY <1>24, DisconnectClearAside, AsideOwned
<1>25. ASSUME NEW c \in Conns, LogicLogin(c) PROVE Owned' BY <1>25, LogicLoginOwned
<1>26. ASSUME NEW c \in Conns, LogicRefuses(c) PROVE Owned' BY <1>26, LogicRefusesOwned
<1>27. ASSUME NEW c \in Conns, LogicKicked(c) PROVE Owned' BY <1>27, LogicKickedOwned
<1>28. ASSUME NEW c \in Conns, SetLogicOwner(c) PROVE Owned' BY <1>28, SetLogicOwnerOwned
<1>29. ASSUME NEW c \in Conns, UndoLogin(c) PROVE Owned' BY <1>29, UndoLoginOwned
<1>30. ASSUME NEW c \in Conns, LogicDisconnect(c) PROVE Owned' BY <1>30, LogicDisconnectAside, AsideOwned
<1>31. ASSUME NEW c \in Conns, NEW g \in Gates, NEW token, HandleLogin(c, g, token) PROVE Owned'
  BY <1>31, HandleLoginOwned DEF OwnerConfig
<1>32. ASSUME NEW c \in Conns, NEW prev \in Conns, NEW token, HandleReconnect(c, prev, token) PROVE Owned'
  BY <1>32, HandleReconnectOwned DEF OwnerConfig
<1> QED BY <1>1, <1>2, <1>3, <1>4, <1>5, <1>6, <1>7, <1>8, <1>9, <1>10, <1>11, <1>12, <1>13, <1>14, <1>15, <1>16,
    <1>17, <1>18, <1>19, <1>20, <1>21, <1>22, <1>23, <1>24, <1>25, <1>26, <1>27, <1>28, <1>29, <1>30, <1>31, <1>32 DEF
    Next, Worker, Leave, Logic, Kickers

\* The owner is an invariant.
LEMMA OwnedHolds == ASSUME OwnerConfig PROVE Spec => []Owned
<1>1. Init => Owned BY DEF Init, Owned, OneBusy, RoutedRight, StreamsRight, LogicRight, Busy, Holding, Asking
<1>2. Types /\ Owned /\ [Next]_vars => Owned'
  <2>1. ASSUME Types, Owned, UNCHANGED vars PROVE Aside
    <3>1. \A d \in Conns : conn[d].pc \in {"checked", "save"} => ask[d] = "ok" BY <2>1 DEF Owned, RoutedRight
    <3> QED BY <2>1, <3>1 DEF Aside, vars, gateVars, logicVars, Holding
  <2> QED BY <2>1, NextOwned, AsideOwned
<1> QED BY <1>1, <1>2, TypesHold, PTL DEF Spec

\* Never two Logics with a session of the player, when its logins and reconnects come one
\* after another and not both Redis and the runtime fail: whatever the clients, the Gates,
\* the kicks, the notifications and the saves do.
THEOREM OneLogicOwns == ASSUME OwnerConfig PROVE Spec => []OneOwner
<1>1. Owned => OneOwner
  <2>1. ASSUME Owned, NEW l1 \in Logics, NEW l2 \in Logics, lsess[l1] # None, lsess[l2] # None PROVE l1 = l2
    <3>1. CASE redis.logic # None BY <2>1, <3>1 DEF Owned, LogicRight
    <3>2. CASE redis.logic = None
      <4>1. PICK c \in Conns : ask[c] \in {"owner", "undo"} /\ conn[c].logic = l1
        BY <2>1, <3>2, SessionConfig DEF Owned, LogicRight, SessionConfig
      <4>2. PICK d \in Conns : ask[d] \in {"owner", "undo"} /\ conn[d].logic = l2
        BY <2>1, <3>2, SessionConfig DEF Owned, LogicRight, SessionConfig
      <4>3. c = d BY <2>1, <4>1, <4>2 DEF Owned, OneBusy, Busy, Asking
      <4> QED BY <4>1, <4>2, <4>3
    <3> QED BY <3>1, <3>2
  <2> QED BY <2>1 DEF OneOwner
<1> QED BY <1>1, OwnedHolds, PTL
-----------------------------------------------------------------------------
(* Takeover: the sessions, the record, Logic and the counts agree *)

\* The instance of sessions_takeover, for any Gates, Logics, connections and Gates that
\* may stop: logins in turn, reconnects only of the recorded session, and no failure but
\* that of a disconnect.
TakeoverConfig == /\ ~Overlap /\ Reconnects # "any" /\ ~Logouts /\ ~CloseRace
                  /\ \A f \in Faults : f = "busy"

\* A session that its Gate holds and that is active; a worker that no other may overtake.
Live(c) == conn[c].gate \in Gates /\ Holds(conn[c].gate, c) /\ Active(conn[c].gate)
Working(c) == Busy(c) \/ conn[c].pc = "kicking"

\* The phases of workers and requests, ...
Plain == \A c \in Conns : /\ ~conn[c].aborted /\ conn[c].pc \notin {"invalidate", "outNotify", "outClear"}
                          /\ ask[c] \notin {"undo", "err"}
OneWorking == \A c, d \in Conns : Working(c) /\ Working(d) => c = d
Answered == \A c \in Conns : conn[c].pc \in {"checked", "save", "on", "kicking"} => ask[c] = "ok" /\ conn[c].user
\* ... of kicks, which the worker or the request that asked for them waits for, ...
KickIdle == \A c \in Conns, who \in Kickers : conn[c].pc \in Holding => kick[c][who].pc = "idle"
KickGate == \A c \in Conns : kick[c]["gate"].pc \in {"asked", "taken", "clear"} => conn[c].pc = "kicking"
KickLogic == \A c \in Conns : kick[c]["logic"].pc \in {"asked", "taken", "clear"} =>
                                 \E d \in Conns : ask[d] = "kick" /\ lsess[conn[d].logic] = c
\* ... and of what follows a close.
LeaveRight == \A c \in Conns : /\ leaving[c] # "no" => ~conn[c].open
                               /\ leaving[c] \in {"take", "notify", "clear"} => conn[c].user /\ conn[c].pc \in {"end", "kicking"}
                               /\ leaving[c] # "no" /\ conn[c].pc \in Holding => down[conn[c].gate].pc # "up"
NtfRight == /\ \A c \in ntf : conn[c].pc \notin Holding
            /\ \A g \in Gates : down[g].pc \in {"notify", "clear"} =>
                  conn[down[g].sid].pc \notin Holding /\ conn[down[g].sid].gate = g
DownRight == \A g \in Gates :
                /\ down[g].pc # "up" => \A c \in Conns : conn[c].gate = g => ~conn[c].open
                /\ down[g].pc \notin {"up", "draining"} => /\ table[g] = None
                                                           /\ \A c \in Conns : conn[c].gate = g => conn[c].pc \in {"on", "end"}

\* Which sessions are live: a worker about to save is, a session that was taken is not, and
\* a live one whose connection closed will be taken.
Bound == \A o \in Conns : stream[o].sid # None =>
            /\ ask[stream[o].sid] = "ok" /\ conn[stream[o].sid].user
            /\ conn[stream[o].sid].pc \in {"save", "on", "kicking", "end"}
TakenOff == \A c \in Conns, who \in Kickers : kick[c][who].pc = "taken" => kick[c][who].obj \in Conns /\ ~stream[kick[c][who].obj].active
SaveLive == \A c \in Conns : conn[c].pc = "save" => Live(c)
LeaveGone == \A c \in Conns : leaving[c] \in {"notify", "clear"} \/ c \in ntf => ~Live(c)
KickGone == \A c \in Conns, who \in Kickers : kick[c][who].pc \in {"taken", "clear", "done"} => ~Live(c) \/ down[conn[c].gate].pc = "draining"
LeaveLive == \A c \in Conns : Live(c) => conn[c].open \/ leaving[c] \in {"no", "take"} \/ down[conn[c].gate].pc = "draining"

\* What Logic knows: the live session whose connection is open, and the one being installed.
OpenKnown == \A c \in Conns : Live(c) /\ conn[c].open => lsess[redis.logic] = c
AskedKnown == \A c \in Conns : conn[c].pc \in Holding /\ ask[c] \in {"owner", "ok"} => lsess[conn[c].logic] = c
ReconnectRight ==
    \A c \in Conns : conn[c].reconnect /\ Busy(c) /\ ask[c] \in {"none", "sent"} =>
       redis.sess \in {conn[c].prev, None} /\ \A x \in Conns : Live(x) => ~conn[x].open

\* What the record names: an open live session once it saved, and a session that somebody
\* will clear or replace, or that is Forsaken.
OpenRecorded == \A c \in Conns : Live(c) /\ conn[c].open => redis.sess = c \/ conn[c].pc = "save"
Resumer(d, c, phases) == conn[d].reconnect /\ conn[d].prev = c /\ conn[d].pc \in phases
Overtaken == \A c \in Conns : Live(c) /\ redis.sess = c /\ lsess[redis.logic] # c /\ down[conn[c].gate].pc = "up" =>
                \E d \in Conns : Resumer(d, c, {"rpc", "checked", "end"})
Accounted(c) ==
    \/ Live(c)
    \/ leaving[c] \in {"notify", "clear"}
    \/ \E who \in Kickers : kick[c][who].pc \in {"taken", "clear"}
    \/ down[conn[c].gate].pc \in {"notify", "clear"} /\ down[conn[c].gate].sid = c
    \/ \E d \in Conns : Resumer(d, c, {"save", "end"})
    \/ kick[c]["gate"].pc = "done"
    \/ down[conn[c].gate].pc # "up" /\ \E d \in Conns : conn[d].pc = "save" /\ conn[d].gate = conn[c].gate
Recorded == redis.sess # None => /\ redis.gate = conn[redis.sess].gate /\ conn[redis.sess].pc # "none"
                                 /\ Accounted(redis.sess)

\* The counts: a kick that took an active session has it still to subtract.
Subtracts(g) == \E c \in Conns, who \in Kickers : conn[c].gate = g /\ kick[c][who].pc = "taken" /\ kick[c][who].active
GateCount == \A g \in Gates : down[g].pc = "up" => count[g] = (IF Active(g) THEN 2 ELSE 1) + (IF Subtracts(g) THEN 1 ELSE 0)
LogicCount == \A l \in Logics : lcount[l] = IF lsess[l] = None THEN 0 ELSE 1

Phases == /\ Plain /\ OneWorking /\ Answered /\ KickIdle /\ KickGate /\ KickLogic /\ LeaveRight /\ NtfRight /\ DownRight
Lives == Bound /\ TakenOff /\ SaveLive /\ LeaveGone /\ KickGone /\ LeaveLive
Known == OpenKnown /\ AskedKnown /\ ReconnectRight
Records == OpenRecorded /\ Overtaken /\ Recorded
Counts == GateCount /\ LogicCount

\* The sessions, the record, Logic and the counts agree, up to what is under way.
Agree == Phases /\ Lives /\ Known /\ Records /\ Counts

\* What the properties of a takeover rest on.
Ready == Types /\ Owned /\ Phases /\ Lives /\ Known /\ Records /\ Counts

\* Nothing but a disconnect fails.
LEMMA Calm == ASSUME TakeoverConfig
              PROVE  /\ ~May("rpc") /\ ~May("redis") /\ ~May("kick") /\ ~May("notify") /\ \A l \in Logics : ~SaveFails(l)
BY DEF TakeoverConfig, May, SaveFails

\* A live session has been answered and installed; it is the only one of its Gate.
LEMMA LiveFacts == ASSUME Types, Owned, Lives, NEW c \in Conns, Live(c)
                   PROVE  /\ conn[c].gate \in Gates /\ table[conn[c].gate] \in Conns /\ stream[table[conn[c].gate]].sid = c
                          /\ stream[table[conn[c].gate]].active
                          /\ ask[c] = "ok" /\ conn[c].user /\ conn[c].pc \in {"save", "on", "kicking", "end"}
                          /\ conn[c].logic = redis.logic /\ redis.logic \in Logics
<1>1. /\ conn[c].gate \in Gates /\ table[conn[c].gate] \in Conns /\ stream[table[conn[c].gate]].sid = c
      /\ stream[table[conn[c].gate]].active
  BY DEF Live, Holds, Active, Types, GateTypes
<1>2. ask[c] = "ok" /\ conn[c].user /\ conn[c].pc \in {"save", "on", "kicking", "end"}
  BY <1>1, SessionConfig DEF Lives, Bound, SessionConfig
<1>3. conn[c].logic = redis.logic /\ conn[c].logic \in Logics BY <1>2 DEF Owned, RoutedRight, Types, Begun, BegunConn
<1> QED BY <1>1, <1>2, <1>3

\* A Gate has one live session.
LEMMA LiveOne == ASSUME NEW c \in Conns, NEW d \in Conns, Live(c), Live(d), conn[c].gate = conn[d].gate PROVE c = d
BY DEF Live, Holds

\* The Gate of an active object has a live session.
LEMMA ActiveLive == ASSUME Types, NEW g \in Gates, Active(g)
                    PROVE  /\ table[g] \in Conns /\ stream[table[g]].sid \in Conns /\ Live(stream[table[g]].sid)
                           /\ conn[stream[table[g]].sid].gate = g
<1>1. table[g] \in Conns /\ stream[table[g]].sid \in Conns \cup {None} BY DEF Active, Types, GateTypes, StreamRec
<1>2. stream[table[g]].sid # None /\ conn[table[g]].gate = g
  BY <1>1, SessionConfig DEF Types, Begun, BegunTable, SessionConfig
<1>3. conn[stream[table[g]].sid].gate = g BY <1>1, <1>2 DEF Types, Begun, BegunStream
<1> QED BY <1>1, <1>2, <1>3 DEF Live, Holds, Active

\* A session that has not been asked for is not live.
LEMMA LiveAsked == ASSUME Types, NEW c \in Conns, Live(c) PROVE ask[c] # "none" /\ conn[c].pc # "none"
<1>1. table[conn[c].gate] \in Conns /\ stream[table[conn[c].gate]].sid = c BY DEF Live, Holds, Types, GateTypes
<1>2. ask[c] # "none" BY <1>1, SessionConfig DEF Types, Begun, BegunStream, SessionConfig
<1> QED BY <1>2 DEF Types, Begun, BegunConn

\* What a step does to the live sessions: nothing, ...
LiveStays == /\ \A x \in Conns : Live(x)' <=> Live(x)
             /\ \A g \in Gates : Active(g)' <=> Active(g)
\* ... the one of a Gate ends, ...
LiveEnds(g) == /\ \A x \in Conns : Live(x)' <=> Live(x) /\ conn[x].gate # g
               /\ \A h \in Gates : Active(h)' <=> Active(h) /\ h # g
\* ... or c replaces it.
LiveBegins(c) == /\ Live(c)'
                 /\ \A x \in Conns : x # c => (Live(x)' <=> Live(x) /\ conn[x].gate # conn[c].gate)
                 /\ \A h \in Gates : Active(h)' <=> h = conn[c].gate \/ Active(h)

\* Tables and objects that stay as they are.
LEMMA LiveSame == ASSUME Types, Grows, table' = table, stream' = stream
                  PROVE  LiveStays
<1>1. ASSUME NEW x \in Conns, NEW g \in Gates, Holds(g, x) PROVE conn[x].gate = g /\ conn'[x].gate = conn[x].gate
  <2>1. table[g] \in Conns /\ stream[table[g]].sid = x BY <1>1 DEF Holds, Types, GateTypes
  <2>2. conn[table[g]].gate = g BY <2>1, SessionConfig DEF Types, Begun, BegunTable, SessionConfig
  <2>3. ask[x] # "none" /\ conn[x].gate = g BY <2>1, <2>2, SessionConfig DEF Types, Begun, BegunStream, SessionConfig
  <2> QED BY <2>3 DEF Types, Begun, BegunConn, Grows
<1>2. \A g \in Gates : Active(g)' <=> Active(g) BY DEF Active
<1>3. \A g \in Gates, x \in Conns : Holds(g, x)' <=> Holds(g, x) BY DEF Holds
<1> QED BY <1>1, <1>2, <1>3 DEF Live, LiveStays

\* A step on a table and its objects is seen by the sessions of that Gate only.
LEMMA LiveElsewhere == ASSUME Types, NEW g \in Gates, \A x \in Conns : conn'[x].gate = conn[x].gate,
                              \A h \in Gates : h # g => table'[h] = table[h],
                              \A o \in Conns : conn[o].gate # g => stream'[o] = stream[o]
                       PROVE  /\ \A x \in Conns : conn[x].gate # g => (Live(x)' <=> Live(x))
                              /\ \A h \in Gates : h # g => (Active(h)' <=> Active(h))
<1>1. ASSUME NEW h \in Gates, h # g PROVE \/ table[h] = None /\ table'[h] = None
                                          \/ table'[h] = table[h] /\ table[h] # None /\ stream'[table[h]] = stream[table[h]]
  <2>1. table'[h] = table[h] /\ table[h] \in Conns \cup {None} BY <1>1 DEF Types, GateTypes
  <2>2. table[h] # None => conn[table[h]].gate = h BY DEF Types, Begun, BegunTable
  <2> QED BY <1>1, <2>1, <2>2
<1>2. ASSUME NEW h \in Gates, h # g PROVE (Active(h)' <=> Active(h)) /\ \A x \in Conns : Holds(h, x)' <=> Holds(h, x)
  BY <1>1, <1>2 DEF Active, Holds
<1> QED BY <1>2 DEF Live

\* A Gate that is not active has no live session.
LEMMA NotLive == ASSUME NEW x \in Conns, NEW g \in Gates, conn[x].gate = g, ~Active(g) PROVE ~Live(x)
BY DEF Live

\* The same after a step.
LEMMA NotLiveNext == ASSUME NEW x \in Conns, NEW g \in Gates, conn'[x].gate = g, ~Active(g)' PROVE ~Live(x)'
BY DEF Live

\* The object of a Gate goes offline.
LEMMA OfflineLive == ASSUME Types, NEW g \in Gates, table[g] \in Conns, Offline(table[g]), \A x \in Conns : conn'[x].gate = conn[x].gate,
                            \A h \in Gates : h # g => table'[h] = table[h], table'[g] \in {None, table[g]}
                     PROVE  LiveEnds(g)
<1>1. conn[table[g]].gate = g BY SessionConfig DEF Types, Begun, BegunTable, SessionConfig
<1>2. \A o \in Conns : conn[o].gate # g => stream'[o] = stream[o] BY <1>1 DEF Offline
<1>3. /\ \A x \in Conns : conn[x].gate # g => (Live(x)' <=> Live(x))
      /\ \A h \in Gates : h # g => (Active(h)' <=> Active(h))
  BY <1>2, LiveElsewhere
<1>4. ~Active(g)' BY DEF Active, Offline
<1>5. \A x \in Conns : conn[x].gate = g => ~Live(x)' BY <1>4, NotLiveNext
<1> QED BY <1>3, <1>4, <1>5 DEF LiveEnds

\* An object that is not active leaves the table.
LEMMA ForgetLive == ASSUME Types, NEW g \in Gates, ~Active(g), stream' = stream, \A x \in Conns : conn'[x].gate = conn[x].gate,
                           \A h \in Gates : h # g => table'[h] = table[h], table'[g] \in {None, table[g]}
                    PROVE  LiveStays
<1>3. /\ \A x \in Conns : conn[x].gate # g => (Live(x)' <=> Live(x))
      /\ \A h \in Gates : h # g => (Active(h)' <=> Active(h))
  BY LiveElsewhere
<1>4. ~Active(g)' BY DEF Active
<1>5. \A x \in Conns : conn[x].gate = g => ~Live(x)' /\ ~Live(x) BY <1>4, NotLive, NotLiveNext
<1> QED BY <1>3, <1>4, <1>5 DEF LiveStays

\* A session is installed or resumed.
LEMMA ResumeLive == ASSUME Types, NEW c \in Conns, conn[c].gate \in Gates, table'[conn[c].gate] \in Conns,
                           Resumed(table'[conn[c].gate], c), conn[table'[conn[c].gate]].gate = conn[c].gate,
                           \A x \in Conns : conn'[x].gate = conn[x].gate,
                           \A h \in Gates : h # conn[c].gate => table'[h] = table[h]
                    PROVE  LiveBegins(c)
<1>0. PICK g \in Gates : g = conn[c].gate OBVIOUS
<1>1. /\ table'[g] \in Conns /\ stream'[table'[g]].sid = c /\ stream'[table'[g]].active /\ table'[g] # None
      /\ \A o \in Conns : conn[o].gate # g => stream'[o] = stream[o]
  BY <1>0, SessionConfig DEF Resumed, SessionConfig
<1>2. /\ \A x \in Conns : conn[x].gate # g => (Live(x)' <=> Live(x))
      /\ \A h \in Gates : h # g => (Active(h)' <=> Active(h))
  BY <1>0, <1>1, LiveElsewhere
<1>3. Active(g)' BY <1>1 DEF Active
<1>4. Live(c)' BY <1>0, <1>1, <1>3 DEF Live, Holds
<1>5. \A x \in Conns : conn[x].gate = g /\ x # c => ~Live(x)' BY <1>0, <1>1 DEF Live, Holds
<1> QED BY <1>0, <1>2, <1>3, <1>4, <1>5 DEF LiveBegins

\* The ranges of what names a connection.
LEMMA Ranges == ASSUME Ready
                PROVE  /\ None \notin Conns /\ ntf \subseteq Conns /\ redis.sess \in Conns \cup {None}
                       /\ \A o \in Conns : stream[o].sid \in Conns \cup {None}
                       /\ \A g \in Gates : table[g] \in Conns \cup {None}
                       /\ \A g \in Gates : down[g].pc \in {"notify", "clear"} => down[g].sid \in Conns
                       /\ \A c \in Conns : /\ conn[c].pc # "none" \/ Live(c) \/ leaving[c] # "no" => conn[c].gate \in Gates
                                           /\ \A who \in Kickers : kick[c][who].pc # "idle" => conn[c].gate \in Gates
<1>1. \A g \in Gates : down[g].sid \in Conns \cup {None} BY DEF Ready, Types, LeaveTypes, DownRec
<1>2. \A g \in Gates : down[g].pc \in {"notify", "clear"} => down[g].sid # None BY DEF Ready, Types, Begun, BegunDown
<1>3. redis.sess \in Conns \cup {None} BY DEF Ready, Types, RedisTypes, RedisRec
<1>4. \A o \in Conns : stream[o].sid \in Conns \cup {None} BY DEF Ready, Types, GateTypes, StreamRec
<1>5. ntf \subseteq Conns /\ \A g \in Gates : table[g] \in Conns \cup {None}
  BY DEF Ready, Types, GateTypes, LogicTypes
<1>6. \A c \in Conns : /\ conn[c].pc # "none" \/ Live(c) \/ leaving[c] # "no" => conn[c].gate \in Gates
                       /\ \A who \in Kickers : kick[c][who].pc # "idle" => conn[c].gate \in Gates
  BY DEF Ready, Types, Begun, BegunConn, BegunLeave, BegunKick, Live
<1> QED BY <1>1, <1>2, <1>3, <1>4, <1>5, <1>6, SessionConfig DEF SessionConfig

\* A worker that holds the record works alone, with no kick under way unless its request kicks.
LEMMA WorksAlone == ASSUME Ready, NEW c \in Conns, conn[c].pc \in Holding, ask[c] # "kick"
                    PROVE  /\ \A x \in Conns : x # c => ~Working(x)
                           /\ \A x \in Conns, who \in Kickers : kick[x][who].pc \in {"idle", "done"}
                           /\ \A who \in Kickers : kick[c][who].pc = "idle"
<1>1. \A x \in Conns : x # c => ~Working(x) BY DEF Ready, Phases, OneWorking, Working, Busy
<1>2. \A x \in Conns, who \in Kickers : kick[x][who].pc \in {"idle", "asked", "taken", "clear", "done"}
  BY DEF Ready, Types, LeaveTypes, KickRec
<1>3. \A x \in Conns : kick[x]["gate"].pc \notin {"asked", "taken", "clear"}
  BY <1>1 DEF Ready, Phases, KickGate, Working, Holding
<1>4. \A x \in Conns : kick[x]["logic"].pc \notin {"asked", "taken", "clear"}
  BY <1>1 DEF Ready, Phases, KickLogic, Working, Busy, Asking
<1>5. \A who \in Kickers : kick[c][who].pc = "idle" BY DEF Ready, Phases, KickIdle
<1> QED BY <1>1, <1>2, <1>3, <1>4, <1>5 DEF Kickers

\* A worker with an answer has the session that Logic knows.
LEMMA AnsweredKnown == ASSUME Ready, NEW c \in Conns, conn[c].pc \in Holding, ask[c] = "ok"
                       PROVE  redis.logic = conn[c].logic /\ redis.logic \in Logics /\ lsess[redis.logic] = c
BY DEF Ready, Owned, RoutedRight, Known, AskedKnown, Types, Begun, BegunConn

\* One kick is under way at a time, and no worker holds the record meanwhile.
LEMMA OneKick == ASSUME Ready, NEW c \in Conns, NEW who \in Kickers, kick[c][who].pc \in {"asked", "taken", "clear"}
                 PROVE  /\ \A x \in Conns, w \in Kickers : <<x, w>> # <<c, who>> => kick[x][w].pc \notin {"asked", "taken", "clear"}
                        /\ \A x \in Conns : conn[x].pc \notin {"checked", "save"} /\ (conn[x].pc \in Holding => ask[x] = "kick")
<1>1. \A x \in Conns : kick[x]["gate"].pc \in {"asked", "taken", "clear"} => conn[x].pc = "kicking" /\ ask[x] = "ok"
  BY DEF Ready, Phases, KickGate, Answered
<1>2. \A x \in Conns : kick[x]["logic"].pc \in {"asked", "taken", "clear"} =>
         \E d \in Conns : ask[d] = "kick" /\ lsess[conn[d].logic] = x
  BY DEF Ready, Phases, KickLogic
<1>3. \A x, y \in Conns : Working(x) /\ Working(y) => x = y BY DEF Ready, Phases, OneWorking
<1>4. \A x \in Conns : conn[x].pc \in {"checked", "save"} => ask[x] = "ok" BY DEF Ready, Phases, Answered
<1>5. CASE who = "gate"
  <2>1. conn[c].pc = "kicking" /\ ask[c] = "ok" /\ Working(c) BY <1>1, <1>5 DEF Working
  <2>2. \A x \in Conns : x # c => ~Working(x) BY <1>3, <2>1
  <2> QED BY <1>1, <1>2, <1>5, <2>1, <2>2 DEF Working, Busy, Asking, Holding, Kickers
<1>6. CASE who = "logic"
  <2>1. PICK d \in Conns : ask[d] = "kick" /\ lsess[conn[d].logic] = c BY <1>2, <1>6
  <2>2. \A x \in Conns : x # d => ~Working(x) BY <1>3, <2>1 DEF Working, Busy, Asking
  <2> QED BY <1>1, <1>2, <1>4, <1>6, <2>1, <2>2 DEF Working, Busy, Asking, Holding, Kickers
<1> QED BY <1>5, <1>6 DEF Kickers

\* SetToken.
LEMMA SetTokenReady == ASSUME TakeoverConfig, Ready, SetToken PROVE Agree'
<1>1. /\ redis'.sess = redis.sess /\ redis'.gate = redis.gate /\ redis'.logic = redis.logic
      /\ UNCHANGED <<conn, table, stream, count, leaving, kick, down, ask, lsess, lcount, ntf>>
  BY SetTokenFx DEF Ready
<1>2. LiveStays BY <1>1, LiveSame, StayBegun DEF Ready
<1>10. Plain' BY <1>1, <1>2, Ranges DEF Ready, Phases, Plain, LiveStays
<1>11. OneWorking' BY <1>1, <1>2, Ranges DEF Ready, Phases, OneWorking, Working, Busy, Holding, Asking, LiveStays
<1>12. Answered' BY <1>1, <1>2, Ranges DEF Ready, Phases, Answered, LiveStays
<1>13. KickIdle' BY <1>1, <1>2, Ranges DEF Ready, Phases, KickIdle, Holding, LiveStays
<1>14. KickGate' BY <1>1, <1>2, Ranges DEF Ready, Phases, KickGate, Kickers, LiveStays
<1>15. KickLogic' BY <1>1, <1>2, Ranges DEF Ready, Phases, KickLogic, Kickers, LiveStays
<1>16. LeaveRight' BY <1>1, <1>2, Ranges DEF Ready, Phases, LeaveRight, Holding, LiveStays
<1>17. NtfRight' BY <1>1, <1>2, Ranges DEF Ready, Phases, NtfRight, Holding, LiveStays
<1>18. DownRight' BY <1>1, <1>2, Ranges DEF Ready, Phases, DownRight, LiveStays
<1>19. Bound' BY <1>1, <1>2, Ranges DEF Ready, Lives, Bound, LiveStays
<1>20. TakenOff' BY <1>1, <1>2, Ranges DEF Ready, Lives, TakenOff, LiveStays
<1>21. SaveLive' BY <1>1, <1>2, Ranges DEF Ready, Lives, SaveLive, LiveStays
<1>22. LeaveGone' BY <1>1, <1>2, Ranges DEF Ready, Lives, LeaveGone, LiveStays
<1>23. KickGone' BY <1>1, <1>2, Ranges DEF Ready, Lives, KickGone, LiveStays
<1>24. LeaveLive' BY <1>1, <1>2, Ranges DEF Ready, Lives, LeaveLive, LiveStays
<1>25. OpenKnown' BY <1>1, <1>2, Ranges DEF Ready, Known, OpenKnown, LiveStays
<1>26. AskedKnown' BY <1>1, <1>2, Ranges DEF Ready, Known, AskedKnown, Holding, LiveStays
<1>27. ReconnectRight' BY <1>1, <1>2, Ranges DEF Ready, Known, ReconnectRight, Busy, Holding, Asking, LiveStays
<1>28. OpenRecorded' BY <1>1, <1>2, Ranges DEF Ready, Records, OpenRecorded, LiveStays
<1>29. Overtaken' BY <1>1, <1>2, Ranges DEF Ready, Records, Overtaken, Resumer, LiveStays
<1>30. Recorded' BY <1>1, <1>2, Ranges DEF Ready, Records, Recorded, Accounted, Resumer, Kickers, LiveStays
<1>31. GateCount' BY <1>1, <1>2, Ranges DEF Ready, Counts, GateCount, Subtracts, LiveStays
<1>32. LogicCount' BY <1>1, <1>2, Ranges DEF Ready, Counts, LogicCount, LiveStays
<1> QED BY <1>10, <1>11, <1>12, <1>13, <1>14, <1>15, <1>16, <1>17, <1>18, <1>19, <1>20, <1>21, <1>22, <1>23, <1>24,
    <1>25, <1>26, <1>27, <1>28, <1>29, <1>30, <1>31, <1>32 DEF Agree, Phases, Lives, Known, Records, Counts

\* prune_expired.
LEMMA PruneExpiredReady == ASSUME TakeoverConfig, Ready, NEW g \in Gates, PruneExpired(g) PROVE Agree'
<1>1. /\ table[g] # None /\ ~Active(g) /\ table'[g] = None /\ \A h \in Gates : h # g => table'[h] = table[h]
      /\ UNCHANGED <<redis, conn, stream, count, leaving, kick, down, ask, lsess, lcount, ntf>>
  BY PruneFx DEF Ready
<1>2. LiveStays BY <1>1, ForgetLive DEF Ready
<1>10. Plain' BY <1>1, <1>2, Ranges DEF Ready, Phases, Plain, LiveStays
<1>11. OneWorking' BY <1>1, <1>2, Ranges DEF Ready, Phases, OneWorking, Working, Busy, Holding, Asking, LiveStays
<1>12. Answered' BY <1>1, <1>2, Ranges DEF Ready, Phases, Answered, LiveStays
<1>13. KickIdle' BY <1>1, <1>2, Ranges DEF Ready, Phases, KickIdle, Holding, LiveStays
<1>14. KickGate' BY <1>1, <1>2, Ranges DEF Ready, Phases, KickGate, Kickers, LiveStays
<1>15. KickLogic' BY <1>1, <1>2, Ranges DEF Ready, Phases, KickLogic, Kickers, LiveStays
<1>16. LeaveRight' BY <1>1, <1>2, Ranges DEF Ready, Phases, LeaveRight, Holding, LiveStays
<1>17. NtfRight' BY <1>1, <1>2, Ranges DEF Ready, Phases, NtfRight, Holding, LiveStays
<1>18. DownRight' BY <1>1, <1>2, Ranges DEF Ready, Phases, DownRight, LiveStays
<1>19. Bound' BY <1>1, <1>2, Ranges DEF Ready, Lives, Bound, LiveStays
<1>20. TakenOff' BY <1>1, <1>2, Ranges DEF Ready, Lives, TakenOff, LiveStays
<1>21. SaveLive' BY <1>1, <1>2, Ranges DEF Ready, Lives, SaveLive, LiveStays
<1>22. LeaveGone' BY <1>1, <1>2, Ranges DEF Ready, Lives, LeaveGone, LiveStays
<1>23. KickGone' BY <1>1, <1>2, Ranges DEF Ready, Lives, KickGone, LiveStays
<1>24. LeaveLive' BY <1>1, <1>2, Ranges DEF Ready, Lives, LeaveLive, LiveStays
<1>25. OpenKnown' BY <1>1, <1>2, Ranges DEF Ready, Known, OpenKnown, LiveStays
<1>26. AskedKnown' BY <1>1, <1>2, Ranges DEF Ready, Known, AskedKnown, Holding, LiveStays
<1>27. ReconnectRight' BY <1>1, <1>2, Ranges DEF Ready, Known, ReconnectRight, Busy, Holding, Asking, LiveStays
<1>28. OpenRecorded' BY <1>1, <1>2, Ranges DEF Ready, Records, OpenRecorded, LiveStays
<1>29. Overtaken' BY <1>1, <1>2, Ranges DEF Ready, Records, Overtaken, Resumer, LiveStays
<1>30. Recorded' BY <1>1, <1>2, Ranges DEF Ready, Records, Recorded, Accounted, Resumer, Kickers, LiveStays
<1>31. GateCount' BY <1>1, <1>2, Ranges DEF Ready, Counts, GateCount, Subtracts, LiveStays
<1>32. LogicCount' BY <1>1, <1>2, Ranges DEF Ready, Counts, LogicCount, LiveStays
<1> QED BY <1>10, <1>11, <1>12, <1>13, <1>14, <1>15, <1>16, <1>17, <1>18, <1>19, <1>20, <1>21, <1>22, <1>23, <1>24,
    <1>25, <1>26, <1>27, <1>28, <1>29, <1>30, <1>31, <1>32 DEF Agree, Phases, Lives, Known, Records, Counts

\* The connections of a Gate close.
LEMMA BeginShutdownReady == ASSUME TakeoverConfig, Ready, NEW g \in Gates, BeginShutdown(g) PROVE Agree'
<1>1. /\ down[g].pc = "up" /\ down'[g].pc = "draining" /\ down'[g].sid = down[g].sid
      /\ \A h \in Gates : h # g => down'[h] = down[h]
      /\ \A c \in Conns : /\ conn[c].gate # g => conn'[c] = conn[c]
                          /\ conn[c].gate = g => conn'[c].open = FALSE
                          /\ Keeps(c) /\ conn'[c].pc = conn[c].pc /\ conn'[c].user = conn[c].user /\ conn'[c].aborted = conn[c].aborted
      /\ UNCHANGED <<redis, table, stream, count, leaving, kick, ask, lsess, lcount, ntf>>
  BY BeginShutdownFx DEF Ready
<1>2. LiveStays
  <2>1. Grows BY <1>1 DEF Grows, Keeps
  <2> QED BY <1>1, <2>1, LiveSame DEF Ready
<1>10. Plain' BY <1>1, <1>2, Ranges DEF Ready, Phases, Plain, LiveStays, Keeps
<1>11. OneWorking'
  BY <1>1, <1>2, Ranges DEF Ready, Phases, OneWorking, Working, Busy, Holding, Asking, LiveStays, Keeps
<1>12. Answered' BY <1>1, <1>2, Ranges DEF Ready, Phases, Answered, LiveStays, Keeps
<1>13. KickIdle' BY <1>1, <1>2, Ranges DEF Ready, Phases, KickIdle, Holding, LiveStays, Keeps
<1>14. KickGate' BY <1>1, <1>2, Ranges DEF Ready, Phases, KickGate, Kickers, LiveStays, Keeps
<1>15. KickLogic' BY <1>1, <1>2, Ranges DEF Ready, Phases, KickLogic, Kickers, LiveStays, Keeps
<1>16. LeaveRight' BY <1>1, <1>2, Ranges DEF Ready, Phases, LeaveRight, Holding, LiveStays, Keeps
<1>17. NtfRight' BY <1>1, <1>2, Ranges DEF Ready, Phases, NtfRight, Holding, LiveStays, Keeps
<1>18. DownRight' BY <1>1, <1>2, Ranges DEF Ready, Phases, DownRight, LiveStays, Keeps
<1>19. Bound' BY <1>1, <1>2, Ranges DEF Ready, Lives, Bound, LiveStays, Keeps
<1>20. TakenOff' BY <1>1, <1>2, Ranges DEF Ready, Lives, TakenOff, LiveStays, Keeps
<1>21. SaveLive' BY <1>1, <1>2, Ranges DEF Ready, Lives, SaveLive, LiveStays, Keeps
<1>22. LeaveGone' BY <1>1, <1>2, Ranges DEF Ready, Lives, LeaveGone, LiveStays, Keeps
<1>23. KickGone' BY <1>1, <1>2, Ranges DEF Ready, Lives, KickGone, LiveStays, Keeps
<1>24. LeaveLive' BY <1>1, <1>2, Ranges DEF Ready, Lives, LeaveLive, LiveStays, Keeps
<1>25. OpenKnown' BY <1>1, <1>2, Ranges DEF Ready, Known, OpenKnown, LiveStays, Keeps
<1>26. AskedKnown' BY <1>1, <1>2, Ranges DEF Ready, Known, AskedKnown, Holding, LiveStays, Keeps
<1>27. ReconnectRight' BY <1>1, <1>2, Ranges DEF Ready, Known, ReconnectRight, Busy, Holding, Asking, LiveStays, Keeps
<1>28. OpenRecorded' BY <1>1, <1>2, Ranges DEF Ready, Records, OpenRecorded, LiveStays, Keeps
<1>29. Overtaken' BY <1>1, <1>2, Ranges DEF Ready, Records, Overtaken, Resumer, LiveStays, Keeps
<1>30. Recorded' BY <1>1, <1>2, Ranges DEF Ready, Records, Recorded, Accounted, Resumer, Kickers, LiveStays, Keeps
<1>31. GateCount' BY <1>1, <1>2, Ranges DEF Ready, Counts, GateCount, Subtracts, LiveStays, Keeps
<1>32. LogicCount' BY <1>1, <1>2, Ranges DEF Ready, Counts, LogicCount, LiveStays, Keeps
<1> QED BY <1>10, <1>11, <1>12, <1>13, <1>14, <1>15, <1>16, <1>17, <1>18, <1>19, <1>20, <1>21, <1>22, <1>23, <1>24,
    <1>25, <1>26, <1>27, <1>28, <1>29, <1>30, <1>31, <1>32 DEF Agree, Phases, Lives, Known, Records, Counts

\* The drain ends the live session of the Gate.
LEMMA ShutdownDrainReady == ASSUME TakeoverConfig, Ready, NEW g \in Gates, ShutdownDrain(g) PROVE Agree'
<1>1. /\ down[g].pc = "draining" /\ WorkersEnded(g) /\ table'[g] = None /\ \A h \in Gates : h # g => table'[h] = table[h]
      /\ \A h \in Gates : h # g => count'[h] = count[h]
      /\ \A h \in Gates : h # g => down'[h] = down[h]
      /\ table[g] = None => down'[g].pc = "down" /\ stream' = stream
      /\ table[g] # None => down'[g].pc = "notify" /\ down'[g].sid = stream[table[g]].sid /\ Offline(table[g])
      /\ UNCHANGED <<redis, conn, leaving, kick, ask, lsess, lcount, ntf>>
  BY ShutdownDrainFx DEF Ready
<1>2. LiveEnds(g)
  <2>1. CASE table[g] = None
    <3>1. ~Active(g) BY <2>1 DEF Active
    <3>2. LiveStays BY <1>1, <2>1, <3>1, ForgetLive DEF Ready
    <3>3. \A x \in Conns : conn[x].gate = g => ~Live(x) BY <3>1, NotLive
    <3> QED BY <3>1, <3>2, <3>3 DEF LiveStays, LiveEnds
  <2>2. CASE table[g] # None BY <1>1, <2>2, Ranges, OfflineLive DEF Ready
  <2> QED BY <2>1, <2>2
<1>3. \A c \in Conns : conn[c].gate = g => conn[c].pc \in {"on", "end"}
  BY <1>1 DEF WorkersEnded, Here, Ready, Phases, Plain
<1>4. table[g] # None => stream[table[g]].sid \in Conns /\ conn[stream[table[g]].sid].gate = g
  BY Ranges, SessionConfig DEF Ready, Types, Begun, BegunTable, BegunStream, SessionConfig
<1>5. \A x \in Conns : Live(x) /\ conn[x].gate = g => table[g] # None /\ stream[table[g]].sid = x BY DEF Live, Holds
<1>10. Plain' BY <1>1, <1>2, <1>3, <1>4, <1>5, Ranges DEF Ready, Phases, Plain, LiveEnds, Offline
<1>11. OneWorking'
  BY <1>1, <1>2, <1>3, <1>4, <1>5, Ranges DEF Ready, Phases, OneWorking, Working, Busy, Holding, Asking, LiveEnds,
     Offline
<1>12. Answered' BY <1>1, <1>2, <1>3, <1>4, <1>5, Ranges DEF Ready, Phases, Answered, LiveEnds, Offline
<1>13. KickIdle' BY <1>1, <1>2, <1>3, <1>4, <1>5, Ranges DEF Ready, Phases, KickIdle, Holding, LiveEnds, Offline
<1>14. KickGate' BY <1>1, <1>2, <1>3, <1>4, <1>5, Ranges DEF Ready, Phases, KickGate, Kickers, LiveEnds, Offline
<1>15. KickLogic' BY <1>1, <1>2, <1>3, <1>4, <1>5, Ranges DEF Ready, Phases, KickLogic, Kickers, LiveEnds, Offline
<1>16. LeaveRight' BY <1>1, <1>2, <1>3, <1>4, <1>5, Ranges DEF Ready, Phases, LeaveRight, Holding, LiveEnds, Offline
<1>17. NtfRight' BY <1>1, <1>2, <1>3, <1>4, <1>5, Ranges DEF Ready, Phases, NtfRight, Holding, LiveEnds, Offline
<1>18. DownRight' BY <1>1, <1>2, <1>3, <1>4, <1>5, Ranges DEF Ready, Phases, DownRight, LiveEnds, Offline
<1>19. Bound' BY <1>1, <1>2, <1>3, <1>4, <1>5, Ranges DEF Ready, Lives, Bound, LiveEnds, Offline
<1>20. TakenOff' BY <1>1, <1>2, <1>3, <1>4, <1>5, Ranges DEF Ready, Lives, TakenOff, LiveEnds, Offline
<1>21. SaveLive' BY <1>1, <1>2, <1>3, <1>4, <1>5, Ranges DEF Ready, Lives, SaveLive, LiveEnds, Offline
<1>22. LeaveGone' BY <1>1, <1>2, <1>3, <1>4, <1>5, Ranges DEF Ready, Lives, LeaveGone, LiveEnds, Offline
<1>23. KickGone' BY <1>1, <1>2, <1>3, <1>4, <1>5, Ranges DEF Ready, Lives, KickGone, LiveEnds, Offline
<1>24. LeaveLive' BY <1>1, <1>2, <1>3, <1>4, <1>5, Ranges DEF Ready, Lives, LeaveLive, LiveEnds, Offline
<1>25. OpenKnown' BY <1>1, <1>2, <1>3, <1>4, <1>5, Ranges DEF Ready, Known, OpenKnown, LiveEnds, Offline
<1>26. AskedKnown' BY <1>1, <1>2, <1>3, <1>4, <1>5, Ranges DEF Ready, Known, AskedKnown, Holding, LiveEnds, Offline
<1>27. ReconnectRight'
  BY <1>1, <1>2, <1>3, <1>4, <1>5, Ranges DEF Ready, Known, ReconnectRight, Busy, Holding, Asking, LiveEnds, Offline
<1>28. OpenRecorded' BY <1>1, <1>2, <1>3, <1>4, <1>5, Ranges DEF Ready, Records, OpenRecorded, LiveEnds, Offline
<1>29. Overtaken' BY <1>1, <1>2, <1>3, <1>4, <1>5, Ranges DEF Ready, Records, Overtaken, Resumer, LiveEnds, Offline
<1>30. Recorded'
  BY <1>1, <1>2, <1>3, <1>4, <1>5, Ranges DEF Ready, Records, Recorded, Accounted, Resumer, Kickers, LiveEnds,
     Offline
<1>31. GateCount' BY <1>1, <1>2, <1>3, <1>4, <1>5, Ranges DEF Ready, Counts, GateCount, Subtracts, LiveEnds, Offline
<1>32. LogicCount' BY <1>1, <1>2, <1>3, <1>4, <1>5, Ranges DEF Ready, Counts, LogicCount, LiveEnds, Offline
<1> QED BY <1>10, <1>11, <1>12, <1>13, <1>14, <1>15, <1>16, <1>17, <1>18, <1>19, <1>20, <1>21, <1>22, <1>23, <1>24,
    <1>25, <1>26, <1>27, <1>28, <1>29, <1>30, <1>31, <1>32 DEF Agree, Phases, Lives, Known, Records, Counts

\* Logic is told of the drained session.
LEMMA ShutdownNotifyReady == ASSUME TakeoverConfig, Ready, NEW g \in Gates, ShutdownNotify(g) PROVE Agree'
<1>1. /\ down[g].pc = "notify" /\ DownMoves(g, "clear") /\ ntf' = ntf \cup {down[g].sid} /\ down[g].sid \in Conns
      /\ UNCHANGED <<redis, conn, table, stream, count, leaving, kick, ask, lsess, lcount>>
  BY ShutdownNotifyFx, Calm, Ranges DEF Ready
<1>2. LiveStays BY <1>1, LiveSame, StayBegun DEF Ready
<1>3. ~Live(down[g].sid) BY <1>1 DEF Live, Holds, Ready, Phases, DownRight, NtfRight
<1>10. Plain' BY <1>1, <1>2, <1>3, Ranges DEF Ready, Phases, Plain, LiveStays, DownMoves
<1>11. OneWorking'
  BY <1>1, <1>2, <1>3, Ranges DEF Ready, Phases, OneWorking, Working, Busy, Holding, Asking, LiveStays, DownMoves
<1>12. Answered' BY <1>1, <1>2, <1>3, Ranges DEF Ready, Phases, Answered, LiveStays, DownMoves
<1>13. KickIdle' BY <1>1, <1>2, <1>3, Ranges DEF Ready, Phases, KickIdle, Holding, LiveStays, DownMoves
<1>14. KickGate' BY <1>1, <1>2, <1>3, Ranges DEF Ready, Phases, KickGate, Kickers, LiveStays, DownMoves
<1>15. KickLogic' BY <1>1, <1>2, <1>3, Ranges DEF Ready, Phases, KickLogic, Kickers, LiveStays, DownMoves
<1>16. LeaveRight' BY <1>1, <1>2, <1>3, Ranges DEF Ready, Phases, LeaveRight, Holding, LiveStays, DownMoves
<1>17. NtfRight' BY <1>1, <1>2, <1>3, Ranges DEF Ready, Phases, NtfRight, Holding, LiveStays, DownMoves
<1>18. DownRight' BY <1>1, <1>2, <1>3, Ranges DEF Ready, Phases, DownRight, LiveStays, DownMoves
<1>19. Bound' BY <1>1, <1>2, <1>3, Ranges DEF Ready, Lives, Bound, LiveStays, DownMoves
<1>20. TakenOff' BY <1>1, <1>2, <1>3, Ranges DEF Ready, Lives, TakenOff, LiveStays, DownMoves
<1>21. SaveLive' BY <1>1, <1>2, <1>3, Ranges DEF Ready, Lives, SaveLive, LiveStays, DownMoves
<1>22. LeaveGone' BY <1>1, <1>2, <1>3, Ranges DEF Ready, Lives, LeaveGone, LiveStays, DownMoves
<1>23. KickGone' BY <1>1, <1>2, <1>3, Ranges DEF Ready, Lives, KickGone, LiveStays, DownMoves
<1>24. LeaveLive' BY <1>1, <1>2, <1>3, Ranges DEF Ready, Lives, LeaveLive, LiveStays, DownMoves
<1>25. OpenKnown' BY <1>1, <1>2, <1>3, Ranges DEF Ready, Known, OpenKnown, LiveStays, DownMoves
<1>26. AskedKnown' BY <1>1, <1>2, <1>3, Ranges DEF Ready, Known, AskedKnown, Holding, LiveStays, DownMoves
<1>27. ReconnectRight'
  BY <1>1, <1>2, <1>3, Ranges DEF Ready, Known, ReconnectRight, Busy, Holding, Asking, LiveStays, DownMoves
<1>28. OpenRecorded' BY <1>1, <1>2, <1>3, Ranges DEF Ready, Records, OpenRecorded, LiveStays, DownMoves
<1>29. Overtaken' BY <1>1, <1>2, <1>3, Ranges DEF Ready, Records, Overtaken, Resumer, LiveStays, DownMoves
<1>30. Recorded'
  BY <1>1, <1>2, <1>3, Ranges DEF Ready, Records, Recorded, Accounted, Resumer, Kickers, LiveStays, DownMoves
<1>31. GateCount' BY <1>1, <1>2, <1>3, Ranges DEF Ready, Counts, GateCount, Subtracts, LiveStays, DownMoves
<1>32. LogicCount' BY <1>1, <1>2, <1>3, Ranges DEF Ready, Counts, LogicCount, LiveStays, DownMoves
<1> QED BY <1>10, <1>11, <1>12, <1>13, <1>14, <1>15, <1>16, <1>17, <1>18, <1>19, <1>20, <1>21, <1>22, <1>23, <1>24,
    <1>25, <1>26, <1>27, <1>28, <1>29, <1>30, <1>31, <1>32 DEF Agree, Phases, Lives, Known, Records, Counts

\* The record of the drained session is cleared.
LEMMA ShutdownClearReady == ASSUME TakeoverConfig, Ready, NEW g \in Gates, ShutdownClear(g) PROVE Agree'
<1>1. /\ down[g].pc = "clear" /\ DownMoves(g, "down") /\ down[g].sid \in Conns
      /\ redis'.logic = redis.logic
      /\ \/ redis.sess = down[g].sid /\ redis'.sess = None
         \/ redis.sess # down[g].sid /\ redis' = redis
      /\ UNCHANGED <<conn, table, stream, count, leaving, kick, ask, lsess, lcount, ntf>>
  BY ShutdownClearFx, Calm DEF Ready, Cleared
<1>2. LiveStays BY <1>1, LiveSame, StayBegun DEF Ready
<1>3. ~Live(down[g].sid) BY <1>1 DEF Live, Holds, Ready, Phases, DownRight, NtfRight
<1>10. Plain' BY <1>1, <1>2, <1>3, Ranges DEF Ready, Phases, Plain, LiveStays, DownMoves
<1>11. OneWorking'
  BY <1>1, <1>2, <1>3, Ranges DEF Ready, Phases, OneWorking, Working, Busy, Holding, Asking, LiveStays, DownMoves
<1>12. Answered' BY <1>1, <1>2, <1>3, Ranges DEF Ready, Phases, Answered, LiveStays, DownMoves
<1>13. KickIdle' BY <1>1, <1>2, <1>3, Ranges DEF Ready, Phases, KickIdle, Holding, LiveStays, DownMoves
<1>14. KickGate' BY <1>1, <1>2, <1>3, Ranges DEF Ready, Phases, KickGate, Kickers, LiveStays, DownMoves
<1>15. KickLogic' BY <1>1, <1>2, <1>3, Ranges DEF Ready, Phases, KickLogic, Kickers, LiveStays, DownMoves
<1>16. LeaveRight' BY <1>1, <1>2, <1>3, Ranges DEF Ready, Phases, LeaveRight, Holding, LiveStays, DownMoves
<1>17. NtfRight' BY <1>1, <1>2, <1>3, Ranges DEF Ready, Phases, NtfRight, Holding, LiveStays, DownMoves
<1>18. DownRight' BY <1>1, <1>2, <1>3, Ranges DEF Ready, Phases, DownRight, LiveStays, DownMoves
<1>19. Bound' BY <1>1, <1>2, <1>3, Ranges DEF Ready, Lives, Bound, LiveStays, DownMoves
<1>20. TakenOff' BY <1>1, <1>2, <1>3, Ranges DEF Ready, Lives, TakenOff, LiveStays, DownMoves
<1>21. SaveLive' BY <1>1, <1>2, <1>3, Ranges DEF Ready, Lives, SaveLive, LiveStays, DownMoves
<1>22. LeaveGone' BY <1>1, <1>2, <1>3, Ranges DEF Ready, Lives, LeaveGone, LiveStays, DownMoves
<1>23. KickGone' BY <1>1, <1>2, <1>3, Ranges DEF Ready, Lives, KickGone, LiveStays, DownMoves
<1>24. LeaveLive' BY <1>1, <1>2, <1>3, Ranges DEF Ready, Lives, LeaveLive, LiveStays, DownMoves
<1>25. OpenKnown' BY <1>1, <1>2, <1>3, Ranges DEF Ready, Known, OpenKnown, LiveStays, DownMoves
<1>26. AskedKnown' BY <1>1, <1>2, <1>3, Ranges DEF Ready, Known, AskedKnown, Holding, LiveStays, DownMoves
<1>27. ReconnectRight'
  BY <1>1, <1>2, <1>3, Ranges DEF Ready, Known, ReconnectRight, Busy, Holding, Asking, LiveStays, DownMoves
<1>28. OpenRecorded' BY <1>1, <1>2, <1>3, Ranges DEF Ready, Records, OpenRecorded, LiveStays, DownMoves
<1>29. Overtaken' BY <1>1, <1>2, <1>3, Ranges DEF Ready, Records, Overtaken, Resumer, LiveStays, DownMoves
<1>30. Recorded'
  BY <1>1, <1>2, <1>3, Ranges DEF Ready, Records, Recorded, Accounted, Resumer, Kickers, LiveStays, DownMoves
<1>31. GateCount' BY <1>1, <1>2, <1>3, Ranges DEF Ready, Counts, GateCount, Subtracts, LiveStays, DownMoves
<1>32. LogicCount' BY <1>1, <1>2, <1>3, Ranges DEF Ready, Counts, LogicCount, LiveStays, DownMoves
<1> QED BY <1>10, <1>11, <1>12, <1>13, <1>14, <1>15, <1>16, <1>17, <1>18, <1>19, <1>20, <1>21, <1>22, <1>23, <1>24,
    <1>25, <1>26, <1>27, <1>28, <1>29, <1>30, <1>31, <1>32 DEF Agree, Phases, Lives, Known, Records, Counts

\* authorize_reconnect.
LEMMA AuthorizeReconnectReady == ASSUME TakeoverConfig, Ready, NEW c \in Conns, AuthorizeReconnect(c) PROVE Agree'
<1>1. /\ conn[c].pc = "loaded" /\ conn[c].gate \in Gates /\ ask[c] = "none" /\ Others(c) /\ conn'[c].gate = conn[c].gate
      /\ conn'[c].reconnect = conn[c].reconnect /\ conn'[c].prev = conn[c].prev /\ conn'[c].user = conn[c].user
      /\ conn'[c].aborted = conn[c].aborted /\ \A d \in Conns : d # c => ask'[d] = ask[d]
      /\ \/ conn'[c].pc = "rpc" /\ conn'[c].open = conn[c].open /\ ask'[c] = "sent"
         \/ conn'[c].pc = "end" /\ conn'[c].open = FALSE /\ ask'[c] = "none"
      /\ UNCHANGED <<redis, table, stream, count, leaving, kick, down, lsess, lcount, ntf>>
  BY AuthorizeFx DEF Ready, Ends, Keeps, Types, Begun, BegunConn
<1>2. LiveStays
  <2>1. Grows BY <1>1 DEF Grows, Others
  <2> QED BY <1>1, <2>1, LiveSame DEF Ready
<1>3. ~Live(c) BY <1>1, LiveAsked DEF Ready
<1>10. Plain' BY <1>1, <1>2, <1>3, Ranges DEF Ready, Phases, Plain, LiveStays, Others
<1>11. OneWorking'
  BY <1>1, <1>2, <1>3, Ranges DEF Ready, Phases, OneWorking, Working, Busy, Holding, Asking, LiveStays, Others
<1>12. Answered' BY <1>1, <1>2, <1>3, Ranges DEF Ready, Phases, Answered, LiveStays, Others
<1>13. KickIdle' BY <1>1, <1>2, <1>3, Ranges DEF Ready, Phases, KickIdle, Holding, LiveStays, Others
<1>14. KickGate' BY <1>1, <1>2, <1>3, Ranges DEF Ready, Phases, KickGate, Kickers, LiveStays, Others
<1>15. KickLogic' BY <1>1, <1>2, <1>3, Ranges DEF Ready, Phases, KickLogic, Kickers, LiveStays, Others
<1>16. LeaveRight' BY <1>1, <1>2, <1>3, Ranges DEF Ready, Phases, LeaveRight, Holding, LiveStays, Others
<1>17. NtfRight' BY <1>1, <1>2, <1>3, Ranges DEF Ready, Phases, NtfRight, Holding, LiveStays, Others
<1>18. DownRight' BY <1>1, <1>2, <1>3, Ranges DEF Ready, Phases, DownRight, LiveStays, Others
<1>19. Bound' BY <1>1, <1>2, <1>3, Ranges DEF Ready, Lives, Bound, LiveStays, Others
<1>20. TakenOff' BY <1>1, <1>2, <1>3, Ranges DEF Ready, Lives, TakenOff, LiveStays, Others
<1>21. SaveLive' BY <1>1, <1>2, <1>3, Ranges DEF Ready, Lives, SaveLive, LiveStays, Others
<1>22. LeaveGone' BY <1>1, <1>2, <1>3, Ranges DEF Ready, Lives, LeaveGone, LiveStays, Others
<1>23. KickGone' BY <1>1, <1>2, <1>3, Ranges DEF Ready, Lives, KickGone, LiveStays, Others
<1>24. LeaveLive' BY <1>1, <1>2, <1>3, Ranges DEF Ready, Lives, LeaveLive, LiveStays, Others
<1>25. OpenKnown' BY <1>1, <1>2, <1>3, Ranges DEF Ready, Known, OpenKnown, LiveStays, Others
<1>26. AskedKnown' BY <1>1, <1>2, <1>3, Ranges DEF Ready, Known, AskedKnown, Holding, LiveStays, Others
<1>27. ReconnectRight'
  BY <1>1, <1>2, <1>3, Ranges DEF Ready, Known, ReconnectRight, Busy, Holding, Asking, LiveStays, Others
<1>28. OpenRecorded' BY <1>1, <1>2, <1>3, Ranges DEF Ready, Records, OpenRecorded, LiveStays, Others
<1>29. Overtaken' BY <1>1, <1>2, <1>3, Ranges DEF Ready, Records, Overtaken, Resumer, LiveStays, Others
<1>30. Recorded'
  BY <1>1, <1>2, <1>3, Ranges DEF Ready, Records, Recorded, Accounted, Resumer, Kickers, LiveStays, Others
<1>31. GateCount' BY <1>1, <1>2, <1>3, Ranges DEF Ready, Counts, GateCount, Subtracts, LiveStays, Others
<1>32. LogicCount' BY <1>1, <1>2, <1>3, Ranges DEF Ready, Counts, LogicCount, LiveStays, Others
<1> QED BY <1>10, <1>11, <1>12, <1>13, <1>14, <1>15, <1>16, <1>17, <1>18, <1>19, <1>20, <1>21, <1>22, <1>23, <1>24,
    <1>25, <1>26, <1>27, <1>28, <1>29, <1>30, <1>31, <1>32 DEF Agree, Phases, Lives, Known, Records, Counts

\* The answer of Logic.
LEMMA LogicAnswersReady == ASSUME TakeoverConfig, Ready, NEW c \in Conns, LogicAnswers(c) PROVE Agree'
<1>1. /\ conn[c].pc = "rpc" /\ conn[c].gate \in Gates /\ ask[c] = "ok" /\ Others(c) /\ Keeps(c) /\ conn'[c].user = TRUE
      /\ conn'[c].open = conn[c].open /\ conn'[c].aborted = conn[c].aborted /\ conn'[c].pc \in {"checked", "end"}
      /\ UNCHANGED <<redis, table, stream, count, leaving, kick, down, ask, lsess, lcount, ntf>>
  BY AnswersFx, Calm DEF Ready, Phases, Plain
<1>2. LiveStays
  <2>1. Grows BY <1>1 DEF Grows, Others, Keeps
  <2> QED BY <1>1, <2>1, LiveSame DEF Ready
<1>3. ~Live(c) BY <1>1, LiveFacts DEF Ready
<1>10. Plain' BY <1>1, <1>2, <1>3, Ranges DEF Ready, Phases, Plain, LiveStays, Others, Keeps
<1>11. OneWorking'
  BY <1>1, <1>2, <1>3, Ranges DEF Ready, Phases, OneWorking, Working, Busy, Holding, Asking, LiveStays, Others,
     Keeps
<1>12. Answered' BY <1>1, <1>2, <1>3, Ranges DEF Ready, Phases, Answered, LiveStays, Others, Keeps
<1>13. KickIdle' BY <1>1, <1>2, <1>3, Ranges DEF Ready, Phases, KickIdle, Holding, LiveStays, Others, Keeps
<1>14. KickGate' BY <1>1, <1>2, <1>3, Ranges DEF Ready, Phases, KickGate, Kickers, LiveStays, Others, Keeps
<1>15. KickLogic' BY <1>1, <1>2, <1>3, Ranges DEF Ready, Phases, KickLogic, Kickers, LiveStays, Others, Keeps
<1>16. LeaveRight' BY <1>1, <1>2, <1>3, Ranges DEF Ready, Phases, LeaveRight, Holding, LiveStays, Others, Keeps
<1>17. NtfRight' BY <1>1, <1>2, <1>3, Ranges DEF Ready, Phases, NtfRight, Holding, LiveStays, Others, Keeps
<1>18. DownRight' BY <1>1, <1>2, <1>3, Ranges DEF Ready, Phases, DownRight, LiveStays, Others, Keeps
<1>19. Bound' BY <1>1, <1>2, <1>3, Ranges DEF Ready, Lives, Bound, LiveStays, Others, Keeps
<1>20. TakenOff' BY <1>1, <1>2, <1>3, Ranges DEF Ready, Lives, TakenOff, LiveStays, Others, Keeps
<1>21. SaveLive' BY <1>1, <1>2, <1>3, Ranges DEF Ready, Lives, SaveLive, LiveStays, Others, Keeps
<1>22. LeaveGone' BY <1>1, <1>2, <1>3, Ranges DEF Ready, Lives, LeaveGone, LiveStays, Others, Keeps
<1>23. KickGone' BY <1>1, <1>2, <1>3, Ranges DEF Ready, Lives, KickGone, LiveStays, Others, Keeps
<1>24. LeaveLive' BY <1>1, <1>2, <1>3, Ranges DEF Ready, Lives, LeaveLive, LiveStays, Others, Keeps
<1>25. OpenKnown' BY <1>1, <1>2, <1>3, Ranges DEF Ready, Known, OpenKnown, LiveStays, Others, Keeps
<1>26. AskedKnown' BY <1>1, <1>2, <1>3, Ranges DEF Ready, Known, AskedKnown, Holding, LiveStays, Others, Keeps
<1>27. ReconnectRight'
  BY <1>1, <1>2, <1>3, Ranges DEF Ready, Known, ReconnectRight, Busy, Holding, Asking, LiveStays, Others, Keeps
<1>28. OpenRecorded' BY <1>1, <1>2, <1>3, Ranges DEF Ready, Records, OpenRecorded, LiveStays, Others, Keeps
<1>29. Overtaken' BY <1>1, <1>2, <1>3, Ranges DEF Ready, Records, Overtaken, Resumer, LiveStays, Others, Keeps
<1>30. Recorded'
  BY <1>1, <1>2, <1>3, Ranges DEF Ready, Records, Recorded, Accounted, Resumer, Kickers, LiveStays, Others, Keeps
<1>31. GateCount' BY <1>1, <1>2, <1>3, Ranges DEF Ready, Counts, GateCount, Subtracts, LiveStays, Others, Keeps
<1>32. LogicCount' BY <1>1, <1>2, <1>3, Ranges DEF Ready, Counts, LogicCount, LiveStays, Others, Keeps
<1> QED BY <1>10, <1>11, <1>12, <1>13, <1>14, <1>15, <1>16, <1>17, <1>18, <1>19, <1>20, <1>21, <1>22, <1>23, <1>24,
    <1>25, <1>26, <1>27, <1>28, <1>29, <1>30, <1>31, <1>32 DEF Agree, Phases, Lives, Known, Records, Counts

\* install_login replaces the live session of the Gate.
LEMMA InstallLoginReady == ASSUME TakeoverConfig, Ready, NEW c \in Conns, InstallLogin(c) PROVE Agree'
<1>1. /\ conn[c].pc = "checked" /\ ~conn[c].reconnect /\ Others(c) /\ Keeps(c) /\ conn'[c].pc = "save" /\ conn'[c].open = conn[c].open
      /\ conn'[c].user = conn[c].user /\ conn'[c].aborted = conn[c].aborted
      /\ conn[c].gate \in Gates /\ table'[conn[c].gate] = c /\ \A h \in Gates : h # conn[c].gate => table'[h] = table[h]
      /\ Resumed(c, c) /\ CountsUp(conn[c].gate)
      /\ UNCHANGED <<redis, leaving, kick, down, ask, lsess, lcount, ntf>>
  BY InstallFx DEF Ready, Moves
<1>2. LiveBegins(c) BY <1>1, ResumeLive DEF Ready, Others, Keeps
<1>3. ask[c] = "ok" /\ conn[c].user = TRUE BY <1>1 DEF Ready, Phases, Answered, Types, ConnTypes, ConnRec
<1>9. conn'[c].user = TRUE BY <1>1, <1>3
<1>4. /\ \A x \in Conns, who \in Kickers : kick[x][who].pc \in {"idle", "done"}
      /\ \A who \in Kickers : kick[c][who].pc = "idle"
      /\ \A x \in Conns : x # c => ~Working(x)
  BY <1>1, <1>3, WorksAlone DEF Holding
<1>5. lsess[redis.logic] = c /\ redis.logic = conn[c].logic BY <1>1, <1>3, AnsweredKnown DEF Holding
<1>6. /\ down[conn[c].gate].pc \in {"up", "draining"} /\ c \notin ntf /\ leaving[c] \notin {"take", "notify", "clear"}
      /\ leaving[c] # "no" => down[conn[c].gate].pc # "up"
  BY <1>1 DEF Ready, Phases, DownRight, NtfRight, LeaveRight, Holding
<1>10. Plain'
  BY <1>1, <1>2, <1>3, <1>9, <1>4, <1>5, <1>6, Ranges DEF Ready, Phases, Plain, LiveBegins, Others, Keeps, Resumed,
     Working, Busy, Holding
<1>11. OneWorking'
  BY <1>1, <1>2, <1>3, <1>9, <1>4, <1>5, <1>6, Ranges DEF Ready, Phases, OneWorking, Working, Busy, Holding, Asking,
     LiveBegins, Others, Keeps, Resumed
<1>12. Answered' BY <1>1, <1>3, <1>9 DEF Ready, Phases, Answered, Others
<1>13. KickIdle'
  BY <1>1, <1>2, <1>3, <1>9, <1>4, <1>5, <1>6, Ranges DEF Ready, Phases, KickIdle, Holding, LiveBegins, Others,
     Keeps, Resumed, Working, Busy
<1>14. KickGate'
  BY <1>1, <1>2, <1>3, <1>9, <1>4, <1>5, <1>6, Ranges DEF Ready, Phases, KickGate, Kickers, LiveBegins, Others,
     Keeps, Resumed, Working, Busy, Holding
<1>15. KickLogic'
  BY <1>1, <1>2, <1>3, <1>9, <1>4, <1>5, <1>6, Ranges DEF Ready, Phases, KickLogic, Kickers, LiveBegins, Others,
     Keeps, Resumed, Working, Busy, Holding
<1>16. LeaveRight'
  BY <1>1, <1>2, <1>3, <1>9, <1>4, <1>5, <1>6, Ranges DEF Ready, Phases, LeaveRight, Holding, LiveBegins, Others,
     Keeps, Resumed, Working, Busy
<1>17. NtfRight'
  BY <1>1, <1>2, <1>3, <1>9, <1>4, <1>5, <1>6, Ranges DEF Ready, Phases, NtfRight, Holding, LiveBegins, Others,
     Keeps, Resumed, Working, Busy
<1>18. DownRight'
  BY <1>1, <1>2, <1>3, <1>9, <1>4, <1>5, <1>6, Ranges DEF Ready, Phases, DownRight, LiveBegins, Others, Keeps,
     Resumed, Working, Busy, Holding
<1>19. Bound' BY <1>1, <1>3, <1>9, Ranges DEF Ready, Lives, Bound, Others, Resumed
<1>20. TakenOff'
  BY <1>1, <1>2, <1>3, <1>9, <1>4, <1>5, <1>6, Ranges DEF Ready, Lives, TakenOff, LiveBegins, Others, Keeps,
     Resumed, Working, Busy, Holding
<1>21. SaveLive'
  BY <1>1, <1>2, <1>3, <1>9, <1>4, <1>5, <1>6, Ranges DEF Ready, Lives, SaveLive, LiveBegins, Others, Keeps,
     Resumed, Working, Busy, Holding
<1>22. LeaveGone'
  BY <1>1, <1>2, <1>3, <1>9, <1>4, <1>5, <1>6, Ranges DEF Ready, Lives, LeaveGone, LiveBegins, Others, Keeps,
     Resumed, Working, Busy, Holding
<1>23. KickGone'
  BY <1>1, <1>2, <1>3, <1>9, <1>4, <1>5, <1>6, Ranges DEF Ready, Lives, KickGone, LiveBegins, Others, Keeps,
     Resumed, Working, Busy, Holding
<1>24. LeaveLive'
  BY <1>1, <1>2, <1>3, <1>9, <1>4, <1>5, <1>6, Ranges DEF Ready, Lives, LeaveLive, LiveBegins, Others, Keeps,
     Resumed, Working, Busy, Holding
<1>25. OpenKnown'
  BY <1>1, <1>2, <1>3, <1>9, <1>4, <1>5, <1>6, Ranges DEF Ready, Known, OpenKnown, LiveBegins, Others, Keeps,
     Resumed, Working, Busy, Holding
<1>26. AskedKnown'
  BY <1>1, <1>2, <1>3, <1>9, <1>4, <1>5, <1>6, Ranges DEF Ready, Known, AskedKnown, Holding, LiveBegins, Others,
     Keeps, Resumed, Working, Busy
<1>27. ReconnectRight'
  BY <1>1, <1>2, <1>3, <1>9, <1>4, <1>5, <1>6, Ranges DEF Ready, Known, ReconnectRight, Busy, Holding, Asking,
     LiveBegins, Others, Keeps, Resumed, Working
<1>28. OpenRecorded'
  BY <1>1, <1>2, <1>3, <1>9, <1>4, <1>5, <1>6, Ranges DEF Ready, Records, OpenRecorded, LiveBegins, Others, Keeps,
     Resumed, Working, Busy, Holding
<1>29. Overtaken'
  BY <1>1, <1>2, <1>3, <1>9, <1>4, <1>5, <1>6, Ranges DEF Ready, Records, Overtaken, Resumer, LiveBegins, Others,
     Keeps, Resumed, Working, Busy, Holding
<1>30. Recorded'
  <2> SUFFICES ASSUME redis.sess # None PROVE Recorded' BY <1>1 DEF Recorded
  <2>1. PICK r \in Conns : r = redis.sess BY Ranges
  <2>2. redis.gate = conn[r].gate /\ conn[r].pc # "none" /\ conn[r].gate \in Gates /\ Accounted(r)
    BY <2>1, Ranges DEF Ready, Records, Recorded
  <2>3. redis' = redis /\ conn'[r].gate = conn[r].gate /\ conn'[r].pc # "none" BY <1>1, <2>2 DEF Others, Keeps
  <2>4. Accounted(r)'
    <3>1. CASE Live(r) /\ ~Live(r)'
      <4>1. r # c /\ conn[r].gate = conn[c].gate BY <1>2, <3>1 DEF LiveBegins
      <4>2. CASE down[conn[r].gate].pc = "up"
        <5>1. PICK d \in Conns : Resumer(d, r, {"rpc", "checked", "end"})
          BY <1>5, <2>1, <3>1, <4>1, <4>2 DEF Ready, Records, Overtaken
        <5>2. d # c BY <1>1, <5>1 DEF Resumer
        <5>3. Resumer(d, r, {"save", "end"})' BY <1>1, <1>4, <5>1, <5>2 DEF Resumer, Others, Working, Busy, Holding
        <5> QED BY <5>3 DEF Accounted
      <4>3. CASE down[conn[r].gate].pc # "up" BY <1>1, <2>3, <4>1, <4>3 DEF Accounted, Keeps
      <4> QED BY <4>2, <4>3
    <3>2. CASE Live(r)' BY <3>2 DEF Accounted
    <3>3. CASE ~Live(r)
      <4>1. \A d \in Conns : Resumer(d, r, {"save", "end"}) => Resumer(d, r, {"save", "end"})'
        BY <1>1 DEF Resumer, Others, Keeps
      <4>2. \A d \in Conns : conn[d].pc = "save" => conn'[d].pc = "save" /\ conn'[d].gate = conn[d].gate
        BY <1>1 DEF Others, Keeps
      <4> QED BY <1>1, <2>2, <2>3, <3>3, <4>1, <4>2 DEF Accounted
    <3> QED BY <3>1, <3>2, <3>3
  <2> QED BY <2>1, <2>2, <2>3, <2>4 DEF Recorded
<1>31. GateCount'
  BY <1>1, <1>2, <1>3, <1>9, <1>4, <1>5, <1>6, Ranges DEF Ready, Counts, GateCount, Subtracts, LiveBegins, Others,
     Keeps, Resumed, Working, Busy, Holding, CountsUp
<1>32. LogicCount'
  BY <1>1, <1>2, <1>3, <1>9, <1>4, <1>5, <1>6, Ranges DEF Ready, Counts, LogicCount, LiveBegins, Others, Keeps,
     Resumed, Working, Busy, Holding
<1> QED BY <1>10, <1>11, <1>12, <1>13, <1>14, <1>15, <1>16, <1>17, <1>18, <1>19, <1>20, <1>21, <1>22, <1>23, <1>24,
    <1>25, <1>26, <1>27, <1>28, <1>29, <1>30, <1>31, <1>32 DEF Agree, Phases, Lives, Known, Records, Counts

\* complete_reconnect replaces the session that it resumes.
LEMMA CompleteBeginsReady ==
    ASSUME TakeoverConfig, Ready, NEW c \in Conns, CompleteReconnect(c), conn'[c].pc = "save"
    PROVE  Agree'
<1>1. /\ conn[c].pc = "checked" /\ conn[c].reconnect /\ conn[c].gate \in Gates /\ table' = table /\ Others(c) /\ Keeps(c)
      /\ conn'[c].user = conn[c].user /\ conn'[c].aborted = conn[c].aborted /\ conn'[c].open = conn[c].open
      /\ Holds(conn[c].gate, conn[c].prev) /\ table[conn[c].gate] \in Conns /\ Resumed(table[conn[c].gate], c)
      /\ CountsUp(conn[c].gate)
      /\ UNCHANGED <<redis, table, leaving, kick, down, ask, lsess, lcount, ntf>>
  BY CompleteFx DEF Ready, Moves, Ends
<1>2. LiveBegins(c)
  <2>1. conn[table[conn[c].gate]].gate = conn[c].gate
    BY <1>1, SessionConfig DEF Ready, Types, Begun, BegunTable, SessionConfig
  <2> QED BY <1>1, <2>1, ResumeLive DEF Ready, Others, Keeps
<1>3. ask[c] = "ok" /\ conn[c].user = TRUE BY <1>1 DEF Ready, Phases, Answered, Types, ConnTypes, ConnRec
<1>9. conn'[c].user = TRUE BY <1>1, <1>3
<1>4. /\ \A x \in Conns, who \in Kickers : kick[x][who].pc \in {"idle", "done"}
      /\ \A who \in Kickers : kick[c][who].pc = "idle"
      /\ \A x \in Conns : x # c => ~Working(x)
  BY <1>1, <1>3, WorksAlone DEF Holding
<1>5. lsess[redis.logic] = c /\ redis.logic = conn[c].logic BY <1>1, <1>3, AnsweredKnown DEF Holding
<1>6. /\ down[conn[c].gate].pc \in {"up", "draining"} /\ c \notin ntf /\ leaving[c] \notin {"take", "notify", "clear"}
      /\ leaving[c] # "no" => down[conn[c].gate].pc # "up"
  BY <1>1 DEF Ready, Phases, DownRight, NtfRight, LeaveRight, Holding
<1>7. \A x \in Conns : Live(x) /\ conn[x].gate = conn[c].gate => x = conn[c].prev BY <1>1 DEF Live, Holds
<1>8. conn[c].prev \in Conns => conn[conn[c].prev].gate = conn[c].gate
  BY <1>1, SessionConfig DEF Holds, Ready, Types, Begun, BegunTable, BegunStream, SessionConfig
<1>10. Plain'
  BY <1>1, <1>2, <1>3, <1>9, <1>4, <1>5, <1>6, <1>7, <1>8, Ranges DEF Ready, Phases, Plain, LiveBegins, Others,
     Keeps, Resumed, Working, Busy, Holding
<1>11. OneWorking'
  BY <1>1, <1>2, <1>3, <1>9, <1>4, <1>5, <1>6, <1>7, <1>8, Ranges DEF Ready, Phases, OneWorking, Working, Busy,
     Holding, Asking, LiveBegins, Others, Keeps, Resumed
<1>12. Answered' BY <1>1, <1>3, <1>9 DEF Ready, Phases, Answered, Others
<1>13. KickIdle'
  BY <1>1, <1>2, <1>3, <1>9, <1>4, <1>5, <1>6, <1>7, <1>8, Ranges DEF Ready, Phases, KickIdle, Holding, LiveBegins,
     Others, Keeps, Resumed, Working, Busy
<1>14. KickGate'
  BY <1>1, <1>2, <1>3, <1>9, <1>4, <1>5, <1>6, <1>7, <1>8, Ranges DEF Ready, Phases, KickGate, Kickers, LiveBegins,
     Others, Keeps, Resumed, Working, Busy, Holding
<1>15. KickLogic'
  BY <1>1, <1>2, <1>3, <1>9, <1>4, <1>5, <1>6, <1>7, <1>8, Ranges DEF Ready, Phases, KickLogic, Kickers, LiveBegins,
     Others, Keeps, Resumed, Working, Busy, Holding
<1>16. LeaveRight'
  BY <1>1, <1>2, <1>3, <1>9, <1>4, <1>5, <1>6, <1>7, <1>8, Ranges DEF Ready, Phases, LeaveRight, Holding,
     LiveBegins, Others, Keeps, Resumed, Working, Busy
<1>17. NtfRight'
  BY <1>1, <1>2, <1>3, <1>9, <1>4, <1>5, <1>6, <1>7, <1>8, Ranges DEF Ready, Phases, NtfRight, Holding, LiveBegins,
     Others, Keeps, Resumed, Working, Busy
<1>18. DownRight'
  BY <1>1, <1>2, <1>3, <1>9, <1>4, <1>5, <1>6, <1>7, <1>8, Ranges DEF Ready, Phases, DownRight, LiveBegins, Others,
     Keeps, Resumed, Working, Busy, Holding
<1>19. Bound' BY <1>1, <1>3, <1>9, Ranges DEF Ready, Lives, Bound, Others, Resumed
<1>20. TakenOff'
  BY <1>1, <1>2, <1>3, <1>9, <1>4, <1>5, <1>6, <1>7, <1>8, Ranges DEF Ready, Lives, TakenOff, LiveBegins, Others,
     Keeps, Resumed, Working, Busy, Holding
<1>21. SaveLive'
  BY <1>1, <1>2, <1>3, <1>9, <1>4, <1>5, <1>6, <1>7, <1>8, Ranges DEF Ready, Lives, SaveLive, LiveBegins, Others,
     Keeps, Resumed, Working, Busy, Holding
<1>22. LeaveGone'
  BY <1>1, <1>2, <1>3, <1>9, <1>4, <1>5, <1>6, <1>7, <1>8, Ranges DEF Ready, Lives, LeaveGone, LiveBegins, Others,
     Keeps, Resumed, Working, Busy, Holding
<1>23. KickGone'
  BY <1>1, <1>2, <1>3, <1>9, <1>4, <1>5, <1>6, <1>7, <1>8, Ranges DEF Ready, Lives, KickGone, LiveBegins, Others,
     Keeps, Resumed, Working, Busy, Holding
<1>24. LeaveLive'
  BY <1>1, <1>2, <1>3, <1>9, <1>4, <1>5, <1>6, <1>7, <1>8, Ranges DEF Ready, Lives, LeaveLive, LiveBegins, Others,
     Keeps, Resumed, Working, Busy, Holding
<1>25. OpenKnown'
  BY <1>1, <1>2, <1>3, <1>9, <1>4, <1>5, <1>6, <1>7, <1>8, Ranges DEF Ready, Known, OpenKnown, LiveBegins, Others,
     Keeps, Resumed, Working, Busy, Holding
<1>26. AskedKnown'
  BY <1>1, <1>2, <1>3, <1>9, <1>4, <1>5, <1>6, <1>7, <1>8, Ranges DEF Ready, Known, AskedKnown, Holding, LiveBegins,
     Others, Keeps, Resumed, Working, Busy
<1>27. ReconnectRight'
  BY <1>1, <1>2, <1>3, <1>9, <1>4, <1>5, <1>6, <1>7, <1>8, Ranges DEF Ready, Known, ReconnectRight, Busy, Holding,
     Asking, LiveBegins, Others, Keeps, Resumed, Working
<1>28. OpenRecorded'
  BY <1>1, <1>2, <1>3, <1>9, <1>4, <1>5, <1>6, <1>7, <1>8, Ranges DEF Ready, Records, OpenRecorded, LiveBegins,
     Others, Keeps, Resumed, Working, Busy, Holding
<1>29. Overtaken'
  BY <1>1, <1>2, <1>3, <1>9, <1>4, <1>5, <1>6, <1>7, <1>8, Ranges DEF Ready, Records, Overtaken, Resumer,
     LiveBegins, Others, Keeps, Resumed, Working, Busy, Holding
<1>30. Recorded'
  <2> SUFFICES ASSUME redis.sess # None PROVE Recorded' BY <1>1 DEF Recorded
  <2>1. PICK r \in Conns : r = redis.sess BY Ranges
  <2>2. redis.gate = conn[r].gate /\ conn[r].pc # "none" /\ conn[r].gate \in Gates /\ Accounted(r)
    BY <2>1, Ranges DEF Ready, Records, Recorded
  <2>3. redis' = redis /\ conn'[r].gate = conn[r].gate /\ conn'[r].pc # "none" BY <1>1, <2>2 DEF Others, Keeps
  <2>4. Accounted(r)'
    <3>1. CASE Live(r) /\ ~Live(r)'
      <4>1. r = conn[c].prev BY <1>2, <1>7, <3>1 DEF LiveBegins
      <4>2. Resumer(c, r, {"save", "end"})' BY <1>1, <4>1 DEF Resumer, Keeps
      <4> QED BY <4>2 DEF Accounted
    <3>2. CASE Live(r)' BY <3>2 DEF Accounted
    <3>3. CASE ~Live(r)
      <4>1. \A d \in Conns : Resumer(d, r, {"save", "end"}) => Resumer(d, r, {"save", "end"})'
        BY <1>1 DEF Resumer, Others, Keeps
      <4>2. \A d \in Conns : conn[d].pc = "save" => conn'[d].pc = "save" /\ conn'[d].gate = conn[d].gate
        BY <1>1 DEF Others, Keeps
      <4> QED BY <1>1, <2>2, <2>3, <3>3, <4>1, <4>2 DEF Accounted
    <3> QED BY <3>1, <3>2, <3>3
  <2> QED BY <2>1, <2>2, <2>3, <2>4 DEF Recorded
<1>31. GateCount'
  BY <1>1, <1>2, <1>3, <1>9, <1>4, <1>5, <1>6, <1>7, <1>8, Ranges DEF Ready, Counts, GateCount, Subtracts,
     LiveBegins, Others, Keeps, Resumed, Working, Busy, Holding, CountsUp
<1>32. LogicCount'
  BY <1>1, <1>2, <1>3, <1>9, <1>4, <1>5, <1>6, <1>7, <1>8, Ranges DEF Ready, Counts, LogicCount, LiveBegins, Others,
     Keeps, Resumed, Working, Busy, Holding
<1> QED BY <1>10, <1>11, <1>12, <1>13, <1>14, <1>15, <1>16, <1>17, <1>18, <1>19, <1>20, <1>21, <1>22, <1>23, <1>24,
    <1>25, <1>26, <1>27, <1>28, <1>29, <1>30, <1>31, <1>32 DEF Agree, Phases, Lives, Known, Records, Counts

\* complete_reconnect refuses.
LEMMA CompleteFailsReady ==
    ASSUME TakeoverConfig, Ready, NEW c \in Conns, CompleteReconnect(c), conn'[c].pc # "save"
    PROVE  Agree'
<1>1. /\ conn[c].pc = "checked" /\ conn[c].reconnect /\ conn[c].gate \in Gates /\ Others(c) /\ Keeps(c)
      /\ conn'[c].user = conn[c].user /\ conn'[c].aborted = conn[c].aborted /\ conn'[c].pc = "end" /\ conn'[c].open = FALSE
      /\ UNCHANGED <<redis, table, stream, count, leaving, kick, down, ask, lsess, lcount, ntf>>
  BY CompleteFx DEF Ready, Moves, Ends
<1>2. LiveStays
  <2>1. Grows BY <1>1 DEF Grows, Others, Keeps
  <2> QED BY <1>1, <2>1, LiveSame DEF Ready
<1>4. \A d, x \in Conns : Resumer(d, x, {"rpc", "checked", "end"}) => Resumer(d, x, {"rpc", "checked", "end"})'
  BY <1>1 DEF Resumer, Others, Keeps
<1>3. ~Live(c) BY <1>1, LiveFacts DEF Ready
<1>10. Plain' BY <1>1, <1>2, <1>4, <1>3, Ranges DEF Ready, Phases, Plain, LiveStays, Others, Keeps
<1>11. OneWorking'
  BY <1>1, <1>2, <1>4, <1>3, Ranges DEF Ready, Phases, OneWorking, Working, Busy, Holding, Asking, LiveStays,
     Others, Keeps
<1>12. Answered' BY <1>1, <1>2, <1>4, <1>3, Ranges DEF Ready, Phases, Answered, LiveStays, Others, Keeps
<1>13. KickIdle' BY <1>1, <1>2, <1>4, <1>3, Ranges DEF Ready, Phases, KickIdle, Holding, LiveStays, Others, Keeps
<1>14. KickGate' BY <1>1, <1>2, <1>4, <1>3, Ranges DEF Ready, Phases, KickGate, Kickers, LiveStays, Others, Keeps
<1>15. KickLogic' BY <1>1, <1>2, <1>4, <1>3, Ranges DEF Ready, Phases, KickLogic, Kickers, LiveStays, Others, Keeps
<1>16. LeaveRight' BY <1>1, <1>2, <1>4, <1>3, Ranges DEF Ready, Phases, LeaveRight, Holding, LiveStays, Others, Keeps
<1>17. NtfRight' BY <1>1, <1>2, <1>4, <1>3, Ranges DEF Ready, Phases, NtfRight, Holding, LiveStays, Others, Keeps
<1>18. DownRight' BY <1>1, <1>2, <1>4, <1>3, Ranges DEF Ready, Phases, DownRight, LiveStays, Others, Keeps
<1>19. Bound' BY <1>1, <1>2, <1>4, <1>3, Ranges DEF Ready, Lives, Bound, LiveStays, Others, Keeps
<1>20. TakenOff' BY <1>1, <1>2, <1>4, <1>3, Ranges DEF Ready, Lives, TakenOff, LiveStays, Others, Keeps
<1>21. SaveLive' BY <1>1, <1>2, <1>4, <1>3, Ranges DEF Ready, Lives, SaveLive, LiveStays, Others, Keeps
<1>22. LeaveGone' BY <1>1, <1>2, <1>4, <1>3, Ranges DEF Ready, Lives, LeaveGone, LiveStays, Others, Keeps
<1>23. KickGone' BY <1>1, <1>2, <1>4, <1>3, Ranges DEF Ready, Lives, KickGone, LiveStays, Others, Keeps
<1>24. LeaveLive' BY <1>1, <1>2, <1>4, <1>3, Ranges DEF Ready, Lives, LeaveLive, LiveStays, Others, Keeps
<1>25. OpenKnown' BY <1>1, <1>2, <1>4, <1>3, Ranges DEF Ready, Known, OpenKnown, LiveStays, Others, Keeps
<1>26. AskedKnown' BY <1>1, <1>2, <1>4, <1>3, Ranges DEF Ready, Known, AskedKnown, Holding, LiveStays, Others, Keeps
<1>27. ReconnectRight'
  BY <1>1, <1>2, <1>4, <1>3, Ranges DEF Ready, Known, ReconnectRight, Busy, Holding, Asking, LiveStays, Others,
     Keeps
<1>28. OpenRecorded' BY <1>1, <1>2, <1>4, <1>3, Ranges DEF Ready, Records, OpenRecorded, LiveStays, Others, Keeps
<1>29. Overtaken' BY <1>1, <1>2, <1>4, Ranges DEF Ready, Records, Overtaken, LiveStays, Others, Keeps
<1>30. Recorded'
  BY <1>1, <1>2, <1>4, <1>3, Ranges DEF Ready, Records, Recorded, Accounted, Resumer, Kickers, LiveStays, Others,
     Keeps
<1>31. GateCount' BY <1>1, <1>2, <1>4, <1>3, Ranges DEF Ready, Counts, GateCount, Subtracts, LiveStays, Others, Keeps
<1>32. LogicCount' BY <1>1, <1>2, <1>4, <1>3, Ranges DEF Ready, Counts, LogicCount, LiveStays, Others, Keeps
<1> QED BY <1>10, <1>11, <1>12, <1>13, <1>14, <1>15, <1>16, <1>17, <1>18, <1>19, <1>20, <1>21, <1>22, <1>23, <1>24,
    <1>25, <1>26, <1>27, <1>28, <1>29, <1>30, <1>31, <1>32 DEF Agree, Phases, Lives, Known, Records, Counts

\* save_online records the session.
LEMMA SaveOnlineReady == ASSUME TakeoverConfig, Ready, NEW c \in Conns, SaveOnline(c) PROVE Agree'
<1>1. /\ conn[c].pc = "save" /\ conn[c].gate \in Gates /\ Others(c) /\ Keeps(c) /\ conn'[c].pc = "on" /\ conn'[c].open = conn[c].open
      /\ conn'[c].user = conn[c].user /\ conn'[c].aborted = conn[c].aborted /\ redis'.sess = c /\ redis'.gate = conn[c].gate
      /\ UNCHANGED <<table, stream, count, leaving, kick, down, ask, lsess, lcount, ntf>>
  BY SaveFx DEF Ready, Moves, Written, Phases, Plain
<1>2. LiveStays
  <2>1. Grows BY <1>1 DEF Grows, Others, Keeps
  <2> QED BY <1>1, <2>1, LiveSame DEF Ready
<1>3. /\ ask[c] = "ok" /\ Live(c)
      /\ leaving[c] \notin {"take", "notify", "clear"} /\ c \notin ntf
  BY <1>1 DEF Ready, Phases, Answered, Lives, SaveLive, LeaveRight, NtfRight, Holding
<1>4. \A x \in Conns : x # c => ~Working(x) BY <1>1, <1>3, WorksAlone DEF Holding
<1>5. lsess[redis.logic] = c /\ redis.logic = conn[c].logic BY <1>1, <1>3, AnsweredKnown DEF Holding
<1>6. redis'.logic = redis.logic BY <1>1, <1>3, <1>5, SaveFx DEF Ready, Written, Owned, RoutedRight, Phases, Plain
<1>10. Plain'
  BY <1>1, <1>2, <1>3, <1>4, <1>5, <1>6, Ranges DEF Ready, Phases, Plain, LiveStays, Others, Keeps, Working, Busy,
     Holding, Asking
<1>11. OneWorking'
  BY <1>1, <1>2, <1>3, <1>4, <1>5, <1>6, Ranges DEF Ready, Phases, OneWorking, Working, Busy, Holding, Asking,
     LiveStays, Others, Keeps
<1>12. Answered'
  BY <1>1, <1>2, <1>3, <1>4, <1>5, <1>6, Ranges DEF Ready, Phases, Answered, LiveStays, Others, Keeps, Working,
     Busy, Holding, Asking
<1>13. KickIdle'
  BY <1>1, <1>2, <1>3, <1>4, <1>5, <1>6, Ranges DEF Ready, Phases, KickIdle, Holding, LiveStays, Others, Keeps,
     Working, Busy, Asking
<1>14. KickGate'
  BY <1>1, <1>2, <1>3, <1>4, <1>5, <1>6, Ranges DEF Ready, Phases, KickGate, Kickers, LiveStays, Others, Keeps,
     Working, Busy, Holding, Asking
<1>15. KickLogic'
  BY <1>1, <1>2, <1>3, <1>4, <1>5, <1>6, Ranges DEF Ready, Phases, KickLogic, Kickers, LiveStays, Others, Keeps,
     Working, Busy, Holding, Asking
<1>16. LeaveRight'
  BY <1>1, <1>2, <1>3, <1>4, <1>5, <1>6, Ranges DEF Ready, Phases, LeaveRight, Holding, LiveStays, Others, Keeps,
     Working, Busy, Asking
<1>17. NtfRight'
  BY <1>1, <1>2, <1>3, <1>4, <1>5, <1>6, Ranges DEF Ready, Phases, NtfRight, Holding, LiveStays, Others, Keeps,
     Working, Busy, Asking
<1>18. DownRight'
  BY <1>1, <1>2, <1>3, <1>4, <1>5, <1>6, Ranges DEF Ready, Phases, DownRight, LiveStays, Others, Keeps, Working,
     Busy, Holding, Asking
<1>19. Bound'
  BY <1>1, <1>2, <1>3, <1>4, <1>5, <1>6, Ranges DEF Ready, Lives, Bound, LiveStays, Others, Keeps, Working, Busy,
     Holding, Asking
<1>20. TakenOff'
  BY <1>1, <1>2, <1>3, <1>4, <1>5, <1>6, Ranges DEF Ready, Lives, TakenOff, LiveStays, Others, Keeps, Working, Busy,
     Holding, Asking
<1>21. SaveLive'
  BY <1>1, <1>2, <1>3, <1>4, <1>5, <1>6, Ranges DEF Ready, Lives, SaveLive, LiveStays, Others, Keeps, Working, Busy,
     Holding, Asking
<1>22. LeaveGone'
  BY <1>1, <1>2, <1>3, <1>4, <1>5, <1>6, Ranges DEF Ready, Lives, LeaveGone, LiveStays, Others, Keeps, Working,
     Busy, Holding, Asking
<1>23. KickGone'
  BY <1>1, <1>2, <1>3, <1>4, <1>5, <1>6, Ranges DEF Ready, Lives, KickGone, LiveStays, Others, Keeps, Working, Busy,
     Holding, Asking
<1>24. LeaveLive'
  BY <1>1, <1>2, <1>3, <1>4, <1>5, <1>6, Ranges DEF Ready, Lives, LeaveLive, LiveStays, Others, Keeps, Working,
     Busy, Holding, Asking
<1>25. OpenKnown'
  BY <1>1, <1>2, <1>3, <1>4, <1>5, <1>6, Ranges DEF Ready, Known, OpenKnown, LiveStays, Others, Keeps, Working,
     Busy, Holding, Asking
<1>26. AskedKnown'
  BY <1>1, <1>2, <1>3, <1>4, <1>5, <1>6, Ranges DEF Ready, Known, AskedKnown, Holding, LiveStays, Others, Keeps,
     Working, Busy, Asking
<1>27. ReconnectRight'
  BY <1>1, <1>2, <1>3, <1>4, <1>5, <1>6, Ranges DEF Ready, Known, ReconnectRight, Busy, Holding, Asking, LiveStays,
     Others, Keeps, Working
<1>28. OpenRecorded'
  BY <1>1, <1>2, <1>3, <1>4, <1>5, <1>6, Ranges DEF Ready, Records, OpenRecorded, LiveStays, Others, Keeps, Working,
     Busy, Holding, Asking, Known, OpenKnown
<1>29. Overtaken'
  BY <1>1, <1>2, <1>3, <1>4, <1>5, <1>6, Ranges DEF Ready, Records, Overtaken, Resumer, LiveStays, Others, Keeps,
     Working, Busy, Holding, Asking
<1>30. Recorded'
  BY <1>1, <1>2, <1>3, <1>4, <1>5, <1>6, Ranges DEF Ready, Records, Recorded, Accounted, Resumer, Kickers,
     LiveStays, Others, Keeps, Working, Busy, Holding, Asking
<1>31. GateCount'
  BY <1>1, <1>2, <1>3, <1>4, <1>5, <1>6, Ranges DEF Ready, Counts, GateCount, Subtracts, LiveStays, Others, Keeps,
     Working, Busy, Holding, Asking
<1>32. LogicCount'
  BY <1>1, <1>2, <1>3, <1>4, <1>5, <1>6, Ranges DEF Ready, Counts, LogicCount, LiveStays, Others, Keeps, Working,
     Busy, Holding, Asking
<1> QED BY <1>10, <1>11, <1>12, <1>13, <1>14, <1>15, <1>16, <1>17, <1>18, <1>19, <1>20, <1>21, <1>22, <1>23, <1>24,
    <1>25, <1>26, <1>27, <1>28, <1>29, <1>30, <1>31, <1>32 DEF Agree, Phases, Lives, Known, Records, Counts

\* kick_local, after a save.
LEMMA KickLocalReady == ASSUME TakeoverConfig, Ready, NEW c \in Conns, KickLocal(c) PROVE Agree'
<1>1. /\ conn[c].pc = "save" /\ conn[c].gate \in Gates /\ Others(c) /\ Keeps(c) /\ conn'[c].pc = "kicking" /\ conn'[c].open = conn[c].open
      /\ conn'[c].user = conn[c].user /\ conn'[c].aborted = conn[c].aborted /\ redis'.sess = c /\ redis'.gate = conn[c].gate
      /\ KickMoves(c, "gate", "asked")
      /\ UNCHANGED <<table, stream, count, leaving, down, ask, lsess, lcount, ntf>>
  BY KickLocalFx, Calm DEF Ready, Moves, Written
<1>2. LiveStays
  <2>1. Grows BY <1>1 DEF Grows, Others, Keeps
  <2> QED BY <1>1, <2>1, LiveSame DEF Ready
<1>3. /\ ask[c] = "ok" /\ Live(c)
      /\ leaving[c] \notin {"take", "notify", "clear"} /\ c \notin ntf /\ down[conn[c].gate].pc \in {"up", "draining"}
  BY <1>1 DEF Ready, Phases, Answered, Lives, SaveLive, LeaveRight, NtfRight, DownRight, Holding
<1>4. /\ \A x \in Conns : x # c => ~Working(x)
      /\ \A x \in Conns, who \in Kickers : kick[x][who].pc \in {"idle", "done"} /\ kick[c][who].pc = "idle"
  BY <1>1, <1>3, WorksAlone DEF Holding
<1>5. lsess[redis.logic] = c /\ redis.logic = conn[c].logic BY <1>1, <1>3, AnsweredKnown DEF Holding
<1>6. redis'.logic = redis.logic BY <1>1, <1>3, <1>5, KickLocalFx, Calm DEF Ready, Written, Owned, RoutedRight
<1>7. \A x \in Conns, who \in Kickers : <<x, who>> # <<c, "gate">> => kick'[x][who] = kick[x][who]
  BY <1>1 DEF KickMoves
<1>8. kick'[c]["gate"].pc = "asked" BY <1>1 DEF KickMoves
<1>10. Plain'
  BY <1>1, <1>2, <1>3, <1>4, <1>5, <1>6, <1>7, <1>8, Ranges DEF Ready, Phases, Plain, LiveStays, Others, Keeps,
     Working, Busy, Holding, Asking
<1>11. OneWorking'
  BY <1>1, <1>2, <1>3, <1>4, <1>5, <1>6, <1>7, <1>8, Ranges DEF Ready, Phases, OneWorking, Working, Busy, Holding,
     Asking, LiveStays, Others, Keeps
<1>12. Answered'
  BY <1>1, <1>2, <1>3, <1>4, <1>5, <1>6, <1>7, <1>8, Ranges DEF Ready, Phases, Answered, LiveStays, Others, Keeps,
     Working, Busy, Holding, Asking
<1>13. KickIdle'
  BY <1>1, <1>2, <1>3, <1>4, <1>5, <1>6, <1>7, <1>8, Ranges DEF Ready, Phases, KickIdle, Holding, LiveStays, Others,
     Keeps, Working, Busy, Asking
<1>14. KickGate'
  BY <1>1, <1>2, <1>3, <1>4, <1>5, <1>6, <1>7, <1>8, Ranges DEF Ready, Phases, KickGate, Kickers, LiveStays, Others,
     Keeps, Working, Busy, Holding, Asking
<1>15. KickLogic'
  BY <1>1, <1>2, <1>3, <1>4, <1>5, <1>6, <1>7, <1>8, Ranges DEF Ready, Phases, KickLogic, Kickers, LiveStays,
     Others, Keeps, Working, Busy, Holding, Asking
<1>16. LeaveRight'
  BY <1>1, <1>2, <1>3, <1>4, <1>5, <1>6, <1>7, <1>8, Ranges DEF Ready, Phases, LeaveRight, Holding, LiveStays,
     Others, Keeps, Working, Busy, Asking
<1>17. NtfRight'
  BY <1>1, <1>2, <1>3, <1>4, <1>5, <1>6, <1>7, <1>8, Ranges DEF Ready, Phases, NtfRight, Holding, LiveStays, Others,
     Keeps, Working, Busy, Asking
<1>18. DownRight'
  BY <1>1, <1>2, <1>3, <1>4, <1>5, <1>6, <1>7, <1>8, Ranges DEF Ready, Phases, DownRight, LiveStays, Others, Keeps,
     Working, Busy, Holding, Asking
<1>19. Bound'
  BY <1>1, <1>2, <1>3, <1>4, <1>5, <1>6, <1>7, <1>8, Ranges DEF Ready, Lives, Bound, LiveStays, Others, Keeps,
     Working, Busy, Holding, Asking
<1>20. TakenOff'
  BY <1>1, <1>2, <1>3, <1>4, <1>5, <1>6, <1>7, <1>8, Ranges DEF Ready, Lives, TakenOff, LiveStays, Others, Keeps,
     Working, Busy, Holding, Asking
<1>21. SaveLive'
  BY <1>1, <1>2, <1>3, <1>4, <1>5, <1>6, <1>7, <1>8, Ranges DEF Ready, Lives, SaveLive, LiveStays, Others, Keeps,
     Working, Busy, Holding, Asking
<1>22. LeaveGone'
  BY <1>1, <1>2, <1>3, <1>4, <1>5, <1>6, <1>7, <1>8, Ranges DEF Ready, Lives, LeaveGone, LiveStays, Others, Keeps,
     Working, Busy, Holding, Asking
<1>23. KickGone'
  BY <1>1, <1>2, <1>3, <1>4, <1>5, <1>6, <1>7, <1>8, Ranges DEF Ready, Lives, KickGone, LiveStays, Others, Keeps,
     Working, Busy, Holding, Asking
<1>24. LeaveLive'
  BY <1>1, <1>2, <1>3, <1>4, <1>5, <1>6, <1>7, <1>8, Ranges DEF Ready, Lives, LeaveLive, LiveStays, Others, Keeps,
     Working, Busy, Holding, Asking
<1>25. OpenKnown'
  BY <1>1, <1>2, <1>3, <1>4, <1>5, <1>6, <1>7, <1>8, Ranges DEF Ready, Known, OpenKnown, LiveStays, Others, Keeps,
     Working, Busy, Holding, Asking
<1>26. AskedKnown'
  BY <1>1, <1>2, <1>3, <1>4, <1>5, <1>6, <1>7, <1>8, Ranges DEF Ready, Known, AskedKnown, Holding, LiveStays,
     Others, Keeps, Working, Busy, Asking
<1>27. ReconnectRight'
  BY <1>1, <1>2, <1>3, <1>4, <1>5, <1>6, <1>7, <1>8, Ranges DEF Ready, Known, ReconnectRight, Busy, Holding, Asking,
     LiveStays, Others, Keeps, Working
<1>28. OpenRecorded'
  BY <1>1, <1>2, <1>3, <1>4, <1>5, <1>6, <1>7, <1>8, Ranges DEF Ready, Records, OpenRecorded, LiveStays, Others,
     Keeps, Working, Busy, Holding, Asking, Known, OpenKnown
<1>29. Overtaken'
  BY <1>1, <1>2, <1>3, <1>4, <1>5, <1>6, <1>7, <1>8, Ranges DEF Ready, Records, Overtaken, Resumer, LiveStays,
     Others, Keeps, Working, Busy, Holding, Asking
<1>30. Recorded'
  BY <1>1, <1>2, <1>3, <1>4, <1>5, <1>6, <1>7, <1>8, Ranges DEF Ready, Records, Recorded, Accounted, Resumer,
     Kickers, LiveStays, Others, Keeps, Working, Busy, Holding, Asking
<1>31. GateCount'
  BY <1>1, <1>2, <1>3, <1>4, <1>5, <1>6, <1>7, <1>8, Ranges DEF Ready, Counts, GateCount, Subtracts, LiveStays,
     Others, Keeps, Working, Busy, Holding, Asking
<1>32. LogicCount'
  BY <1>1, <1>2, <1>3, <1>4, <1>5, <1>6, <1>7, <1>8, Ranges DEF Ready, Counts, LogicCount, LiveStays, Others, Keeps,
     Working, Busy, Holding, Asking
<1> QED BY <1>10, <1>11, <1>12, <1>13, <1>14, <1>15, <1>16, <1>17, <1>18, <1>19, <1>20, <1>21, <1>22, <1>23, <1>24,
    <1>25, <1>26, <1>27, <1>28, <1>29, <1>30, <1>31, <1>32 DEF Agree, Phases, Lives, Known, Records, Counts

\* A kick takes the session off.
LEMMA KickTakesReady ==
    ASSUME TakeoverConfig, Ready, NEW c \in Conns, NEW who \in Kickers, KickTake(c, who), Holds(conn[c].gate, c)
    PROVE  Agree'
<1>1. /\ kick[c][who].pc = "asked" /\ conn[c].gate \in Gates /\ table[conn[c].gate] \in Conns /\ Offline(table[conn[c].gate])
      /\ kick'[c][who].pc = "taken" /\ kick'[c][who].obj = table[conn[c].gate] /\ kick'[c][who].active = Active(conn[c].gate)
      /\ \A d \in Conns, w \in Kickers : <<d, w>> # <<c, who>> => kick'[d][w] = kick[d][w]
      /\ UNCHANGED <<redis, conn, table, count, leaving, down, ask, lsess, lcount, ntf>>
  BY KickTakeFx DEF Ready
<1>2. LiveEnds(conn[c].gate) BY <1>1, OfflineLive DEF Ready
<1>3. /\ \A x \in Conns, w \in Kickers : <<x, w>> # <<c, who>> => kick[x][w].pc \notin {"asked", "taken", "clear"}
      /\ \A x \in Conns : conn[x].pc \notin {"checked", "save"}
  BY <1>1, OneKick
<1>4. \A x \in Conns : Live(x) /\ conn[x].gate = conn[c].gate => x = c BY DEF Live, Holds
<1>5. kick[c][who].pc \notin {"idle", "taken", "clear", "done"} BY <1>1
<1>10. Plain' BY <1>1, <1>2, <1>3, <1>4, <1>5, Ranges DEF Ready, Phases, Plain, LiveEnds, Offline
<1>11. OneWorking'
  BY <1>1, <1>2, <1>3, <1>4, <1>5, Ranges DEF Ready, Phases, OneWorking, Working, Busy, Holding, Asking, LiveEnds,
     Offline
<1>12. Answered' BY <1>1, <1>2, <1>3, <1>4, <1>5, Ranges DEF Ready, Phases, Answered, LiveEnds, Offline
<1>13. KickIdle' BY <1>1, <1>2, <1>3, <1>4, <1>5, Ranges DEF Ready, Phases, KickIdle, Holding, LiveEnds, Offline
<1>14. KickGate' BY <1>1, <1>2, <1>3, <1>4, <1>5, Ranges DEF Ready, Phases, KickGate, Kickers, LiveEnds, Offline
<1>15. KickLogic' BY <1>1, <1>2, <1>3, <1>4, <1>5, Ranges DEF Ready, Phases, KickLogic, Kickers, LiveEnds, Offline
<1>16. LeaveRight' BY SMTT(30), <1>1, <1>2, <1>3, <1>4, <1>5, Ranges DEF Ready, Phases, LeaveRight, Holding, LiveEnds, Offline
<1>17. NtfRight' BY <1>1, <1>2, <1>3, <1>4, <1>5, Ranges DEF Ready, Phases, NtfRight, Holding, LiveEnds, Offline
<1>18. DownRight' BY <1>1, <1>2, <1>3, <1>4, <1>5, Ranges DEF Ready, Phases, DownRight, LiveEnds, Offline
<1>19. Bound' BY <1>1, <1>2, <1>3, <1>4, <1>5, Ranges DEF Ready, Lives, Bound, LiveEnds, Offline
<1>20. TakenOff' BY <1>1, <1>2, <1>3, <1>4, <1>5, Ranges DEF Ready, Lives, TakenOff, LiveEnds, Offline
<1>21. SaveLive' BY <1>1, <1>2, <1>3, <1>4, <1>5, Ranges DEF Ready, Lives, SaveLive, LiveEnds, Offline
<1>22. LeaveGone' BY <1>1, <1>2, <1>3, <1>4, <1>5, Ranges DEF Ready, Lives, LeaveGone, LiveEnds, Offline
<1>23. KickGone' BY <1>1, <1>2, <1>3, <1>4, <1>5, Ranges DEF Ready, Lives, KickGone, LiveEnds, Offline
<1>24. LeaveLive' BY <1>1, <1>2, <1>3, <1>4, <1>5, Ranges DEF Ready, Lives, LeaveLive, LiveEnds, Offline
<1>25. OpenKnown' BY <1>1, <1>2, <1>3, <1>4, <1>5, Ranges DEF Ready, Known, OpenKnown, LiveEnds, Offline
<1>26. AskedKnown' BY <1>1, <1>2, <1>3, <1>4, <1>5, Ranges DEF Ready, Known, AskedKnown, Holding, LiveEnds, Offline
<1>27. ReconnectRight'
  BY <1>1, <1>2, <1>3, <1>4, <1>5, Ranges DEF Ready, Known, ReconnectRight, Busy, Holding, Asking, LiveEnds, Offline
<1>28. OpenRecorded' BY <1>1, <1>2, <1>3, <1>4, <1>5, Ranges DEF Ready, Records, OpenRecorded, LiveEnds, Offline
<1>29. Overtaken' BY <1>1, <1>2, <1>3, <1>4, <1>5, Ranges DEF Ready, Records, Overtaken, Resumer, LiveEnds, Offline
<1>30. Recorded'
  BY <1>1, <1>2, <1>3, <1>4, <1>5, Ranges DEF Ready, Records, Recorded, Accounted, Resumer, Kickers, LiveEnds,
     Offline
<1>31. GateCount' BY <1>1, <1>2, <1>3, <1>4, <1>5, Ranges DEF Ready, Counts, GateCount, Subtracts, LiveEnds, Offline
<1>32. LogicCount' BY <1>1, <1>2, <1>3, <1>4, <1>5, Ranges DEF Ready, Counts, LogicCount, LiveEnds, Offline
<1> QED BY <1>10, <1>11, <1>12, <1>13, <1>14, <1>15, <1>16, <1>17, <1>18, <1>19, <1>20, <1>21, <1>22, <1>23, <1>24,
    <1>25, <1>26, <1>27, <1>28, <1>29, <1>30, <1>31, <1>32 DEF Agree, Phases, Lives, Known, Records, Counts

\* A kick finds another session or none.
LEMMA KickMissesReady ==
    ASSUME TakeoverConfig, Ready, NEW c \in Conns, NEW who \in Kickers, KickTake(c, who), ~Holds(conn[c].gate,
           c)
    PROVE  Agree'
<1>1. /\ kick[c][who].pc = "asked" /\ conn[c].gate \in Gates /\ kick'[c][who].pc \in {"clear", "done"}
      /\ who = "gate" => kick'[c][who].pc = "clear"
      /\ \A d \in Conns, w \in Kickers : <<d, w>> # <<c, who>> => kick'[d][w] = kick[d][w]
      /\ UNCHANGED <<redis, conn, table, stream, count, leaving, down, ask, lsess, lcount, ntf>>
  BY KickTakeFx DEF Ready, KickMoves
<1>2. LiveStays BY <1>1, LiveSame, StayBegun DEF Ready
<1>3. ~Live(c) BY DEF Live
<1>4. kick[c][who].pc \notin {"idle", "taken", "clear", "done"} BY <1>1
<1>10. Plain' BY <1>1, <1>2, <1>3, <1>4, Ranges DEF Ready, Phases, Plain, LiveStays
<1>11. OneWorking'
  BY <1>1, <1>2, <1>3, <1>4, Ranges DEF Ready, Phases, OneWorking, Working, Busy, Holding, Asking, LiveStays
<1>12. Answered' BY <1>1, <1>2, <1>3, <1>4, Ranges DEF Ready, Phases, Answered, LiveStays
<1>13. KickIdle' BY <1>1, <1>2, <1>3, <1>4, Ranges DEF Ready, Phases, KickIdle, Holding, LiveStays
<1>14. KickGate' BY <1>1, <1>2, <1>3, <1>4, Ranges DEF Ready, Phases, KickGate, Kickers, LiveStays
<1>15. KickLogic' BY <1>1, <1>2, <1>3, <1>4, Ranges DEF Ready, Phases, KickLogic, Kickers, LiveStays
<1>16. LeaveRight' BY <1>1, <1>2, <1>3, <1>4, Ranges DEF Ready, Phases, LeaveRight, Holding, LiveStays
<1>17. NtfRight' BY <1>1, <1>2, <1>3, <1>4, Ranges DEF Ready, Phases, NtfRight, Holding, LiveStays
<1>18. DownRight' BY <1>1, <1>2, <1>3, <1>4, Ranges DEF Ready, Phases, DownRight, LiveStays
<1>19. Bound' BY <1>1, <1>2, <1>3, <1>4, Ranges DEF Ready, Lives, Bound, LiveStays
<1>20. TakenOff' BY <1>1, <1>2, <1>3, <1>4, Ranges DEF Ready, Lives, TakenOff, LiveStays
<1>21. SaveLive' BY <1>1, <1>2, <1>3, <1>4, Ranges DEF Ready, Lives, SaveLive, LiveStays
<1>22. LeaveGone' BY <1>1, <1>2, <1>3, <1>4, Ranges DEF Ready, Lives, LeaveGone, LiveStays
<1>23. KickGone' BY <1>1, <1>2, <1>3, <1>4, Ranges DEF Ready, Lives, KickGone, LiveStays
<1>24. LeaveLive' BY <1>1, <1>2, <1>3, <1>4, Ranges DEF Ready, Lives, LeaveLive, LiveStays
<1>25. OpenKnown' BY <1>1, <1>2, <1>3, <1>4, Ranges DEF Ready, Known, OpenKnown, LiveStays
<1>26. AskedKnown' BY <1>1, <1>2, <1>3, <1>4, Ranges DEF Ready, Known, AskedKnown, Holding, LiveStays
<1>27. ReconnectRight'
  BY <1>1, <1>2, <1>3, <1>4, Ranges DEF Ready, Known, ReconnectRight, Busy, Holding, Asking, LiveStays
<1>28. OpenRecorded' BY <1>1, <1>2, <1>3, <1>4, Ranges DEF Ready, Records, OpenRecorded, LiveStays
<1>29. Overtaken' BY <1>1, <1>2, <1>3, <1>4, Ranges DEF Ready, Records, Overtaken, Resumer, LiveStays
<1>30. Recorded'
  BY <1>1, <1>2, <1>3, <1>4, Ranges DEF Ready, Records, Recorded, Accounted, Resumer, Kickers, LiveStays
<1>31. GateCount' BY <1>1, <1>2, <1>3, <1>4, Ranges DEF Ready, Counts, GateCount, Subtracts, LiveStays
<1>32. LogicCount' BY <1>1, <1>2, <1>3, <1>4, Ranges DEF Ready, Counts, LogicCount, LiveStays
<1> QED BY <1>10, <1>11, <1>12, <1>13, <1>14, <1>15, <1>16, <1>17, <1>18, <1>19, <1>20, <1>21, <1>22, <1>23, <1>24,
    <1>25, <1>26, <1>27, <1>28, <1>29, <1>30, <1>31, <1>32 DEF Agree, Phases, Lives, Known, Records, Counts

\* A kick removes the object that it took off.
LEMMA KickRemoveReady ==
    ASSUME TakeoverConfig, Ready, NEW c \in Conns, NEW who \in Kickers, KickRemove(c, who)
    PROVE  Agree'
<1>1. /\ kick[c][who].pc = "taken" /\ conn[c].gate \in Gates /\ kick'[c][who].pc = "clear" /\ stream' = stream
      /\ kick'[c][who].active = kick[c][who].active
      /\ \A d \in Conns, w \in Kickers : <<d, w>> # <<c, who>> => kick'[d][w] = kick[d][w]
      /\ \A h \in Gates : h # conn[c].gate => table'[h] = table[h]
      /\ table[conn[c].gate] = kick[c][who].obj => table'[conn[c].gate] = None
      /\ table[conn[c].gate] # kick[c][who].obj => table'[conn[c].gate] = table[conn[c].gate]
      /\ UNCHANGED <<redis, leaving, down, ask, lsess, lcount, ntf>>
  BY KickRemoveFx DEF Ready, KickMoves
<1>2. /\ Others(c) /\ Keeps(c) /\ conn'[c].pc = conn[c].pc /\ (conn'[c].open => conn[c].open)
      /\ conn'[c].user = conn[c].user /\ conn'[c].aborted = conn[c].aborted
  BY KickRemoveFx DEF Ready, Closes, Others, Keeps
<1>7. /\ kick[c][who].active => CountsDown(conn[c].gate)
      /\ ~kick[c][who].active => count' = count
  BY KickRemoveFx DEF Ready
<1>8. \A g \in Gates : count[g] \in Nat BY DEF Ready, Types, GateTypes
<1>3. LiveStays
  <2>1. \A x \in Conns : conn'[x].gate = conn[x].gate BY <1>2 DEF Others, Keeps
  <2>2. CASE table[conn[c].gate] = kick[c][who].obj
    <3>1. ~Active(conn[c].gate) BY <1>1, <2>2 DEF Active, Ready, Lives, TakenOff
    <3> QED BY <1>1, <2>1, <2>2, <3>1, ForgetLive DEF Ready
  <2>3. CASE table[conn[c].gate] # kick[c][who].obj
    <3>1. table' = table
      <4>1. table \in [Gates -> Conns \cup {None}] /\ table' \in [Gates -> Conns \cup {None}]
        BY KickRemoveFx DEF Ready, Types, GateTypes
      <4> QED BY <1>1, <2>3, <4>1
    <3>2. Grows BY <1>1, <1>2 DEF Grows, Others, Keeps
    <3> QED BY <1>1, <3>1, <3>2, LiveSame DEF Ready
  <2> QED BY <2>2, <2>3
<1>4. /\ \A x \in Conns, w \in Kickers : <<x, w>> # <<c, who>> => kick[x][w].pc \notin {"asked", "taken", "clear"}
      /\ \A x \in Conns : conn[x].pc \notin {"checked", "save"}
  BY <1>1, OneKick
<1>5. ~Live(c) \/ down[conn[c].gate].pc = "draining" BY <1>1 DEF Ready, Lives, KickGone
<1>6. \A g \in Gates : table'[g] \in {None, table[g]} BY <1>1
<1>10. Plain'
  BY <1>1, <1>2, <1>7, <1>8, <1>3, <1>4, <1>5, <1>6, Ranges DEF Ready, Phases, Plain, LiveStays, Others, Keeps
<1>11. OneWorking'
  BY <1>1, <1>2, <1>7, <1>8, <1>3, <1>4, <1>5, <1>6, Ranges DEF Ready, Phases, OneWorking, Working, Busy, Holding,
     Asking, LiveStays, Others, Keeps
<1>12. Answered'
  BY <1>1, <1>2, <1>7, <1>8, <1>3, <1>4, <1>5, <1>6, Ranges DEF Ready, Phases, Answered, LiveStays, Others, Keeps
<1>13. KickIdle'
  BY <1>1, <1>2, <1>7, <1>8, <1>3, <1>4, <1>5, <1>6, Ranges DEF Ready, Phases, KickIdle, Holding, LiveStays, Others,
     Keeps
<1>14. KickGate'
  BY <1>1, <1>2, <1>7, <1>8, <1>3, <1>4, <1>5, <1>6, Ranges DEF Ready, Phases, KickGate, Kickers, LiveStays, Others,
     Keeps
<1>15. KickLogic'
  BY <1>1, <1>2, <1>7, <1>8, <1>3, <1>4, <1>5, <1>6, Ranges DEF Ready, Phases, KickLogic, Kickers, LiveStays,
     Others, Keeps
<1>16. LeaveRight'
  BY <1>1, <1>2, <1>7, <1>8, <1>3, <1>4, <1>5, <1>6, Ranges DEF Ready, Phases, LeaveRight, Holding, LiveStays,
     Others, Keeps
<1>17. NtfRight'
  BY <1>1, <1>2, <1>7, <1>8, <1>3, <1>4, <1>5, <1>6, Ranges DEF Ready, Phases, NtfRight, Holding, LiveStays, Others,
     Keeps
<1>18. DownRight'
  BY <1>1, <1>2, <1>7, <1>8, <1>3, <1>4, <1>5, <1>6, Ranges DEF Ready, Phases, DownRight, LiveStays, Others, Keeps
<1>19. Bound'
  BY <1>1, <1>2, <1>7, <1>8, <1>3, <1>4, <1>5, <1>6, Ranges DEF Ready, Lives, Bound, LiveStays, Others, Keeps
<1>20. TakenOff'
  BY <1>1, <1>2, <1>7, <1>8, <1>3, <1>4, <1>5, <1>6, Ranges DEF Ready, Lives, TakenOff, LiveStays, Others, Keeps
<1>21. SaveLive'
  BY <1>1, <1>2, <1>7, <1>8, <1>3, <1>4, <1>5, <1>6, Ranges DEF Ready, Lives, SaveLive, LiveStays, Others, Keeps
<1>22. LeaveGone'
  BY <1>1, <1>2, <1>7, <1>8, <1>3, <1>4, <1>5, <1>6, Ranges DEF Ready, Lives, LeaveGone, LiveStays, Others, Keeps
<1>23. KickGone'
  BY <1>1, <1>2, <1>7, <1>8, <1>3, <1>4, <1>5, <1>6, Ranges DEF Ready, Lives, KickGone, LiveStays, Others, Keeps
<1>24. LeaveLive'
  BY <1>1, <1>2, <1>7, <1>8, <1>3, <1>4, <1>5, <1>6, Ranges DEF Ready, Lives, LeaveLive, LiveStays, Others, Keeps
<1>25. OpenKnown'
  BY <1>1, <1>2, <1>7, <1>8, <1>3, <1>4, <1>5, <1>6, Ranges DEF Ready, Known, OpenKnown, LiveStays, Others, Keeps
<1>26. AskedKnown'
  BY <1>1, <1>2, <1>7, <1>8, <1>3, <1>4, <1>5, <1>6, Ranges DEF Ready, Known, AskedKnown, Holding, LiveStays,
     Others, Keeps
<1>27. ReconnectRight'
  BY <1>1, <1>2, <1>7, <1>8, <1>3, <1>4, <1>5, <1>6, Ranges DEF Ready, Known, ReconnectRight, Busy, Holding, Asking,
     LiveStays, Others, Keeps
<1>28. OpenRecorded'
  BY <1>1, <1>2, <1>7, <1>8, <1>3, <1>4, <1>5, <1>6, Ranges DEF Ready, Records, OpenRecorded, LiveStays, Others,
     Keeps
<1>29. Overtaken'
  BY <1>1, <1>2, <1>7, <1>8, <1>3, <1>4, <1>5, <1>6, Ranges DEF Ready, Records, Overtaken, Resumer, LiveStays,
     Others, Keeps
<1>30. Recorded'
  BY <1>1, <1>2, <1>7, <1>8, <1>3, <1>4, <1>5, <1>6, Ranges DEF Ready, Records, Recorded, Accounted, Resumer,
     Kickers, LiveStays, Others, Keeps
<1>31. GateCount'
  BY <1>1, <1>2, <1>7, <1>8, <1>3, <1>4, <1>5, <1>6, Ranges DEF Ready, Counts, GateCount, Subtracts, LiveStays,
     Others, Keeps, CountsDown
<1>32. LogicCount'
  BY <1>1, <1>2, <1>7, <1>8, <1>3, <1>4, <1>5, <1>6, Ranges DEF Ready, Counts, LogicCount, LiveStays, Others, Keeps
<1> QED BY <1>10, <1>11, <1>12, <1>13, <1>14, <1>15, <1>16, <1>17, <1>18, <1>19, <1>20, <1>21, <1>22, <1>23, <1>24,
    <1>25, <1>26, <1>27, <1>28, <1>29, <1>30, <1>31, <1>32 DEF Agree, Phases, Lives, Known, Records, Counts

\* The record is cleared after a kick.
LEMMA KickClearReady ==
    ASSUME TakeoverConfig, Ready, NEW c \in Conns, NEW who \in Kickers, KickClear(c, who)
    PROVE  Agree'
<1>1. /\ kick[c][who].pc = "clear" /\ conn[c].gate \in Gates /\ kick'[c][who].pc = "done" /\ redis'.logic = redis.logic
      /\ \A d \in Conns, w \in Kickers : <<d, w>> # <<c, who>> => kick'[d][w] = kick[d][w]
      /\ \/ redis.sess = c /\ redis'.sess = None
         \/ redis.sess # c /\ redis' = redis
         \/ who = "gate" /\ redis' = redis
      /\ UNCHANGED <<table, stream, count, leaving, down, ask, lsess, lcount, ntf>>
  BY KickClearFx, Calm DEF Ready, KickMoves, Cleared
<1>2. /\ Others(c) /\ Keeps(c) /\ conn'[c].open = conn[c].open /\ conn'[c].user = conn[c].user /\ conn'[c].aborted = conn[c].aborted
      /\ who = "gate" => conn'[c].pc = "end"
      /\ who = "logic" => conn'[c].pc = conn[c].pc
  BY KickClearFx DEF Ready, Moves, Others, Keeps
<1>3. conn[c].pc # "none" /\ conn[c].pc \notin {"checked", "save"} /\ (who = "gate" => conn[c].pc = "kicking" /\ ask[c] = "ok")
  BY <1>1, OneKick DEF Ready, Types, Begun, BegunKick, Phases, KickGate, Answered
<1>4. LiveStays
  <2>1. Grows BY <1>1, <1>2, <1>3 DEF Grows, Others, Keeps, Kickers
  <2> QED BY <1>1, <2>1, LiveSame DEF Ready
<1>5. \A x \in Conns, w \in Kickers : <<x, w>> # <<c, who>> => kick[x][w].pc \notin {"asked", "taken", "clear"}
  BY <1>1, OneKick
<1>6. ~(Live(c) /\ conn[c].open) BY <1>1 DEF Ready, Lives, KickGone, Phases, DownRight
<1>10. Plain'
  BY <1>1, <1>2, <1>3, <1>4, <1>5, <1>6, Ranges DEF Ready, Phases, Plain, LiveStays, Others, Keeps, Kickers
<1>11. OneWorking'
  BY <1>1, <1>2, <1>3, <1>4, <1>5, <1>6, Ranges DEF Ready, Phases, OneWorking, Working, Busy, Holding, Asking,
     LiveStays, Others, Keeps, Kickers
<1>12. Answered'
  BY <1>1, <1>2, <1>3, <1>4, <1>5, <1>6, Ranges DEF Ready, Phases, Answered, LiveStays, Others, Keeps, Kickers
<1>13. KickIdle'
  BY <1>1, <1>2, <1>3, <1>4, <1>5, <1>6, Ranges DEF Ready, Phases, KickIdle, Holding, LiveStays, Others, Keeps,
     Kickers
<1>14. KickGate'
  BY <1>1, <1>2, <1>3, <1>4, <1>5, <1>6, Ranges DEF Ready, Phases, KickGate, Kickers, LiveStays, Others, Keeps
<1>15. KickLogic'
  BY <1>1, <1>2, <1>3, <1>4, <1>5, <1>6, Ranges DEF Ready, Phases, KickLogic, Kickers, LiveStays, Others, Keeps
<1>16. LeaveRight'
  BY <1>1, <1>2, <1>3, <1>4, <1>5, <1>6, Ranges DEF Ready, Phases, LeaveRight, Holding, LiveStays, Others, Keeps,
     Kickers
<1>17. NtfRight'
  BY <1>1, <1>2, <1>3, <1>4, <1>5, <1>6, Ranges DEF Ready, Phases, NtfRight, Holding, LiveStays, Others, Keeps,
     Kickers
<1>18. DownRight'
  BY <1>1, <1>2, <1>3, <1>4, <1>5, <1>6, Ranges DEF Ready, Phases, DownRight, LiveStays, Others, Keeps, Kickers
<1>19. Bound' BY <1>1, <1>2, <1>3, <1>4, <1>5, <1>6, Ranges DEF Ready, Lives, Bound, LiveStays, Others, Keeps, Kickers
<1>20. TakenOff'
  BY <1>1, <1>2, <1>3, <1>4, <1>5, <1>6, Ranges DEF Ready, Lives, TakenOff, LiveStays, Others, Keeps, Kickers
<1>21. SaveLive'
  BY <1>1, <1>2, <1>3, <1>4, <1>5, <1>6, Ranges DEF Ready, Lives, SaveLive, LiveStays, Others, Keeps, Kickers
<1>22. LeaveGone'
  BY <1>1, <1>2, <1>3, <1>4, <1>5, <1>6, Ranges DEF Ready, Lives, LeaveGone, LiveStays, Others, Keeps, Kickers
<1>23. KickGone'
  BY <1>1, <1>2, <1>3, <1>4, <1>5, <1>6, Ranges DEF Ready, Lives, KickGone, LiveStays, Others, Keeps, Kickers
<1>24. LeaveLive'
  BY <1>1, <1>2, <1>3, <1>4, <1>5, <1>6, Ranges DEF Ready, Lives, LeaveLive, LiveStays, Others, Keeps, Kickers
<1>25. OpenKnown'
  BY <1>1, <1>2, <1>3, <1>4, <1>5, <1>6, Ranges DEF Ready, Known, OpenKnown, LiveStays, Others, Keeps, Kickers
<1>26. AskedKnown'
  BY <1>1, <1>2, <1>3, <1>4, <1>5, <1>6, Ranges DEF Ready, Known, AskedKnown, Holding, LiveStays, Others, Keeps,
     Kickers
<1>27. ReconnectRight'
  BY <1>1, <1>2, <1>3, <1>4, <1>5, <1>6, Ranges DEF Ready, Known, ReconnectRight, Busy, Holding, Asking, LiveStays,
     Others, Keeps, Kickers
<1>28. OpenRecorded'
  BY <1>1, <1>2, <1>3, <1>4, <1>5, <1>6, Ranges DEF Ready, Records, OpenRecorded, LiveStays, Others, Keeps, Kickers
<1>29. Overtaken'
  BY <1>1, <1>2, <1>3, <1>4, <1>5, <1>6, Ranges DEF Ready, Records, Overtaken, Resumer, LiveStays, Others, Keeps,
     Kickers
<1>30. Recorded'
  BY <1>1, <1>2, <1>3, <1>4, <1>5, <1>6, Ranges DEF Ready, Records, Recorded, Accounted, Resumer, Kickers,
     LiveStays, Others, Keeps
<1>31. GateCount'
  BY <1>1, <1>2, <1>3, <1>4, <1>5, <1>6, Ranges DEF Ready, Counts, GateCount, Subtracts, LiveStays, Others, Keeps,
     Kickers
<1>32. LogicCount'
  BY <1>1, <1>2, <1>3, <1>4, <1>5, <1>6, Ranges DEF Ready, Counts, LogicCount, LiveStays, Others, Keeps, Kickers
<1> QED BY <1>10, <1>11, <1>12, <1>13, <1>14, <1>15, <1>16, <1>17, <1>18, <1>19, <1>20, <1>21, <1>22, <1>23, <1>24,
    <1>25, <1>26, <1>27, <1>28, <1>29, <1>30, <1>31, <1>32 DEF Agree, Phases, Lives, Known, Records, Counts

\* A connection breaks.
LEMMA BreakReady == ASSUME TakeoverConfig, Ready, NEW c \in Conns, Break(c) PROVE Agree'
<1>1. /\ conn[c].open /\ Others(c) /\ Keeps(c) /\ conn'[c].pc = conn[c].pc /\ conn'[c].open = FALSE
      /\ conn'[c].user = conn[c].user /\ conn'[c].aborted = conn[c].aborted
      /\ UNCHANGED <<redis, table, stream, count, leaving, kick, down, ask, lsess, lcount, ntf>>
  BY BreakFx DEF Ready, Closes
<1>2. LiveStays BY <1>1, BreakFx, LiveSame, ClosesBegun DEF Ready
<1>3. leaving[c] = "no" BY <1>1 DEF Ready, Phases, LeaveRight
<1>10. Plain' BY <1>1, <1>2, <1>3, Ranges DEF Ready, Phases, Plain, LiveStays, Others, Keeps
<1>11. OneWorking'
  BY <1>1, <1>2, <1>3, Ranges DEF Ready, Phases, OneWorking, Working, Busy, Holding, Asking, LiveStays, Others,
     Keeps
<1>12. Answered' BY <1>1, <1>2, <1>3, Ranges DEF Ready, Phases, Answered, LiveStays, Others, Keeps
<1>13. KickIdle' BY <1>1, <1>2, <1>3, Ranges DEF Ready, Phases, KickIdle, Holding, LiveStays, Others, Keeps
<1>14. KickGate' BY <1>1, <1>2, <1>3, Ranges DEF Ready, Phases, KickGate, Kickers, LiveStays, Others, Keeps
<1>15. KickLogic' BY <1>1, <1>2, <1>3, Ranges DEF Ready, Phases, KickLogic, Kickers, LiveStays, Others, Keeps
<1>16. LeaveRight' BY <1>1, <1>2, <1>3, Ranges DEF Ready, Phases, LeaveRight, Holding, LiveStays, Others, Keeps
<1>17. NtfRight' BY <1>1, <1>2, <1>3, Ranges DEF Ready, Phases, NtfRight, Holding, LiveStays, Others, Keeps
<1>18. DownRight' BY <1>1, <1>2, <1>3, Ranges DEF Ready, Phases, DownRight, LiveStays, Others, Keeps
<1>19. Bound' BY <1>1, <1>2, <1>3, Ranges DEF Ready, Lives, Bound, LiveStays, Others, Keeps
<1>20. TakenOff' BY <1>1, <1>2, <1>3, Ranges DEF Ready, Lives, TakenOff, LiveStays, Others, Keeps
<1>21. SaveLive' BY <1>1, <1>2, <1>3, Ranges DEF Ready, Lives, SaveLive, LiveStays, Others, Keeps
<1>22. LeaveGone' BY <1>1, <1>2, <1>3, Ranges DEF Ready, Lives, LeaveGone, LiveStays, Others, Keeps
<1>23. KickGone' BY <1>1, <1>2, <1>3, Ranges DEF Ready, Lives, KickGone, LiveStays, Others, Keeps
<1>24. LeaveLive' BY <1>1, <1>2, <1>3, Ranges DEF Ready, Lives, LeaveLive, LiveStays, Others, Keeps
<1>25. OpenKnown' BY <1>1, <1>2, <1>3, Ranges DEF Ready, Known, OpenKnown, LiveStays, Others, Keeps
<1>26. AskedKnown' BY <1>1, <1>2, <1>3, Ranges DEF Ready, Known, AskedKnown, Holding, LiveStays, Others, Keeps
<1>27. ReconnectRight'
  BY <1>1, <1>2, <1>3, Ranges DEF Ready, Known, ReconnectRight, Busy, Holding, Asking, LiveStays, Others, Keeps
<1>28. OpenRecorded' BY <1>1, <1>2, <1>3, Ranges DEF Ready, Records, OpenRecorded, LiveStays, Others, Keeps
<1>29. Overtaken' BY <1>1, <1>2, <1>3, Ranges DEF Ready, Records, Overtaken, Resumer, LiveStays, Others, Keeps
<1>30. Recorded'
  BY <1>1, <1>2, <1>3, Ranges DEF Ready, Records, Recorded, Accounted, Resumer, Kickers, LiveStays, Others, Keeps
<1>31. GateCount' BY <1>1, <1>2, <1>3, Ranges DEF Ready, Counts, GateCount, Subtracts, LiveStays, Others, Keeps
<1>32. LogicCount' BY <1>1, <1>2, <1>3, Ranges DEF Ready, Counts, LogicCount, LiveStays, Others, Keeps
<1> QED BY <1>10, <1>11, <1>12, <1>13, <1>14, <1>15, <1>16, <1>17, <1>18, <1>19, <1>20, <1>21, <1>22, <1>23, <1>24,
    <1>25, <1>26, <1>27, <1>28, <1>29, <1>30, <1>31, <1>32 DEF Agree, Phases, Lives, Known, Records, Counts

\* on_disconnected ends the worker, unless the Gate drains.
LEMMA OnDisconnectedReady == ASSUME TakeoverConfig, Ready, NEW c \in Conns, OnDisconnected(c) PROVE Agree'
<1>1. /\ leaving[c] = "no" /\ ~conn[c].open /\ conn[c].pc # "none" /\ conn[c].gate \in Gates
      /\ \A d \in Conns : d # c => leaving'[d] = leaving[d]
      /\ \/ leaving'[c] = "done" /\ (down[conn[c].gate].pc # "up" \/ ~conn[c].user)
         \/ leaving'[c] = "take" /\ down[conn[c].gate].pc = "up" /\ conn[c].user
      /\ UNCHANGED <<redis, table, stream, count, kick, down, ask, lsess, lcount, ntf>>
  BY OnDisconnectedFx DEF Ready
<1>2. /\ Others(c) /\ Keeps(c) /\ conn'[c].open = conn[c].open /\ conn'[c].user = conn[c].user /\ conn'[c].aborted = conn[c].aborted
      /\ \/ conn'[c].pc = conn[c].pc /\ (down[conn[c].gate].pc # "up" \/ conn[c].pc = "kicking")
         \/ conn'[c].pc = "end" /\ down[conn[c].gate].pc = "up" /\ conn[c].pc # "kicking"
  BY OnDisconnectedFx DEF Ready, TakeoverConfig, Moves, Others, Keeps
<1>3. LiveStays
  <2>1. Grows BY <1>1, <1>2 DEF Grows, Others, Keeps
  <2> QED BY <1>1, <2>1, LiveSame DEF Ready
<1>4. Live(c) => conn[c].user /\ down[conn[c].gate].pc \in {"up", "draining"}
  BY LiveFacts DEF Ready, Phases, DownRight, Live, Holds, Types, LeaveTypes, DownRec
<1>10. Plain' BY <1>1, <1>2, <1>3, <1>4, Ranges DEF Ready, Phases, Plain, LiveStays, Others, Keeps
<1>11. OneWorking'
  BY <1>1, <1>2, <1>3, <1>4, Ranges DEF Ready, Phases, OneWorking, Working, Busy, Holding, Asking, LiveStays,
     Others, Keeps
<1>12. Answered' BY <1>1, <1>2, <1>3, <1>4, Ranges DEF Ready, Phases, Answered, LiveStays, Others, Keeps
<1>13. KickIdle' BY <1>1, <1>2, <1>3, <1>4, Ranges DEF Ready, Phases, KickIdle, Holding, LiveStays, Others, Keeps
<1>14. KickGate' BY <1>1, <1>2, <1>3, <1>4, Ranges DEF Ready, Phases, KickGate, Kickers, LiveStays, Others, Keeps
<1>15. KickLogic' BY <1>1, <1>2, <1>3, <1>4, Ranges DEF Ready, Phases, KickLogic, Kickers, LiveStays, Others, Keeps
<1>16. LeaveRight' BY <1>1, <1>2, <1>3, <1>4, Ranges DEF Ready, Phases, LeaveRight, Holding, LiveStays, Others, Keeps
<1>17. NtfRight' BY <1>1, <1>2, <1>3, <1>4, Ranges DEF Ready, Phases, NtfRight, Holding, LiveStays, Others, Keeps
<1>18. DownRight' BY <1>1, <1>2, <1>3, <1>4, Ranges DEF Ready, Phases, DownRight, LiveStays, Others, Keeps
<1>19. Bound' BY <1>1, <1>2, <1>3, <1>4, Ranges DEF Ready, Lives, Bound, LiveStays, Others, Keeps
<1>20. TakenOff' BY <1>1, <1>2, <1>3, <1>4, Ranges DEF Ready, Lives, TakenOff, LiveStays, Others, Keeps
<1>21. SaveLive' BY <1>1, <1>2, <1>3, <1>4, Ranges DEF Ready, Lives, SaveLive, LiveStays, Others, Keeps
<1>22. LeaveGone' BY <1>1, <1>2, <1>3, <1>4, Ranges DEF Ready, Lives, LeaveGone, LiveStays, Others, Keeps
<1>23. KickGone' BY <1>1, <1>2, <1>3, <1>4, Ranges DEF Ready, Lives, KickGone, LiveStays, Others, Keeps
<1>24. LeaveLive' BY <1>1, <1>2, <1>3, <1>4, Ranges DEF Ready, Lives, LeaveLive, LiveStays, Others, Keeps
<1>25. OpenKnown' BY <1>1, <1>2, <1>3, <1>4, Ranges DEF Ready, Known, OpenKnown, LiveStays, Others, Keeps
<1>26. AskedKnown' BY <1>1, <1>2, <1>3, <1>4, Ranges DEF Ready, Known, AskedKnown, Holding, LiveStays, Others, Keeps
<1>27. ReconnectRight'
  BY <1>1, <1>2, <1>3, <1>4, Ranges DEF Ready, Known, ReconnectRight, Busy, Holding, Asking, LiveStays, Others,
     Keeps
<1>28. OpenRecorded' BY <1>1, <1>2, <1>3, <1>4, Ranges DEF Ready, Records, OpenRecorded, LiveStays, Others, Keeps
<1>29. Overtaken' BY <1>1, <1>2, <1>3, <1>4, Ranges DEF Ready, Records, Overtaken, Resumer, LiveStays, Others, Keeps
<1>30. Recorded'
  BY <1>1, <1>2, <1>3, <1>4, Ranges DEF Ready, Records, Recorded, Accounted, Resumer, Kickers, LiveStays, Others,
     Keeps
<1>31. GateCount' BY <1>1, <1>2, <1>3, <1>4, Ranges DEF Ready, Counts, GateCount, Subtracts, LiveStays, Others, Keeps
<1>32. LogicCount' BY <1>1, <1>2, <1>3, <1>4, Ranges DEF Ready, Counts, LogicCount, LiveStays, Others, Keeps
<1> QED BY <1>10, <1>11, <1>12, <1>13, <1>14, <1>15, <1>16, <1>17, <1>18, <1>19, <1>20, <1>21, <1>22, <1>23, <1>24,
    <1>25, <1>26, <1>27, <1>28, <1>29, <1>30, <1>31, <1>32 DEF Agree, Phases, Lives, Known, Records, Counts

\* disconnect takes the session off.
LEMMA LeavesLiveReady == ASSUME TakeoverConfig, Ready, NEW c \in Conns, DisconnectTake(c), Live(c) PROVE Agree'
<1>1. /\ leaving[c] = "take" /\ conn[c].gate \in Gates /\ table' = table /\ table[conn[c].gate] \in Conns
      /\ Offline(table[conn[c].gate]) /\ CountsDown(conn[c].gate) /\ Leaves(c, "notify")
      /\ UNCHANGED <<redis, conn, kick, down, ask, lsess, lcount, ntf>>
  BY DisconnectTakeFx DEF Ready, Live
<1>2. LiveEnds(conn[c].gate) BY <1>1, OfflineLive DEF Ready
<1>3. \A x \in Conns : Live(x) /\ conn[x].gate = conn[c].gate => x = c BY LiveOne
<1>4. conn[c].pc \in {"end", "kicking"} /\ Active(conn[c].gate) BY <1>1 DEF Ready, Phases, LeaveRight, Live
<1>5. \A g \in Gates : count[g] \in Nat BY DEF Ready, Types, GateTypes
<1>10. Plain' BY <1>1, <1>2, <1>3, <1>4, <1>5, Ranges DEF Ready, Phases, Plain, LiveEnds, Offline, Leaves
<1>11. OneWorking'
  BY <1>1, <1>2, <1>3, <1>4, <1>5, Ranges DEF Ready, Phases, OneWorking, Working, Busy, Holding, Asking, LiveEnds,
     Offline, Leaves
<1>12. Answered' BY <1>1, <1>2, <1>3, <1>4, <1>5, Ranges DEF Ready, Phases, Answered, LiveEnds, Offline, Leaves
<1>13. KickIdle'
  BY <1>1, <1>2, <1>3, <1>4, <1>5, Ranges DEF Ready, Phases, KickIdle, Holding, LiveEnds, Offline, Leaves
<1>14. KickGate'
  BY <1>1, <1>2, <1>3, <1>4, <1>5, Ranges DEF Ready, Phases, KickGate, Kickers, LiveEnds, Offline, Leaves
<1>15. KickLogic'
  BY <1>1, <1>2, <1>3, <1>4, <1>5, Ranges DEF Ready, Phases, KickLogic, Kickers, LiveEnds, Offline, Leaves
<1>16. LeaveRight'
  BY <1>1, <1>2, <1>3, <1>4, <1>5, Ranges DEF Ready, Phases, LeaveRight, Holding, LiveEnds, Offline, Leaves
<1>17. NtfRight'
  BY <1>1, <1>2, <1>3, <1>4, <1>5, Ranges DEF Ready, Phases, NtfRight, Holding, LiveEnds, Offline, Leaves
<1>18. DownRight' BY <1>1, <1>2, <1>3, <1>4, <1>5, Ranges DEF Ready, Phases, DownRight, LiveEnds, Offline, Leaves
<1>19. Bound' BY <1>1, <1>2, <1>3, <1>4, <1>5, Ranges DEF Ready, Lives, Bound, LiveEnds, Offline, Leaves
<1>20. TakenOff' BY <1>1, <1>2, <1>3, <1>4, <1>5, Ranges DEF Ready, Lives, TakenOff, LiveEnds, Offline, Leaves
<1>21. SaveLive' BY <1>1, <1>2, <1>3, <1>4, <1>5, Ranges DEF Ready, Lives, SaveLive, LiveEnds, Offline, Leaves
<1>22. LeaveGone' BY <1>1, <1>2, <1>3, <1>4, <1>5, Ranges DEF Ready, Lives, LeaveGone, LiveEnds, Offline, Leaves
<1>23. KickGone' BY <1>1, <1>2, <1>3, <1>4, <1>5, Ranges DEF Ready, Lives, KickGone, LiveEnds, Offline, Leaves
<1>24. LeaveLive' BY <1>1, <1>2, <1>3, <1>4, <1>5, Ranges DEF Ready, Lives, LeaveLive, LiveEnds, Offline, Leaves
<1>25. OpenKnown' BY <1>1, <1>2, <1>3, <1>4, <1>5, Ranges DEF Ready, Known, OpenKnown, LiveEnds, Offline, Leaves
<1>26. AskedKnown'
  BY <1>1, <1>2, <1>3, <1>4, <1>5, Ranges DEF Ready, Known, AskedKnown, Holding, LiveEnds, Offline, Leaves
<1>27. ReconnectRight'
  BY <1>1, <1>2, <1>3, <1>4, <1>5, Ranges DEF Ready, Known, ReconnectRight, Busy, Holding, Asking, LiveEnds,
     Offline, Leaves
<1>28. OpenRecorded'
  BY <1>1, <1>2, <1>3, <1>4, <1>5, Ranges DEF Ready, Records, OpenRecorded, LiveEnds, Offline, Leaves
<1>29. Overtaken'
  BY <1>1, <1>2, <1>3, <1>4, <1>5, Ranges DEF Ready, Records, Overtaken, Resumer, LiveEnds, Offline, Leaves
<1>30. Recorded'
  BY <1>1, <1>2, <1>3, <1>4, <1>5, Ranges DEF Ready, Records, Recorded, Accounted, Resumer, Kickers, LiveEnds,
     Offline, Leaves
<1>31. GateCount'
  BY <1>1, <1>2, <1>3, <1>4, <1>5, Ranges DEF Ready, Counts, GateCount, Subtracts, LiveEnds, Offline, Leaves,
     CountsDown
<1>32. LogicCount' BY <1>1, <1>2, <1>3, <1>4, <1>5, Ranges DEF Ready, Counts, LogicCount, LiveEnds, Offline, Leaves
<1> QED BY <1>10, <1>11, <1>12, <1>13, <1>14, <1>15, <1>16, <1>17, <1>18, <1>19, <1>20, <1>21, <1>22, <1>23, <1>24,
    <1>25, <1>26, <1>27, <1>28, <1>29, <1>30, <1>31, <1>32 DEF Agree, Phases, Lives, Known, Records, Counts

\* disconnect of a session that is not live.
LEMMA LeavesLateReady == ASSUME TakeoverConfig, Ready, NEW c \in Conns, DisconnectTake(c), ~Live(c) PROVE Agree'
<1>1. /\ leaving[c] = "take" /\ conn[c].gate \in Gates /\ Leaves(c, "done")
      /\ UNCHANGED <<redis, conn, table, stream, count, kick, down, ask, lsess, lcount, ntf>>
  BY DisconnectTakeFx DEF Ready, Live
<1>2. LiveStays BY <1>1, LiveSame, StayBegun DEF Ready
<1>10. Plain' BY <1>1, <1>2, Ranges DEF Ready, Phases, Plain, LiveStays, Leaves
<1>11. OneWorking'
  BY <1>1, <1>2, Ranges DEF Ready, Phases, OneWorking, Working, Busy, Holding, Asking, LiveStays, Leaves
<1>12. Answered' BY <1>1, <1>2, Ranges DEF Ready, Phases, Answered, LiveStays, Leaves
<1>13. KickIdle' BY <1>1, <1>2, Ranges DEF Ready, Phases, KickIdle, Holding, LiveStays, Leaves
<1>14. KickGate' BY <1>1, <1>2, Ranges DEF Ready, Phases, KickGate, Kickers, LiveStays, Leaves
<1>15. KickLogic' BY <1>1, <1>2, Ranges DEF Ready, Phases, KickLogic, Kickers, LiveStays, Leaves
<1>16. LeaveRight' BY <1>1, <1>2, Ranges DEF Ready, Phases, LeaveRight, Holding, LiveStays, Leaves
<1>17. NtfRight' BY <1>1, <1>2, Ranges DEF Ready, Phases, NtfRight, Holding, LiveStays, Leaves
<1>18. DownRight' BY <1>1, <1>2, Ranges DEF Ready, Phases, DownRight, LiveStays, Leaves
<1>19. Bound' BY <1>1, <1>2, Ranges DEF Ready, Lives, Bound, LiveStays, Leaves
<1>20. TakenOff' BY <1>1, <1>2, Ranges DEF Ready, Lives, TakenOff, LiveStays, Leaves
<1>21. SaveLive' BY <1>1, <1>2, Ranges DEF Ready, Lives, SaveLive, LiveStays, Leaves
<1>22. LeaveGone' BY <1>1, <1>2, Ranges DEF Ready, Lives, LeaveGone, LiveStays, Leaves
<1>23. KickGone' BY <1>1, <1>2, Ranges DEF Ready, Lives, KickGone, LiveStays, Leaves
<1>24. LeaveLive' BY <1>1, <1>2, Ranges DEF Ready, Lives, LeaveLive, LiveStays, Leaves
<1>25. OpenKnown' BY <1>1, <1>2, Ranges DEF Ready, Known, OpenKnown, LiveStays, Leaves
<1>26. AskedKnown' BY <1>1, <1>2, Ranges DEF Ready, Known, AskedKnown, Holding, LiveStays, Leaves
<1>27. ReconnectRight'
  BY <1>1, <1>2, Ranges DEF Ready, Known, ReconnectRight, Busy, Holding, Asking, LiveStays, Leaves
<1>28. OpenRecorded' BY <1>1, <1>2, Ranges DEF Ready, Records, OpenRecorded, LiveStays, Leaves
<1>29. Overtaken' BY <1>1, <1>2, Ranges DEF Ready, Records, Overtaken, Resumer, LiveStays, Leaves
<1>30. Recorded' BY <1>1, <1>2, Ranges DEF Ready, Records, Recorded, Accounted, Resumer, Kickers, LiveStays, Leaves
<1>31. GateCount' BY <1>1, <1>2, Ranges DEF Ready, Counts, GateCount, Subtracts, LiveStays, Leaves
<1>32. LogicCount' BY <1>1, <1>2, Ranges DEF Ready, Counts, LogicCount, LiveStays, Leaves
<1> QED BY <1>10, <1>11, <1>12, <1>13, <1>14, <1>15, <1>16, <1>17, <1>18, <1>19, <1>20, <1>21, <1>22, <1>23, <1>24,
    <1>25, <1>26, <1>27, <1>28, <1>29, <1>30, <1>31, <1>32 DEF Agree, Phases, Lives, Known, Records, Counts

\* Logic is told of a disconnect.
LEMMA DisconnectNotifyReady == ASSUME TakeoverConfig, Ready, NEW c \in Conns, DisconnectNotify(c) PROVE Agree'
<1>1. /\ leaving[c] = "notify" /\ Leaves(c, "clear") /\ ntf' = ntf \cup {c}
      /\ UNCHANGED <<redis, conn, table, stream, count, kick, down, ask, lsess, lcount>>
  BY DisconnectNotifyFx, Calm DEF Ready
<1>2. LiveStays BY <1>1, LiveSame, StayBegun DEF Ready
<1>3. conn[c].pc \in {"end", "kicking"} /\ ~Live(c) BY <1>1 DEF Ready, Phases, LeaveRight, Lives, LeaveGone
<1>10. Plain' BY <1>1, <1>2, <1>3, Ranges DEF Ready, Phases, Plain, LiveStays, Leaves
<1>11. OneWorking'
  BY <1>1, <1>2, <1>3, Ranges DEF Ready, Phases, OneWorking, Working, Busy, Holding, Asking, LiveStays, Leaves
<1>12. Answered' BY <1>1, <1>2, <1>3, Ranges DEF Ready, Phases, Answered, LiveStays, Leaves
<1>13. KickIdle' BY <1>1, <1>2, <1>3, Ranges DEF Ready, Phases, KickIdle, Holding, LiveStays, Leaves
<1>14. KickGate' BY <1>1, <1>2, <1>3, Ranges DEF Ready, Phases, KickGate, Kickers, LiveStays, Leaves
<1>15. KickLogic' BY <1>1, <1>2, <1>3, Ranges DEF Ready, Phases, KickLogic, Kickers, LiveStays, Leaves
<1>16. LeaveRight' BY <1>1, <1>2, <1>3, Ranges DEF Ready, Phases, LeaveRight, Holding, LiveStays, Leaves
<1>17. NtfRight' BY <1>1, <1>2, <1>3, Ranges DEF Ready, Phases, NtfRight, Holding, LiveStays, Leaves
<1>18. DownRight' BY <1>1, <1>2, <1>3, Ranges DEF Ready, Phases, DownRight, LiveStays, Leaves
<1>19. Bound' BY <1>1, <1>2, <1>3, Ranges DEF Ready, Lives, Bound, LiveStays, Leaves
<1>20. TakenOff' BY <1>1, <1>2, <1>3, Ranges DEF Ready, Lives, TakenOff, LiveStays, Leaves
<1>21. SaveLive' BY <1>1, <1>2, <1>3, Ranges DEF Ready, Lives, SaveLive, LiveStays, Leaves
<1>22. LeaveGone' BY <1>1, <1>2, <1>3, Ranges DEF Ready, Lives, LeaveGone, LiveStays, Leaves
<1>23. KickGone' BY <1>1, <1>2, <1>3, Ranges DEF Ready, Lives, KickGone, LiveStays, Leaves
<1>24. LeaveLive' BY <1>1, <1>2, <1>3, Ranges DEF Ready, Lives, LeaveLive, LiveStays, Leaves
<1>25. OpenKnown' BY <1>1, <1>2, <1>3, Ranges DEF Ready, Known, OpenKnown, LiveStays, Leaves
<1>26. AskedKnown' BY <1>1, <1>2, <1>3, Ranges DEF Ready, Known, AskedKnown, Holding, LiveStays, Leaves
<1>27. ReconnectRight'
  BY <1>1, <1>2, <1>3, Ranges DEF Ready, Known, ReconnectRight, Busy, Holding, Asking, LiveStays, Leaves
<1>28. OpenRecorded' BY <1>1, <1>2, <1>3, Ranges DEF Ready, Records, OpenRecorded, LiveStays, Leaves
<1>29. Overtaken' BY <1>1, <1>2, <1>3, Ranges DEF Ready, Records, Overtaken, Resumer, LiveStays, Leaves
<1>30. Recorded'
  BY <1>1, <1>2, <1>3, Ranges DEF Ready, Records, Recorded, Accounted, Resumer, Kickers, LiveStays, Leaves
<1>31. GateCount' BY <1>1, <1>2, <1>3, Ranges DEF Ready, Counts, GateCount, Subtracts, LiveStays, Leaves
<1>32. LogicCount' BY <1>1, <1>2, <1>3, Ranges DEF Ready, Counts, LogicCount, LiveStays, Leaves
<1> QED BY <1>10, <1>11, <1>12, <1>13, <1>14, <1>15, <1>16, <1>17, <1>18, <1>19, <1>20, <1>21, <1>22, <1>23, <1>24,
    <1>25, <1>26, <1>27, <1>28, <1>29, <1>30, <1>31, <1>32 DEF Agree, Phases, Lives, Known, Records, Counts

\* The record is cleared after a disconnect.
LEMMA DisconnectClearReady == ASSUME TakeoverConfig, Ready, NEW c \in Conns, DisconnectClear(c) PROVE Agree'
<1>1. /\ leaving[c] = "clear" /\ Leaves(c, "done") /\ redis'.logic = redis.logic
      /\ \/ redis.sess = c /\ redis'.sess = None
         \/ redis.sess # c /\ redis' = redis
      /\ UNCHANGED <<conn, table, stream, count, kick, down, ask, lsess, lcount, ntf>>
  BY DisconnectClearFx, Calm DEF Ready, Cleared
<1>2. LiveStays BY <1>1, LiveSame, StayBegun DEF Ready
<1>3. ~Live(c) BY <1>1 DEF Ready, Lives, LeaveGone
<1>10. Plain' BY <1>1, <1>2, <1>3, Ranges DEF Ready, Phases, Plain, LiveStays, Leaves
<1>11. OneWorking'
  BY <1>1, <1>2, <1>3, Ranges DEF Ready, Phases, OneWorking, Working, Busy, Holding, Asking, LiveStays, Leaves
<1>12. Answered' BY <1>1, <1>2, <1>3, Ranges DEF Ready, Phases, Answered, LiveStays, Leaves
<1>13. KickIdle' BY <1>1, <1>2, <1>3, Ranges DEF Ready, Phases, KickIdle, Holding, LiveStays, Leaves
<1>14. KickGate' BY <1>1, <1>2, <1>3, Ranges DEF Ready, Phases, KickGate, Kickers, LiveStays, Leaves
<1>15. KickLogic' BY <1>1, <1>2, <1>3, Ranges DEF Ready, Phases, KickLogic, Kickers, LiveStays, Leaves
<1>16. LeaveRight' BY <1>1, <1>2, <1>3, Ranges DEF Ready, Phases, LeaveRight, Holding, LiveStays, Leaves
<1>17. NtfRight' BY <1>1, <1>2, <1>3, Ranges DEF Ready, Phases, NtfRight, Holding, LiveStays, Leaves
<1>18. DownRight' BY <1>1, <1>2, <1>3, Ranges DEF Ready, Phases, DownRight, LiveStays, Leaves
<1>19. Bound' BY <1>1, <1>2, <1>3, Ranges DEF Ready, Lives, Bound, LiveStays, Leaves
<1>20. TakenOff' BY <1>1, <1>2, <1>3, Ranges DEF Ready, Lives, TakenOff, LiveStays, Leaves
<1>21. SaveLive' BY <1>1, <1>2, <1>3, Ranges DEF Ready, Lives, SaveLive, LiveStays, Leaves
<1>22. LeaveGone' BY <1>1, <1>2, <1>3, Ranges DEF Ready, Lives, LeaveGone, LiveStays, Leaves
<1>23. KickGone' BY <1>1, <1>2, <1>3, Ranges DEF Ready, Lives, KickGone, LiveStays, Leaves
<1>24. LeaveLive' BY <1>1, <1>2, <1>3, Ranges DEF Ready, Lives, LeaveLive, LiveStays, Leaves
<1>25. OpenKnown' BY <1>1, <1>2, <1>3, Ranges DEF Ready, Known, OpenKnown, LiveStays, Leaves
<1>26. AskedKnown' BY <1>1, <1>2, <1>3, Ranges DEF Ready, Known, AskedKnown, Holding, LiveStays, Leaves
<1>27. ReconnectRight'
  BY <1>1, <1>2, <1>3, Ranges DEF Ready, Known, ReconnectRight, Busy, Holding, Asking, LiveStays, Leaves
<1>28. OpenRecorded' BY <1>1, <1>2, <1>3, Ranges DEF Ready, Records, OpenRecorded, LiveStays, Leaves
<1>29. Overtaken' BY <1>1, <1>2, <1>3, Ranges DEF Ready, Records, Overtaken, Resumer, LiveStays, Leaves
<1>30. Recorded'
  BY <1>1, <1>2, <1>3, Ranges DEF Ready, Records, Recorded, Accounted, Resumer, Kickers, LiveStays, Leaves
<1>31. GateCount' BY <1>1, <1>2, <1>3, Ranges DEF Ready, Counts, GateCount, Subtracts, LiveStays, Leaves
<1>32. LogicCount' BY <1>1, <1>2, <1>3, Ranges DEF Ready, Counts, LogicCount, LiveStays, Leaves
<1> QED BY <1>10, <1>11, <1>12, <1>13, <1>14, <1>15, <1>16, <1>17, <1>18, <1>19, <1>20, <1>21, <1>22, <1>23, <1>24,
    <1>25, <1>26, <1>27, <1>28, <1>29, <1>30, <1>31, <1>32 DEF Agree, Phases, Lives, Known, Records, Counts

\* A login asks for the kick of the session that it replaces.
LEMMA LoginKicksReady ==
    ASSUME TakeoverConfig, Ready, NEW c \in Conns, LogicLogin(c), KicksOld(c, lsess[conn[c].logic])
    PROVE  Agree'
<1>1. /\ ask[c] = "sent" /\ conn[c].logic \in Logics /\ lsess[conn[c].logic] \in Conns /\ lsess[conn[c].logic] # c /\ ~conn[c].reconnect
      /\ Asks(c, "kick")
      /\ UNCHANGED <<redis, conn, table, stream, count, leaving, down, lsess, lcount, ntf>>
  BY LogicLoginFx DEF Ready, KicksOld
<1>2. PICK old \in Conns : old = lsess[conn[c].logic] BY <1>1
<1>3. /\ kick'[old]["logic"].pc = "asked"
      /\ \A d \in Conns, w \in Kickers : <<d, w>> # <<old, "logic">> => kick'[d][w] = kick[d][w]
  BY <1>2, LogicLoginFx DEF Ready, KickMoves
<1>4. LiveStays BY <1>1, LiveSame, AsksBegun DEF Ready
<1>5. /\ \A x \in Conns : x # c => ~Working(x)
      /\ Working(c) /\ conn[c].pc \notin {"checked", "save", "on", "kicking"}
  BY <1>1 DEF Ready, Phases, OneWorking, Answered, Working, Busy, Asking
<1>6. \A x \in Conns, w \in Kickers : kick[x][w].pc \notin {"asked", "taken", "clear"}
  BY <1>1, <1>5 DEF Ready, Phases, KickGate, KickLogic, Working, Busy, Asking, Kickers
<1>10. Plain'
  BY <1>1, <1>2, <1>3, <1>4, <1>5, <1>6, Ranges DEF Ready, Phases, Plain, LiveStays, Asks, Kickers, Working, Busy,
     Holding, Asking
<1>11. OneWorking'
  BY <1>1, <1>2, <1>3, <1>4, <1>5, <1>6, Ranges DEF Ready, Phases, OneWorking, Working, Busy, Holding, Asking,
     LiveStays, Asks, Kickers
<1>12. Answered'
  BY <1>1, <1>2, <1>3, <1>4, <1>5, <1>6, Ranges DEF Ready, Phases, Answered, LiveStays, Asks, Kickers, Working,
     Busy, Holding, Asking
<1>13. KickIdle'
  BY <1>1, <1>2, <1>3, <1>4, <1>5, <1>6, Ranges DEF Ready, Phases, KickIdle, Holding, LiveStays, Asks, Kickers,
     Working, Busy, Asking
<1>14. KickGate'
  BY <1>1, <1>2, <1>3, <1>4, <1>5, <1>6, Ranges DEF Ready, Phases, KickGate, Kickers, LiveStays, Asks, Working,
     Busy, Holding, Asking
<1>15. KickLogic'
  BY <1>1, <1>2, <1>3, <1>4, <1>5, <1>6, Ranges DEF Ready, Phases, KickLogic, Kickers, LiveStays, Asks, Working,
     Busy, Holding, Asking
<1>16. LeaveRight'
  BY <1>1, <1>2, <1>3, <1>4, <1>5, <1>6, Ranges DEF Ready, Phases, LeaveRight, Holding, LiveStays, Asks, Kickers,
     Working, Busy, Asking
<1>17. NtfRight'
  BY <1>1, <1>2, <1>3, <1>4, <1>5, <1>6, Ranges DEF Ready, Phases, NtfRight, Holding, LiveStays, Asks, Kickers,
     Working, Busy, Asking
<1>18. DownRight'
  BY <1>1, <1>2, <1>3, <1>4, <1>5, <1>6, Ranges DEF Ready, Phases, DownRight, LiveStays, Asks, Kickers, Working,
     Busy, Holding, Asking
<1>19. Bound'
  BY <1>1, <1>2, <1>3, <1>4, <1>5, <1>6, Ranges DEF Ready, Lives, Bound, LiveStays, Asks, Kickers, Working, Busy,
     Holding, Asking
<1>20. TakenOff'
  BY <1>1, <1>2, <1>3, <1>4, <1>5, <1>6, Ranges DEF Ready, Lives, TakenOff, LiveStays, Asks, Kickers, Working, Busy,
     Holding, Asking
<1>21. SaveLive'
  BY <1>1, <1>2, <1>3, <1>4, <1>5, <1>6, Ranges DEF Ready, Lives, SaveLive, LiveStays, Asks, Kickers, Working, Busy,
     Holding, Asking
<1>22. LeaveGone'
  BY <1>1, <1>2, <1>3, <1>4, <1>5, <1>6, Ranges DEF Ready, Lives, LeaveGone, LiveStays, Asks, Kickers, Working,
     Busy, Holding, Asking
<1>23. KickGone'
  BY <1>1, <1>2, <1>3, <1>4, <1>5, <1>6, Ranges DEF Ready, Lives, KickGone, LiveStays, Asks, Kickers, Working, Busy,
     Holding, Asking
<1>24. LeaveLive'
  BY <1>1, <1>2, <1>3, <1>4, <1>5, <1>6, Ranges DEF Ready, Lives, LeaveLive, LiveStays, Asks, Kickers, Working,
     Busy, Holding, Asking
<1>25. OpenKnown'
  BY <1>1, <1>2, <1>3, <1>4, <1>5, <1>6, Ranges DEF Ready, Known, OpenKnown, LiveStays, Asks, Kickers, Working,
     Busy, Holding, Asking
<1>26. AskedKnown'
  BY <1>1, <1>2, <1>3, <1>4, <1>5, <1>6, Ranges DEF Ready, Known, AskedKnown, Holding, LiveStays, Asks, Kickers,
     Working, Busy, Asking
<1>27. ReconnectRight'
  BY <1>1, <1>2, <1>3, <1>4, <1>5, <1>6, Ranges DEF Ready, Known, ReconnectRight, Busy, Holding, Asking, LiveStays,
     Asks, Kickers, Working
<1>28. OpenRecorded'
  BY <1>1, <1>2, <1>3, <1>4, <1>5, <1>6, Ranges DEF Ready, Records, OpenRecorded, LiveStays, Asks, Kickers, Working,
     Busy, Holding, Asking
<1>29. Overtaken'
  BY <1>1, <1>2, <1>3, <1>4, <1>5, <1>6, Ranges DEF Ready, Records, Overtaken, Resumer, LiveStays, Asks, Kickers,
     Working, Busy, Holding, Asking
<1>30. Recorded'
  BY <1>1, <1>2, <1>3, <1>4, <1>5, <1>6, Ranges DEF Ready, Records, Recorded, Accounted, Resumer, Kickers,
     LiveStays, Asks, Working, Busy, Holding, Asking
<1>31. GateCount'
  BY <1>1, <1>2, <1>3, <1>4, <1>5, <1>6, Ranges DEF Ready, Counts, GateCount, Subtracts, LiveStays, Asks, Kickers,
     Working, Busy, Holding, Asking
<1>32. LogicCount'
  BY <1>1, <1>2, <1>3, <1>4, <1>5, <1>6, Ranges DEF Ready, Counts, LogicCount, LiveStays, Asks, Kickers, Working,
     Busy, Holding, Asking
<1> QED BY <1>10, <1>11, <1>12, <1>13, <1>14, <1>15, <1>16, <1>17, <1>18, <1>19, <1>20, <1>21, <1>22, <1>23, <1>24,
    <1>25, <1>26, <1>27, <1>28, <1>29, <1>30, <1>31, <1>32 DEF Agree, Phases, Lives, Known, Records, Counts

\* A login runs that kicks nobody.
LEMMA LoginRunsReady ==
    ASSUME TakeoverConfig, Ready, NEW c \in Conns, LogicLogin(c), ~KicksOld(c, lsess[conn[c].logic])
    PROVE  Agree'
<1>1. /\ ask[c] = "sent" /\ conn[c].logic \in Logics /\ Sessions(conn[c].logic, c) /\ Asks(c, "owner") /\ Counted(conn[c].logic)
      /\ lsess[conn[c].logic] = None => lcount'[conn[c].logic] = lcount[conn[c].logic] + 1
      /\ lsess[conn[c].logic] # None => lcount'[conn[c].logic] = lcount[conn[c].logic]
      /\ UNCHANGED <<redis, conn, table, stream, count, leaving, kick, down, ntf>>
  BY LogicLoginFx, Calm DEF Ready, LoggedIn
<1>2. conn[c].reconnect \/ lsess[conn[c].logic] \in {None, c} BY DEF KicksOld
<1>3. LiveStays BY <1>1, LiveSame, AsksBegun DEF Ready
<1>4. /\ \A x \in Conns : x # c => ~Working(x)
      /\ Working(c) /\ conn[c].pc \in {"rpc", "end"}
  <2>1. conn[c].pc \in ConnPc BY DEF Ready, Types, ConnTypes, ConnRec
  <2> QED BY <1>1, <2>1 DEF Ready, Phases, Plain, OneWorking, Answered, Working, Busy, Asking, ConnPc, Types, Begun,
      BegunConn
<1>5. /\ \A x \in Conns : Live(x) => redis.logic = conn[c].logic /\ conn[x].gate \in Gates
      /\ ~Live(c)
  <2>1. redis.logic \in {None, conn[c].logic} BY <1>1, <1>4 DEF Ready, Owned, RoutedRight, Busy, Asking
  <2> QED BY <1>1, <2>1, LiveFacts, SessionConfig DEF Ready, SessionConfig

<1>6. \A x \in Conns, w \in Kickers : kick[x][w].pc \notin {"asked", "taken", "clear"}
  BY <1>1, <1>4 DEF Ready, Phases, KickGate, KickLogic, Working, Busy, Asking, Kickers
<1>7. conn[c].reconnect => redis.sess \in {conn[c].prev, None} /\ \A x \in Conns : Live(x) => ~conn[x].open
  BY <1>1 DEF Ready, Known, ReconnectRight, Busy, Asking
<1>10. Plain'
  BY <1>1, <1>2, <1>3, <1>4, <1>5, <1>6, <1>7, Ranges DEF Ready, Phases, Plain, LiveStays, Asks, Kickers, Working,
     Busy, Holding, Asking, Sessions, Counted
<1>11. OneWorking'
  BY <1>1, <1>2, <1>3, <1>4, <1>5, <1>6, <1>7, Ranges DEF Ready, Phases, OneWorking, Working, Busy, Holding, Asking,
     LiveStays, Asks, Kickers, Sessions, Counted
<1>12. Answered'
  BY <1>1, <1>2, <1>3, <1>4, <1>5, <1>6, <1>7, Ranges DEF Ready, Phases, Answered, LiveStays, Asks, Kickers,
     Working, Busy, Holding, Asking, Sessions, Counted
<1>13. KickIdle'
  BY <1>1, <1>2, <1>3, <1>4, <1>5, <1>6, <1>7, Ranges DEF Ready, Phases, KickIdle, Holding, LiveStays, Asks,
     Kickers, Working, Busy, Asking, Sessions, Counted
<1>14. KickGate'
  BY <1>1, <1>2, <1>3, <1>4, <1>5, <1>6, <1>7, Ranges DEF Ready, Phases, KickGate, Kickers, LiveStays, Asks,
     Working, Busy, Holding, Asking, Sessions, Counted
<1>15. KickLogic'
  BY <1>1, <1>2, <1>3, <1>4, <1>5, <1>6, <1>7, Ranges DEF Ready, Phases, KickLogic, Kickers, LiveStays, Asks,
     Working, Busy, Holding, Asking, Sessions, Counted
<1>16. LeaveRight'
  BY <1>1, <1>2, <1>3, <1>4, <1>5, <1>6, <1>7, Ranges DEF Ready, Phases, LeaveRight, Holding, LiveStays, Asks,
     Kickers, Working, Busy, Asking, Sessions, Counted
<1>17. NtfRight'
  BY <1>1, <1>2, <1>3, <1>4, <1>5, <1>6, <1>7, Ranges DEF Ready, Phases, NtfRight, Holding, LiveStays, Asks,
     Kickers, Working, Busy, Asking, Sessions, Counted
<1>18. DownRight'
  BY <1>1, <1>2, <1>3, <1>4, <1>5, <1>6, <1>7, Ranges DEF Ready, Phases, DownRight, LiveStays, Asks, Kickers,
     Working, Busy, Holding, Asking, Sessions, Counted
<1>19. Bound'
  BY <1>1, <1>2, <1>3, <1>4, <1>5, <1>6, <1>7, Ranges DEF Ready, Lives, Bound, LiveStays, Asks, Kickers, Working,
     Busy, Holding, Asking, Sessions, Counted
<1>20. TakenOff'
  BY <1>1, <1>2, <1>3, <1>4, <1>5, <1>6, <1>7, Ranges DEF Ready, Lives, TakenOff, LiveStays, Asks, Kickers, Working,
     Busy, Holding, Asking, Sessions, Counted
<1>21. SaveLive'
  BY <1>1, <1>2, <1>3, <1>4, <1>5, <1>6, <1>7, Ranges DEF Ready, Lives, SaveLive, LiveStays, Asks, Kickers, Working,
     Busy, Holding, Asking, Sessions, Counted
<1>22. LeaveGone'
  BY <1>1, <1>2, <1>3, <1>4, <1>5, <1>6, <1>7, Ranges DEF Ready, Lives, LeaveGone, LiveStays, Asks, Kickers,
     Working, Busy, Holding, Asking, Sessions, Counted
<1>23. KickGone'
  BY <1>1, <1>2, <1>3, <1>4, <1>5, <1>6, <1>7, Ranges DEF Ready, Lives, KickGone, LiveStays, Asks, Kickers, Working,
     Busy, Holding, Asking, Sessions, Counted
<1>24. LeaveLive'
  BY <1>1, <1>2, <1>3, <1>4, <1>5, <1>6, <1>7, Ranges DEF Ready, Lives, LeaveLive, LiveStays, Asks, Kickers,
     Working, Busy, Holding, Asking, Sessions, Counted
<1>25. OpenKnown'
  BY <1>1, <1>2, <1>3, <1>4, <1>5, <1>6, <1>7, Ranges DEF Ready, Known, OpenKnown, LiveStays, Asks, Kickers,
     Working, Busy, Holding, Asking, Sessions, Counted
<1>26. AskedKnown'
  BY <1>1, <1>2, <1>3, <1>4, <1>5, <1>6, <1>7, Ranges DEF Ready, Known, AskedKnown, Holding, LiveStays, Asks,
     Kickers, Working, Busy, Asking, Sessions, Counted
<1>27. ReconnectRight'
  BY <1>1, <1>2, <1>3, <1>4, <1>5, <1>6, <1>7, Ranges DEF Ready, Known, ReconnectRight, Busy, Holding, Asking,
     LiveStays, Asks, Kickers, Working, Sessions, Counted
<1>28. OpenRecorded'
  BY <1>1, <1>2, <1>3, <1>4, <1>5, <1>6, <1>7, Ranges DEF Ready, Records, OpenRecorded, LiveStays, Asks, Kickers,
     Working, Busy, Holding, Asking, Sessions, Counted
<1>29. Overtaken'
  BY <1>1, <1>2, <1>3, <1>4, <1>5, <1>6, <1>7, Ranges DEF Ready, Records, Overtaken, Resumer, LiveStays, Asks,
     Kickers, Working, Busy, Holding, Asking, Sessions, Counted
<1>30. Recorded'
  BY <1>1, <1>2, <1>3, <1>4, <1>5, <1>6, <1>7, Ranges DEF Ready, Records, Recorded, Accounted, Resumer, Kickers,
     LiveStays, Asks, Working, Busy, Holding, Asking, Sessions, Counted
<1>31. GateCount'
  BY <1>1, <1>2, <1>3, <1>4, <1>5, <1>6, <1>7, Ranges DEF Ready, Counts, GateCount, Subtracts, LiveStays, Asks,
     Kickers, Working, Busy, Holding, Asking, Sessions, Counted
<1>32. LogicCount'
  BY <1>1, <1>2, <1>3, <1>4, <1>5, <1>6, <1>7, Ranges DEF Ready, Counts, LogicCount, LiveStays, Asks, Kickers,
     Working, Busy, Holding, Asking, Sessions, Counted
<1> QED BY <1>10, <1>11, <1>12, <1>13, <1>14, <1>15, <1>16, <1>17, <1>18, <1>19, <1>20, <1>21, <1>22, <1>23, <1>24,
    <1>25, <1>26, <1>27, <1>28, <1>29, <1>30, <1>31, <1>32 DEF Agree, Phases, Lives, Known, Records, Counts

\* The kick is over, or the Gate of the session stops; the login runs.
LEMMA LogicKickedReady == ASSUME TakeoverConfig, Ready, NEW c \in Conns, LogicKicked(c) PROVE Agree'
<1>1. /\ ask[c] = "kick" /\ conn[c].logic \in Logics /\ Sessions(conn[c].logic, c) /\ Asks(c, "owner") /\ Counted(conn[c].logic)
      /\ lcount'[conn[c].logic] = lcount[conn[c].logic]
      /\ UNCHANGED <<redis, conn, table, stream, count, leaving, down, ntf>>
  BY LogicKickedFx, Calm, SessionConfig DEF Ready, LoggedIn, SessionConfig
<1>2. PICK old \in Conns : old = lsess[conn[c].logic] BY LogicKickedFx DEF Ready
<1>3. LiveStays BY <1>1, LiveSame, AsksBegun DEF Ready
<1>4. /\ \A x \in Conns : x # c => ~Working(x)
      /\ Working(c) /\ conn[c].pc \in {"rpc", "end"}
  <2>1. conn[c].pc \in ConnPc BY DEF Ready, Types, ConnTypes, ConnRec
  <2> QED BY <1>1, <2>1 DEF Ready, Phases, Plain, OneWorking, Answered, Working, Busy, Asking, ConnPc, Types, Begun,
      BegunConn
<1>5. /\ \A x \in Conns : Live(x) => redis.logic = conn[c].logic /\ conn[x].gate \in Gates
      /\ ~Live(c)
  <2>1. redis.logic \in {None, conn[c].logic} BY SMTT(30), <1>1, <1>4 DEF Ready, Owned, RoutedRight, Busy, Asking
  <2> QED BY <1>1, <2>1, LiveFacts, SessionConfig DEF Ready, SessionConfig

<1>6. /\ kick[old]["logic"].pc = "done" \/ (kick[old]["logic"].pc = "asked" /\ down[conn[old].gate].pc # "up")
      /\ kick'[old]["logic"].pc = "done"
      /\ \A d \in Conns, w \in Kickers : <<d, w>> # <<old, "logic">> => kick'[d][w] = kick[d][w]
  BY <1>2, LogicKickedFx, Calm DEF Ready, KickMoves, Kickers
<1>7. Live(old) => down[conn[old].gate].pc = "draining" /\ ~conn[old].open
  <2>1. Live(old) => conn[old].gate \in Gates /\ table[conn[old].gate] # None BY DEF Live, Holds
  <2>2. Live(old) => down[conn[old].gate].pc \in {"up", "draining"} BY <2>1 DEF Ready, Phases, DownRight
  <2> QED BY <1>6, <2>1, <2>2 DEF Ready, Lives, KickGone, Phases, DownRight, Kickers
<1>8. \A x \in Conns : kick[x]["logic"].pc \in {"asked", "taken", "clear"} => x = old
  BY SMTT(30), <1>1, <1>2, <1>4 DEF Ready, Phases, KickLogic, Working, Busy, Asking, Kickers
<1>10. Plain'
  BY SMTT(30), <1>1, <1>2, <1>3, <1>4, <1>5, <1>6, <1>7, <1>8, Ranges DEF Ready, Phases, Plain, LiveStays, Asks, Kickers,
     Working, Busy, Holding, Asking, Sessions, Counted
<1>11. OneWorking'
  BY SMTT(30), <1>1, <1>2, <1>3, <1>4, <1>5, <1>6, <1>7, <1>8, Ranges DEF Ready, Phases, OneWorking, Working, Busy, Holding,
     Asking, LiveStays, Asks, Kickers, Sessions, Counted
<1>12. Answered'
  BY SMTT(30), <1>1, <1>2, <1>3, <1>4, <1>5, <1>6, <1>7, <1>8, Ranges DEF Ready, Phases, Answered, LiveStays, Asks, Kickers,
     Working, Busy, Holding, Asking, Sessions, Counted
<1>13. KickIdle'
  BY SMTT(30), <1>1, <1>2, <1>3, <1>4, <1>5, <1>6, <1>7, <1>8, Ranges DEF Ready, Phases, KickIdle, Holding, LiveStays, Asks,
     Kickers, Working, Busy, Asking, Sessions, Counted
<1>14. KickGate'
  BY SMTT(30), <1>1, <1>2, <1>3, <1>4, <1>5, <1>6, <1>7, <1>8, Ranges DEF Ready, Phases, KickGate, Kickers, LiveStays, Asks,
     Working, Busy, Holding, Asking, Sessions, Counted
<1>15. KickLogic'
  BY SMTT(30), <1>1, <1>2, <1>3, <1>4, <1>5, <1>6, <1>7, <1>8, Ranges DEF Ready, Phases, KickLogic, Kickers, LiveStays, Asks,
     Working, Busy, Holding, Asking, Sessions, Counted
<1>16. LeaveRight'
  BY SMTT(30), <1>1, <1>2, <1>3, <1>4, <1>5, <1>6, <1>7, <1>8, Ranges DEF Ready, Phases, LeaveRight, Holding, LiveStays, Asks,
     Kickers, Working, Busy, Asking, Sessions, Counted
<1>17. NtfRight'
  BY <1>1, <1>2, <1>3, <1>4, <1>5, <1>6, <1>7, <1>8, Ranges DEF Ready, Phases, NtfRight, Holding, LiveStays, Asks,
     Kickers, Working, Busy, Asking, Sessions, Counted
<1>18. DownRight'
  BY <1>1, <1>2, <1>3, <1>4, <1>5, <1>6, <1>7, <1>8, Ranges DEF Ready, Phases, DownRight, LiveStays, Asks, Kickers,
     Working, Busy, Holding, Asking, Sessions, Counted
<1>19. Bound' BY <1>1, Ranges DEF Ready, Lives, Bound, Asks
<1>20. TakenOff' BY SMTT(30), <1>1, <1>6 DEF Ready, Lives, TakenOff, Kickers
<1>21. SaveLive'
  BY SMTT(30), <1>1, <1>2, <1>3, <1>4, <1>5, <1>6, <1>7, <1>8, Ranges DEF Ready, Lives, SaveLive, LiveStays, Asks, Kickers,
     Working, Busy, Holding, Asking, Sessions, Counted
<1>22. LeaveGone'
  BY SMTT(30), <1>1, <1>2, <1>3, <1>4, <1>5, <1>6, <1>7, <1>8, Ranges DEF Ready, Lives, LeaveGone, LiveStays, Asks, Kickers,
     Working, Busy, Holding, Asking, Sessions, Counted
<1>23. KickGone'
  BY SMTT(30), <1>1, <1>2, <1>3, <1>4, <1>5, <1>6, <1>7, <1>8, Ranges DEF Ready, Lives, KickGone, LiveStays, Asks, Kickers,
     Working, Busy, Holding, Asking, Sessions, Counted
<1>24. LeaveLive'
  BY SMTT(30), <1>1, <1>2, <1>3, <1>4, <1>5, <1>6, <1>7, <1>8, Ranges DEF Ready, Lives, LeaveLive, LiveStays, Asks, Kickers,
     Working, Busy, Holding, Asking, Sessions, Counted
<1>25. OpenKnown'
  BY SMTT(30), <1>1, <1>2, <1>3, <1>4, <1>5, <1>6, <1>7, <1>8, Ranges DEF Ready, Known, OpenKnown, LiveStays, Asks, Kickers,
     Working, Busy, Holding, Asking, Sessions, Counted
<1>26. AskedKnown'
  BY SMTT(30), <1>1, <1>2, <1>3, <1>4, <1>5, <1>6, <1>7, <1>8, Ranges DEF Ready, Known, AskedKnown, Holding, LiveStays, Asks,
     Kickers, Working, Busy, Asking, Sessions, Counted
<1>27. ReconnectRight'
  BY SMTT(30), <1>1, <1>2, <1>3, <1>4, <1>5, <1>6, <1>7, <1>8, Ranges DEF Ready, Known, ReconnectRight, Busy, Holding, Asking,
     LiveStays, Asks, Kickers, Working, Sessions, Counted
<1>28. OpenRecorded'
  BY SMTT(30), <1>1, <1>2, <1>3, <1>4, <1>5, <1>6, <1>7, <1>8, Ranges DEF Ready, Records, OpenRecorded, LiveStays, Asks,
     Kickers, Working, Busy, Holding, Asking, Sessions, Counted
<1>29. Overtaken'
  BY SMTT(30), <1>1, <1>2, <1>3, <1>4, <1>5, <1>6, <1>7, <1>8, Ranges DEF Ready, Records, Overtaken, Resumer, LiveStays, Asks,
     Kickers, Working, Busy, Holding, Asking, Sessions, Counted
<1>30. Recorded'
  BY SMTT(30), <1>1, <1>2, <1>3, <1>4, <1>5, <1>6, <1>7, <1>8, Ranges DEF Ready, Records, Recorded, Accounted, Resumer,
     Kickers, LiveStays, Asks, Working, Busy, Holding, Asking, Sessions, Counted
<1>31. GateCount'
  BY SMTT(30), <1>1, <1>2, <1>3, <1>4, <1>5, <1>6, <1>7, <1>8, Ranges DEF Ready, Counts, GateCount, Subtracts, LiveStays,
     Asks, Kickers, Working, Busy, Holding, Asking, Sessions, Counted
<1>32. LogicCount'
  BY <1>1, <1>2, <1>3, <1>4, <1>5, <1>6, <1>7, <1>8, Ranges DEF Ready, Counts, LogicCount, LiveStays, Asks, Kickers,
     Working, Busy, Holding, Asking, Sessions, Counted
<1> QED BY <1>10, <1>11, <1>12, <1>13, <1>14, <1>15, <1>16, <1>17, <1>18, <1>19, <1>20, <1>21, <1>22, <1>23, <1>24,
    <1>25, <1>26, <1>27, <1>28, <1>29, <1>30, <1>31, <1>32 DEF Agree, Phases, Lives, Known, Records, Counts

\* set_logic_owner.
LEMMA SetLogicOwnerReady == ASSUME TakeoverConfig, Ready, NEW c \in Conns, SetLogicOwner(c) PROVE Agree'
<1>1. /\ ask[c] = "owner" /\ conn[c].logic \in Logics /\ redis'.sess = redis.sess /\ redis'.gate = redis.gate
      /\ redis'.logic = conn[c].logic /\ Asks(c, "ok")
      /\ UNCHANGED <<conn, table, stream, count, leaving, kick, down, lsess, lcount, ntf>>
  BY SetOwnerFx, Calm DEF Ready
<1>2. LiveStays BY <1>1, LiveSame, AsksBegun DEF Ready
<1>4. /\ \A x \in Conns : x # c => ~Working(x)
      /\ Working(c) /\ conn[c].pc \in {"rpc", "end"}
  <2>1. conn[c].pc \in ConnPc BY DEF Ready, Types, ConnTypes, ConnRec
  <2> QED BY <1>1, <2>1 DEF Ready, Phases, Plain, OneWorking, Answered, Working, Busy, Asking, ConnPc, Types, Begun,
      BegunConn
<1>5. /\ \A x \in Conns : Live(x) => redis.logic = conn[c].logic /\ conn[x].gate \in Gates
      /\ ~Live(c)
  <2>1. redis.logic \in {None, conn[c].logic} BY <1>1, <1>4 DEF Ready, Owned, RoutedRight, Busy, Asking
  <2> QED BY <1>1, <2>1, LiveFacts, SessionConfig DEF Ready, SessionConfig
<1>10. Plain'
  BY <1>1, <1>2, <1>4, <1>5, Ranges DEF Ready, Phases, Plain, LiveStays, Asks, Working, Busy, Holding, Asking
<1>11. OneWorking'
  BY <1>1, <1>2, <1>4, <1>5, Ranges DEF Ready, Phases, OneWorking, Working, Busy, Holding, Asking, LiveStays, Asks
<1>12. Answered'
  BY <1>1, <1>2, <1>4, <1>5, Ranges DEF Ready, Phases, Answered, LiveStays, Asks, Working, Busy, Holding, Asking
<1>13. KickIdle'
  BY <1>1, <1>2, <1>4, <1>5, Ranges DEF Ready, Phases, KickIdle, Holding, LiveStays, Asks, Working, Busy, Asking
<1>14. KickGate'
  BY <1>1, <1>2, <1>4, <1>5, Ranges DEF Ready, Phases, KickGate, Kickers, LiveStays, Asks, Working, Busy, Holding,
     Asking
<1>15. KickLogic'
  BY <1>1, <1>2, <1>4, <1>5, Ranges DEF Ready, Phases, KickLogic, Kickers, LiveStays, Asks, Working, Busy, Holding,
     Asking
<1>16. LeaveRight'
  BY <1>1, <1>2, <1>4, <1>5, Ranges DEF Ready, Phases, LeaveRight, Holding, LiveStays, Asks, Working, Busy, Asking
<1>17. NtfRight'
  BY <1>1, <1>2, <1>4, <1>5, Ranges DEF Ready, Phases, NtfRight, Holding, LiveStays, Asks, Working, Busy, Asking
<1>18. DownRight'
  BY <1>1, <1>2, <1>4, <1>5, Ranges DEF Ready, Phases, DownRight, LiveStays, Asks, Working, Busy, Holding, Asking
<1>19. Bound'
  BY <1>1, <1>2, <1>4, <1>5, Ranges DEF Ready, Lives, Bound, LiveStays, Asks, Working, Busy, Holding, Asking
<1>20. TakenOff'
  BY <1>1, <1>2, <1>4, <1>5, Ranges DEF Ready, Lives, TakenOff, LiveStays, Asks, Working, Busy, Holding, Asking
<1>21. SaveLive'
  BY <1>1, <1>2, <1>4, <1>5, Ranges DEF Ready, Lives, SaveLive, LiveStays, Asks, Working, Busy, Holding, Asking
<1>22. LeaveGone'
  BY <1>1, <1>2, <1>4, <1>5, Ranges DEF Ready, Lives, LeaveGone, LiveStays, Asks, Working, Busy, Holding, Asking
<1>23. KickGone'
  BY <1>1, <1>2, <1>4, <1>5, Ranges DEF Ready, Lives, KickGone, LiveStays, Asks, Working, Busy, Holding, Asking
<1>24. LeaveLive'
  BY <1>1, <1>2, <1>4, <1>5, Ranges DEF Ready, Lives, LeaveLive, LiveStays, Asks, Working, Busy, Holding, Asking
<1>25. OpenKnown'
  BY <1>1, <1>2, <1>4, <1>5, Ranges DEF Ready, Known, OpenKnown, LiveStays, Asks, Working, Busy, Holding, Asking
<1>26. AskedKnown'
  BY <1>1, <1>2, <1>4, <1>5, Ranges DEF Ready, Known, AskedKnown, Holding, LiveStays, Asks, Working, Busy, Asking
<1>27. ReconnectRight'
  BY <1>1, <1>2, <1>4, <1>5, Ranges DEF Ready, Known, ReconnectRight, Busy, Holding, Asking, LiveStays, Asks,
     Working
<1>28. OpenRecorded'
  BY <1>1, <1>2, <1>4, <1>5, Ranges DEF Ready, Records, OpenRecorded, LiveStays, Asks, Working, Busy, Holding,
     Asking
<1>29. Overtaken'
  BY <1>1, <1>2, <1>4, <1>5, Ranges DEF Ready, Records, Overtaken, Resumer, LiveStays, Asks, Working, Busy, Holding,
     Asking
<1>30. Recorded'
  BY <1>1, <1>2, <1>4, <1>5, Ranges DEF Ready, Records, Recorded, Accounted, Resumer, Kickers, LiveStays, Asks,
     Working, Busy, Holding, Asking
<1>31. GateCount'
  BY <1>1, <1>2, <1>4, <1>5, Ranges DEF Ready, Counts, GateCount, Subtracts, LiveStays, Asks, Working, Busy,
     Holding, Asking
<1>32. LogicCount'
  BY <1>1, <1>2, <1>4, <1>5, Ranges DEF Ready, Counts, LogicCount, LiveStays, Asks, Working, Busy, Holding, Asking
<1> QED BY <1>10, <1>11, <1>12, <1>13, <1>14, <1>15, <1>16, <1>17, <1>18, <1>19, <1>20, <1>21, <1>22, <1>23, <1>24,
    <1>25, <1>26, <1>27, <1>28, <1>29, <1>30, <1>31, <1>32 DEF Agree, Phases, Lives, Known, Records, Counts

\* LogicDisconnectNtf.
LEMMA LogicDisconnectReady == ASSUME TakeoverConfig, Ready, NEW c \in Conns, LogicDisconnect(c) PROVE Agree'
<1>1. /\ c \in ntf /\ conn[c].logic \in Logics /\ lbusy[conn[c].logic] = None /\ ntf' = ntf \ {c} /\ Counted(conn[c].logic)
      /\ UNCHANGED <<redis, conn, table, stream, count, leaving, kick, down, ask>>
  BY LogicDisconnectFx DEF Ready, LoggedOut
<1>2. \/ /\ lsess[conn[c].logic] = c /\ Sessions(conn[c].logic, None) /\ lcount'[conn[c].logic] = Decrement(lcount[conn[c].logic])
      \/ lsess' = lsess /\ lcount' = lcount
  BY LogicDisconnectFx, Calm DEF Ready, LoggedOut
<1>3. LiveStays BY <1>1, LiveSame, StayBegun DEF Ready
<1>4. ~Live(c) /\ conn[c].pc \notin Holding BY <1>1 DEF Ready, Lives, LeaveGone, Phases, NtfRight
<1>5. \A x \in Conns : Live(x) => redis.logic \in Logics BY LiveFacts DEF Ready
<1>6. \A d \in Conns : /\ ask[d] = "kick" => conn[d].logic # conn[c].logic /\ conn[d].logic \in Logics
                       /\ ask[d] # "none" => conn[d].logic \in Logics
  BY <1>1, SessionConfig DEF Ready, Types, Begun, BegunAsk, BegunConn, SessionConfig
<1>10. Plain' BY <1>1, <1>2, <1>3, <1>4, <1>5, <1>6, Ranges DEF Ready, Phases, Plain, LiveStays, Sessions, Counted
<1>11. OneWorking'
  BY <1>1, <1>2, <1>3, <1>4, <1>5, <1>6, Ranges DEF Ready, Phases, OneWorking, Working, Busy, Holding, Asking,
     LiveStays, Sessions, Counted
<1>12. Answered'
  BY <1>1, <1>2, <1>3, <1>4, <1>5, <1>6, Ranges DEF Ready, Phases, Answered, LiveStays, Sessions, Counted
<1>13. KickIdle'
  BY <1>1, <1>2, <1>3, <1>4, <1>5, <1>6, Ranges DEF Ready, Phases, KickIdle, Holding, LiveStays, Sessions, Counted
<1>14. KickGate'
  BY <1>1, <1>2, <1>3, <1>4, <1>5, <1>6, Ranges DEF Ready, Phases, KickGate, Kickers, LiveStays, Sessions, Counted
<1>15. KickLogic'
  BY <1>1, <1>2, <1>3, <1>4, <1>5, <1>6, Ranges DEF Ready, Phases, KickLogic, Kickers, LiveStays, Sessions, Counted
<1>16. LeaveRight'
  BY <1>1, <1>2, <1>3, <1>4, <1>5, <1>6, Ranges DEF Ready, Phases, LeaveRight, Holding, LiveStays, Sessions, Counted
<1>17. NtfRight'
  BY <1>1, <1>2, <1>3, <1>4, <1>5, <1>6, Ranges DEF Ready, Phases, NtfRight, Holding, LiveStays, Sessions, Counted
<1>18. DownRight'
  BY <1>1, <1>2, <1>3, <1>4, <1>5, <1>6, Ranges DEF Ready, Phases, DownRight, LiveStays, Sessions, Counted
<1>19. Bound' BY <1>1, <1>2, <1>3, <1>4, <1>5, <1>6, Ranges DEF Ready, Lives, Bound, LiveStays, Sessions, Counted
<1>20. TakenOff'
  BY <1>1, <1>2, <1>3, <1>4, <1>5, <1>6, Ranges DEF Ready, Lives, TakenOff, LiveStays, Sessions, Counted
<1>21. SaveLive'
  BY <1>1, <1>2, <1>3, <1>4, <1>5, <1>6, Ranges DEF Ready, Lives, SaveLive, LiveStays, Sessions, Counted
<1>22. LeaveGone'
  BY <1>1, <1>2, <1>3, <1>4, <1>5, <1>6, Ranges DEF Ready, Lives, LeaveGone, LiveStays, Sessions, Counted
<1>23. KickGone'
  BY <1>1, <1>2, <1>3, <1>4, <1>5, <1>6, Ranges DEF Ready, Lives, KickGone, LiveStays, Sessions, Counted
<1>24. LeaveLive'
  BY <1>1, <1>2, <1>3, <1>4, <1>5, <1>6, Ranges DEF Ready, Lives, LeaveLive, LiveStays, Sessions, Counted
<1>25. OpenKnown'
  BY <1>1, <1>2, <1>3, <1>4, <1>5, <1>6, Ranges DEF Ready, Known, OpenKnown, LiveStays, Sessions, Counted
<1>26. AskedKnown'
  BY <1>1, <1>2, <1>3, <1>4, <1>5, <1>6, Ranges DEF Ready, Known, AskedKnown, Holding, LiveStays, Sessions, Counted
<1>27. ReconnectRight'
  BY <1>1, <1>2, <1>3, <1>4, <1>5, <1>6, Ranges DEF Ready, Known, ReconnectRight, Busy, Holding, Asking, LiveStays,
     Sessions, Counted
<1>28. OpenRecorded'
  BY <1>1, <1>2, <1>3, <1>4, <1>5, <1>6, Ranges DEF Ready, Records, OpenRecorded, LiveStays, Sessions, Counted
<1>29. Overtaken'
  BY <1>1, <1>2, <1>3, <1>4, <1>5, <1>6, Ranges DEF Ready, Records, Overtaken, Resumer, LiveStays, Sessions, Counted
<1>30. Recorded'
  BY <1>1, <1>2, <1>3, <1>4, <1>5, <1>6, Ranges DEF Ready, Records, Recorded, Accounted, Resumer, Kickers,
     LiveStays, Sessions, Counted
<1>31. GateCount'
  BY <1>1, <1>2, <1>3, <1>4, <1>5, <1>6, Ranges DEF Ready, Counts, GateCount, Subtracts, LiveStays, Sessions,
     Counted
<1>32. LogicCount'
  BY <1>1, <1>2, <1>3, <1>4, <1>5, <1>6, Ranges DEF Ready, Counts, LogicCount, LiveStays, Sessions, Counted,
     Decrement
<1> QED BY <1>10, <1>11, <1>12, <1>13, <1>14, <1>15, <1>16, <1>17, <1>18, <1>19, <1>20, <1>21, <1>22, <1>23, <1>24,
    <1>25, <1>26, <1>27, <1>28, <1>29, <1>30, <1>31, <1>32 DEF Agree, Phases, Lives, Known, Records, Counts

\* handle_login up to its RPC.
LEMMA HandleLoginReady ==
    ASSUME TakeoverConfig, Ready, NEW c \in Conns, NEW g \in Gates, NEW token, HandleLogin(c, g, token)
    PROVE  Agree'
<1>1. /\ conn[c].pc = "none" /\ ~conn[c].reconnect /\ ask[c] = "none" /\ leaving[c] = "no" /\ \A who \in Kickers : kick[c][who].pc = "idle"
      /\ down[g].pc = "up" /\ \A d \in Conns : Settled(d)
      /\ Others(c) /\ conn'[c].gate = g /\ conn'[c].user = FALSE /\ conn'[c].aborted = FALSE /\ conn'[c].reconnect = FALSE
      /\ UNCHANGED <<redis, table, stream, count, leaving, kick, down, lsess, lcount, ntf>>
  <2>1. /\ Loads(c, g) /\ conn'[c].reconnect = FALSE
        /\ UNCHANGED <<redis, table, stream, count, leaving, kick, down, lsess, lcount, ntf>>
    BY HandleLoginFx DEF Ready
  <2>2. \A d \in Conns : Settled(d) BY <2>1 DEF Loads, TakeoverConfig
  <2>3. \A who \in Kickers : kick[c][who].pc = "idle" BY <2>1 DEF Loads, Kickers
  <2>4. /\ conn[c].pc = "none" /\ ~conn[c].reconnect /\ ask[c] = "none" /\ leaving[c] = "no"
        /\ down[g].pc = "up" /\ Others(c) /\ conn'[c].gate = g /\ conn'[c].user = FALSE /\ conn'[c].aborted = FALSE
    BY <2>1 DEF Loads
  <2> QED BY <2>1, <2>2, <2>3, <2>4
<1>2. /\ \A d \in Conns : d # c => ask'[d] = ask[d]
      /\ \/ conn'[c].pc = "rpc" /\ conn'[c].open = TRUE /\ ask'[c] = "sent"
         \/ conn'[c].pc = "end" /\ conn'[c].open = FALSE /\ ask'[c] = "none"
  BY <1>1, HandleLoginFx DEF Ready, Asks
<1>3. LiveStays
  <2>1. Grows BY <1>1, <1>2 DEF Grows, Others
  <2> QED BY <1>1, <2>1, LiveSame DEF Ready
<1>4. ~Live(c) /\ c \notin ntf /\ \A h \in Gates : down[h].pc \in {"notify", "clear"} => down[h].sid # c
  BY <1>1, LiveAsked DEF Ready, Types, Begun, BegunNtf, BegunDown
<1>5. \A d \in Conns : conn[d].pc \notin {"loaded", "rpc", "checked", "save", "kicking"} /\ ~Working(d)
  BY <1>1 DEF Settled, Working, Busy, Holding, Asking
<1>10. Plain'
  BY <1>1, <1>2, <1>3, <1>4, <1>5, Ranges DEF Ready, Phases, Plain, LiveStays, Others, Working, Busy, Holding,
     Asking
<1>11. OneWorking'
  BY <1>1, <1>2, <1>3, <1>4, <1>5, Ranges DEF Ready, Phases, OneWorking, Working, Busy, Holding, Asking, LiveStays,
     Others
<1>12. Answered'
  BY <1>1, <1>2, <1>3, <1>4, <1>5, Ranges DEF Ready, Phases, Answered, LiveStays, Others, Working, Busy, Holding,
     Asking
<1>13. KickIdle'
  BY <1>1, <1>2, <1>3, <1>4, <1>5, Ranges DEF Ready, Phases, KickIdle, Holding, LiveStays, Others, Working, Busy,
     Asking
<1>14. KickGate'
  BY <1>1, <1>2, <1>3, <1>4, <1>5, Ranges DEF Ready, Phases, KickGate, Kickers, LiveStays, Others, Working, Busy,
     Holding, Asking
<1>15. KickLogic'
  BY <1>1, <1>2, <1>3, <1>4, <1>5, Ranges DEF Ready, Phases, KickLogic, Kickers, LiveStays, Others, Working, Busy,
     Holding, Asking
<1>16. LeaveRight'
  BY <1>1, <1>2, <1>3, <1>4, <1>5, Ranges DEF Ready, Phases, LeaveRight, Holding, LiveStays, Others, Working, Busy,
     Asking
<1>17. NtfRight'
  BY <1>1, <1>2, <1>3, <1>4, <1>5, Ranges DEF Ready, Phases, NtfRight, Holding, LiveStays, Others, Working, Busy,
     Asking
<1>18. DownRight'
  BY <1>1, <1>2, <1>3, <1>4, <1>5, Ranges DEF Ready, Phases, DownRight, LiveStays, Others, Working, Busy, Holding,
     Asking
<1>19. Bound'
  BY <1>1, <1>2, <1>3, <1>4, <1>5, Ranges DEF Ready, Lives, Bound, LiveStays, Others, Working, Busy, Holding, Asking
<1>20. TakenOff'
  BY <1>1, <1>2, <1>3, <1>4, <1>5, Ranges DEF Ready, Lives, TakenOff, LiveStays, Others, Working, Busy, Holding,
     Asking
<1>21. SaveLive'
  BY <1>1, <1>2, <1>3, <1>4, <1>5, Ranges DEF Ready, Lives, SaveLive, LiveStays, Others, Working, Busy, Holding,
     Asking
<1>22. LeaveGone'
  BY <1>1, <1>2, <1>3, <1>4, <1>5, Ranges DEF Ready, Lives, LeaveGone, LiveStays, Others, Working, Busy, Holding,
     Asking
<1>23. KickGone'
  BY <1>1, <1>2, <1>3, <1>4, <1>5, Ranges DEF Ready, Lives, KickGone, LiveStays, Others, Working, Busy, Holding,
     Asking
<1>24. LeaveLive'
  BY <1>1, <1>2, <1>3, <1>4, <1>5, Ranges DEF Ready, Lives, LeaveLive, LiveStays, Others, Working, Busy, Holding,
     Asking
<1>25. OpenKnown'
  BY <1>1, <1>2, <1>3, <1>4, <1>5, Ranges DEF Ready, Known, OpenKnown, LiveStays, Others, Working, Busy, Holding,
     Asking
<1>26. AskedKnown'
  BY <1>1, <1>2, <1>3, <1>4, <1>5, Ranges DEF Ready, Known, AskedKnown, Holding, LiveStays, Others, Working, Busy,
     Asking
<1>27. ReconnectRight'
  BY <1>1, <1>2, <1>3, <1>4, <1>5, Ranges DEF Ready, Known, ReconnectRight, Busy, Holding, Asking, LiveStays,
     Others, Working
<1>28. OpenRecorded'
  BY <1>1, <1>2, <1>3, <1>4, <1>5, Ranges DEF Ready, Records, OpenRecorded, LiveStays, Others, Working, Busy,
     Holding, Asking
<1>29. Overtaken'
  BY <1>1, <1>2, <1>3, <1>4, <1>5, Ranges DEF Ready, Records, Overtaken, Resumer, LiveStays, Others, Working, Busy,
     Holding, Asking
<1>30. Recorded'
  BY <1>1, <1>2, <1>3, <1>4, <1>5, Ranges DEF Ready, Records, Recorded, Accounted, Resumer, Kickers, LiveStays,
     Others, Working, Busy, Holding, Asking
<1>31. GateCount'
  BY <1>1, <1>2, <1>3, <1>4, <1>5, Ranges DEF Ready, Counts, GateCount, Subtracts, LiveStays, Others, Working, Busy,
     Holding, Asking
<1>32. LogicCount'
  BY <1>1, <1>2, <1>3, <1>4, <1>5, Ranges DEF Ready, Counts, LogicCount, LiveStays, Others, Working, Busy, Holding,
     Asking
<1> QED BY <1>10, <1>11, <1>12, <1>13, <1>14, <1>15, <1>16, <1>17, <1>18, <1>19, <1>20, <1>21, <1>22, <1>23, <1>24,
    <1>25, <1>26, <1>27, <1>28, <1>29, <1>30, <1>31, <1>32 DEF Agree, Phases, Lives, Known, Records, Counts

\* handle_reconnect up to verify_online.
LEMMA HandleReconnectReady ==
    ASSUME TakeoverConfig, Ready, NEW c \in Conns, NEW prev \in Conns, NEW token, HandleReconnect(c, prev,
           token)
    PROVE  Agree'
<1>1. /\ conn[c].pc = "none" /\ ~conn[c].reconnect /\ ask[c] = "none" /\ leaving[c] = "no" /\ \A who \in Kickers : kick[c][who].pc = "idle"
      /\ conn[prev].gate \in Gates /\ down[conn[prev].gate].pc = "up" /\ \A d \in Conns : Settled(d)
      /\ Others(c) /\ conn'[c].gate = conn[prev].gate /\ conn'[c].user = FALSE /\ conn'[c].aborted = FALSE
      /\ conn'[c].reconnect = TRUE /\ conn'[c].prev = prev /\ conn[prev].user /\ ~conn[prev].open
      /\ redis.sess \in {prev, None}
      /\ UNCHANGED <<redis, table, stream, count, leaving, kick, down, ask, lsess, lcount, ntf>>
  <2>1. /\ conn[prev].gate \in Gates /\ Loads(c, conn[prev].gate) /\ conn'[c].reconnect = TRUE /\ conn'[c].prev = prev
        /\ UNCHANGED <<redis, table, stream, count, leaving, kick, down, ask, lsess, lcount, ntf>>
    BY HandleReconnectFx DEF Ready
  <2>2. conn[prev].user /\ ~conn[prev].open BY HandleReconnectFx DEF Ready
  <2>3. \A d \in Conns : Settled(d) BY <2>1 DEF Loads, TakeoverConfig
  <2>4. \A who \in Kickers : kick[c][who].pc = "idle" BY <2>1 DEF Loads, Kickers
  <2>5. /\ conn[c].pc = "none" /\ ~conn[c].reconnect /\ ask[c] = "none" /\ leaving[c] = "no"
        /\ down[conn[prev].gate].pc = "up" /\ Others(c) /\ conn'[c].gate = conn[prev].gate /\ conn'[c].user = FALSE
        /\ conn'[c].aborted = FALSE
    BY <2>1 DEF Loads
  <2>6. redis.sess \in {prev, None}
    <3>1. Reconnects = "recorded" BY HandleReconnectFx, SessionConfig DEF Ready, TakeoverConfig, SessionConfig
    <3> QED BY <3>1, HandleReconnectFx DEF Ready
  <2> QED BY <2>1, <2>2, <2>3, <2>4, <2>5, <2>6
<1>2. \/ conn'[c].pc = "loaded" /\ conn'[c].open = TRUE
      \/ conn'[c].pc = "end" /\ conn'[c].open = FALSE
  BY HandleReconnectFx DEF Ready
<1>3. LiveStays
  <2>1. Grows BY <1>1, <1>2 DEF Grows, Others
  <2> QED BY <1>1, <2>1, LiveSame DEF Ready
<1>4. ~Live(c) /\ c \notin ntf /\ \A h \in Gates : down[h].pc \in {"notify", "clear"} => down[h].sid # c
  BY <1>1, LiveAsked DEF Ready, Types, Begun, BegunNtf, BegunDown
<1>5. \A d \in Conns : conn[d].pc \notin {"loaded", "rpc", "checked", "save", "kicking"} /\ ~Working(d)
  BY <1>1 DEF Settled, Working, Busy, Holding, Asking
<1>6. \A x \in Conns : Live(x) => ~conn[x].open BY <1>1, <1>5, Ranges DEF Ready, Records, OpenRecorded
<1>10. Plain'
  BY <1>1, <1>2, <1>3, <1>4, <1>5, <1>6, Ranges DEF Ready, Phases, Plain, LiveStays, Others, Working, Busy, Holding,
     Asking
<1>11. OneWorking'
  BY <1>1, <1>2, <1>3, <1>4, <1>5, <1>6, Ranges DEF Ready, Phases, OneWorking, Working, Busy, Holding, Asking,
     LiveStays, Others
<1>12. Answered'
  BY <1>1, <1>2, <1>3, <1>4, <1>5, <1>6, Ranges DEF Ready, Phases, Answered, LiveStays, Others, Working, Busy,
     Holding, Asking
<1>13. KickIdle'
  BY <1>1, <1>2, <1>3, <1>4, <1>5, <1>6, Ranges DEF Ready, Phases, KickIdle, Holding, LiveStays, Others, Working,
     Busy, Asking
<1>14. KickGate'
  BY <1>1, <1>2, <1>3, <1>4, <1>5, <1>6, Ranges DEF Ready, Phases, KickGate, Kickers, LiveStays, Others, Working,
     Busy, Holding, Asking
<1>15. KickLogic'
  BY <1>1, <1>2, <1>3, <1>4, <1>5, <1>6, Ranges DEF Ready, Phases, KickLogic, Kickers, LiveStays, Others, Working,
     Busy, Holding, Asking
<1>16. LeaveRight'
  BY <1>1, <1>2, <1>3, <1>4, <1>5, <1>6, Ranges DEF Ready, Phases, LeaveRight, Holding, LiveStays, Others, Working,
     Busy, Asking
<1>17. NtfRight'
  BY <1>1, <1>2, <1>3, <1>4, <1>5, <1>6, Ranges DEF Ready, Phases, NtfRight, Holding, LiveStays, Others, Working,
     Busy, Asking
<1>18. DownRight'
  BY <1>1, <1>2, <1>3, <1>4, <1>5, <1>6, Ranges DEF Ready, Phases, DownRight, LiveStays, Others, Working, Busy,
     Holding, Asking
<1>19. Bound'
  BY <1>1, <1>2, <1>3, <1>4, <1>5, <1>6, Ranges DEF Ready, Lives, Bound, LiveStays, Others, Working, Busy, Holding,
     Asking
<1>20. TakenOff'
  BY <1>1, <1>2, <1>3, <1>4, <1>5, <1>6, Ranges DEF Ready, Lives, TakenOff, LiveStays, Others, Working, Busy,
     Holding, Asking
<1>21. SaveLive'
  BY <1>1, <1>2, <1>3, <1>4, <1>5, <1>6, Ranges DEF Ready, Lives, SaveLive, LiveStays, Others, Working, Busy,
     Holding, Asking
<1>22. LeaveGone'
  BY <1>1, <1>2, <1>3, <1>4, <1>5, <1>6, Ranges DEF Ready, Lives, LeaveGone, LiveStays, Others, Working, Busy,
     Holding, Asking
<1>23. KickGone'
  BY <1>1, <1>2, <1>3, <1>4, <1>5, <1>6, Ranges DEF Ready, Lives, KickGone, LiveStays, Others, Working, Busy,
     Holding, Asking
<1>24. LeaveLive'
  BY <1>1, <1>2, <1>3, <1>4, <1>5, <1>6, Ranges DEF Ready, Lives, LeaveLive, LiveStays, Others, Working, Busy,
     Holding, Asking
<1>25. OpenKnown'
  BY <1>1, <1>2, <1>3, <1>4, <1>5, <1>6, Ranges DEF Ready, Known, OpenKnown, LiveStays, Others, Working, Busy,
     Holding, Asking
<1>26. AskedKnown'
  BY <1>1, <1>2, <1>3, <1>4, <1>5, <1>6, Ranges DEF Ready, Known, AskedKnown, Holding, LiveStays, Others, Working,
     Busy, Asking
<1>27. ReconnectRight'
  BY <1>1, <1>2, <1>3, <1>4, <1>5, <1>6, Ranges DEF Ready, Known, ReconnectRight, Busy, Holding, Asking, LiveStays,
     Others, Working
<1>28. OpenRecorded'
  BY <1>1, <1>2, <1>3, <1>4, <1>5, <1>6, Ranges DEF Ready, Records, OpenRecorded, LiveStays, Others, Working, Busy,
     Holding, Asking
<1>29. Overtaken'
  BY <1>1, <1>2, <1>3, <1>4, <1>5, <1>6, Ranges DEF Ready, Records, Overtaken, Resumer, LiveStays, Others, Working,
     Busy, Holding, Asking
<1>30. Recorded'
  BY <1>1, <1>2, <1>3, <1>4, <1>5, <1>6, Ranges DEF Ready, Records, Recorded, Accounted, Resumer, Kickers,
     LiveStays, Others, Working, Busy, Holding, Asking
<1>31. GateCount'
  BY <1>1, <1>2, <1>3, <1>4, <1>5, <1>6, Ranges DEF Ready, Counts, GateCount, Subtracts, LiveStays, Others, Working,
     Busy, Holding, Asking
<1>32. LogicCount'
  BY <1>1, <1>2, <1>3, <1>4, <1>5, <1>6, Ranges DEF Ready, Counts, LogicCount, LiveStays, Others, Working, Busy,
     Holding, Asking
<1> QED BY <1>10, <1>11, <1>12, <1>13, <1>14, <1>15, <1>16, <1>17, <1>18, <1>19, <1>20, <1>21, <1>22, <1>23, <1>24,
    <1>25, <1>26, <1>27, <1>28, <1>29, <1>30, <1>31, <1>32 DEF Agree, Phases, Lives, Known, Records, Counts

-----------------------------------------------------------------------------
(* Every step, and what follows when nothing is under way                    *)

\* Nobody logs out, Logic refuses nobody and undoes nothing.
LEMMA NeverTaken == ASSUME TakeoverConfig, Ready, NEW c \in Conns
                    PROVE  /\ ~HandleLogout(c) /\ ~LogoutInvalidate(c) /\ ~LogoutNotify(c) /\ ~LogoutClear(c)
                           /\ ~LogicRefuses(c) /\ ~UndoLogin(c)
<1>1. ~HandleLogout(c) BY DEF HandleLogout, TakeoverConfig
<1>2. ~LogoutInvalidate(c) /\ ~LogoutNotify(c) /\ ~LogoutClear(c)
  BY DEF LogoutInvalidate, LogoutNotify, LogoutClear, Ready, Phases, Plain
<1>3. ~LogicRefuses(c) BY Calm DEF LogicRefuses
<1>4. ~UndoLogin(c) BY DEF UndoLogin, Ready, Phases, Plain
<1> QED BY <1>1, <1>2, <1>3, <1>4

\* Every step keeps the agreement.
LEMMA NextAgree == ASSUME TakeoverConfig, Ready, Next PROVE Agree'
<1>1. ASSUME SetToken PROVE Agree' BY <1>1, SetTokenReady
<1>2. ASSUME NEW g \in Gates, PruneExpired(g) PROVE Agree' BY <1>2, PruneExpiredReady
<1>3. ASSUME NEW g \in Gates, BeginShutdown(g) PROVE Agree' BY <1>3, BeginShutdownReady
<1>4. ASSUME NEW g \in Gates, ShutdownDrain(g) PROVE Agree' BY <1>4, ShutdownDrainReady
<1>5. ASSUME NEW g \in Gates, ShutdownNotify(g) PROVE Agree' BY <1>5, ShutdownNotifyReady
<1>6. ASSUME NEW g \in Gates, ShutdownClear(g) PROVE Agree' BY <1>6, ShutdownClearReady
<1>7. ASSUME NEW c \in Conns, AuthorizeReconnect(c) PROVE Agree' BY <1>7, AuthorizeReconnectReady
<1>8. ASSUME NEW c \in Conns, LogicAnswers(c) PROVE Agree' BY <1>8, LogicAnswersReady
<1>9. ASSUME NEW c \in Conns, InstallLogin(c) PROVE Agree' BY <1>9, InstallLoginReady
<1>10. ASSUME NEW c \in Conns, SaveOnline(c) PROVE Agree' BY <1>10, SaveOnlineReady
<1>11. ASSUME NEW c \in Conns, KickLocal(c) PROVE Agree' BY <1>11, KickLocalReady
<1>12. ASSUME NEW c \in Conns, Break(c) PROVE Agree' BY <1>12, BreakReady
<1>13. ASSUME NEW c \in Conns, OnDisconnected(c) PROVE Agree' BY <1>13, OnDisconnectedReady
<1>14. ASSUME NEW c \in Conns, DisconnectNotify(c) PROVE Agree' BY <1>14, DisconnectNotifyReady
<1>15. ASSUME NEW c \in Conns, DisconnectClear(c) PROVE Agree' BY <1>15, DisconnectClearReady
<1>16. ASSUME NEW c \in Conns, LogicKicked(c) PROVE Agree' BY <1>16, LogicKickedReady
<1>17. ASSUME NEW c \in Conns, SetLogicOwner(c) PROVE Agree' BY <1>17, SetLogicOwnerReady
<1>18. ASSUME NEW c \in Conns, LogicDisconnect(c) PROVE Agree' BY <1>18, LogicDisconnectReady
<1>19. ASSUME NEW c \in Conns, CompleteReconnect(c) PROVE Agree' BY <1>19, CompleteBeginsReady, CompleteFailsReady
<1>20. ASSUME NEW c \in Conns, DisconnectTake(c) PROVE Agree' BY <1>20, LeavesLiveReady, LeavesLateReady
<1>21. ASSUME NEW c \in Conns, LogicLogin(c) PROVE Agree' BY <1>21, LoginKicksReady, LoginRunsReady
<1>22. ASSUME NEW c \in Conns, NEW who \in Kickers, KickTake(c, who) PROVE Agree'
  BY <1>22, KickTakesReady, KickMissesReady
<1>23. ASSUME NEW c \in Conns, NEW who \in Kickers, KickRemove(c, who) PROVE Agree' BY <1>23, KickRemoveReady
<1>24. ASSUME NEW c \in Conns, NEW who \in Kickers, KickClear(c, who) PROVE Agree' BY <1>24, KickClearReady
<1>25. ASSUME NEW c \in Conns, NEW g \in Gates, NEW token, HandleLogin(c, g, token) PROVE Agree'
  BY <1>25, HandleLoginReady
<1>26. ASSUME NEW c \in Conns, NEW prev \in Conns, NEW token, HandleReconnect(c, prev, token) PROVE Agree'
  BY <1>26, HandleReconnectReady
<1> QED BY <1>1, <1>2, <1>3, <1>4, <1>5, <1>6, <1>7, <1>8, <1>9, <1>10, <1>11, <1>12, <1>13, <1>14, <1>15, <1>16,
  <1>17, <1>18, <1>19, <1>20, <1>21, <1>22, <1>23, <1>24, <1>25, <1>26, NeverTaken DEF Next, Worker, Leave, Logic,
  Kickers

\* A stuttering step keeps the agreement.
LEMMA SameAgree == ASSUME Agree, UNCHANGED vars PROVE Agree'
<1>1. /\ redis' = redis /\ conn' = conn /\ table' = table /\ stream' = stream /\ count' = count /\ leaving' = leaving
      /\ kick' = kick /\ down' = down /\ ask' = ask /\ lsess' = lsess /\ lcount' = lcount /\ ntf' = ntf
  BY DEF vars, gateVars, logicVars
<1>2. /\ \A c \in Conns : (Live(c)' <=> Live(c)) /\ (Busy(c)' <=> Busy(c)) /\ (Working(c)' <=> Working(c))
      /\ \A g \in Gates : (Active(g)' <=> Active(g)) /\ (Subtracts(g)' <=> Subtracts(g))
  BY <1>1 DEF Live, Holds, Active, Working, Busy, Holding, Asking, Subtracts
<1>3. Phases'
  BY <1>1, <1>2 DEF Agree, Phases, Plain, OneWorking, Answered, KickIdle, KickGate, KickLogic, LeaveRight, NtfRight,
     DownRight
<1>4. Lives' BY <1>1, <1>2 DEF Agree, Lives, Bound, TakenOff, SaveLive, LeaveGone, KickGone, LeaveLive
<1>5. Known' BY <1>1, <1>2 DEF Agree, Known, OpenKnown, AskedKnown, ReconnectRight
<1>6. Records'
  <2>1. \A c : Accounted(c) => Accounted(c)' BY <1>1, <1>2 DEF Accounted, Resumer, Live, Holds, Active
  <2>2. OpenRecorded' /\ Overtaken' BY <1>1, <1>2 DEF Agree, Records, OpenRecorded, Overtaken, Resumer
  <2>3. Recorded' BY <1>1, <2>1 DEF Agree, Records, Recorded
  <2> QED BY <2>2, <2>3 DEF Records
<1>7. Counts' BY <1>1, <1>2 DEF Agree, Counts, GateCount, LogicCount
<1> QED BY <1>3, <1>4, <1>5, <1>6, <1>7 DEF Agree

\* At the start nothing is under way and nobody is online.
LEMMA InitAgree == ASSUME Init PROVE Agree
<1>1. /\ \A c \in Conns : /\ conn[c].pc = "none" /\ conn[c].gate = None /\ conn[c].aborted = FALSE /\ conn[c].reconnect = FALSE
                          /\ conn[c].open = FALSE
                          /\ ask[c] = "none" /\ leaving[c] = "no" /\ stream[c].sid = None
                          /\ \A who \in Kickers : kick[c][who].pc = "idle"
      /\ \A g \in Gates : table[g] = None /\ down[g].pc = "up" /\ count[g] = 1
      /\ \A l \in Logics : lsess[l] = None /\ lcount[l] = 0
      /\ redis.sess = None /\ ntf = {}
  BY DEF Init
<1>2. /\ \A c \in Conns : ~Live(c) /\ ~Busy(c) /\ ~Working(c)
      /\ \A g \in Gates : ~Active(g) /\ ~Subtracts(g)
  BY <1>1, SessionConfig DEF Live, Active, Working, Busy, Holding, Asking, Subtracts, SessionConfig
<1>3. Phases
  BY <1>1, <1>2 DEF Phases, Plain, OneWorking, Answered, KickIdle, KickGate, KickLogic, LeaveRight, NtfRight,
     DownRight, Holding, Kickers
<1>4. Lives BY <1>1, <1>2 DEF Lives, Bound, TakenOff, SaveLive, LeaveGone, KickGone, LeaveLive
<1>5. Known BY <1>1, <1>2 DEF Known, OpenKnown, AskedKnown, ReconnectRight, Holding
<1>6. Records BY <1>1, <1>2 DEF Records, OpenRecorded, Overtaken, Recorded
<1>7. Counts BY <1>1, <1>2 DEF Counts, GateCount, LogicCount
<1> QED BY <1>3, <1>4, <1>5, <1>6, <1>7 DEF Agree

\* The agreement is an invariant.
LEMMA ReadyHolds == ASSUME TakeoverConfig PROVE Spec => []Ready
<1>1. Spec => []Owned
  <2>1. OwnerConfig BY DEF TakeoverConfig, OwnerConfig
  <2> QED BY <2>1, OwnedHolds
<1>2. Init => Agree BY InitAgree
<1>3. Types /\ Owned /\ Agree /\ [Next]_vars => Agree' BY NextAgree, SameAgree DEF Agree, Ready
<1>4. Types /\ Owned /\ Agree => Ready BY DEF Agree, Ready
<1> QED BY <1>1, <1>2, <1>3, <1>4, TypesHold, PTL DEF Spec

\* When nothing is under way, every live session has its connection open, Logic knows it,
\* and no count is still to be adjusted.
LEMMA QuietFacts == ASSUME Ready, Quiet
                    PROVE  /\ \A c \in Conns : Settled(c) /\ leaving[c] \notin {"notify", "clear"}
                           /\ \A c \in Conns : Live(c) => conn[c].open /\ lsess[redis.logic] = c
                           /\ \A g \in Gates : ~Subtracts(g) /\ down[g].pc \in {"up", "down"}
<1>1. /\ \A c \in Conns : Settled(c) /\ conn[c].pc \in {"none", "on", "end"} /\ Left(c)
      /\ \A c \in Conns, who \in Kickers : kick[c][who].pc \in {"idle", "done"}
      /\ \A g \in Gates : down[g].pc \in {"up", "down"}
  BY DEF Quiet, Settled
<1>2. ASSUME NEW c \in Conns PROVE leaving[c] \notin {"notify", "clear"}
  <2>1. leaving[c] \in {"notify", "clear"} => ~conn[c].open /\ conn[c].user /\ conn[c].pc = "end"
    BY <1>1 DEF Ready, Phases, LeaveRight
  <2> QED BY <1>1, <2>1 DEF Left
<1>3. ASSUME NEW c \in Conns, Live(c) PROVE conn[c].open /\ lsess[redis.logic] = c
  <2>1. conn[c].gate \in Gates /\ conn[c].user /\ conn[c].pc # "none" BY <1>3, LiveFacts DEF Ready
  <2>2. conn[c].open \/ leaving[c] = "done" BY <1>1, <2>1 DEF Left
  <2>3. conn[c].open \/ leaving[c] \in {"no", "take"} BY <1>1, <1>3, <2>1 DEF Ready, Lives, LeaveLive
  <2>4. conn[c].open BY <2>2, <2>3
  <2> QED BY <1>3, <2>4 DEF Ready, Known, OpenKnown
<1>4. ASSUME NEW g \in Gates PROVE ~Subtracts(g) BY <1>1 DEF Subtracts
<1> QED BY <1>1, <1>2, <1>3, <1>4

\* Duplicate logins are evicted: when nothing is under way at most one Gate has an active
\* session of the player, however many Gates, Logics and connections there are and whichever
\* Gates stop.
THEOREM OneSessionActive == ASSUME TakeoverConfig PROVE Spec => []OneActive
<1>1. Ready => OneActive
  <2>1. ASSUME Ready, Quiet, NEW g \in Gates, NEW h \in Gates, Active(g), Active(h) PROVE g = h
    <3>1. PICK c \in Conns : Live(c) /\ conn[c].gate = g BY <2>1, ActiveLive DEF Ready
    <3>2. PICK d \in Conns : Live(d) /\ conn[d].gate = h BY <2>1, ActiveLive DEF Ready
    <3>3. c = d BY <2>1, <3>1, <3>2, QuietFacts
    <3> QED BY <3>1, <3>2, <3>3
  <2>2. ASSUME Ready, Quiet PROVE Cardinality({g \in Gates : Active(g)}) <= 1
    <3>1. CASE {g \in Gates : Active(g)} = {} BY <3>1, FS_EmptySet
    <3>2. CASE \E g \in Gates : {h \in Gates : Active(h)} = {g}
      <4>1. PICK g \in Gates : {h \in Gates : Active(h)} = {g} BY <3>2
      <4>2. Cardinality({g}) = 1 BY FS_Singleton
      <4> QED BY <4>1, <4>2
    <3> QED BY <2>1, <2>2, <3>1, <3>2
  <2> QED BY <2>2 DEF OneActive
<1> QED BY <1>1, ReadyHolds, PTL

\* The record is right: when nothing is under way it names no session, or one that nobody
\* clears any more, or the active session of the Gate it names, and it names every active
\* session whose connection is open.
THEOREM RecordHolds == ASSUME TakeoverConfig PROVE Spec => []RecordRight
<1>1. ASSUME Ready, Quiet, redis.sess # None
      PROVE  Forsaken \/ (redis.gate = Here(redis.sess) /\ Holds(redis.gate, redis.sess) /\ Active(redis.gate))
  <2>1. PICK c \in Conns : c = redis.sess BY <1>1, Ranges
  <2>2. redis.gate = conn[c].gate /\ conn[c].pc # "none" /\ Accounted(c) BY <1>1, <2>1 DEF Ready, Records, Recorded
  <2>3. conn[c].gate \in Gates BY <1>1, <2>2, Ranges
  <2>4. /\ leaving[c] \notin {"notify", "clear"} /\ down[conn[c].gate].pc \notin {"notify", "clear"}
        /\ \A who \in Kickers : kick[c][who].pc \notin {"taken", "clear"}
        /\ \A d \in Conns : conn[d].pc # "save"
    BY <1>1, <2>3, QuietFacts DEF Settled
  <2>5. \/ Live(c) \/ kick[c]["gate"].pc = "done"
        \/ \E d \in Conns : conn[d].reconnect /\ conn[d].prev = c /\ conn[d].pc = "end"
    BY <2>2, <2>4 DEF Accounted, Resumer
  <2>6. CASE Live(c) BY <2>1, <2>2, <2>6 DEF Live, Here
  <2>7. CASE kick[c]["gate"].pc = "done" BY <2>1, <2>7 DEF Forsaken
  <2>8. CASE \E d \in Conns : conn[d].reconnect /\ conn[d].prev = c /\ conn[d].pc = "end"
    BY <1>1, <2>1, <2>8 DEF Forsaken
  <2> QED BY <2>5, <2>6, <2>7, <2>8
<1>2. ASSUME Ready, Quiet, NEW c \in Conns, conn[c].open, Holds(Here(c), c), Active(Here(c)) PROVE redis.sess = c
  <2>1. conn[c].gate \in Gates BY <1>2 DEF Ready, Types, Begun, BegunConn
  <2>2. Live(c) BY <1>2, <2>1 DEF Live, Here
  <2>3. conn[c].pc # "save" BY <1>2, QuietFacts DEF Settled
  <2> QED BY <1>2, <2>2, <2>3 DEF Ready, Records, OpenRecorded
<1>3. Ready => RecordRight BY <1>1, <1>2 DEF RecordRight
<1> QED BY <1>3, ReadyHolds, PTL

\* Logic knows every active session when nothing is under way: it is the one that the next
\* login will kick.
THEOREM ActiveSessionKnown == ASSUME TakeoverConfig PROVE Spec => []ActiveKnown
<1>1. ASSUME Ready, Quiet, NEW g \in Gates, Active(g) PROVE lsess[stream[table[g]].logic] = stream[table[g]].sid
  <2>1. table[g] \in Conns /\ stream[table[g]].sid \in Conns /\ Live(stream[table[g]].sid)
    BY <1>1, ActiveLive DEF Ready
  <2>2. stream[table[g]].logic = redis.logic
    BY <2>1, SessionConfig, <1>1 DEF Ready, Owned, StreamsRight, SessionConfig
  <2>3. lsess[redis.logic] = stream[table[g]].sid BY <1>1, <2>1, QuietFacts
  <2> QED BY <2>2, <2>3
<1>2. Ready => ActiveKnown BY <1>1 DEF ActiveKnown
<1> QED BY <1>2, ReadyHolds, PTL

\* The online counts are exact when nothing is under way: a Gate that is up counts the player
\* exactly while its session is active, a Logic while it knows a session.
THEOREM CountsStayExact == ASSUME TakeoverConfig PROVE Spec => []CountsExact
<1>1. ASSUME Ready, Quiet, NEW g \in Gates, down[g].pc = "up" PROVE count[g] = IF Active(g) THEN 2 ELSE 1
  <2>1. ~Subtracts(g) BY <1>1, QuietFacts
  <2> QED BY <1>1, <2>1 DEF Ready, Counts, GateCount
<1>2. ASSUME Ready, NEW l \in Logics PROVE lcount[l] = IF lsess[l] = None THEN 0 ELSE 1
  BY <1>2 DEF Ready, Counts, LogicCount
<1>3. Ready => CountsExact BY <1>1, <1>2 DEF CountsExact
<1> QED BY <1>3, ReadyHolds, PTL

=============================================================================
