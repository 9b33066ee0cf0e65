--------------------------- MODULE PlayerSessions ---------------------------
(***************************************************************************)
(* Who owns a player: the login, reconnect, disconnect, kick, logout and   *)
(* Gate shutdown handlers of service/gate/src/gateway.rs, the player table *)
(* of session.rs, the login and disconnect handlers of                     *)
(* service/logic/src/player.rs, and the gamer:{gid} record of              *)
(* cache/src/online.rs, for one player.                                    *)
(*                                                                         *)
(* A connection is its own session id (xnet makes them; taken to be unique *)
(* across Gates).  A ClientSession object is named by the connection whose *)
(* login installed it.  ClientStream models what is inside the object and  *)
(* LogicRuntime how Logic serialises a player's calls: here a Logic runs   *)
(* one login or disconnect of the player at a time.                        *)
(***************************************************************************)
EXTENDS Integers, FiniteSets

CONSTANTS
    Gates, Logics, Conns,
    None,        \* no connection, Gate, Logic or object
    MaxTokens,   \* tokens Auth issues
    Overlap,     \* may a login or reconnect start while another is under way?
    Reconnects,  \* which reconnects clients try: "none", "any", or "recorded": only while
                 \* the recorded session is the one they resume, or none
    Logouts,     \* do clients log out?
    CloseRace,   \* may a close be handled between the is_closed test and the install?
    MayStop,     \* Gates that may shut down
    Faults       \* what may fail: "rpc" (Gate to Logic), "kick", "notify", "redis", "save" (of a
                 \* dirty player, by the runtime), "busy" (the runtime refuses a disconnect)

ASSUME SessionConfig ==
    /\ None \notin Gates \cup Logics \cup Conns
    /\ {Overlap, Logouts, CloseRace} \subseteq BOOLEAN /\ Reconnects \in {"none", "recorded", "any"}
    /\ MaxTokens \in Nat \ {0} /\ MayStop \subseteq Gates
    /\ Faults \subseteq {"rpc", "kick", "notify", "redis", "save", "busy"}

VARIABLES
    redis,    \* gamer:{gid}
    issued,   \* the last token Auth issued
    conn,     \* the connections, their workers and the OnlineData these loaded
    table,    \* ClientSessions.players[gid] of a Gate
    stream,   \* the ClientSession objects
    count,    \* Gateway.online_count
    leaving,  \* GatewayState::disconnect of a connection
    kick,     \* KickSession of a session, asked by Logic or by its own worker
    down,     \* Gateway::shutdown
    ask,      \* the LogicLogin handler of a connection
    ntf,      \* LogicDisconnectNtf under way, by session
    lsess,    \* PlayerState.session of a Logic
    lbusy,    \* the login that occupies the player's runner
    lcount,   \* Logic's online_count
    \* History, for the properties only:
    raced     \* was the last token issued while a worker held the record it would write back?

gateVars == <<table, stream, count>>
logicVars == <<ask, lsess, lbusy, lcount>>
vars == <<redis, issued, raced, conn, gateVars, leaving, kick, down, logicVars, ntf>>

Kickers == {"logic", "gate"}
ConnPc == {"none", "loaded", "rpc", "checked", "save", "on", "kicking", "invalidate", "outNotify",
           "outClear", "end"}

TypeOK ==
    /\ redis \in [token : Nat, sess : Conns \cup {None}, gate : Gates \cup {None}, logic : Logics \cup {None}]
    /\ issued \in 1..MaxTokens /\ raced \in BOOLEAN
    /\ conn \in [Conns -> [gate : Gates \cup {None}, pc : ConnPc, reconnect : BOOLEAN, prev : Conns \cup {None},
                           open : BOOLEAN, user : BOOLEAN, aborted : BOOLEAN, token : Nat,
                           owner : Logics \cup {None}, logic : Logics \cup {None}]]
    /\ table \in [Gates -> Conns \cup {None}]
    /\ stream \in [Conns -> [sid : Conns \cup {None}, active : BOOLEAN, logic : Logics \cup {None}]]
    /\ count \in [Gates -> 0..2] /\ lcount \in [Logics -> 0..1]
    /\ leaving \in [Conns -> {"no", "take", "notify", "clear", "done"}]
    /\ kick \in [Conns -> [Kickers -> [pc : {"idle", "asked", "taken", "clear", "done"}, obj : Conns \cup {None},
                                        active : BOOLEAN]]]
    /\ down \in [Gates -> [pc : {"up", "draining", "notify", "clear", "down"}, sid : Conns \cup {None}]]
    /\ ask \in [Conns -> {"none", "sent", "kick", "owner", "undo", "ok", "err"}]
    /\ ntf \subseteq Conns
    /\ lsess \in [Logics -> Conns \cup {None}] /\ lbusy \in [Logics -> Conns \cup {None}]

\* The player has a token and was never online.  Another player is online on
\* every Gate, so that a decrement too many shows.
Init ==
    /\ redis = [token |-> 1, sess |-> None, gate |-> None, logic |-> None]
    /\ issued = 1 /\ raced = FALSE
    /\ conn = [c \in Conns |-> [gate |-> None, pc |-> "none", reconnect |-> FALSE, prev |-> None, open |-> FALSE,
                                user |-> FALSE, aborted |-> FALSE, token |-> 0, owner |-> None, logic |-> None]]
    /\ table = [g \in Gates |-> None]
    /\ stream = [c \in Conns |-> [sid |-> None, active |-> FALSE, logic |-> None]]
    /\ count = [g \in Gates |-> 1] /\ lcount = [l \in Logics |-> 0]
    /\ leaving = [c \in Conns |-> "no"]
    /\ kick = [c \in Conns |-> [who \in Kickers |-> [pc |-> "idle", obj |-> None, active |-> FALSE]]]
    /\ down = [g \in Gates |-> [pc |-> "up", sid |-> None]]
    /\ ask = [c \in Conns |-> "none"] /\ ntf = {}
    /\ lsess = [l \in Logics |-> None] /\ lbusy = [l \in Logics |-> None]

-----------------------------------------------------------------------------
(* Redis, Auth and the player table                                          *)

May(fault) == fault \in Faults

\* Mutant: the session is not compared.
ClearAny(sid) == [redis EXCEPT !.sess = None, !.gate = None]

\* clear_gate_by_session: compare and clear in one script.
ClearGateBySession(sid) ==
    IF redis.sess = sid THEN [redis EXCEPT !.sess = None, !.gate = None] ELSE redis

\* clear_gate_by_session as the code calls it: an error is only logged.
Clear(sid) == redis' = ClearGateBySession(sid) \/ (May("redis") /\ UNCHANGED redis)

\* send_to(LOGIC, LogicDisconnectNtf): an error is only logged.
Notify(sid) == ntf' = ntf \cup {sid} \/ (May("notify") /\ UNCHANGED ntf)

\* A worker between load_online and save_online holds the record it will write back.
HoldsRecord(c) == conn[c].pc \in {"loaded", "rpc", "checked", "save"}

\* Auth login: set_token.
SetToken ==
    /\ issued < MaxTokens
    /\ issued' = issued + 1 /\ raced' = \E c \in Conns : HoldsRecord(c)
    /\ redis' = [redis EXCEPT !.token = issued + 1]
    /\ UNCHANGED <<conn, gateVars, leaving, kick, down, logicVars, ntf>>

Here(c) == conn[c].gate

\* Is the object in the table of g the live session sid?
Holds(g, sid) == table[g] # None /\ stream[table[g]].sid = sid
Active(g) == table[g] # None /\ stream[table[g]].active

\* decrement_online
Decrement(n) == IF n > 0 THEN n - 1 ELSE 0

-----------------------------------------------------------------------------
(* The worker of a connection: handle_login and handle_reconnect             *)

Settled(c) ==
    /\ conn[c].pc \in {"none", "on", "end"} /\ ask[c] \in {"none", "ok", "err"}
    /\ \A who \in Kickers : kick[c][who].pc \in {"idle", "done"}

Starts(c, g) ==
    /\ conn[c].pc = "none" /\ down[g].pc = "up"
    /\ Overlap \/ \A d \in Conns : Settled(d)

Rejected(r) == [r EXCEPT !.pc = "end", !.open = FALSE]

\* Mutant: the recorded Logic is ignored.
AnyLogic(owner) == Logics

\* select_logic: the recorded Logic or, when there is none, any.
SelectLogic(owner) == IF owner = None THEN Logics ELSE {owner}

\* load_online: the worker keeps what it will write back.
LoadOnline(r) == [r EXCEPT !.token = redis.token, !.owner = redis.logic]

\* verify_online of a client's token: may it say ok?  The load of the record may fail.
VerifyOnline(token, ok) == IF ok THEN token = redis.token ELSE token # redis.token \/ May("redis")

\* handle_login up to its RPC: verify_online, then select_logic, which fails when
\* the Logic is not healthy, and the choice of a Public.
HandleLogin(c, g, token) ==
    LET r == LoadOnline([conn[c] EXCEPT !.gate = g, !.open = TRUE]) IN
    /\ Starts(c, g)
    /\ \/ /\ VerifyOnline(token, TRUE)
          /\ \E l \in SelectLogic(r.owner) : conn' = [conn EXCEPT ![c] = [r EXCEPT !.pc = "rpc", !.logic = l]]
          /\ ask' = [ask EXCEPT ![c] = "sent"]
       \/ /\ VerifyOnline(token, FALSE) \/ May("rpc")
          /\ conn' = [conn EXCEPT ![c] = Rejected(r)]
          /\ UNCHANGED ask
    /\ UNCHANGED <<redis, issued, raced, gateVars, leaving, kick, down, lsess, lbusy, lcount, ntf>>

\* handle_reconnect up to verify_online.  The client comes back to the Gate of
\* the session it was bound to, after it dropped that connection.
HandleReconnect(c, prev, token) ==
    LET r == LoadOnline([conn[c] EXCEPT !.gate = Here(prev), !.open = TRUE, !.reconnect = TRUE, !.prev = prev]) IN
    /\ Reconnects # "none" /\ conn[prev].user /\ ~conn[prev].open
    /\ Reconnects = "recorded" => redis.sess \in {prev, None}
    /\ Starts(c, Here(prev))
    /\ \E ok \in BOOLEAN :
          /\ VerifyOnline(token, ok)
          /\ conn' = [conn EXCEPT ![c] = IF ok THEN [r EXCEPT !.pc = "loaded"] ELSE Rejected(r)]
    /\ UNCHANGED <<redis, issued, raced, gateVars, leaving, kick, down, logicVars, ntf>>

\* authorize_reconnect and the comparison of the Logic owner; the limits of the
\* stream (module ClientStream) may refuse at any time.
AuthorizeReconnect(c) ==
    LET w == conn[c]
        l == stream[table[w.gate]].logic IN
    /\ w.pc = "loaded"
    /\ \/ /\ Holds(w.gate, w.prev) /\ w.owner = l
          /\ conn' = [conn EXCEPT ![c].pc = "rpc", ![c].logic = l]
          /\ ask' = [ask EXCEPT ![c] = "sent"]
       \/ /\ conn' = [conn EXCEPT ![c] = Rejected(w)]
          /\ UNCHANGED ask
    /\ UNCHANGED <<redis, issued, raced, gateVars, leaving, kick, down, lsess, lbusy, lcount, ntf>>

\* The answer of Logic: bind_user, then the is_closed test.
LogicAnswers(c) ==
    LET w == conn[c] IN
    /\ w.pc = "rpc"
    /\ \/ /\ ask[c] = "ok"
          /\ conn' = [conn EXCEPT ![c] = IF w.open THEN [w EXCEPT !.user = TRUE, !.pc = "checked"]
                                         ELSE [w EXCEPT !.user = TRUE, !.pc = "end"]]
       \/ /\ ask[c] = "err" \/ May("rpc")
          /\ conn' = [conn EXCEPT ![c] = Rejected(w)]
    /\ UNCHANGED <<redis, issued, raced, gateVars, leaving, kick, down, logicVars, ntf>>

\* Mutant: every install counts as a new player.
CountAlways(g) == [count EXCEPT ![g] = @ + 1]

\* online_count after a session of g became active (became_active of the code).
CountActive(g) == IF Active(g) THEN count ELSE [count EXCEPT ![g] = @ + 1]

\* install_login replaces whatever the table holds.
InstallLogin(c) ==
    LET g == Here(c) IN
    /\ conn[c].pc = "checked" /\ ~conn[c].reconnect
    /\ table' = [table EXCEPT ![g] = c]
    /\ stream' = [stream EXCEPT ![c] = [sid |-> c, active |-> TRUE, logic |-> conn[c].logic]]
    /\ count' = CountActive(g)
    /\ conn' = [conn EXCEPT ![c].pc = "save"]
    /\ UNCHANGED <<redis, issued, raced, leaving, kick, down, logicVars, ntf>>

\* complete_reconnect; its tests of sequence and outbox may fail as well.
CompleteReconnect(c) ==
    LET g == Here(c) IN
    /\ conn[c].pc = "checked" /\ conn[c].reconnect
    /\ \/ /\ Holds(g, conn[c].prev)
          /\ stream' = [stream EXCEPT ![table[g]].sid = c, ![table[g]].active = TRUE]
          /\ count' = CountActive(g)
          /\ conn' = [conn EXCEPT ![c].pc = "save"]
       \/ /\ conn' = [conn EXCEPT ![c] = Rejected(@)]
          /\ UNCHANGED <<stream, count>>
    /\ UNCHANGED <<redis, issued, raced, table, leaving, kick, down, logicVars, ntf>>

\* Mutant: a reconnect writes the token that its session logged in with.
SavedFromSession(c) ==
    [token |-> conn[IF conn[c].reconnect THEN conn[c].prev ELSE c].token, sess |-> c, gate |-> Here(c),
     logic |-> IF conn[c].reconnect THEN conn[c].owner ELSE conn[c].logic]

\* What save_online writes: the record loaded by verify_online, brought up to date.
Saved(c) == [token |-> conn[c].token, sess |-> c, gate |-> Here(c),
             logic |-> IF conn[c].reconnect THEN conn[c].owner ELSE conn[c].logic]

\* save_online, then the response.  An aborted worker has sent the command or not.
SaveOnline(c) ==
    /\ conn[c].pc = "save"
    /\ \/ redis' = Saved(c)
       \/ conn[c].aborted /\ UNCHANGED redis
    /\ conn' = [conn EXCEPT ![c].pc = IF conn[c].aborted THEN "end" ELSE "on"]
    /\ UNCHANGED <<issued, raced, gateVars, leaving, kick, down, logicVars, ntf>>

\* kick_local, after a save that failed, and may have reached Redis, or after a
\* replay that the connection refused.
KickLocal(c) ==
    /\ conn[c].pc = "save" /\ ~conn[c].aborted
    /\ \/ May("redis") /\ UNCHANGED redis
       \/ (May("redis") \/ conn[c].reconnect) /\ redis' = Saved(c)
    /\ conn' = [conn EXCEPT ![c].pc = "kicking"]
    /\ kick' = [kick EXCEPT ![c]["gate"].pc = "asked"]
    /\ UNCHANGED <<issued, raced, gateVars, leaving, down, logicVars, ntf>>

-----------------------------------------------------------------------------
(* ClientSessions::kick takes the connection under the object's lock, then    *)
(* removes the object under the table's.                                      *)

KickTake(c, who) ==
    LET g == Here(c) IN
    /\ kick[c][who].pc = "asked" /\ (who = "logic" => down[g].pc = "up")
    /\ IF Holds(g, c)
       THEN /\ kick' = [kick EXCEPT ![c][who] = [pc |-> "taken", obj |-> table[g], active |-> Active(g)]]
            /\ stream' = [stream EXCEPT ![table[g]].active = FALSE]
       ELSE /\ kick' = [kick EXCEPT ![c][who].pc = IF who = "gate" THEN "clear" ELSE "done"]
            /\ UNCHANGED stream
    /\ UNCHANGED <<redis, issued, raced, conn, table, count, leaving, down, logicVars, ntf>>

KickRemove(c, who) ==
    LET g == Here(c)
        k == kick[c][who] IN
    /\ k.pc = "taken"
    /\ table' = IF table[g] = k.obj THEN [table EXCEPT ![g] = None] ELSE table
    /\ count' = IF k.active THEN [count EXCEPT ![g] = Decrement(@)] ELSE count
    /\ conn' = IF k.active THEN [conn EXCEPT ![c].open = FALSE] ELSE conn
    /\ kick' = [kick EXCEPT ![c][who].pc = "clear"]
    /\ UNCHANGED <<redis, issued, raced, stream, leaving, down, logicVars, ntf>>

\* The worker that kicked its own session may be aborted before the clear.
KickClear(c, who) ==
    /\ kick[c][who].pc = "clear"
    /\ Clear(c) \/ (who = "gate" /\ leaving[c] # "no" /\ UNCHANGED redis)
    /\ kick' = [kick EXCEPT ![c][who].pc = "done"]
    /\ conn' = IF who = "gate" THEN [conn EXCEPT ![c].pc = "end"] ELSE conn
    /\ UNCHANGED <<issued, raced, gateVars, leaving, down, logicVars, ntf>>

-----------------------------------------------------------------------------
(* Connections close, clients log out, streams expire                         *)

\* The client's side closes the connection, or on_packet does: the mailbox of the
\* worker is full, or there is no worker.
Break(c) ==
    /\ conn[c].open
    /\ conn' = [conn EXCEPT ![c].open = FALSE]
    /\ UNCHANGED <<redis, issued, raced, gateVars, leaving, kick, down, logicVars, ntf>>

\* on_disconnected aborts the worker, at once where it awaits, else at its next
\* await, and spawns disconnect; a draining Gate does neither.
OnDisconnected(c) ==
    LET draining == down[Here(c)].pc # "up"
        w == conn[c] IN
    /\ leaving[c] = "no" /\ ~w.open /\ w.pc # "none" /\ (w.pc = "end" => w.user)
    /\ w.pc = "checked" => CloseRace \/ draining
    /\ leaving' = [leaving EXCEPT ![c] = IF draining \/ ~w.user THEN "done" ELSE "take"]
    /\ conn' = CASE draining \/ w.pc = "kicking" -> conn
                 [] w.pc = "checked" /\ ~draining -> [conn EXCEPT ![c].aborted = TRUE]
                 [] OTHER                         -> [conn EXCEPT ![c].pc = "end"]
    /\ UNCHANGED <<redis, issued, raced, gateVars, kick, down, logicVars, ntf>>

\* GatewayState::disconnect: the session goes offline if it is still this one ...
DisconnectTake(c) ==
    LET g == Here(c) IN
    /\ leaving[c] = "take"
    /\ IF Holds(g, c) /\ Active(g)
       THEN /\ stream' = [stream EXCEPT ![table[g]].active = FALSE]
            /\ count' = [count EXCEPT ![g] = Decrement(@)]
            /\ leaving' = [leaving EXCEPT ![c] = "notify"]
       ELSE /\ leaving' = [leaving EXCEPT ![c] = "done"]
            /\ UNCHANGED <<stream, count>>
    /\ UNCHANGED <<redis, issued, raced, conn, table, kick, down, logicVars, ntf>>

\* ... then Logic is told ...
DisconnectNotify(c) ==
    /\ leaving[c] = "notify"
    /\ Notify(c)
    /\ leaving' = [leaving EXCEPT ![c] = "clear"]
    /\ UNCHANGED <<redis, issued, raced, conn, gateVars, kick, down, logicVars>>

\* ... and the record is cleared.
DisconnectClear(c) ==
    /\ leaving[c] = "clear"
    /\ Clear(c)
    /\ leaving' = [leaving EXCEPT ![c] = "done"]
    /\ UNCHANGED <<issued, raced, conn, gateVars, kick, down, logicVars, ntf>>

\* handle_logout: accept_request ...
HandleLogout(c) ==
    /\ Logouts /\ conn[c].pc = "on" /\ conn[c].open
    /\ Holds(Here(c), c) /\ Active(Here(c))
    /\ conn' = [conn EXCEPT ![c].pc = "invalidate"]
    /\ UNCHANGED <<redis, issued, raced, gateVars, leaving, kick, down, logicVars, ntf>>

\* ... invalidate, whose result decrement_online does not look at ...
LogoutInvalidate(c) ==
    LET g == Here(c) IN
    /\ conn[c].pc = "invalidate"
    /\ table' = IF Holds(g, c) THEN [table EXCEPT ![g] = None] ELSE table
    /\ count' = [count EXCEPT ![g] = Decrement(@)]
    /\ conn' = [conn EXCEPT ![c].pc = "outNotify"]
    /\ UNCHANGED <<redis, issued, raced, stream, leaving, kick, down, logicVars, ntf>>

LogoutNotify(c) ==
    /\ conn[c].pc = "outNotify"
    /\ Notify(c)
    /\ conn' = [conn EXCEPT ![c].pc = "outClear"]
    /\ UNCHANGED <<redis, issued, raced, gateVars, leaving, kick, down, logicVars>>

\* ... and the connection is closed last.
LogoutClear(c) ==
    /\ conn[c].pc = "outClear"
    /\ Clear(c)
    /\ conn' = [conn EXCEPT ![c] = Rejected(@)]
    /\ UNCHANGED <<issued, raced, gateVars, leaving, kick, down, logicVars, ntf>>

\* prune_expired, once the retention of an offline session is over.
PruneExpired(g) ==
    /\ table[g] # None /\ ~Active(g)
    /\ table' = [table EXCEPT ![g] = None]
    /\ UNCHANGED <<redis, issued, raced, conn, stream, count, leaving, kick, down, logicVars, ntf>>

-----------------------------------------------------------------------------
(* Gateway::shutdown                                                         *)

\* Stop accepting and close every connection ...
BeginShutdown(g) ==
    /\ g \in MayStop /\ down[g].pc = "up"
    /\ down' = [down EXCEPT ![g].pc = "draining"]
    /\ conn' = [c \in Conns |-> IF Here(c) = g THEN [conn[c] EXCEPT !.open = FALSE] ELSE conn[c]]
    /\ UNCHANGED <<redis, issued, raced, gateVars, leaving, kick, logicVars, ntf>>

\* The workers that shutdown awaits have ended.
WorkersEnded(g) == \A c \in Conns : Here(c) = g => conn[c].pc \in {"on", "end"} \/ conn[c].aborted

\* ... await the workers and drain the table ...
ShutdownDrain(g) ==
    LET obj == table[g] IN
    /\ down[g].pc = "draining" /\ WorkersEnded(g)
    /\ down' = [down EXCEPT ![g] = IF obj = None THEN [pc |-> "down", sid |-> None]
                                   ELSE [pc |-> "notify", sid |-> stream[obj].sid]]
    /\ stream' = IF obj = None THEN stream ELSE [stream EXCEPT ![obj].active = FALSE]
    /\ table' = [table EXCEPT ![g] = None]
    /\ count' = [count EXCEPT ![g] = 0]
    /\ UNCHANGED <<redis, issued, raced, conn, leaving, kick, logicVars, ntf>>

\* ... cleanup_shutdown_session of the drained session.
ShutdownNotify(g) ==
    /\ down[g].pc = "notify"
    /\ Notify(down[g].sid)
    /\ down' = [down EXCEPT ![g].pc = "clear"]
    /\ UNCHANGED <<redis, issued, raced, conn, gateVars, leaving, kick, logicVars>>

ShutdownClear(g) ==
    /\ down[g].pc = "clear"
    /\ Clear(down[g].sid)
    /\ down' = [down EXCEPT ![g].pc = "down"]
    /\ UNCHANGED <<issued, raced, conn, gateVars, leaving, kick, logicVars, ntf>>

-----------------------------------------------------------------------------
(* The handlers of Logic                                                      *)

\* await_logic reports a call that ran as failed when the save of the player,
\* dirty since an earlier call to this Logic, fails.
SaveFails(l) == May("save") /\ redis.logic = l

\* PlayerState::login, and online_count after it.
Login(l, c) ==
    /\ lsess' = [lsess EXCEPT ![l] = c]
    /\ \/ /\ lcount' = IF lsess[l] = None THEN [lcount EXCEPT ![l] = @ + 1] ELSE lcount
          /\ ask' = [ask EXCEPT ![c] = "owner"]
       \/ /\ SaveFails(l)
          /\ ask' = [ask EXCEPT ![c] = "err"]
          /\ UNCHANGED lcount

\* Mutant: the gate and session of the notification are not compared.
AnySession(l, c) == lsess[l] # None

\* The comparison of PlayerState::disconnect.
Matches(l, c) == lsess[l] = c

\* PlayerState::disconnect as a call of the runtime, and online_count after it.
Disconnect(l, c) ==
    \/ /\ lsess' = IF Matches(l, c) THEN [lsess EXCEPT ![l] = None] ELSE lsess
       /\ \/ lcount' = IF Matches(l, c) THEN [lcount EXCEPT ![l] = Decrement(@)] ELSE lcount
          \/ SaveFails(l) /\ UNCHANGED lcount
    \/ May("busy") /\ UNCHANGED <<lsess, lcount>>

\* Mutant: a replaced session is never kicked.
KickNobody(c, old) == FALSE

\* Does the login of c kick the session old?  A reconnect does not.
KicksOld(c, old) == ~conn[c].reconnect /\ old \notin {None, c}

\* LogicLoginReq reaches the player's runner; the preload of a login kicks the
\* session it replaces, and occupies the runner meanwhile.
LogicLogin(c) ==
    LET l == conn[c].logic
        old == lsess[l] IN
    /\ ask[c] = "sent" /\ lbusy[l] = None
    /\ \/ /\ KicksOld(c, old)
          /\ kick' = [kick EXCEPT ![old]["logic"].pc = "asked"]
          /\ lbusy' = [lbusy EXCEPT ![l] = c]
          /\ ask' = [ask EXCEPT ![c] = "kick"]
          /\ UNCHANGED <<lsess, lcount>>
       \/ /\ ~KicksOld(c, old)
          /\ Login(l, c)
          /\ UNCHANGED <<kick, lbusy>>
    /\ UNCHANGED <<redis, issued, raced, conn, gateVars, leaving, down, ntf>>

\* The runtime refuses the call or fails it.
LogicRefuses(c) ==
    /\ May("rpc") /\ ask[c] = "sent"
    /\ ask' = [ask EXCEPT ![c] = "err"]
    /\ UNCHANGED <<redis, issued, raced, conn, gateVars, leaving, kick, down, lsess, lbusy, lcount, ntf>>

\* The kick is answered or fails, which is ignored: the session is replaced.
LogicKicked(c) ==
    LET l == conn[c].logic
        k == kick[lsess[l]]["logic"] IN
    /\ ask[c] = "kick"
    /\ k.pc = "done" \/ May("kick") \/ (k.pc = "asked" /\ down[Here(lsess[l])].pc # "up")
    /\ Login(l, c)
    /\ lbusy' = [lbusy EXCEPT ![l] = None]
    /\ kick' = IF k.pc = "asked" /\ down[Here(lsess[l])].pc # "up"
               THEN [kick EXCEPT ![lsess[l]]["logic"].pc = "done"] ELSE kick
    /\ UNCHANGED <<redis, issued, raced, conn, gateVars, leaving, down, ntf>>

\* set_logic_owner, then the response; a failure undoes the login.
SetLogicOwner(c) ==
    /\ ask[c] = "owner"
    /\ \/ /\ redis' = [redis EXCEPT !.logic = conn[c].logic]
          /\ ask' = [ask EXCEPT ![c] = "ok"]
       \/ /\ May("redis")
          /\ redis' \in {redis, [redis EXCEPT !.logic = conn[c].logic]}
          /\ ask' = [ask EXCEPT ![c] = "undo"]
    /\ UNCHANGED <<issued, raced, conn, gateVars, leaving, kick, down, lsess, lbusy, lcount, ntf>>

UndoLogin(c) ==
    LET l == conn[c].logic IN
    /\ ask[c] = "undo" /\ lbusy[l] = None
    /\ Disconnect(l, c)
    /\ ask' = [ask EXCEPT ![c] = "err"]
    /\ UNCHANGED <<redis, issued, raced, conn, gateVars, leaving, kick, down, lbusy, ntf>>

\* LogicDisconnectNtf
LogicDisconnect(c) ==
    LET l == conn[c].logic IN
    /\ c \in ntf /\ lbusy[l] = None
    /\ ntf' = ntf \ {c}
    /\ Disconnect(l, c)
    /\ UNCHANGED <<redis, issued, raced, conn, gateVars, leaving, kick, down, ask, lbusy>>

-----------------------------------------------------------------------------
Worker(c) ==
    \/ AuthorizeReconnect(c) \/ LogicAnswers(c) \/ InstallLogin(c) \/ CompleteReconnect(c)
    \/ SaveOnline(c) \/ KickLocal(c) \/ KickTake(c, "gate") \/ KickRemove(c, "gate") \/ KickClear(c, "gate")
    \/ HandleLogout(c) \/ LogoutInvalidate(c) \/ LogoutNotify(c) \/ LogoutClear(c)

Leave(c) == Break(c) \/ OnDisconnected(c) \/ DisconnectTake(c) \/ DisconnectNotify(c) \/ DisconnectClear(c)

Logic(c) ==
    \/ LogicLogin(c) \/ LogicRefuses(c) \/ LogicKicked(c) \/ SetLogicOwner(c) \/ UndoLogin(c)
    \/ LogicDisconnect(c) \/ KickTake(c, "logic") \/ KickRemove(c, "logic") \/ KickClear(c, "logic")

Next ==
    \/ SetToken
    \/ \E g \in Gates : PruneExpired(g) \/ BeginShutdown(g) \/ ShutdownDrain(g) \/ ShutdownNotify(g) \/ ShutdownClear(g)
    \/ \E c \in Conns :
          \/ Worker(c) \/ Leave(c) \/ Logic(c)
          \/ \E token \in 1..issued :
                \/ \E g \in Gates : HandleLogin(c, g, token)
                \/ \E prev \in Conns : HandleReconnect(c, prev, token)

Spec == Init /\ [][Next]_vars

-----------------------------------------------------------------------------
(* Properties.  Most relate the three places that know the player's session,  *)
(* which agree only when no handler is under way.                             *)

\* The connection of c, if it closed, has been taken care of.
Left(c) == conn[c].open \/ conn[c].pc = "none" \/ leaving[c] = "done" \/ (conn[c].pc = "end" /\ ~conn[c].user)

Quiet == /\ \A c \in Conns : Settled(c) /\ Left(c)
         /\ ntf = {} /\ \A g \in Gates : down[g].pc \in {"up", "down"}

\* Duplicate-login eviction: when nothing is under way, at most one Gate has an
\* active session of the player.
OneActive == Quiet => Cardinality({g \in Gates : Active(g)}) <= 1

\* The record names a session that nobody clears any more: a reconnect took it over
\* and its worker ended before save_online, or the worker that was to clear it after
\* kick_local was aborted, because the kick had closed its connection.
Forsaken ==
    \E c \in Conns :
       \/ conn[c].reconnect /\ conn[c].pc = "end" /\ conn[c].prev = redis.sess /\ redis.sess # None
       \/ redis.sess = c /\ kick[c]["gate"].pc = "done"

\* sess and gsid, when set, name the active session of the Gate they name, and
\* they name every active session whose connection is open.  In particular a Gate
\* that shut down leaves no route to itself behind.
RecordRight ==
    Quiet => /\ \/ redis.sess = None \/ Forsaken
                \/ redis.gate = Here(redis.sess) /\ Holds(redis.gate, redis.sess) /\ Active(redis.gate)
             /\ \A c \in Conns : conn[c].open /\ Holds(Here(c), c) /\ Active(Here(c)) => redis.sess = c

\* Logic, "the authority for a player's active execution session", knows every
\* active session: it is the one the next login will kick.
ActiveKnown ==
    Quiet => \A g \in Gates : Active(g) => lsess[stream[table[g]].logic] = stream[table[g]].sid

\* The online counts that load balancing uses lose and gain nothing, on any path.
CountsExact ==
    Quiet => /\ \A g \in Gates : down[g].pc = "up" => count[g] = IF Active(g) THEN 2 ELSE 1
             /\ \A l \in Logics : lcount[l] = IF lsess[l] = None THEN 0 ELSE 1

\* The token Auth issued last is the one in the record, the one a client can log in
\* with, unless it was issued between load_online and save_online of a login or
\* reconnect, which write the whole record back.
TokenCurrent == redis.token = issued \/ raced

\* Never two Logics with a session of the player, each with its own copy of it.
OneOwner == \A l1, l2 \in Logics : lsess[l1] # None /\ lsess[l2] # None => l1 = l2
=============================================================================
