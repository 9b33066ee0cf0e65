-------------------------- MODULE ServiceLifecycle --------------------------
(***************************************************************************)
(* One service process from xkk_app::run (app/src/process.rs) through the  *)
(* run, start and shutdown functions of its service.rs: what is opened,    *)
(* started, published and saved, and what every way out undoes.            *)
(*                                                                         *)
(* The frame (crate xframe), the Redis server and its connection are       *)
(* outside the repository.  A command goes to Redis over one connection,   *)
(* in the order of sending; dropping the future that awaits it does not    *)
(* take it back.  What handlers, Gateway::shutdown and                     *)
(* LogicRuntime::shutdown do inside is in the other modules.               *)
(***************************************************************************)
EXTENDS Integers, Sequences

CONSTANTS
    Kinds,      \* the services to consider, of Services
    MaxWork,    \* bound: handlers at a time
    MaxWire     \* bound: commands under way to Redis

Services == {"logic", "gate", "auth", "public", "query"}

ASSUME LifecycleConfig == Kinds \subseteq Services /\ MaxWork \in Nat /\ MaxWire \in Nat

VARIABLES
    kind,       \* the service
    pc,         \* how far xkk_app::run has come
    step,       \* ... within Application::start or Application::shutdown
    waiting,    \* is that step waiting for Redis?
    open,       \* of {"log", "redis", "mongo"}: opened and not closed
    work,       \* handlers at work
    task,       \* the background tasks: "none", "idle" (waiting for its tick), "busy", "ended"
    stopped,    \* tasks that were aborted or sent the stop signal
    wire,       \* commands sent to Redis and not executed, with their sender
    published,  \* Redis: has the instance a count in the hash of its service?
    unsaved,    \* changes of handlers that no save has taken up
    result,     \* what run returns: "none" before it is known, "ok" or "err"
    \* History, for the properties only:
    deleted     \* has Redis executed the HDEL of the shutdown?

vars == <<kind, pc, step, waiting, open, work, task, stopped, wire, published, unsaved, result, deleted>>
clients == <<wire, published, deleted>>

Tasks == {"publish", "refresh", "save", "metrics"}
SpawnStep == [publish |-> "spawnPublish", refresh |-> "spawnRefresh", save |-> "spawnSave", metrics |-> "spawnMetrics"]
StopStep == [publish |-> "stopPublish", refresh |-> "stopRefresh", save |-> "stopSave", metrics |-> "stopMetrics"]
Setup == {"config", "log", "registry", "redis", "mongo", "prepare"}
Closing == {"closeMongo", "closeRedis", "closeLog"}
Commands == [op : {"publish", "load", "delete"}, from : Tasks \cup {"main", "nobody"}]

TypeOK ==
    /\ kind \in Kinds
    /\ pc \in Setup \cup {"start", "running", "drain", "stop", "exit"} \cup Closing
    /\ step \in 1..8 /\ waiting \in BOOLEAN
    /\ open \subseteq {"log", "redis", "mongo"} /\ work \in 0..MaxWork
    /\ task \in [Tasks -> {"none", "idle", "busy", "ended"}] /\ stopped \subseteq Tasks
    /\ wire \in Seq(Commands)
    /\ {published, unsaved, deleted} \subseteq BOOLEAN
    /\ result \in {"none", "ok", "err"}

Init ==
    /\ kind \in Kinds /\ pc = "config" /\ step = 1 /\ waiting = FALSE
    /\ open = {} /\ work = 0 /\ wire = <<>> /\ stopped = {}
    /\ task = [t \in Tasks |-> "none"]
    /\ published = FALSE /\ unsaved = FALSE /\ result = "none" /\ deleted = FALSE

(* Application::start: awaits of the frame and of Redis, then the tasks.     *)
LogicStart == <<"watch", "watch", "publish", "spawnPublish", "spawnMetrics">>
\* Mutant: the publishing task starts as soon as the Gate has published.
GateStartEager == <<"watch", "watch", "publish", "spawnPublish", "load", "spawnRefresh", "spawnMetrics">>
GateStart == <<"watch", "watch", "publish", "load", "spawnPublish", "spawnRefresh", "spawnMetrics">>
AuthStart == <<"watch", "load", "spawnRefresh", "spawnMetrics">>
PublicStart == <<"watch", "watch", "spawnSave", "spawnMetrics">>
QueryStart == <<"spawnMetrics">>

(* Application::shutdown.                                                    *)
\* Mutant: the count is deleted before its task is stopped.
LogicStopDeleteFirst == <<"delete", "stopPublish", "stopMetrics", "runtime">>
LogicStop == <<"stopPublish", "delete", "stopMetrics", "runtime">>
GateStop == <<"stopPublish", "stopRefresh", "stopMetrics", "delete", "gateway">>
AuthStop == <<"stopRefresh", "stopMetrics">>
PublicStop == <<"stopSave", "flush", "stopMetrics">>
QueryStop == <<"stopMetrics">>

StartSteps == [logic |-> LogicStart, gate |-> GateStart, auth |-> AuthStart, public |-> PublicStart, query |-> QueryStart]
StopSteps == [logic |-> LogicStop, gate |-> GateStop, auth |-> AuthStop, public |-> PublicStop, query |-> QueryStop]

-----------------------------------------------------------------------------
(* xkk_app::run up to the service future *)

Goto(from, to) == pc = from /\ pc' = to

\* config.validate and service_config, before anything is opened.
ReadConfig ==
    /\ \/ Goto("config", "log") /\ UNCHANGED result
       \/ Goto("config", "exit") /\ result' = "err"
    /\ UNCHANGED <<kind, step, waiting, open, work, task, stopped, clients, unsaved>>

InitLog ==
    /\ \/ Goto("log", "registry") /\ open' = open \cup {"log"} /\ UNCHANGED result
       \/ Goto("log", "exit") /\ result' = "err" /\ UNCHANGED open
    /\ UNCHANGED <<kind, step, waiting, work, task, stopped, clients, unsaved>>

\* init_global_registry and the two client configurations.
InitRegistry ==
    /\ \/ Goto("registry", "redis") /\ UNCHANGED result
       \/ Goto("registry", "closeLog") /\ result' = "err"
    /\ UNCHANGED <<kind, step, waiting, open, work, task, stopped, clients, unsaved>>

ConnectRedis ==
    /\ \/ Goto("redis", "mongo") /\ open' = open \cup {"redis"} /\ UNCHANGED result
       \/ Goto("redis", "closeLog") /\ result' = "err" /\ UNCHANGED open
    /\ UNCHANGED <<kind, step, waiting, work, task, stopped, clients, unsaved>>

ConnectMongo ==
    /\ \/ Goto("mongo", "prepare") /\ open' = open \cup {"mongo"} /\ UNCHANGED result
       \/ Goto("mongo", "closeLog") /\ result' = "err" /\ open' = open \ {"redis"}
    /\ UNCHANGED <<kind, step, waiting, work, task, stopped, clients, unsaved>>

\* The service future: xframe::prepare, Database::new, handlers and listeners.
Prepare ==
    /\ \/ Goto("prepare", "start") /\ UNCHANGED result
       \/ Goto("prepare", "closeMongo") /\ result' = "err"
    /\ UNCHANGED <<kind, step, waiting, open, work, task, stopped, clients, unsaved>>

-----------------------------------------------------------------------------
(* Application::start *)

Starting(ops) == pc = "start" /\ step <= Len(StartSteps[kind]) /\ StartSteps[kind][step] \in ops

\* The service future ends with the error of start.  Whether xframe calls the
\* shutdown of an application that did not start is not to be seen here: both.
StartFails == result' = "err" /\ pc' \in {"drain", "closeMongo"} /\ step' = 1

\* frame.watch and frame.watch_and_connect.
Watch ==
    /\ Starting({"watch"})
    /\ \/ step' = step + 1 /\ UNCHANGED <<pc, result>>
       \/ StartFails
    /\ UNCHANGED <<kind, waiting, open, work, task, stopped, clients, unsaved>>

\* A command is handed to the connection, and its answer awaited.
Send(op, from) == wire' = Append(wire, [op |-> op, from |-> from]) /\ UNCHANGED <<published, deleted>>

\* publish_service_online and refresh_service_online.
StartSend ==
    /\ Starting({"publish", "load"}) /\ ~waiting
    /\ Send(StartSteps[kind][step], "main") /\ waiting' = TRUE
    /\ UNCHANGED <<kind, pc, step, open, work, task, stopped, unsaved, result>>

Spawn(t) ==
    /\ Starting({SpawnStep[t]})
    /\ task' = [task EXCEPT ![t] = "idle"] /\ step' = step + 1
    /\ UNCHANGED <<kind, pc, waiting, open, work, stopped, clients, unsaved, result>>

\* start has returned: the frame is Running.
Started ==
    /\ step > Len(StartSteps[kind]) /\ Goto("start", "running") /\ step' = 1
    /\ UNCHANGED <<kind, waiting, open, work, task, stopped, clients, unsaved, result>>

-----------------------------------------------------------------------------
(* While the service runs *)

HandlerBegins ==
    /\ pc = "running" /\ work < MaxWork /\ work' = work + 1
    /\ UNCHANGED <<kind, pc, step, waiting, open, task, stopped, clients, unsaved, result>>

\* Handlers of Public leave their changes to the saves; a call of Logic saves its
\* own, and leaves what it could not save.
HandlerEnds ==
    /\ work > 0 /\ work' = work - 1
    /\ unsaved' \in {unsaved} \cup (IF kind \in {"logic", "public"} THEN {TRUE} ELSE {})
    /\ UNCHANGED <<kind, pc, step, waiting, open, task, stopped, clients, result>>

\* Mutant: the select of the save task has no bias for the stop signal.
AnyBranch(t) == t \in Tasks

\* The tick is taken: a task that was aborted, or that finds the stop signal at
\* its biased select, does not.
TakesTick(t) == t \notin stopped

Ticks(t) == task[t] = "idle" /\ TakesTick(t) /\ task' = [task EXCEPT ![t] = "busy"]

\* The periodic tasks of Logic and Gate send their count, Gate and Auth load the
\* counts of others; an error is logged.  (The metrics task only reports.)
PublishTick ==
    /\ Ticks("publish") /\ Len(wire) < MaxWire /\ Send("publish", "publish")
    /\ UNCHANGED <<kind, pc, step, waiting, open, work, stopped, unsaved, result>>

RefreshTick ==
    /\ Ticks("refresh") /\ Len(wire) < MaxWire /\ Send("load", "refresh")
    /\ UNCHANGED <<kind, pc, step, waiting, open, work, stopped, unsaved, result>>

\* The save task of Public calls flush_dirty, which takes the changes up.
SaveTick ==
    /\ Ticks("save") /\ unsaved' = FALSE
    /\ UNCHANGED <<kind, pc, step, waiting, open, work, stopped, clients, result>>

\* flush_dirty of the save task ends; a failed save is only logged.
FlushEnds ==
    /\ task["save"] = "busy" /\ task' = [task EXCEPT !["save"] = "idle"]
    /\ UNCHANGED <<kind, pc, step, waiting, open, work, stopped, clients, unsaved, result>>

\* The future of a task ends: an aborted one at whatever it awaits, the save task
\* only at its select, between two flushes.
TaskEnds(t) ==
    /\ t \in stopped /\ task[t] \in {"idle", "busy"} /\ (t = "save" => task[t] = "idle")
    /\ task' = [task EXCEPT ![t] = "ended"]
    /\ UNCHANGED <<kind, pc, step, waiting, open, work, stopped, clients, unsaved, result>>

\* run_until_shutdown_signal: a signal, or the frame fails.
StopFrame ==
    /\ Goto("running", "drain") /\ result' \in {"none", "err"}
    /\ UNCHANGED <<kind, step, waiting, open, work, task, stopped, clients, unsaved>>

\* "xframe rejects incoming work, drains timers/HTTP/RPC handlers, then invokes
\* business cleanup".
Drained ==
    /\ work = 0 /\ Goto("drain", "stop") /\ step' = 1
    /\ UNCHANGED <<kind, waiting, open, work, task, stopped, clients, unsaved, result>>

-----------------------------------------------------------------------------
(* Application::shutdown *)

Stopping(op) == pc = "stop" /\ step <= Len(StopSteps[kind]) /\ StopSteps[kind][step] = op

Advance == step' = step + 1 /\ UNCHANGED pc

\* stop_task takes the handle, if there is one, and aborts the task, or sends the
\* save task its stop signal ...
StopTask(t) ==
    /\ Stopping(StopStep[t]) /\ t \notin stopped
    /\ stopped' = stopped \cup {t}
    /\ UNCHANGED <<kind, pc, step, waiting, open, work, task, clients, unsaved, result>>

\* ... and awaits the task.
Joined(t) == task[t] \in {"none", "ended"}

JoinTask(t) ==
    /\ Stopping(StopStep[t]) /\ t \in stopped /\ Joined(t) /\ Advance
    /\ UNCHANGED <<kind, waiting, open, work, task, stopped, clients, unsaved, result>>

DeleteSend ==
    /\ Stopping("delete") /\ ~waiting
    /\ Send("delete", "main") /\ waiting' = TRUE
    /\ UNCHANGED <<kind, pc, step, open, work, task, stopped, unsaved, result>>

\* Mutant: the error of the runtime is logged and forgotten.
Forgiven == result

\* runtime.shutdown().await.map_err(..)?
RuntimeError == "err"

\* LogicRuntime::shutdown: everything is saved, or it fails.
ShutdownRuntime ==
    /\ Stopping("runtime") /\ Advance
    /\ \/ unsaved' = FALSE /\ UNCHANGED result
       \/ result' = RuntimeError /\ UNCHANGED unsaved
    /\ UNCHANGED <<kind, waiting, open, work, task, stopped, clients>>

\* The final flush of Public; its failure is only logged.
FinalFlush ==
    /\ Stopping("flush") /\ Advance
    /\ unsaved' = FALSE
    /\ UNCHANGED <<kind, waiting, open, work, task, stopped, clients, result>>

\* Gateway::shutdown (PlayerSessions) does not fail.
ShutdownGateway ==
    /\ Stopping("gateway") /\ Advance
    /\ UNCHANGED <<kind, waiting, open, work, task, stopped, clients, unsaved, result>>

ServiceEnds ==
    /\ step > Len(StopSteps[kind]) /\ Goto("stop", "closeMongo")
    /\ UNCHANGED <<kind, step, waiting, open, work, task, stopped, clients, unsaved, result>>

-----------------------------------------------------------------------------
(* Resources::close and the end of xkk_app::run *)

CloseMongo ==
    /\ Goto("closeMongo", "closeRedis") /\ open' = open \ {"mongo"}
    /\ UNCHANGED <<kind, step, waiting, work, task, stopped, clients, unsaved, result>>

CloseRedis ==
    /\ Goto("closeRedis", "closeLog") /\ open' = open \ {"redis"}
    /\ UNCHANGED <<kind, step, waiting, work, task, stopped, clients, unsaved, result>>

\* The error of the service comes first, then that of closing the log.
CloseLog ==
    /\ Goto("closeLog", "exit") /\ open' = open \ {"log"}
    /\ result' \in IF result = "err" THEN {"err"} ELSE {"ok", "err"}
    /\ UNCHANGED <<kind, step, waiting, work, task, stopped, clients, unsaved>>

-----------------------------------------------------------------------------
(* Redis *)

\* The answer is for the step that waits.
Awaited(from) == from = "main"

\* The sender of a command gets its answer, or an error.  A periodic task only
\* logs an error, so does the shutdown; start gives up.
Answer(from, ok) ==
    /\ waiting' = (waiting /\ from # "main")
    /\ task' = IF from \in Tasks /\ task[from] = "busy" THEN [task EXCEPT ![from] = "idle"] ELSE task
    /\ \/ ~Awaited(from) /\ UNCHANGED <<pc, step, result>>
       \/ Awaited(from) /\ ~ok /\ pc = "start" /\ StartFails
       \/ Awaited(from) /\ (ok \/ pc # "start") /\ Advance /\ UNCHANGED result

Executed(op) ==
    /\ published' = (op = "publish" \/ (published /\ op # "delete"))
    /\ deleted' = (deleted \/ op = "delete")

\* The oldest command is executed and answered, or the answer is lost.
RedisServes ==
    /\ wire # <<>> /\ wire' = Tail(wire)
    /\ Executed(Head(wire).op)
    /\ \E ok \in BOOLEAN : Answer(Head(wire).from, ok)
    /\ UNCHANGED <<kind, open, work, stopped, unsaved>>

\* ... or it never arrives.
RedisLoses ==
    /\ wire # <<>> /\ wire' = Tail(wire)
    /\ Answer(Head(wire).from, FALSE)
    /\ UNCHANGED <<kind, open, work, stopped, published, deleted, unsaved>>

\* The sender stops waiting; the command is still under way.
RedisTimesOut(i) ==
    /\ wire[i].from # "nobody" /\ wire' = [wire EXCEPT ![i].from = "nobody"]
    /\ Answer(wire[i].from, FALSE)
    /\ UNCHANGED <<kind, open, work, stopped, published, deleted, unsaved>>

-----------------------------------------------------------------------------
Begin == ReadConfig \/ InitLog \/ InitRegistry \/ ConnectRedis \/ ConnectMongo \/ Prepare
Start == Watch \/ StartSend \/ (\E t \in Tasks : Spawn(t)) \/ Started
Shutdown ==
    \/ \E t \in Tasks : StopTask(t) \/ JoinTask(t)
    \/ DeleteSend \/ ShutdownRuntime \/ FinalFlush \/ ShutdownGateway \/ ServiceEnds
Close == CloseMongo \/ CloseRedis \/ CloseLog
Run == Begin \/ Start \/ Drained \/ Shutdown \/ Close

Next ==
    \/ Run \/ StopFrame
    \/ HandlerBegins \/ HandlerEnds
    \/ PublishTick \/ RefreshTick \/ SaveTick \/ FlushEnds \/ (\E t \in Tasks : TaskEnds(t))
    \/ RedisServes \/ RedisLoses \/ (\E i \in DOMAIN wire : RedisTimesOut(i))

\* The executor runs what is ready; handlers, flushes, the frame and the two
\* shutdown functions return; Redis answers.
Fairness ==
    /\ WF_vars(Run) /\ WF_vars(HandlerEnds) /\ WF_vars(FlushEnds) /\ WF_vars(RedisServes)
    /\ \A t \in Tasks : WF_vars(TaskEnds(t))

Spec == Init /\ [][Next]_vars /\ Fairness

-----------------------------------------------------------------------------
(* Properties *)

Alive == {t \in Tasks : task[t] \in {"idle", "busy"}}

\* "The service future must await its frame shutdown before returning": when the
\* shared clients are closed nothing is left that uses them, after a start that
\* failed half-way too, and a process that exits has closed what it opened.
CleanedUp ==
    /\ pc \in Closing \cup {"exit"} => Alive = {} /\ work = 0
    /\ pc = "exit" => open = {}

\* A count that the shutdown deleted stays deleted: no publication that its task
\* sent before it was aborted reaches Redis after the HDEL.
StaysDeleted == deleted => ~published

\* A process that reports success has no change left that no save has taken up,
\* and no save under way.  (What becomes of a save that fails is the runtime's
\* concern in Logic, and accepted in Public: StoppedMeansSaved, ShutdownSaves.)
SuccessMeansSaved ==
    result = "ok" => ~unsaved /\ task["save"] # "busy"

\* Once the frame stops or a step of the start fails, the process exits; the
\* stop signal gets through to a save task that always has something to save.
Exits == (pc = "drain" \/ result = "err") ~> pc = "exit"
=============================================================================
