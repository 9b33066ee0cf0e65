----------------------- MODULE ServiceLifecycleProofs -----------------------
(***************************************************************************)
(* Proofs about one service process: that the shared clients outlive what  *)
(* uses them, that a deleted count stays deleted, and that success means   *)
(* saved, for every choice of services, handlers and commands on the wire. *)
(*                                                                         *)
(* What the theorems rest on is the order of the steps in the start and    *)
(* shutdown of each service: Ordered, established for the five of them in  *)
(* AllOrdered.  The rest is one inductive invariant, LifeInv, for any      *)
(* steps that are so ordered:                                              *)
(*   Opened     what may be open, and when handlers may work               *)
(*   Spawned    which tasks can exist, and which have been stopped         *)
(*   MainWaits  the process is at the step whose answer is on its way      *)
(*   Gone       nothing publishes once the HDEL is sent                    *)
(*   Saved      what the save steps of the shutdown have achieved          *)
(***************************************************************************)
EXTENDS ServiceLifecycle, TLAPS

-----------------------------------------------------------------------------
(* The steps of the services *)

\* The start steps that can fail, and the shutdown steps that save.
MayFail == {"watch", "publish", "load"}
Saves == {"runtime", "flush"}

\* The background tasks and the names of their steps.
LEMMA TaskSteps == ASSUME NEW t \in Tasks
                   PROVE  \/ t = "publish" /\ SpawnStep[t] = "spawnPublish" /\ StopStep[t] = "stopPublish"
                          \/ t = "refresh" /\ SpawnStep[t] = "spawnRefresh" /\ StopStep[t] = "stopRefresh"
                          \/ t = "save" /\ SpawnStep[t] = "spawnSave" /\ StopStep[t] = "stopSave"
                          \/ t = "metrics" /\ SpawnStep[t] = "spawnMetrics" /\ StopStep[t] = "stopMetrics"
<1>1. CASE t = "publish" BY <1>1 DEF SpawnStep, StopStep
<1>2. CASE t = "refresh" BY <1>2 DEF SpawnStep, StopStep
<1>3. CASE t = "save" BY <1>3 DEF SpawnStep, StopStep
<1>4. CASE t = "metrics" BY <1>4 DEF SpawnStep, StopStep
<1> QED BY <1>1, <1>2, <1>3, <1>4 DEF Tasks

\* What is right about the order of the steps of a start and of a shutdown.
Ordered(start, stop) ==
    /\ Len(start) \in Nat /\ Len(stop) \in Nat
    /\ \A t \in Tasks : \A n, m \in 1..Len(start) : start[n] = SpawnStep[t] /\ start[m] \in MayFail => m < n
    /\ \A t \in Tasks : \A n \in 1..Len(start) :
          start[n] = SpawnStep[t] => \E m \in 1..Len(stop) : stop[m] = StopStep[t]
    /\ \A n \in 1..Len(stop) : stop[n] = "delete" => \E m \in 1..(n - 1) : stop[m] = StopStep["publish"]

\* Nothing can fail once a task runs, every task is stopped, the publishing one before
\* its count is deleted.
LEMMA LogicOrdered == Ordered(LogicStart, LogicStop) /\ \E m \in 1..Len(LogicStop) : LogicStop[m] \in Saves
<1>1. /\ Len(LogicStart) = 5
      /\ LogicStart[1] = "watch" /\ LogicStart[2] = "watch" /\ LogicStart[3] = "publish" /\ LogicStart[4] = "spawnPublish"
      /\ LogicStart[5] = "spawnMetrics"
  BY DEF LogicStart
<1>2. /\ Len(LogicStop) = 4
      /\ LogicStop[1] = "stopPublish" /\ LogicStop[2] = "delete" /\ LogicStop[3] = "stopMetrics" /\ LogicStop[4] = "runtime"
  BY DEF LogicStop
<1>3. StopStep["publish"] = "stopPublish" BY DEF StopStep
<1> HIDE DEF LogicStart, LogicStop
<1>4. \A t \in Tasks : \A n, m \in 1..5 : LogicStart[n] = SpawnStep[t] /\ LogicStart[m] \in MayFail => m < n
  BY <1>1, TaskSteps DEF MayFail
<1>5. \A t \in Tasks : \A n \in 1..5 : LogicStart[n] = SpawnStep[t] => \E m \in 1..4 : LogicStop[m] = StopStep[t]
  BY <1>1, <1>2, TaskSteps
<1>6. \A n \in 1..4 : LogicStop[n] = "delete" => \E m \in 1..(n - 1) : LogicStop[m] = StopStep["publish"]
  BY <1>2, <1>3
<1> QED BY <1>1, <1>2, <1>4, <1>5, <1>6 DEF Ordered, Saves

\* Gate: two tasks depend on Redis, both start after the last await.
LEMMA GateOrdered == Ordered(GateStart, GateStop)
<1>1. /\ Len(GateStart) = 7
      /\ GateStart[1] = "watch" /\ GateStart[2] = "watch" /\ GateStart[3] = "publish" /\ GateStart[4] = "load"
      /\ GateStart[5] = "spawnPublish" /\ GateStart[6] = "spawnRefresh" /\ GateStart[7] = "spawnMetrics"
  BY DEF GateStart
<1>2. /\ Len(GateStop) = 5
      /\ GateStop[1] = "stopPublish" /\ GateStop[2] = "stopRefresh" /\ GateStop[3] = "stopMetrics" /\ GateStop[4] = "delete"
      /\ GateStop[5] = "gateway"
  BY DEF GateStop
<1>3. StopStep["publish"] = "stopPublish" BY DEF StopStep
<1> HIDE DEF GateStart, GateStop
<1>4. \A t \in Tasks : \A n, m \in 1..7 : GateStart[n] = SpawnStep[t] /\ GateStart[m] \in MayFail => m < n
  BY <1>1, TaskSteps DEF MayFail
<1>5. \A t \in Tasks : \A n \in 1..7 : GateStart[n] = SpawnStep[t] => \E m \in 1..5 : GateStop[m] = StopStep[t]
  BY <1>1, <1>2, TaskSteps
<1>6. \A n \in 1..5 : GateStop[n] = "delete" => \E m \in 1..(n - 1) : GateStop[m] = StopStep["publish"]
  BY <1>2, <1>3
<1> QED BY <1>1, <1>2, <1>4, <1>5, <1>6 DEF Ordered

\* Auth has no count of its own to delete.
LEMMA AuthOrdered == Ordered(AuthStart, AuthStop)
<1>1. /\ Len(AuthStart) = 4
      /\ AuthStart[1] = "watch" /\ AuthStart[2] = "load" /\ AuthStart[3] = "spawnRefresh" /\ AuthStart[4] = "spawnMetrics"
  BY DEF AuthStart
<1>2. /\ Len(AuthStop) = 2
      /\ AuthStop[1] = "stopRefresh" /\ AuthStop[2] = "stopMetrics"
  BY DEF AuthStop
<1>3. StopStep["publish"] = "stopPublish" BY DEF StopStep
<1> HIDE DEF AuthStart, AuthStop
<1>4. \A t \in Tasks : \A n, m \in 1..4 : AuthStart[n] = SpawnStep[t] /\ AuthStart[m] \in MayFail => m < n
  BY <1>1, TaskSteps DEF MayFail
<1>5. \A t \in Tasks : \A n \in 1..4 : AuthStart[n] = SpawnStep[t] => \E m \in 1..2 : AuthStop[m] = StopStep[t]
  BY <1>1, <1>2, TaskSteps
<1>6. \A n \in 1..2 : AuthStop[n] = "delete" => \E m \in 1..(n - 1) : AuthStop[m] = StopStep["publish"]
  BY <1>2, <1>3
<1> QED BY <1>1, <1>2, <1>4, <1>5, <1>6 DEF Ordered

\* Public saves after its save task has ended.
LEMMA PublicOrdered == Ordered(PublicStart, PublicStop) /\ \E m \in 1..Len(PublicStop) : PublicStop[m] \in Saves
<1>1. /\ Len(PublicStart) = 4
      /\ PublicStart[1] = "watch" /\ PublicStart[2] = "watch" /\ PublicStart[3] = "spawnSave" /\ PublicStart[4] = "spawnMetrics"
  BY DEF PublicStart
<1>2. /\ Len(PublicStop) = 3
      /\ PublicStop[1] = "stopSave" /\ PublicStop[2] = "flush" /\ PublicStop[3] = "stopMetrics"
  BY DEF PublicStop
<1>3. StopStep["publish"] = "stopPublish" BY DEF StopStep
<1> HIDE DEF PublicStart, PublicStop
<1>4. \A t \in Tasks : \A n, m \in 1..4 : PublicStart[n] = SpawnStep[t] /\ PublicStart[m] \in MayFail => m < n
  BY <1>1, TaskSteps DEF MayFail
<1>5. \A t \in Tasks : \A n \in 1..4 : PublicStart[n] = SpawnStep[t] => \E m \in 1..3 : PublicStop[m] = StopStep[t]
  BY <1>1, <1>2, TaskSteps
<1>6. \A n \in 1..3 : PublicStop[n] = "delete" => \E m \in 1..(n - 1) : PublicStop[m] = StopStep["publish"]
  BY <1>2, <1>3
<1> QED BY <1>1, <1>2, <1>4, <1>5, <1>6 DEF Ordered, Saves

\* Query only has the metrics task.
LEMMA QueryOrdered == Ordered(QueryStart, QueryStop)
<1>1. /\ Len(QueryStart) = 1
      /\ QueryStart[1] = "spawnMetrics"
  BY DEF QueryStart
<1>2. /\ Len(QueryStop) = 1
      /\ QueryStop[1] = "stopMetrics"
  BY DEF QueryStop
<1>3. StopStep["publish"] = "stopPublish" BY DEF StopStep
<1> HIDE DEF QueryStart, QueryStop
<1>4. \A t \in Tasks : \A n, m \in 1..1 : QueryStart[n] = SpawnStep[t] /\ QueryStart[m] \in MayFail => m < n
  BY <1>1, TaskSteps DEF MayFail
<1>5. \A t \in Tasks : \A n \in 1..1 : QueryStart[n] = SpawnStep[t] => \E m \in 1..1 : QueryStop[m] = StopStep[t]
  BY <1>1, <1>2, TaskSteps
<1>6. \A n \in 1..1 : QueryStop[n] = "delete" => \E m \in 1..(n - 1) : QueryStop[m] = StopStep["publish"]
  BY <1>2, <1>3
<1> QED BY <1>1, <1>2, <1>4, <1>5, <1>6 DEF Ordered

\* The order holds for every service, and the two with state to save do save it.
LEMMA AllOrdered == ASSUME NEW k \in Services
                    PROVE  /\ Ordered(StartSteps[k], StopSteps[k])
                           /\ k \in {"logic", "public"} => \E m \in 1..Len(StopSteps[k]) : StopSteps[k][m] \in Saves
<1>1. /\ StartSteps["logic"] = LogicStart /\ StopSteps["logic"] = LogicStop
      /\ StartSteps["gate"] = GateStart /\ StopSteps["gate"] = GateStop
      /\ StartSteps["auth"] = AuthStart /\ StopSteps["auth"] = AuthStop
      /\ StartSteps["public"] = PublicStart /\ StopSteps["public"] = PublicStop
      /\ StartSteps["query"] = QueryStart /\ StopSteps["query"] = QueryStop
  BY DEF StartSteps, StopSteps
<1>2. CASE k = "logic" BY <1>1, <1>2, LogicOrdered
<1>3. CASE k = "gate" BY <1>1, <1>3, GateOrdered
<1>4. CASE k = "auth" BY <1>1, <1>4, AuthOrdered
<1>5. CASE k = "public" BY <1>1, <1>5, PublicOrdered
<1>6. CASE k = "query" BY <1>1, <1>6, QueryOrdered
<1> QED BY <1>2, <1>3, <1>4, <1>5, <1>6 DEF Services

-----------------------------------------------------------------------------
(* The inductive invariant *)


\* The variables' types, with no bound on the step.
LifeTypes ==
    /\ kind \in Services
    /\ pc \in Setup \cup {"start", "running", "drain", "stop", "exit"} \cup Closing
    /\ step \in Nat /\ step >= 1 /\ work \in Nat
    /\ open \subseteq {"log", "redis", "mongo"}
    /\ task \in [Tasks -> {"none", "idle", "busy", "ended"}] /\ stopped \subseteq Tasks
    /\ wire \in Seq(Commands)
    /\ waiting \in BOOLEAN /\ published \in BOOLEAN /\ unsaved \in BOOLEAN /\ deleted \in BOOLEAN
    /\ result \in {"none", "ok", "err"}

\* What may be open at each step of xkk_app::run, and when handlers may work.
Opened ==
    /\ pc \in {"config", "log", "exit"} => open = {}
    /\ pc \in {"registry", "redis", "closeLog"} => open \subseteq {"log"}
    /\ pc \in {"mongo", "closeRedis"} => open \subseteq {"log", "redis"}
    /\ pc \notin {"running", "drain"} => work = 0

\* A task that exists was spawned by a step of the start, earlier in it; a
\* task whose stop step is over has been stopped and has ended.
Spawned ==
    /\ pc \in Setup => \A t \in Tasks : task[t] = "none"
    /\ \A t \in Tasks : task[t] # "none" => 
          \E n \in 1..Len(StartSteps[kind]) : StartSteps[kind][n] = SpawnStep[t] /\ (pc = "start" => n < step)
    /\ pc = "stop" => \A t \in Tasks : \A m \in 1..Len(StopSteps[kind]) :
          StopSteps[kind][m] = StopStep[t] /\ m < step => t \in stopped /\ Joined(t)
    /\ pc \in Closing \cup {"exit"} => \A t \in Tasks : Joined(t)

\* The step of the start or of the shutdown is one that awaits Redis.
AtAwait ==
    \/ pc = "start" /\ step <= Len(StartSteps[kind]) /\ StartSteps[kind][step] \in {"publish", "load"}
    \/ pc = "stop" /\ step <= Len(StopSteps[kind]) /\ StopSteps[kind][step] = "delete"

\* At most one command on the wire has the process itself waiting for it, and
\* then the process is at the step that sent it.
MainWaits ==
    \A i \in 1..Len(wire) : wire[i].from = "main" =>
        waiting /\ AtAwait /\ \A j \in 1..Len(wire) : wire[j].from = "main" => j = i

\* From the sending of the HDEL on, nothing publishes.
Gone ==
    /\ (deleted \/ \E i \in 1..Len(wire) : wire[i].op = "delete") =>
          pc \in {"stop", "exit"} \cup Closing /\ "publish" \in stopped
    /\ \A i, j \in 1..Len(wire) : wire[i].op = "delete" /\ wire[j].op = "publish" => j < i
    /\ deleted => ~published /\ \A j \in 1..Len(wire) : wire[j].op # "publish"

\* A save step that is over without an error has taken up what was unsaved.
Saved ==
    /\ kind \notin {"logic", "public"} => ~unsaved
    /\ pc = "stop" /\ result # "err" =>
          \A m \in 1..Len(StopSteps[kind]) : StopSteps[kind][m] \in Saves /\ m < step => ~unsaved
    /\ pc \in {"exit"} \cup Closing /\ result # "err" => ~unsaved
    /\ result = "ok" => pc = "exit"

LifeInv == LifeTypes /\ Opened /\ Spawned /\ MainWaits /\ Gone /\ Saved

-----------------------------------------------------------------------------
(* The steps outside Application::start and Application::shutdown *)

\* The invariant holds when run begins.
LEMMA InitLife == Init => LifeInv
<1> SUFFICES ASSUME Init PROVE LifeInv OBVIOUS
<1>1. LifeTypes
  <2>1. kind \in Services BY LifecycleConfig DEF LifecycleConfig, Init
  <2>2. waiting \in BOOLEAN /\ published \in BOOLEAN /\ unsaved \in BOOLEAN /\ deleted \in BOOLEAN BY DEF Init
  <2> QED BY <2>1, <2>2 DEF Init, LifeTypes, Setup, Tasks
<1>2. Opened /\ Spawned BY DEF Init, Opened, Spawned, Setup, Closing
<1>3. MainWaits /\ Gone /\ Saved BY DEF Init, MainWaits, Gone, Saved
<1> QED BY <1>1, <1>2, <1>3 DEF LifeInv

\* ... is kept up to the service future, ...
LEMMA BeginLife == ASSUME LifeInv, Begin PROVE LifeInv'
<1> USE DEF LifeInv, Begin, ReadConfig, InitLog, InitRegistry, ConnectRedis, ConnectMongo, Prepare, Goto, clients, LifeTypes
<1>1. LifeTypes' BY DEF Setup, Closing
<1>2. Opened' BY DEF Opened
<1>3. Spawned' BY DEF Spawned, Setup, Closing, Joined
<1>4. MainWaits' BY DEF MainWaits, AtAwait
<1>5. Gone' BY DEF Gone, Closing
<1>6. Saved' BY DEF Saved, Closing
<1> QED BY <1>1, <1>2, <1>3, <1>4, <1>5, <1>6

\* ... and by Resources::close.
LEMMA CloseLife == ASSUME LifeInv, Close PROVE LifeInv'
<1> USE DEF LifeInv, Close, CloseMongo, CloseRedis, CloseLog, Goto, clients, LifeTypes
<1>1. LifeTypes' BY DEF Setup, Closing
<1>2. Opened' BY DEF Opened
<1>3. Spawned' BY DEF Spawned, Setup, Closing, Joined
<1>4. MainWaits' BY DEF MainWaits, AtAwait
<1>5. Gone' BY DEF Gone, Closing
<1>6. Saved' BY DEF Saved, Closing
<1> QED BY <1>1, <1>2, <1>3, <1>4, <1>5, <1>6

\* The changes of a handler wait for a save only in Logic and Public.
LEMMA HandlerLife == ASSUME LifeInv, HandlerEnds PROVE LifeInv'
<1> USE DEF LifeInv
<1>1. /\ UNCHANGED <<kind, pc, step, waiting, open, task, stopped, clients, result>>
      /\ work > 0 /\ work' = work - 1
  BY DEF HandlerEnds
<1>2. unsaved' \in BOOLEAN /\ (kind \notin {"logic", "public"} => unsaved' = unsaved)
  BY DEF HandlerEnds, LifeTypes
<1>3. pc \in {"running", "drain"} BY <1>1 DEF Opened, LifeTypes
<1>4. LifeTypes' BY <1>1, <1>2 DEF LifeTypes, clients
<1>5. Opened' BY <1>1, <1>3 DEF Opened
<1>6. Spawned' BY <1>1 DEF Spawned, Setup, Closing, Joined
<1>7. MainWaits' BY <1>1 DEF MainWaits, AtAwait, clients
<1>8. Gone' BY <1>1 DEF Gone, Closing, clients
<1>9. Saved' BY <1>1, <1>2, <1>3 DEF Saved, Closing, LifeTypes
<1> QED BY <1>4, <1>5, <1>6, <1>7, <1>8, <1>9

\* Handlers begin only while the service runs; the frame drains them.
LEMMA FrameLife == ASSUME LifeInv, HandlerBegins \/ StopFrame \/ Drained PROVE LifeInv'
<1> USE DEF LifeInv, HandlerBegins, StopFrame, Drained, Goto, clients, LifeTypes
<1>1. LifeTypes'
  <2>1. UNCHANGED <<kind, waiting, open, task, stopped, clients, unsaved>> OBVIOUS
  <2>2. pc' \in {pc, "drain", "stop"} /\ step' \in {step, 1} /\ result' \in {result, "none", "err"} /\ work' \in {work, work + 1}
    OBVIOUS
  <2> QED BY <2>1, <2>2
<1>2. Opened' BY DEF Opened
<1>3. Spawned' BY DEF Spawned, Setup, Closing, Joined
<1>4. MainWaits' BY DEF MainWaits, AtAwait
<1>5. Gone' BY DEF Gone, Closing
<1>6. Saved' BY DEF Saved, Closing
<1> QED BY <1>1, <1>2, <1>3, <1>4, <1>5, <1>6

-----------------------------------------------------------------------------
(* The background tasks *)

\* Tasks that save, or end.
LEMMA TaskLife == ASSUME LifeInv, SaveTick \/ FlushEnds \/ \E t \in Tasks : TaskEnds(t) PROVE LifeInv'
<1> USE DEF LifeInv, SaveTick, Ticks, TakesTick, FlushEnds, TaskEnds, clients, LifeTypes
<1>1. LifeTypes' OBVIOUS
<1>2. Opened' BY DEF Opened
<1>3. Spawned' BY DEF Spawned, Setup, Closing, Joined
<1>4. MainWaits' BY DEF MainWaits, AtAwait
<1>5. Gone' BY DEF Gone, Closing
<1>6. Saved' BY DEF Saved, Closing
<1> QED BY <1>1, <1>2, <1>3, <1>4, <1>5, <1>6

\* A command that is sent is the last one on the wire.
LEMMA SentTypes == ASSUME NEW w \in Seq(Commands), NEW op \in {"publish", "load", "delete"},
                          NEW from \in Tasks \cup {"main", "nobody"},
                          NEW x, x = Append(w, [op |-> op, from |-> from])
                   PROVE  /\ x \in Seq(Commands) /\ Len(x) = Len(w) + 1 /\ Len(w) \in Nat
                          /\ x[Len(x)].op = op /\ x[Len(x)].from = from
                          /\ \A i \in 1..Len(w) : x[i] = w[i]
<1>1. [op |-> op, from |-> from] \in Commands BY DEF Commands
<1> QED BY <1>1

\* Tasks that send: the publishing one not after it was stopped.
LEMMA TickLife == ASSUME LifeInv, PublishTick \/ RefreshTick PROVE LifeInv'
<1> USE DEF LifeInv, LifeTypes
<1>1. PICK op, from : /\ \/ op = "publish" /\ from = "publish"
                         \/ op = "load" /\ from = "refresh"
                      /\ Ticks(from) /\ Send(op, from)
                      /\ UNCHANGED <<kind, pc, step, waiting, open, work, stopped, unsaved, result>>
  BY DEF PublishTick, RefreshTick
<1>2. /\ wire' \in Seq(Commands) /\ Len(wire') = Len(wire) + 1 /\ Len(wire) \in Nat
      /\ wire'[Len(wire')].op = op /\ wire'[Len(wire')].from = from
      /\ \A i \in 1..Len(wire) : wire'[i] = wire[i]
  <2>1. op \in {"publish", "load", "delete"} /\ from \in Tasks \cup {"main", "nobody"} BY <1>1 DEF Tasks
  <2>2. wire' = Append(wire, [op |-> op, from |-> from]) BY <1>1 DEF Send
  <2> HIDE DEF LifeInv
  <2>3. wire \in Seq(Commands) BY DEF LifeInv
  <2> QED BY ONLY <2>1, <2>2, <2>3, SentTypes
<1>3. LifeTypes' BY <1>1, <1>2 DEF Ticks, Send, Tasks
<1>4. Opened' BY <1>1 DEF Opened
<1>5. Spawned' BY <1>1 DEF Spawned, Setup, Closing, Joined, Ticks, Tasks
<1>6. MainWaits' BY <1>1, <1>2 DEF MainWaits, AtAwait
<1>7. Gone' BY <1>1, <1>2 DEF Gone, Closing, Ticks, TakesTick, Send
<1>8. Saved' BY <1>1 DEF Saved, Closing
<1> QED BY <1>3, <1>4, <1>5, <1>6, <1>7, <1>8

-----------------------------------------------------------------------------
(* Application::start *)

\* At a step of the start that can fail no task has been spawned yet.
LEMMA NothingRuns == ASSUME LifeInv, Starting(MayFail)
                     PROVE  \A t \in Tasks : task[t] = "none"
<1> SUFFICES ASSUME NEW t \in Tasks, task[t] # "none" PROVE FALSE OBVIOUS
<1>1. PICK n \in 1..Len(StartSteps[kind]) : StartSteps[kind][n] = SpawnStep[t] /\ n < step
  BY DEF LifeInv, Spawned, Starting
<1>2. Ordered(StartSteps[kind], StopSteps[kind]) BY AllOrdered DEF LifeInv, LifeTypes
<1>3. step \in 1..Len(StartSteps[kind]) BY <1>2 DEF LifeInv, LifeTypes, Starting, Ordered
<1> QED BY <1>1, <1>2, <1>3 DEF Ordered, Starting

\* A start that fails there leaves nothing behind but what is open.
LEMMA FailedLife == ASSUME LifeInv, Starting(MayFail), StartFails,
                           UNCHANGED <<kind, open, work, stopped, unsaved, published, deleted>>,
                           \A t \in Tasks : task'[t] = "none", task' \in [Tasks -> {"none", "idle", "busy", "ended"}],
                           waiting' \in BOOLEAN
                    PROVE  Opened' /\ Spawned' /\ Saved' /\ pc' \notin {"start", "stop"} /\ result' \in {"none", "ok", "err"}
                           /\ pc' \in Setup \cup {"start", "running", "drain", "stop", "exit"} \cup Closing
                           /\ step' \in Nat /\ step' >= 1
<1> USE DEF LifeInv, LifeTypes, Starting, StartFails
<1>1. Opened' BY DEF Opened
<1>2. Spawned' BY DEF Spawned, Setup, Closing, Joined
<1>3. Saved' BY DEF Saved, Closing
<1> QED BY <1>1, <1>2, <1>3 DEF Closing

\* frame.watch goes on, or fails before there is a task.
LEMMA WatchLife == ASSUME LifeInv, Watch PROVE LifeInv'
<1> USE DEF LifeInv
<1>1. Starting({"watch"}) /\ Starting(MayFail) BY DEF Watch, Starting, MayFail
<1>2. ~AtAwait BY <1>1 DEF AtAwait, Starting
<1>3. MainWaits' BY <1>2 DEF MainWaits, Watch, clients
<1>4. Gone' BY <1>1 DEF Gone, Watch, clients, Starting, Closing
<1>5. CASE StartFails
  <2>1. \A t \in Tasks : task[t] = "none" BY <1>1, NothingRuns
  <2>2. UNCHANGED <<kind, waiting, open, work, task, stopped, clients, unsaved>> BY DEF Watch
  <2>3. Opened' /\ Spawned' /\ Saved' /\ pc' \notin {"start", "stop"} /\ result' \in {"none", "ok", "err"}
        /\ pc' \in Setup \cup {"start", "running", "drain", "stop", "exit"} \cup Closing
        /\ step' \in Nat /\ step' >= 1
    BY <1>1, <1>5, <2>1, <2>2, FailedLife DEF clients, LifeTypes
  <2>4. LifeTypes' BY <2>2, <2>3 DEF LifeTypes, clients
  <2> QED BY <1>3, <1>4, <2>3, <2>4
<1>6. CASE step' = step + 1 /\ UNCHANGED <<pc, result>>
  <2> USE <1>6 DEF Watch, clients, LifeTypes
  <2>1. LifeTypes' OBVIOUS
  <2>2. Opened' BY DEF Opened
  <2>3. Spawned' BY <1>1 DEF Spawned, Starting, Setup, Closing, Joined
  <2>4. Saved' BY <1>1 DEF Saved, Starting, Closing
  <2> QED BY <1>3, <1>4, <2>1, <2>2, <2>3, <2>4
<1> QED BY <1>5, <1>6 DEF Watch

\* A task is spawned by its own step.
LEMMA SpawnLife == ASSUME LifeInv, NEW t \in Tasks, Spawn(t) PROVE LifeInv'
<1> USE DEF LifeInv
<1>1. pc = "start" /\ step \in 1..Len(StartSteps[kind]) /\ StartSteps[kind][step] = SpawnStep[t]
  BY AllOrdered DEF Spawn, Starting, LifeTypes, Ordered
<1>2. ~AtAwait BY <1>1, TaskSteps DEF AtAwait
<1> USE DEF Spawn, clients, LifeTypes
<1>3. LifeTypes' OBVIOUS
<1>4. Opened' BY DEF Opened
<1>5. Spawned' BY <1>1 DEF Spawned, Setup, Closing, Joined
<1>6. MainWaits' BY <1>2 DEF MainWaits
<1>7. Gone' BY <1>1 DEF Gone, Closing
<1>8. Saved' BY <1>1 DEF Saved, Closing
<1> QED BY <1>3, <1>4, <1>5, <1>6, <1>7, <1>8

\* The start awaits one command at a time.
LEMMA StartSendLife == ASSUME LifeInv, StartSend PROVE LifeInv'
<1> USE DEF LifeInv
<1>1. pc = "start" /\ AtAwait /\ UNCHANGED AtAwait BY DEF StartSend, Starting, AtAwait
<1>2. PICK op : op = StartSteps[kind][step] /\ op \in {"publish", "load"} BY DEF StartSend, Starting
<1>3. /\ wire' \in Seq(Commands) /\ Len(wire') = Len(wire) + 1 /\ Len(wire) \in Nat
      /\ wire'[Len(wire')].op = op /\ wire'[Len(wire')].from = "main"
      /\ \A i \in 1..Len(wire) : wire'[i] = wire[i]
  <2>1. op \in {"publish", "load", "delete"} /\ "main" \in Tasks \cup {"main", "nobody"} BY <1>2
  <2>2. wire' = Append(wire, [op |-> op, from |-> "main"]) BY <1>2 DEF StartSend, Send
  <2>3. wire \in Seq(Commands) BY DEF LifeTypes
  <2> QED BY ONLY <2>1, <2>2, <2>3, SentTypes
<1>4. /\ UNCHANGED <<kind, pc, step, open, work, task, stopped, unsaved, result, published, deleted>>
      /\ waiting' = TRUE /\ ~waiting
  BY DEF StartSend, Send
<1>5. LifeTypes' BY <1>3, <1>4 DEF LifeTypes
<1>6. Opened' BY <1>4 DEF Opened
<1>7. Spawned' BY <1>4 DEF Spawned, Setup, Closing, Joined
<1>8. MainWaits' BY <1>1, <1>3, <1>4 DEF MainWaits
<1>9. Gone' BY <1>1, <1>2, <1>3, <1>4 DEF Gone, Closing
<1>10. Saved' BY <1>4 DEF Saved, Closing
<1> QED BY <1>5, <1>6, <1>7, <1>8, <1>9, <1>10

\* All steps of the start are over.
LEMMA StartedLife == ASSUME LifeInv, Started PROVE LifeInv'
<1> USE DEF LifeInv, Started, Goto, LifeTypes, clients
<1>1. ~AtAwait BY AllOrdered DEF AtAwait, Ordered
<1>2. LifeTypes' OBVIOUS
<1>3. Opened' BY DEF Opened
<1>4. Spawned' BY DEF Spawned, Setup, Closing, Joined
<1>5. MainWaits' BY <1>1 DEF MainWaits
<1>6. Gone' BY DEF Gone, Closing
<1>7. Saved' BY DEF Saved, Closing
<1> QED BY <1>2, <1>3, <1>4, <1>5, <1>6, <1>7

-----------------------------------------------------------------------------
(* Application::shutdown *)

\* The step counter is an index of the steps of the shutdown.
LEMMA StopIndex == ASSUME LifeInv, NEW op, Stopping(op)
                   PROVE  /\ pc = "stop" /\ step \in 1..Len(StopSteps[kind]) /\ StopSteps[kind][step] = op
                          /\ Len(StopSteps[kind]) \in Nat
BY AllOrdered DEF Stopping, LifeInv, LifeTypes, Ordered

\* stop_task: the signal, ...
LEMMA StopTaskLife == ASSUME LifeInv, NEW t \in Tasks, StopTask(t) PROVE LifeInv'
<1> USE DEF LifeInv, StopTask, LifeTypes, clients
<1>1. LifeTypes' OBVIOUS
<1>2. Opened' BY DEF Opened
<1>3. Spawned' BY DEF Spawned, Setup, Closing, Joined
<1>4. MainWaits' BY DEF MainWaits, AtAwait
<1>5. Gone' BY DEF Gone, Closing
<1>6. Saved' BY DEF Saved, Closing
<1> QED BY <1>1, <1>2, <1>3, <1>4, <1>5, <1>6

\* ... and the join.
LEMMA JoinTaskLife == ASSUME LifeInv, NEW t \in Tasks, JoinTask(t) PROVE LifeInv'
<1> USE DEF LifeInv
<1>1. pc = "stop" /\ step \in 1..Len(StopSteps[kind]) /\ StopSteps[kind][step] = StopStep[t]
  BY StopIndex DEF JoinTask
<1>2. StopSteps[kind][step] \notin {"delete", "runtime", "flush"} BY <1>1, TaskSteps
<1>3. ~AtAwait BY <1>1, <1>2 DEF AtAwait
<1>4. \A u \in Tasks : StopStep[u] = StopStep[t] => u = t BY TaskSteps
<1> USE DEF JoinTask, Advance, clients, LifeTypes
<1>5. LifeTypes' OBVIOUS
<1>6. Opened' BY DEF Opened
<1>7. Spawned' BY <1>1, <1>4 DEF Spawned, Setup, Closing, Joined
<1>8. MainWaits' BY <1>3 DEF MainWaits
<1>9. Gone' BY <1>1 DEF Gone, Closing
<1>10. Saved' BY <1>1, <1>2 DEF Saved, Saves, Closing
<1> QED BY <1>5, <1>6, <1>7, <1>8, <1>9, <1>10

\* The HDEL is sent when the publishing task has been joined.
LEMMA DeleteSendLife == ASSUME LifeInv, DeleteSend PROVE LifeInv'
<1> USE DEF LifeInv
<1>1. pc = "stop" /\ step \in 1..Len(StopSteps[kind]) /\ StopSteps[kind][step] = "delete"
  BY StopIndex DEF DeleteSend
<1>2. AtAwait /\ UNCHANGED AtAwait BY <1>1 DEF AtAwait, DeleteSend
<1>3. "publish" \in stopped
  <2>1. PICK m \in 1..(step - 1) : StopSteps[kind][m] = StopStep["publish"]
    BY <1>1, AllOrdered DEF Ordered, LifeTypes
  <2>2. m \in 1..Len(StopSteps[kind]) /\ m < step BY <1>1, AllOrdered DEF Ordered, LifeTypes
  <2> QED BY <1>1, <2>1, <2>2 DEF Spawned, Tasks
<1>4. /\ wire' \in Seq(Commands) /\ Len(wire') = Len(wire) + 1 /\ Len(wire) \in Nat
      /\ wire'[Len(wire')].op = "delete" /\ wire'[Len(wire')].from = "main"
      /\ \A i \in 1..Len(wire) : wire'[i] = wire[i]
  <2>1. "delete" \in {"publish", "load", "delete"} /\ "main" \in Tasks \cup {"main", "nobody"} OBVIOUS
  <2>2. wire' = Append(wire, [op |-> "delete", from |-> "main"]) BY DEF DeleteSend, Send
  <2>3. wire \in Seq(Commands) BY DEF LifeTypes
  <2> QED BY ONLY <2>1, <2>2, <2>3, SentTypes
<1>5. /\ UNCHANGED <<kind, pc, step, open, work, task, stopped, unsaved, result, published, deleted>>
      /\ waiting' = TRUE /\ ~waiting
  BY DEF DeleteSend, Send
<1>6. LifeTypes' BY <1>4, <1>5 DEF LifeTypes
<1>7. Opened' BY <1>5 DEF Opened
<1>8. Spawned' BY <1>5 DEF Spawned, Setup, Closing, Joined
<1>9. MainWaits' BY <1>2, <1>4, <1>5 DEF MainWaits
<1>10. Gone' BY SMTT(30), <1>1, <1>3, <1>4, <1>5 DEF Gone, Closing
<1>11. Saved' BY <1>5 DEF Saved, Closing
<1> QED BY <1>6, <1>7, <1>8, <1>9, <1>10, <1>11

\* The steps that save, and that of the Gateway.
LEMMA SaveStepLife == ASSUME LifeInv, ShutdownRuntime \/ FinalFlush \/ ShutdownGateway PROVE LifeInv'
<1> USE DEF LifeInv
<1>1. PICK op : Stopping(op) /\ op \in {"runtime", "flush", "gateway"} /\ (op \in Saves => unsaved' = FALSE \/ result' = "err")
  BY DEF ShutdownRuntime, FinalFlush, ShutdownGateway, Saves, RuntimeError
<1>2. pc = "stop" /\ step \in 1..Len(StopSteps[kind]) /\ StopSteps[kind][step] = op BY <1>1, StopIndex
<1>3. ~AtAwait BY <1>1, <1>2 DEF AtAwait
<1>4. \A t \in Tasks : StopStep[t] # op BY <1>1, TaskSteps
<1>5. /\ Advance /\ UNCHANGED <<kind, waiting, open, work, task, stopped, clients>>
      /\ unsaved' = FALSE \/ unsaved' = unsaved
      /\ result' = result \/ result' = "err"
  BY DEF ShutdownRuntime, FinalFlush, ShutdownGateway, RuntimeError
<1>6. LifeTypes'
  <2>1. unsaved' \in BOOLEAN BY <1>5 DEF LifeTypes
  <2> QED BY <1>5, <2>1 DEF LifeTypes, clients, Advance
<1>7. Opened' BY <1>5 DEF Opened, Advance
<1>8. Spawned' BY <1>2, <1>4, <1>5 DEF Spawned, Setup, Closing, Joined, Advance, LifeTypes
<1>9. MainWaits' BY <1>3, <1>5 DEF MainWaits, clients
<1>10. Gone' BY <1>2, <1>5 DEF Gone, Closing, Advance, clients
<1>11. Saved' BY <1>1, <1>2, <1>5 DEF Saved, Closing, Advance, LifeTypes
<1> QED BY <1>6, <1>7, <1>8, <1>9, <1>10, <1>11

\* When the shutdown is over every task has been stopped and everything saved.
LEMMA ServiceEndsLife == ASSUME LifeInv, ServiceEnds PROVE LifeInv'
<1> USE DEF LifeInv
<1>1. pc = "stop" /\ pc' = "closeMongo" /\ step > Len(StopSteps[kind])
      /\ UNCHANGED <<kind, step, waiting, open, work, task, stopped, clients, unsaved, result>>
  BY DEF ServiceEnds, Goto
<1>2. Ordered(StartSteps[kind], StopSteps[kind]) BY AllOrdered DEF LifeTypes
<1>3. kind \in {"logic", "public"} => \E m \in 1..Len(StopSteps[kind]) : StopSteps[kind][m] \in Saves
  BY AllOrdered DEF LifeTypes
<1>4. \A m \in 1..Len(StopSteps[kind]) : m < step BY <1>1, <1>2 DEF Ordered, LifeTypes
<1>5. \A t \in Tasks : Joined(t)
  <2> SUFFICES ASSUME NEW t \in Tasks, task[t] # "none" PROVE Joined(t) BY DEF Joined
  <2>1. PICK n \in 1..Len(StartSteps[kind]) : StartSteps[kind][n] = SpawnStep[t] BY DEF Spawned
  <2>2. PICK m \in 1..Len(StopSteps[kind]) : StopSteps[kind][m] = StopStep[t] BY <1>2, <2>1 DEF Ordered
  <2> QED BY <1>1, <1>4, <2>2 DEF Spawned
<1>6. result # "err" => ~unsaved BY <1>1, <1>3, <1>4 DEF Saved
<1>7. ~AtAwait BY <1>1, <1>2 DEF AtAwait, Ordered, LifeTypes
<1>8. LifeTypes' BY <1>1 DEF LifeTypes, clients, Closing
<1>9. Opened' BY <1>1 DEF Opened
<1>10. Spawned' BY <1>1, <1>5 DEF Spawned, Setup, Closing, Joined
<1>11. MainWaits' BY <1>1, <1>7 DEF MainWaits, clients
<1>12. Gone' BY <1>1 DEF Gone, clients, Closing
<1>13. Saved' BY <1>1, <1>6 DEF Saved
<1> QED BY <1>8, <1>9, <1>10, <1>11, <1>12, <1>13

-----------------------------------------------------------------------------
(* Redis *)

\* What an answer to the sender f does: nothing beyond the end of a task's wait,
\* or, when the process itself waits, the next step or a failed start.
LEMMA AnswerLife == ASSUME LifeInv, NEW f \in Tasks \cup {"main", "nobody"}, NEW ok \in BOOLEAN, Answer(f, ok),
                           f = "main" => AtAwait,
                           UNCHANGED <<kind, open, work, stopped, unsaved>>
                    PROVE  /\ Opened' /\ Spawned' /\ Saved'
                           /\ waiting' \in BOOLEAN /\ result' \in {"none", "ok", "err"}
                           /\ pc' \in Setup \cup {"start", "running", "drain", "stop", "exit"} \cup Closing
                           /\ step' \in Nat /\ step' >= 1
                           /\ task' \in [Tasks -> {"none", "idle", "busy", "ended"}]
                           /\ f # "main" => UNCHANGED <<pc, step, waiting>>
                           /\ pc \in {"stop", "exit"} \cup Closing => pc' = pc
<1> USE DEF LifeInv
<1>1. waiting' \in BOOLEAN /\ (f # "main" => waiting' = waiting) BY DEF Answer, LifeTypes
<1>2. /\ task' \in [Tasks -> {"none", "idle", "busy", "ended"}]
      /\ \A t \in Tasks : task'[t] = task[t] \/ (task[t] = "busy" /\ task'[t] = "idle")
  BY DEF Answer, LifeTypes
<1>3. CASE f # "main"
  <2>1. UNCHANGED <<kind, open, work, stopped, unsaved, pc, step, result>> BY <1>3 DEF Answer, Awaited
  <2>2. Opened' /\ Saved' BY <2>1 DEF Opened, Saved
  <2>3. Spawned' BY <1>2, <2>1 DEF Spawned, Joined
  <2> QED BY <1>1, <1>2, <1>3, <2>1, <2>2, <2>3 DEF LifeTypes
<1>4. CASE f = "main" /\ pc = "start" /\ StartFails
  <2>1. Starting(MayFail) BY <1>4 DEF AtAwait, Starting, MayFail
  <2>2. \A t \in Tasks : task'[t] = "none" BY <1>2, <2>1, NothingRuns
  <2>3. Opened' BY <1>4 DEF Opened, StartFails
  <2>4. Spawned' BY <1>4, <2>2 DEF Spawned, StartFails, Setup, Closing, Joined
  <2>5. Saved' BY <1>4 DEF Saved, StartFails, Closing
  <2>6. pc \notin {"stop", "exit"} \cup Closing BY <1>4 DEF Closing
  <2> QED BY <1>1, <1>2, <1>4, <2>3, <2>4, <2>5, <2>6 DEF StartFails, Closing
<1>5. CASE f = "main" /\ Advance /\ UNCHANGED result
  <2>1. AtAwait BY <1>5
  <2>2. pc = "start" \/ (pc = "stop" /\ step <= Len(StopSteps[kind]) /\ StopSteps[kind][step] = "delete") BY <2>1 DEF AtAwait
  <2>3. \A t \in Tasks : StopStep[t] # "delete" BY TaskSteps
  <2>4. Opened' BY <1>5 DEF Opened, Advance
  <2>5. Spawned' BY <1>2, <1>5, <2>2, <2>3 DEF Spawned, Advance, Setup, Closing, Joined, LifeTypes
  <2>6. Saved' BY <1>5, <2>2 DEF Saved, Saves, Advance, Closing, LifeTypes
  <2> QED BY <1>1, <1>2, <1>5, <2>4, <2>5, <2>6 DEF Advance, LifeTypes
<1> QED BY <1>3, <1>4, <1>5 DEF Answer, Awaited

\* The command at the head leaves the wire.
LEMMA TailOf == ASSUME NEW w \in Seq(Commands), w # <<>>, NEW x, x = Tail(w)
                PROVE  /\ x \in Seq(Commands) /\ Len(x) = Len(w) - 1 /\ Len(w) \in Nat /\ 1 \in 1..Len(w)
                       /\ Head(w) = w[1] /\ w[1] \in Commands
                       /\ \A i \in 1..Len(x) : i + 1 \in 1..Len(w) /\ x[i] = w[i + 1]
OBVIOUS

\* Redis executes the oldest command, or it is lost on the way.
LEMMA ServesLife == ASSUME LifeInv, RedisServes \/ RedisLoses PROVE LifeInv'
<1> USE DEF LifeInv
<1>1. wire \in Seq(Commands) /\ wire # <<>> /\ wire' = Tail(wire) BY DEF RedisServes, RedisLoses, LifeTypes
<1>2. /\ wire' \in Seq(Commands) /\ Len(wire') = Len(wire) - 1 /\ Len(wire) \in Nat /\ 1 \in 1..Len(wire)
      /\ Head(wire) = wire[1] /\ wire[1] \in Commands
      /\ \A i \in 1..Len(wire') : i + 1 \in 1..Len(wire) /\ wire'[i] = wire[i + 1]
  BY ONLY <1>1, TailOf
<1>3. PICK f, op : f = wire[1].from /\ op = wire[1].op OBVIOUS
<1>4. f \in Tasks \cup {"main", "nobody"} /\ op \in {"publish", "load", "delete"} BY <1>2, <1>3 DEF Commands
<1>5. PICK ok \in BOOLEAN : Answer(f, ok) BY <1>2, <1>3 DEF RedisServes, RedisLoses
<1>6. UNCHANGED <<kind, open, work, stopped, unsaved>> BY DEF RedisServes, RedisLoses
<1>7. f = "main" => AtAwait BY <1>2, <1>3 DEF MainWaits
<1>8. /\ Opened' /\ Spawned' /\ Saved'
      /\ waiting' \in BOOLEAN /\ result' \in {"none", "ok", "err"}
      /\ pc' \in Setup \cup {"start", "running", "drain", "stop", "exit"} \cup Closing
      /\ step' \in Nat /\ step' >= 1
      /\ task' \in [Tasks -> {"none", "idle", "busy", "ended"}]
      /\ f # "main" => UNCHANGED <<pc, step, waiting>>
      /\ pc \in {"stop", "exit"} \cup Closing => pc' = pc
  BY <1>4, <1>5, <1>6, <1>7, AnswerLife
<1>9. \/ published' = (op = "publish" \/ (published /\ op # "delete")) /\ deleted' = (deleted \/ op = "delete")
      \/ published' = published /\ deleted' = deleted
  BY <1>2, <1>3 DEF RedisServes, RedisLoses, Executed
<1>10. published' \in BOOLEAN /\ deleted' \in BOOLEAN BY <1>9 DEF LifeTypes
<1>11. LifeTypes' BY <1>2, <1>6, <1>8, <1>10 DEF LifeTypes
<1>12. MainWaits'
  <2>1. CASE f = "main"
    <3>1. ASSUME NEW j \in 1..Len(wire'), wire'[j].from = "main" PROVE FALSE
      <4>1. j + 1 \in 1..Len(wire) /\ wire[j + 1].from = "main" BY <1>2, <3>1
      <4>2. j + 1 = 1 BY <1>2, <1>3, <2>1, <4>1 DEF MainWaits
      <4> QED BY <3>1, <4>2
    <3> QED BY <3>1 DEF MainWaits
  <2>2. CASE f # "main"
    <3>1. AtAwait' = AtAwait BY <1>6, <1>8, <2>2 DEF AtAwait
    <3> QED BY SMTT(30), <1>2, <1>8, <2>2, <3>1 DEF MainWaits
  <2> QED BY <2>1, <2>2
<1>13. Gone'
  <2>1. \A i, j \in 1..Len(wire') : wire'[i].op = "delete" /\ wire'[j].op = "publish" => j < i
    <3> SUFFICES ASSUME NEW i \in 1..Len(wire'), NEW j \in 1..Len(wire'), wire'[i].op = "delete", wire'[j].op = "publish"
                 PROVE  j < i
      OBVIOUS
    <3>1. /\ i + 1 \in 1..Len(wire) /\ wire[i + 1].op = "delete"
          /\ j + 1 \in 1..Len(wire) /\ wire[j + 1].op = "publish"
      BY <1>2
    <3>2. j + 1 < i + 1 BY <3>1 DEF Gone
    <3> QED BY <3>2
  <2>2. deleted' => deleted \/ op = "delete" BY <1>9
  <2>3. deleted' => \A j \in 1..Len(wire') : wire'[j].op # "publish"
    <3>1. CASE deleted BY <1>2, <3>1 DEF Gone
    <3>2. CASE op = "delete"
      <4>1. ASSUME NEW j \in 1..Len(wire'), wire'[j].op = "publish" PROVE FALSE
        <5>1. j + 1 \in 1..Len(wire) /\ wire[j + 1].op = "publish" BY <1>2, <4>1
        <5>2. j + 1 < 1 BY <1>2, <1>3, <3>2, <5>1 DEF Gone
        <5> QED BY <4>1, <5>2
      <4> QED BY <4>1
    <3> QED BY <2>2, <3>1, <3>2
  <2>4. deleted' => ~published'
    <3>1. CASE deleted
      <4>1. ~published /\ op # "publish" BY <1>2, <1>3, <3>1 DEF Gone
      <4> QED BY <1>9, <4>1
    <3>2. CASE ~deleted BY <1>9, <3>2
    <3> QED BY <3>1, <3>2
  <2>5. (deleted' \/ \E i \in 1..Len(wire') : wire'[i].op = "delete") =>
           (deleted \/ \E i \in 1..Len(wire) : wire[i].op = "delete")
    BY <1>2, <1>3, <2>2
  <2>6. (deleted' \/ \E i \in 1..Len(wire') : wire'[i].op = "delete") =>
           pc' \in {"stop", "exit"} \cup Closing /\ "publish" \in stopped'
    BY <1>6, <1>8, <2>5 DEF Gone
  <2> QED BY <2>1, <2>3, <2>4, <2>6 DEF Gone
<1> QED BY <1>8, <1>11, <1>12, <1>13

\* A sender stops waiting; its command stays where it is.
LEMMA TimesOutLife == ASSUME LifeInv, NEW i \in DOMAIN wire, RedisTimesOut(i) PROVE LifeInv'
<1> USE DEF LifeInv
<1>1. wire \in Seq(Commands) /\ i \in 1..Len(wire) /\ Len(wire) \in Nat /\ wire[i] \in Commands BY DEF LifeTypes
<1>2. PICK f : f = wire[i].from OBVIOUS
<1>3. f \in Tasks \cup {"main", "nobody"} BY <1>1, <1>2 DEF Commands
<1>4. /\ wire' \in Seq(Commands) /\ Len(wire') = Len(wire)
      /\ \A j \in 1..Len(wire) : wire'[j].op = wire[j].op /\ wire'[j].from = IF j = i THEN "nobody" ELSE wire[j].from
  <2>1. PICK c : c = [wire[i] EXCEPT !.from = "nobody"] OBVIOUS
  <2>2. c \in Commands /\ c.op = wire[i].op /\ c.from = "nobody" BY <1>1, <2>1 DEF Commands
  <2>3. wire' = [wire EXCEPT ![i] = c] BY <2>1 DEF RedisTimesOut
  <2> QED BY <1>1, <2>2, <2>3
<1>5. Answer(f, FALSE) BY <1>2 DEF RedisTimesOut
<1>6. UNCHANGED <<kind, open, work, stopped, published, deleted, unsaved>> BY DEF RedisTimesOut
<1>7. f = "main" => AtAwait BY <1>1, <1>2 DEF MainWaits
<1>8. /\ Opened' /\ Spawned' /\ Saved'
      /\ waiting' \in BOOLEAN /\ result' \in {"none", "ok", "err"}
      /\ pc' \in Setup \cup {"start", "running", "drain", "stop", "exit"} \cup Closing
      /\ step' \in Nat /\ step' >= 1
      /\ task' \in [Tasks -> {"none", "idle", "busy", "ended"}]
      /\ f # "main" => UNCHANGED <<pc, step, waiting>>
      /\ pc \in {"stop", "exit"} \cup Closing => pc' = pc
  <2>1. FALSE \in BOOLEAN OBVIOUS
  <2> QED BY <1>3, <1>5, <1>6, <1>7, <2>1, AnswerLife
<1>9. LifeTypes' BY <1>4, <1>6, <1>8 DEF LifeTypes
<1>10. MainWaits'
  <2>1. CASE f = "main" BY <1>1, <1>2, <1>4, <2>1 DEF MainWaits
  <2>2. CASE f # "main"
    <3>1. AtAwait' = AtAwait BY <1>6, <1>8, <2>2 DEF AtAwait
    <3> QED BY <1>1, <1>4, <1>8, <2>2, <3>1 DEF MainWaits
  <2> QED BY <2>1, <2>2
<1>11. Gone' BY <1>1, <1>4, <1>6, <1>8 DEF Gone
<1> QED BY <1>8, <1>9, <1>10, <1>11

-----------------------------------------------------------------------------
(* The theorems *)

\* A step that changes nothing keeps the invariant.
LEMMA StutterLife == ASSUME LifeInv, UNCHANGED vars PROVE LifeInv'
BY DEF vars, LifeInv, LifeTypes, Opened, Spawned, Joined, MainWaits, AtAwait, Gone, Saved

\* The invariant is inductive.
LEMMA LifeInductive == Spec => []LifeInv
<1>1. Init => LifeInv BY InitLife
<1>2. LifeInv /\ [Next]_vars => LifeInv'
  <2> SUFFICES ASSUME LifeInv, [Next]_vars PROVE LifeInv' OBVIOUS
  <2>1. CASE Begin BY <2>1, BeginLife
  <2>2. CASE Start BY <2>2, WatchLife, StartSendLife, SpawnLife, StartedLife DEF Start
  <2>3. CASE Shutdown
    BY <2>3, StopTaskLife, JoinTaskLife, DeleteSendLife, SaveStepLife, ServiceEndsLife DEF Shutdown
  <2>4. CASE Close BY <2>4, CloseLife
  <2>5. CASE Drained \/ StopFrame \/ HandlerBegins BY <2>5, FrameLife
  <2>6. CASE HandlerEnds BY <2>6, HandlerLife
  <2>7. CASE PublishTick \/ RefreshTick BY <2>7, TickLife
  <2>8. CASE SaveTick \/ FlushEnds \/ \E t \in Tasks : TaskEnds(t) BY <2>8, TaskLife
  <2>9. CASE RedisServes \/ RedisLoses BY <2>9, ServesLife
  <2>10. CASE \E i \in DOMAIN wire : RedisTimesOut(i) BY <2>10, TimesOutLife
  <2>11. CASE UNCHANGED vars BY <2>11, StutterLife
  <2> QED BY <2>1, <2>2, <2>3, <2>4, <2>5, <2>6, <2>7, <2>8, <2>9, <2>10, <2>11 DEF Next, Run
<1> QED BY <1>1, <1>2, PTL DEF Spec

\* For every choice of services and every number of handlers and commands: nothing
\* that uses the shared clients is left when they are closed, however the start or
\* the service ended, and a process that exits has closed what it opened.
THEOREM ClientsOutliveUsers == Spec => []CleanedUp
<1>1. LifeInv => CleanedUp
  BY DEF LifeInv, LifeTypes, Opened, Spawned, Joined, CleanedUp, Alive, Closing
<1> QED BY <1>1, LifeInductive, PTL

\* No publication follows the HDEL of the shutdown, whatever is still on the wire,
\* lost or timed out.
THEOREM DeletedCountStays == Spec => []StaysDeleted
<1>1. LifeInv => StaysDeleted BY DEF LifeInv, Gone, StaysDeleted
<1> QED BY <1>1, LifeInductive, PTL

\* A process that reports success has no change left unsaved and no save under way.
THEOREM SuccessIsSaved == Spec => []SuccessMeansSaved
<1>1. LifeInv => SuccessMeansSaved
  BY DEF LifeInv, Saved, Spawned, Joined, Tasks, SuccessMeansSaved
<1> QED BY <1>1, LifeInductive, PTL
=============================================================================
