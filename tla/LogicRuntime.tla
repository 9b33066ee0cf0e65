---------------------------- MODULE LogicRuntime ----------------------------
(***************************************************************************)
(* The Logic Runtime of service/logic: bounded admission, one mailbox and  *)
(* one runner task per player (gid), a resident cache of player cells, a   *)
(* per-cell save gate, the dirty-player budget, and the shutdown drain.    *)
(*                                                                         *)
(* A call is one try_use / try_use_preloaded.  A runner task is named by   *)
(* the call whose enqueue spawned it, and a player cell (one loaded        *)
(* generation of a player) by the runner that loaded it: a runner keeps    *)
(* the cell it obtained for its whole life, so it loads at most once.      *)
(* A player's data is the set of calls whose mutation it contains.         *)
(*                                                                         *)
(* The cache (crate xlru) is outside the repository.  It may drop a        *)
(* resident value at any moment (TTL or capacity) and then runs the saver  *)
(* on it.  LossyCache tells whether it may also drop a dirty value, or     *)
(* lose a value given to set_i64.                                          *)
(***************************************************************************)
EXTENDS Integers, Sequences, FiniteSets, FiniteSetsExt

CONSTANTS
    Gids,             \* players
    Calls,            \* call identities, each submitted at most once
    Kibs,             \* retained_kib sizes a call may declare
    MaxCalls,         \* LogicConfig::max_inflight_calls
    MaxKib,           \* LogicConfig::max_inflight_kib
    MaxCallsPerGid,   \* LogicConfig::max_calls_per_gid
    MaxKibPerGid,     \* LogicConfig::max_kib_per_gid
    MaxDirty,         \* LogicConfig::max_dirty_players
    LossyCache,       \* may the cache drop a dirty value?
    None,             \* no call, no runner, no cell
    Saver             \* holder of a save gate that is not a runner

ASSUME RuntimeConfig ==
    /\ {MaxCalls, MaxKib, MaxCallsPerGid, MaxKibPerGid, MaxDirty} \subseteq Nat \ {0}
    /\ Kibs \subseteq Nat \ {0}
    /\ LossyCache \in BOOLEAN

ASSUME DistinctNames ==
    /\ None \notin Calls /\ Saver \notin Calls /\ None # Saver

ASSUME FiniteCalls == IsFiniteSet(Calls)

VARIABLES
    calls,        \* Admission.calls without its closed bit
    closed,       \* the ADMISSION_CLOSED bit
    kib,          \* Admission.kib
    slots,        \* gids present in the directory; stats.active_gids = its size
    dirLock,      \* holder of the directory and mailbox locks of a gid
    mailbox,      \* Mailbox.queue
    inflight,     \* Mailbox.inflight_calls
    inflightKib,  \* Mailbox.inflight_kib
    call,         \* progress and outcome of every call
    runner,       \* the runner tasks
    resident,     \* the cell the cache holds for a gid
    val,          \* PlayerCell.state: mutations contained
    dirty,        \* cells whose state.is_dirty()
    dirtySlot,    \* cells whose dirty_slot flag is set
    saveGate,     \* holder of PlayerCell.save_gate
    saver,        \* the cache's fallback save of a dropped cell
    dirtySlots,   \* DirtyAdmission.slots
    disk,         \* what Mongo holds for a gid
    shut,         \* the shutdown() call: its program counter
    woken,        \* has the pending Notified future been notified?
    stopped       \* RuntimeState::Stopped

admission == <<calls, closed, kib>>
directory == <<slots, dirLock, mailbox, inflight, inflightKib>>
cells     == <<resident, val, dirty, dirtySlot, saveGate, saver, dirtySlots, disk>>
shutdown  == <<shut, stopped>>
vars      == <<admission, directory, call, runner, cells, shutdown, woken>>

CallPc   == {"new", "kib", "undo", "push", "queued", "running", "finished", "dropping", "done",
             "rejected"}
Outcome  == {"none", "ok", "unsaved", "load", "preload", "dirtyCapacity", "reject"}
RunnerPc == {"off", "take", "get", "gate", "logic", "save", "finish", "dropCalls",
             "dropKib", "reinsert", "retire"}
ShutPc   == {"idle", "check", "checkActive", "listen", "recheck", "recheckActive", "wait", "flush"}

TypeOK ==
    /\ calls \in Nat /\ kib \in Int /\ closed \in BOOLEAN
    /\ slots \subseteq Gids
    /\ dirLock \in [Gids -> Calls \cup {None}]
    /\ mailbox \in [Gids -> Seq(Calls)]
    /\ inflight \in [Gids -> Nat]
    /\ inflightKib \in [Gids -> Int]
    /\ call \in [Calls -> [pc : CallPc, gid : Gids, kib : Nat, out : Outcome, mut : BOOLEAN]]
    /\ runner \in [Calls -> [pc : RunnerPc, cur : Calls \cup {None}, next : Calls \cup {None},
                             cell : Calls \cup {None}, resv : BOOLEAN]]
    /\ resident \in [Gids -> Calls \cup {None}]
    /\ val \in [Calls -> SUBSET Calls]
    /\ dirty \subseteq Calls /\ dirtySlot \subseteq Calls
    /\ saveGate \in [Calls -> Calls \cup {None, Saver}]
    /\ saver \in [Calls -> {"idle", "wait", "saving"}]
    /\ dirtySlots \in Nat
    /\ disk \in [Gids -> SUBSET Calls]
    /\ shut \in ShutPc /\ woken \in BOOLEAN /\ stopped \in BOOLEAN

Idle == [pc |-> "off", cur |-> None, next |-> None, cell |-> None, resv |-> FALSE]

Init ==
    /\ calls = 0 /\ kib = 0 /\ closed = FALSE
    /\ slots = {}
    /\ dirLock = [g \in Gids |-> None]
    /\ mailbox = [g \in Gids |-> <<>>]
    /\ inflight = [g \in Gids |-> 0]
    /\ inflightKib = [g \in Gids |-> 0]
    /\ call \in [Calls -> [pc : {"new"}, gid : Gids, kib : Kibs, out : {"none"}, mut : {FALSE}]]
    /\ runner = [r \in Calls |-> Idle]
    /\ resident = [g \in Gids |-> None]
    /\ val = [k \in Calls |-> {}]
    /\ dirty = {} /\ dirtySlot = {}
    /\ saveGate = [k \in Calls |-> None]
    /\ saver = [k \in Calls |-> "idle"]
    /\ dirtySlots = 0
    /\ disk = [g \in Gids |-> {}]
    /\ shut = "idle" /\ woken = FALSE /\ stopped = FALSE

-----------------------------------------------------------------------------
(* enqueue: runs under the gid's directory and mailbox locks; the admission *)
(* counters are lock-free atomics shared with every other gid.              *)

Gid(c) == call[c].gid
Live(r) == runner[r].pc # "off"

\* The per-gid test of enqueue.
GidFull(c) == \/ inflight[Gid(c)] >= MaxCallsPerGid
              \/ call[c].kib + inflightKib[Gid(c)] > MaxKibPerGid

\* Why enqueue refuses a call before it owns anything.
Refuses(c) == GidFull(c) \/ closed \/ calls >= MaxCalls

\* Take the locks; the per-gid limits, then the closed bit and the call limit
\* decide (Admission::acquire up to its compare-exchange).
TryUse(c) ==
    /\ call[c].pc = "new" /\ dirLock[Gid(c)] = None
    /\ \/ /\ Refuses(c)
          /\ call' = [call EXCEPT ![c].pc = "rejected", ![c].out = "reject"]
          /\ UNCHANGED <<calls, dirLock>>
       \/ /\ ~Refuses(c)
          /\ calls' = calls + 1
          /\ dirLock' = [dirLock EXCEPT ![Gid(c)] = c]
          /\ call' = [call EXCEPT ![c].pc = "kib"]
    /\ UNCHANGED <<closed, kib, slots, mailbox, inflight, inflightKib, runner, cells, shutdown, woken>>

\* Mutant: the limit is tested before the addition.
KibBelowLimit(c) == kib < MaxKib

KibFits(c) == kib + call[c].kib <= MaxKib

\* The kib fetch_update of Admission::acquire.
AcquireKib(c) ==
    /\ call[c].pc = "kib"
    /\ IF KibFits(c)
       THEN kib' = kib + call[c].kib /\ call' = [call EXCEPT ![c].pc = "push"]
       ELSE kib' = kib /\ call' = [call EXCEPT ![c].pc = "undo"]
    /\ UNCHANGED <<calls, closed, directory, runner, cells, shutdown, woken>>

\* Mutant: the call count is not given back.
UndoForgotten(c) ==
    /\ call[c].pc = "undo"
    /\ call' = [call EXCEPT ![c].pc = "rejected", ![c].out = "reject"]
    /\ dirLock' = [dirLock EXCEPT ![Gid(c)] = None]
    /\ UNCHANGED <<calls, closed, kib, slots, mailbox, inflight, inflightKib, runner, cells, shutdown, woken>>

\* A refused kib reservation gives the call count back: no notification.
UndoCalls(c) ==
    /\ call[c].pc = "undo"
    /\ calls' = calls - 1
    /\ call' = [call EXCEPT ![c].pc = "rejected", ![c].out = "reject"]
    /\ dirLock' = [dirLock EXCEPT ![Gid(c)] = None]
    /\ UNCHANGED <<closed, kib, slots, mailbox, inflight, inflightKib, runner, cells, shutdown, woken>>

\* Mutant: spawn whenever the queue is empty, slot or not.
SpawnsWhenQueueEmpty(c) == mailbox[Gid(c)] = <<>>

\* spawn_runner: the gid had no slot.
SpawnsRunner(c) == Gid(c) \notin slots

\* Mutant: the queue becomes a stack.
PushFront(queue, c) == <<c>> \o queue

\* VecDeque::push_back
PushBack(queue, c) == Append(queue, c)

\* The accepted envelope is queued; the first one of an absent slot spawns its runner.
Push(c) ==
    LET g == Gid(c) IN
    /\ call[c].pc = "push"
    /\ call' = [call EXCEPT ![c].pc = "queued"]
    /\ mailbox' = [mailbox EXCEPT ![g] = PushBack(@, c)]
    /\ inflight' = [inflight EXCEPT ![g] = @ + 1]
    /\ inflightKib' = [inflightKib EXCEPT ![g] = @ + call[c].kib]
    /\ slots' = slots \cup {g}
    /\ runner' = IF SpawnsRunner(c) THEN [runner EXCEPT ![c].pc = "take"] ELSE runner
    /\ dirLock' = [dirLock EXCEPT ![g] = None]
    /\ UNCHANGED <<admission, cells, shutdown, woken>>

-----------------------------------------------------------------------------
(* run_gid: one envelope after another until the mailbox is empty.          *)

Held(r) == runner[r].cell

\* Send the completion of r's current call and move on to finish_envelope.
Complete(r, outcome) == call' = [call EXCEPT ![runner[r].cur].out = outcome]

\* take_next: pop the call that spawned the runner.
TakeNext(r) ==
    LET g == Gid(r) IN
    /\ runner[r].pc = "take" /\ dirLock[g] = None /\ mailbox[g] # <<>>
    /\ runner' = [runner EXCEPT ![r].pc = "get", ![r].cur = Head(mailbox[g])]
    /\ call' = [call EXCEPT ![Head(mailbox[g])].pc = "running"]
    /\ mailbox' = [mailbox EXCEPT ![g] = Tail(@)]
    /\ UNCHANGED <<admission, slots, dirLock, inflight, inflightKib, cells, shutdown, woken>>

\* The cell r already holds, or the one cache.get_i64 finds resident.
GetResident(r) ==
    LET k == IF Held(r) # None THEN Held(r) ELSE resident[Gid(r)] IN
    /\ runner[r].pc = "get" /\ k # None
    /\ runner' = [runner EXCEPT ![r].pc = "gate", ![r].cell = k]
    /\ UNCHANGED <<admission, directory, call, cells, shutdown, woken>>

\* A cache miss runs the loader, which returns a clean player.
LoadPlayer(r) ==
    LET g == Gid(r) IN
    /\ runner[r].pc = "get" /\ Held(r) = None /\ resident[g] = None
    /\ runner' = [runner EXCEPT ![r].pc = "gate", ![r].cell = r]
    /\ val' = [val EXCEPT ![r] = disk[g]]
    /\ resident' = [resident EXCEPT ![g] = r]
    /\ UNCHANGED <<admission, directory, call, dirty, dirtySlot, saveGate, saver, dirtySlots, disk,
                   shutdown, woken>>

LoadFails(r) ==
    /\ runner[r].pc = "get" /\ Held(r) = None /\ resident[Gid(r)] = None
    /\ runner' = [runner EXCEPT ![r].pc = "finish"]
    /\ Complete(r, "load")
    /\ UNCHANGED <<admission, directory, cells, shutdown, woken>>

\* Lock the save gate; a clean cell must also reserve a dirty slot.
EnterGate(r) ==
    LET k == Held(r) IN
    /\ runner[r].pc = "gate" /\ saveGate[k] = None
    /\ \/ /\ k \in dirtySlot
          /\ runner' = [runner EXCEPT ![r].pc = "logic"]
          /\ saveGate' = [saveGate EXCEPT ![k] = r]
          /\ UNCHANGED <<call, dirtySlots>>
       \/ /\ k \notin dirtySlot /\ dirtySlots < MaxDirty
          /\ runner' = [runner EXCEPT ![r].pc = "logic", ![r].resv = TRUE]
          /\ saveGate' = [saveGate EXCEPT ![k] = r]
          /\ dirtySlots' = dirtySlots + 1
          /\ UNCHANGED call
       \/ /\ k \notin dirtySlot /\ dirtySlots >= MaxDirty
          /\ runner' = [runner EXCEPT ![r].pc = "finish"]
          /\ Complete(r, "dirtyCapacity")
          /\ UNCHANGED <<saveGate, dirtySlots>>
    /\ UNCHANGED <<admission, directory, resident, val, dirty, dirtySlot, saver, disk, shutdown, woken>>

\* Mutant: the reservation is never given back.
KeepReservation(r) == UNCHANGED dirtySlots

\* Mutant: a slot is released even when none was reserved.
ReleaseAlways(r) == dirtySlots' = dirtySlots - 1

\* The reservation given back when r's logic leaves the cell clean or never runs.
Unreserve(r) == dirtySlots' = IF runner[r].resv THEN dirtySlots - 1 ELSE dirtySlots

\* The preload future of try_use_preloaded fails: the logic never runs.
PreloadFails(r) ==
    /\ runner[r].pc = "logic"
    /\ runner' = [runner EXCEPT ![r].pc = "finish", ![r].resv = FALSE]
    /\ Unreserve(r)
    /\ saveGate' = [saveGate EXCEPT ![Held(r)] = None]
    /\ Complete(r, "preload")
    /\ UNCHANGED <<admission, directory, resident, val, dirty, dirtySlot, saver, disk, shutdown, woken>>

\* The logic runs and leaves the cell dirty: finish_logic commits the reservation.
ExecuteDirty(r, mutates) ==
    LET k == Held(r) IN
    /\ runner[r].pc = "logic" /\ (mutates \/ k \in dirty)
    /\ val' = IF mutates THEN [val EXCEPT ![k] = @ \cup {runner[r].cur}] ELSE val
    /\ call' = [call EXCEPT ![runner[r].cur].mut = mutates]
    /\ dirty' = dirty \cup {k}
    /\ dirtySlot' = dirtySlot \cup {k}
    /\ runner' = [runner EXCEPT ![r].pc = "save", ![r].resv = FALSE]
    /\ UNCHANGED <<admission, directory, resident, saveGate, saver, dirtySlots, disk, shutdown, woken>>

\* The logic leaves a clean cell clean: nothing to save.
ExecuteClean(r) ==
    /\ runner[r].pc = "logic" /\ Held(r) \notin dirty
    /\ runner' = [runner EXCEPT ![r].pc = "finish", ![r].resv = FALSE]
    /\ Unreserve(r)
    /\ saveGate' = [saveGate EXCEPT ![Held(r)] = None]
    /\ Complete(r, "ok")
    /\ UNCHANGED <<admission, directory, resident, val, dirty, dirtySlot, saver, disk, shutdown, woken>>

\* Mutant: the cell is marked clean and nothing is written.
MarkCleanUnwritten(g, k) ==
    /\ disk' = disk
    /\ dirty' = dirty \ {k}
    /\ dirtySlot' = dirtySlot \ {k}
    /\ dirtySlots' = dirtySlots - 1

\* save_one on a dirty cell k of g: on success the cell is clean and its slot free.
SaveOk(g, k) ==
    /\ disk' = [disk EXCEPT ![g] = val[k]]
    /\ dirty' = dirty \ {k}
    /\ dirtySlot' = dirtySlot \ {k}
    /\ dirtySlots' = dirtySlots - 1

\* A failed save leaves the cell dirty; the write may have reached Mongo or not.
SaveFails(g, k) ==
    /\ disk' \in {disk, [disk EXCEPT ![g] = val[k]]}
    /\ UNCHANGED <<dirty, dirtySlot, dirtySlots>>

SavePlayer(r) ==
    LET k == Held(r) IN
    /\ runner[r].pc = "save"
    /\ \/ SaveOk(Gid(r), k) /\ Complete(r, "ok")
       \/ SaveFails(Gid(r), k) /\ Complete(r, "unsaved")
    /\ runner' = [runner EXCEPT ![r].pc = "finish"]
    /\ saveGate' = [saveGate EXCEPT ![k] = None]
    /\ UNCHANGED <<admission, directory, resident, val, saver, shutdown, woken>>

\* complete_and_take_next.
Finish(r) ==
    LET g == Gid(r)
        c == runner[r].cur
        nxt == IF mailbox[g] = <<>> THEN None ELSE Head(mailbox[g]) IN
    /\ runner[r].pc = "finish" /\ dirLock[g] = None
    /\ inflight' = [inflight EXCEPT ![g] = @ - 1]
    /\ inflightKib' = [inflightKib EXCEPT ![g] = @ - call[c].kib]
    /\ mailbox' = IF nxt = None THEN mailbox ELSE [mailbox EXCEPT ![g] = Tail(@)]
    /\ call' = [x \in Calls |-> CASE x = c   -> [call[x] EXCEPT !.pc = "finished"]
                               [] x = nxt -> [call[x] EXCEPT !.pc = "running"]
                               [] OTHER   -> call[x]]
    /\ runner' = [runner EXCEPT ![r].pc = "dropCalls", ![r].next = nxt]
    /\ UNCHANGED <<admission, slots, dirLock, cells, shutdown, woken>>

\* Mutant: no notification.
NotifyLost == woken' = woken

\* drain_notify.notify_waiters() reaches only a Notified future that exists.
NotifyDrain == woken' = (woken \/ shut \in {"recheck", "recheckActive", "wait"})

\* GlobalPermit::drop: first the call count ...
DropCalls(r) ==
    /\ runner[r].pc = "dropCalls"
    /\ calls' = calls - 1
    /\ call' = [call EXCEPT ![runner[r].cur].pc = "dropping"]
    /\ runner' = [runner EXCEPT ![r].pc = "dropKib"]
    /\ UNCHANGED <<closed, kib, directory, cells, shutdown, woken>>

\* ... then the KiB; finish_envelope notifies and runs the next call, if any.
DropKib(r) ==
    LET c == runner[r].cur
        nxt == runner[r].next IN
    /\ runner[r].pc = "dropKib"
    /\ kib' = kib - call[c].kib
    /\ call' = [call EXCEPT ![c].pc = "done"]
    /\ NotifyDrain
    /\ runner' = [runner EXCEPT ![r].pc = IF nxt = None THEN "reinsert" ELSE "get",
                                ![r].cur = nxt, ![r].next = None]
    /\ UNCHANGED <<calls, closed, directory, cells, shutdown>>

\* retire_or_take_next, before its lock: a cell the cache dropped meanwhile is
\* put back; an error of set_i64 is ignored.
Reinsert(r) ==
    LET g == Gid(r)
        k == Held(r) IN
    /\ runner[r].pc = "reinsert"
    /\ \/ /\ k = None \/ resident[g] # None \/ LossyCache
          /\ UNCHANGED resident
       \/ /\ k # None /\ resident[g] = None
          /\ resident' = [resident EXCEPT ![g] = k]
    /\ runner' = [runner EXCEPT ![r].pc = "retire"]
    /\ UNCHANGED <<admission, directory, call, val, dirty, dirtySlot, saveGate, saver, dirtySlots,
                   disk, shutdown, woken>>

\* Mutant: the runner retires without looking at the queue again.
RetireUnchecked(g) == TRUE

\* The second look at the queue, under the lock, that lets a runner go.
MayRetire(g) == mailbox[g] = <<>>

\* ... and under it: a call that arrived meanwhile keeps the runner, else the
\* slot goes and the drain waiter is notified.
Retire(r) ==
    LET g == Gid(r) IN
    /\ runner[r].pc = "retire" /\ dirLock[g] = None
    /\ \/ /\ ~MayRetire(g)
          /\ runner' = [runner EXCEPT ![r].pc = "get", ![r].cur = Head(mailbox[g])]
          /\ call' = [call EXCEPT ![Head(mailbox[g])].pc = "running"]
          /\ mailbox' = [mailbox EXCEPT ![g] = Tail(@)]
          /\ UNCHANGED <<slots, woken>>
       \/ /\ MayRetire(g)
          /\ slots' = slots \ {g}
          /\ runner' = [runner EXCEPT ![r] = Idle]
          /\ NotifyDrain
          /\ UNCHANGED <<call, mailbox>>
    /\ UNCHANGED <<admission, dirLock, inflight, inflightKib, cells, shutdown>>

-----------------------------------------------------------------------------
(* The cache drops a value and runs the with_saver callback on it.           *)

Evict(g) ==
    LET k == resident[g] IN
    /\ k # None /\ saver[k] = "idle" /\ (k \in dirty => LossyCache)
    /\ resident' = [resident EXCEPT ![g] = None]
    /\ saver' = [saver EXCEPT ![k] = "wait"]
    /\ UNCHANGED <<admission, directory, call, runner, val, dirty, dirtySlot, saveGate, dirtySlots,
                   disk, shutdown, woken>>

\* The callback locks the save gate; a clean cell needs no save.
SaverLock(k) ==
    /\ saver[k] = "wait" /\ saveGate[k] = None
    /\ saver' = [saver EXCEPT ![k] = IF k \in dirty THEN "saving" ELSE "idle"]
    /\ saveGate' = IF k \in dirty THEN [saveGate EXCEPT ![k] = Saver] ELSE saveGate
    /\ UNCHANGED <<admission, directory, call, runner, resident, val, dirty, dirtySlot, dirtySlots,
                   disk, shutdown, woken>>

SaverDone(k) ==
    /\ saver[k] = "saving"
    /\ SaveOk(Gid(k), k) \/ SaveFails(Gid(k), k)
    /\ saver' = [saver EXCEPT ![k] = "idle"]
    /\ saveGate' = [saveGate EXCEPT ![k] = None]
    /\ UNCHANGED <<admission, directory, call, runner, resident, val, shutdown, woken>>

-----------------------------------------------------------------------------
(* shutdown(): close admission, wait for the drain, flush the cache.  Each   *)
(* drain check is two loads: the call count, then active_gids.               *)

Close ==
    /\ shut = "idle" /\ ~stopped
    /\ closed' = TRUE /\ shut' = "check"
    /\ UNCHANGED <<calls, kib, directory, call, runner, cells, stopped, woken>>

\* Mutant: the drain check looks at the active gids only.
OnlyActive == slots = {}

\* The loads of a drain check.
NoInflightCalls == calls = 0
NoActiveGids == slots = {}

CheckCalls ==
    /\ \/ shut = "check"   /\ shut' = IF NoInflightCalls THEN "checkActive" ELSE "listen"
       \/ shut = "recheck" /\ shut' = IF NoInflightCalls THEN "recheckActive" ELSE "wait"
    /\ UNCHANGED <<admission, directory, call, runner, cells, stopped, woken>>

\* Leaving the loop drops the Notified future.
CheckActive ==
    /\ \/ shut = "checkActive"   /\ shut' = IF NoActiveGids THEN "flush" ELSE "listen"
       \/ shut = "recheckActive" /\ shut' = IF NoActiveGids THEN "flush" ELSE "wait"
    /\ woken' = (woken /\ ~NoActiveGids)
    /\ UNCHANGED <<admission, directory, call, runner, cells, stopped>>

\* drain_notify.notified(): from here on notify_waiters reaches this future.
Listen ==
    /\ shut = "listen"
    /\ shut' = "recheck"
    /\ UNCHANGED <<admission, directory, call, runner, cells, stopped, woken>>

Wake ==
    /\ shut = "wait" /\ woken
    /\ shut' = "check" /\ woken' = FALSE
    /\ UNCHANGED <<admission, directory, call, runner, cells, stopped>>

\* cache.flush() saves a dirty resident player; its error ends shutdown().
FlushPlayer(g) ==
    LET k == resident[g] IN
    /\ shut = "flush" /\ k # None /\ k \in dirty /\ saveGate[k] = None
    /\ \/ SaveOk(g, k) /\ UNCHANGED shut
       \/ SaveFails(g, k) /\ shut' = "idle"
    /\ UNCHANGED <<admission, directory, call, runner, resident, val, saveGate, saver, stopped, woken>>

\* dirty_players.max(dirty_admission.slots()) = 0
NoDirtyPlayers == dirtySlots = 0 /\ dirty = {}

\* After a clean flush any dirty player left (DirtyPlayers) is an error.
FlushEnd ==
    /\ shut = "flush" /\ \A g \in Gids : resident[g] \notin dirty
    /\ shut' = "idle"
    /\ stopped' = NoDirtyPlayers
    /\ UNCHANGED <<admission, directory, call, runner, cells, woken>>

-----------------------------------------------------------------------------
Enqueue(c) == TryUse(c) \/ AcquireKib(c) \/ UndoCalls(c) \/ Push(c)

RunGid(r) ==
    \/ TakeNext(r) \/ GetResident(r) \/ LoadPlayer(r) \/ LoadFails(r) \/ EnterGate(r)
    \/ PreloadFails(r) \/ (\E mutates \in BOOLEAN : ExecuteDirty(r, mutates)) \/ ExecuteClean(r)
    \/ SavePlayer(r) \/ Finish(r) \/ DropCalls(r) \/ DropKib(r) \/ Reinsert(r) \/ Retire(r)

CacheSaver(k) == SaverLock(k) \/ SaverDone(k)

ShutdownStep ==
    CheckCalls \/ CheckActive \/ Listen \/ Wake \/ (\E g \in Gids : FlushPlayer(g)) \/ FlushEnd

Next ==
    \/ \E c \in Calls : Enqueue(c) \/ RunGid(c) \/ CacheSaver(c)
    \/ \E g \in Gids : Evict(g)
    \/ Close \/ ShutdownStep

Spec == Init /\ [][Next]_vars

\* The executor runs every spawned task and every future that can progress;
\* an enqueue that took the locks returns.  Nobody has to submit a call, drop
\* a cache entry or ask for a shutdown.
FairSpec ==
    /\ Spec
    /\ \A c \in Calls :
          /\ WF_vars(AcquireKib(c) \/ UndoCalls(c) \/ Push(c))
          /\ WF_vars(RunGid(c))
          /\ WF_vars(CacheSaver(c))
    /\ WF_vars(ShutdownStep)

-----------------------------------------------------------------------------
(* Properties *)

\* A gid never has two runner tasks, and it has a directory slot exactly while
\* it has one: enqueue and retire_or_take_next agree on who owns the mailbox.
OneRunnerPerGid ==
    /\ \A r1, r2 \in Calls : Live(r1) /\ Live(r2) /\ Gid(r1) = Gid(r2) => r1 = r2
    /\ \A g \in Gids : g \in slots <=> \E r \in Calls : Live(r) /\ Gid(r) = g

\* An accepted call is never lost: it waits in its gid's mailbox, exactly once,
\* or a live runner of its gid works on it; a mailbox with calls has a runner,
\* and the runner that take_next starts finds one (its expect never fails).
NoOrphanCall ==
    /\ \A c \in Calls : call[c].pc = "queued" =>
          \E i \in DOMAIN mailbox[Gid(c)] : mailbox[Gid(c)][i] = c
    /\ \A g \in Gids : \A i, j \in DOMAIN mailbox[g] : mailbox[g][i] = mailbox[g][j] => i = j
    /\ \A c \in Calls : call[c].pc \in {"running", "finished", "dropping"} =>
          \E r \in Calls : Live(r) /\ Gid(r) = Gid(c) /\ c \in {runner[r].cur, runner[r].next}
    /\ \A g \in Gids : mailbox[g] # <<>> => \E r \in Calls : Live(r) /\ Gid(r) = g
    /\ \A r \in Calls : runner[r].pc = "take" => mailbox[Gid(r)] # <<>>

\* Calls that own one unit of Admission.calls, those that own their KiB, and
\* those counted in the mailbox of g.
HoldCall == {c \in Calls : call[c].pc \in {"kib", "undo", "push", "queued", "running", "finished"}}
HoldKib == {c \in Calls : call[c].pc \in {"push", "queued", "running", "finished", "dropping"}}
InMailbox(g) == {c \in Calls : Gid(c) = g /\ call[c].pc \in {"queued", "running"}}

KibOf(S) == SumFunctionOnSet([c \in Calls |-> call[c].kib], S)

\* The call counters of the admission and of every mailbox are exactly what the
\* calls in flight own (no leak, no double release on any reject or failure
\* path), within the limits that enqueue tested under the gid's locks.
CallsExact ==
    /\ calls = Cardinality(HoldCall) /\ calls <= MaxCalls
    /\ \A g \in Gids : /\ inflight[g] = Cardinality(InMailbox(g))
                       /\ inflight[g] <= MaxCallsPerGid

\* The same for the retained KiB, which are acquired after the call count and
\* released after it.
KibExact ==
    /\ kib = KibOf(HoldKib) /\ kib <= MaxKib
    /\ \A g \in Gids : /\ inflightKib[g] = KibOf(InMailbox(g))
                       /\ inflightKib[g] <= MaxKibPerGid

\* The dirty budget counts the dirty players and the reservations of running
\* logic, exactly; a player is dirty only with a slot of the budget.
DirtySlotsExact ==
    /\ dirtySlots = Cardinality(dirtySlot) + Cardinality({r \in Calls : runner[r].resv})
    /\ dirtySlots <= MaxDirty
    /\ dirty = dirtySlot

\* The assertion of retire_or_take_next: the cache never holds another
\* generation of a player than the one its runner works on.
OneGeneration ==
    \A r \in Calls : Live(r) /\ Held(r) # None => resident[Gid(r)] \in {None, Held(r)}

\* A caller told that its mutation is persistent can rely on it for ever: every
\* later save of the player still contains it (no eviction of a dirty player).
AckedDurable ==
    \A c \in Calls : call[c].out = "ok" /\ call[c].mut => c \in disk[Gid(c)]

\* Shutdown flushes only a runtime in which no call is in flight and no runner
\* is left, although the drain check reads two counters one after the other.
DrainedBeforeFlush ==
    shut = "flush" \/ stopped =>
        /\ calls = 0 /\ kib = 0
        /\ \A c \in Calls : ~Live(c) /\ call[c].pc \in {"new", "done", "rejected"}

\* Stopped is reported only when every executed mutation, acknowledged or not,
\* is on disk (no eviction of a dirty player).
StoppedMeansSaved ==
    stopped => /\ dirty = {}
               /\ \A c \in Calls : call[c].mut => c \in disk[Gid(c)]

\* Every accepted call is completed.
AcceptedCompletes == \A c \in Calls : call[c].pc = "queued" ~> call[c].pc = "done"

\* shutdown() returns: the drain waiter does not miss its last wakeup.
ShutdownEnds == shut # "idle" ~> shut = "idle"

-----------------------------------------------------------------------------
(* The runtime implements PlayerCalls.                                       *)

\* The call that the runner of g serves and has not answered yet, if any.
Serving(g) == {c \in Calls : Gid(c) = g /\ call[c].pc = "running" /\ call[c].out = "none"}

\* The accepted calls of g not answered yet, in the order the runner serves them.
Pending(g) == (IF Serving(g) = {} THEN <<>> ELSE <<CHOOSE c \in Serving(g) : TRUE>>) \o mailbox[g]

Answer(c) == CASE call[c].out = "none"    -> "none"
               [] call[c].out = "reject"  -> "refused"
               [] call[c].out = "unsaved" -> "unsaved"
               [] call[c].out = "ok"      -> IF call[c].mut THEN "stored" ELSE "read"
               [] OTHER                   -> "failed"

Caller == INSTANCE PlayerCalls WITH
              target <- [c \in Calls |-> Gid(c)],
              queue <- [g \in Gids |-> Pending(g)],
              answer <- [c \in Calls |-> Answer(c)],
              stored <- disk

\* Every behaviour of the runtime is one of PlayerCalls: FIFO service per player
\* across runner hand-over, one answer per call, failed calls without effect,
\* no stored mutation ever lost (no eviction of a dirty player).
ServesPlayerCalls == Caller!Spec
=============================================================================
