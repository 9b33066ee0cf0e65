------------------------ MODULE LogicRuntimeProofs -------------------------
(*****************************************************************************)
(* Proofs about LogicRuntime, in three parts that build on each other: who   *)
(* owns the calls and the runners, that the counters are exact, and that an  *)
(* answered mutation is durable and the runtime implements PlayerCalls.      *)
(*****************************************************************************)
EXTENDS LogicRuntime, FiniteSetTheorems, SumTheorems, TLAPS

-----------------------------------------------------------------------------
(*****************************************************************************)
(* Proof that the variables of LogicRuntime keep their types, that a gid     *)
(* has at most one runner and that no accepted call is lost                  *)
(* (OneRunnerPerGid, NoOrphanCall).                                          *)
(*                                                                           *)
(* The atomic counters are only shown to be integers here (Types); that      *)
(* none of them underflows is a consequence of the second part.  Types       *)
(* alone is not inductive: a step of run_gid reads the call in hand and the  *)
(* cell it holds, so InHand, which says that they exist while the runner     *)
(* works, is part of it.                                                     *)
(*                                                                           *)
(* The inductive invariant Ownership says who owns what: the directory       *)
(* lock belongs to the call between its two admission steps and its push     *)
(* (LockOwner); such a call has no runner of its own yet (NotStarted); the   *)
(* call in a runner's hand, and the one it popped for later, are calls of    *)
(* its gid in the matching phase (CurCall, NextCall); a mailbox contains     *)
(* exactly the queued calls of its gid, once each, and only a gid with a     *)
(* slot has calls in it (Mailboxes).                                         *)
(*****************************************************************************)

CallRec == [pc : CallPc, gid : Gids, kib : Nat, out : Outcome, mut : BOOLEAN]
RunnerRec == [pc : RunnerPc, cur : Calls \cup {None}, next : Calls \cup {None},
              cell : Calls \cup {None}, resv : BOOLEAN]

\* TypeOK by groups of variables.
AdmissionTypes == calls \in Int /\ kib \in Int /\ closed \in BOOLEAN
DirectoryTypes ==
    /\ slots \subseteq Gids
    /\ dirLock \in [Gids -> Calls \cup {None}]
    /\ mailbox \in [Gids -> Seq(Calls)]
    /\ inflight \in [Gids -> Int]
    /\ inflightKib \in [Gids -> Int]
CellTypes ==
    /\ resident \in [Gids -> Calls \cup {None}]
    /\ val \in [Calls -> SUBSET Calls]
    /\ dirty \subseteq Calls /\ dirtySlot \subseteq Calls
    /\ saveGate \in [Calls -> Calls \cup {None, Saver}]
    /\ saver \in [Calls -> {"idle", "wait", "saving"}]
    /\ dirtySlots \in Int
    /\ disk \in [Gids -> SUBSET Calls]
ShutdownTypes == shut \in ShutPc /\ woken \in BOOLEAN /\ stopped \in BOOLEAN

\* The steps of run_gid between taking a call and having dropped its permit.
Working == {"get", "gate", "logic", "save", "finish", "dropCalls", "dropKib"}

\* A working runner has a call; past the load it also has a cell.
InHand == \A r \in Calls : /\ runner[r].pc \in Working => runner[r].cur \in Calls
                           /\ runner[r].pc \in {"gate", "logic", "save"} => runner[r].cell \in Calls

Types == /\ AdmissionTypes /\ DirectoryTypes /\ call \in [Calls -> CallRec] 
         /\ runner \in [Calls -> RunnerRec] /\ CellTypes /\ ShutdownTypes /\ InHand


\* A call addresses a player.
LEMMA GidType == ASSUME Types, NEW c \in Calls PROVE Gid(c) \in Gids
BY DEF Types, CallRec, Gid

\* What popping a mailbox yields.
LEMMA HeadType == ASSUME Types, NEW g \in Gids, mailbox[g] # <<>>
                  PROVE  Head(mailbox[g]) \in Calls /\ Tail(mailbox[g]) \in Seq(Calls)
BY DEF Types, DirectoryTypes

\* Field updates that stay within RunnerRec.
LEMMA SetResv == ASSUME runner \in [Calls -> RunnerRec], NEW r \in Calls, NEW p \in RunnerPc,
                        NEW b \in BOOLEAN
                 PROVE  [runner EXCEPT ![r].pc = p, ![r].resv = b] \in [Calls -> RunnerRec]
BY DEF RunnerRec

\* The update of Finish stays within RunnerRec.
LEMMA SetNext == ASSUME runner \in [Calls -> RunnerRec], NEW r \in Calls, NEW p \in RunnerPc,
                        NEW h \in Calls \cup {None}
                 PROVE  [runner EXCEPT ![r].pc = p, ![r].next = h] \in [Calls -> RunnerRec]
BY DEF RunnerRec

\* The update of DropKib stays within RunnerRec.
LEMMA SetCur == ASSUME runner \in [Calls -> RunnerRec], NEW r \in Calls, NEW p \in RunnerPc,
                       NEW h \in Calls \cup {None}
                PROVE  [runner EXCEPT ![r].pc = p, ![r].cur = h, ![r].next = None]
                          \in [Calls -> RunnerRec]
BY ZenonT(60) DEF RunnerRec

\* TryUse keeps the variables well typed.
LEMMA TryUseTypes == ASSUME Types, NEW c \in Calls, TryUse(c) PROVE Types'
<1>0. runner \in [Calls -> RunnerRec] /\ call \in [Calls -> CallRec] BY DEF Types
<1>1. UNCHANGED <<cells, runner, shutdown, woken>> BY DEF TryUse
<1>2. AdmissionTypes' BY DEF TryUse, Types, AdmissionTypes
<1>3. DirectoryTypes' BY GidType DEF TryUse, Types, DirectoryTypes
<1>4. (call \in [Calls -> CallRec])' BY <1>0 DEF TryUse, Outcome, CallRec, CallPc
<1> QED BY <1>0, <1>1, <1>2, <1>3, <1>4
        DEF Types, CellTypes, ShutdownTypes, shutdown, InHand, cells

\* AcquireKib keeps the variables well typed.
LEMMA AcquireKibTypes == ASSUME Types, NEW c \in Calls, AcquireKib(c) PROVE Types'
<1>0. runner \in [Calls -> RunnerRec] /\ call \in [Calls -> CallRec] BY DEF Types
<1>1. UNCHANGED <<directory, cells, runner, shutdown, woken>> BY DEF AcquireKib
<1>2. AdmissionTypes' BY DEF AcquireKib, Types, CallRec, AdmissionTypes
<1>3. (call \in [Calls -> CallRec])' BY <1>0 DEF AcquireKib, CallRec, CallPc
<1> QED BY <1>0, <1>1, <1>2, <1>3
        DEF Types, DirectoryTypes, CellTypes, ShutdownTypes, shutdown, InHand, directory, cells

\* UndoCalls keeps the variables well typed.
LEMMA UndoCallsTypes == ASSUME Types, NEW c \in Calls, UndoCalls(c) PROVE Types'
<1>0. runner \in [Calls -> RunnerRec] /\ call \in [Calls -> CallRec] BY DEF Types
<1>1. UNCHANGED <<cells, runner, shutdown, woken>> BY DEF UndoCalls
<1>2. AdmissionTypes' BY DEF UndoCalls, Types, AdmissionTypes
<1>3. DirectoryTypes' BY GidType DEF UndoCalls, Types, DirectoryTypes
<1>4. (call \in [Calls -> CallRec])' BY ZenonT(60), <1>0 DEF UndoCalls, Outcome, CallRec, CallPc
<1> QED BY <1>0, <1>1, <1>2, <1>3, <1>4
        DEF Types, CellTypes, ShutdownTypes, shutdown, InHand, cells

\* Push keeps the variables well typed.
LEMMA PushTypes == ASSUME Types, NEW c \in Calls, Push(c) PROVE Types'
<1>0. runner \in [Calls -> RunnerRec] /\ call \in [Calls -> CallRec] BY DEF Types
<1>1. UNCHANGED <<admission, cells, shutdown, woken>> BY DEF Push
<1>2. DirectoryTypes' BY SMTT(30), GidType DEF Push, Types, PushBack, CallRec, DirectoryTypes
<1>3. (call \in [Calls -> CallRec])' BY <1>0 DEF Push, CallRec, CallPc
<1>4. (runner \in [Calls -> RunnerRec])' BY <1>0 DEF Push, RunnerRec, RunnerPc
<1>5. InHand' BY DEF Push, Types, InHand, RunnerRec, Working
<1> QED BY <1>0, <1>1, <1>2, <1>3, <1>4, <1>5
        DEF Types, AdmissionTypes, CellTypes, ShutdownTypes, shutdown, admission, cells

\* TakeNext keeps the variables well typed.
LEMMA TakeNextTypes == ASSUME Types, NEW r \in Calls, TakeNext(r) PROVE Types'
<1>0. runner \in [Calls -> RunnerRec] /\ call \in [Calls -> CallRec] BY DEF Types
<1>1. UNCHANGED <<admission, cells, shutdown, woken>> BY DEF TakeNext
<1>2. DirectoryTypes' BY GidType DEF TakeNext, Types, DirectoryTypes
<1>3. (call \in [Calls -> CallRec])' BY ZenonT(60), GidType DEF TakeNext, Types, DirectoryTypes, CallRec, CallPc
<1>4. (runner \in [Calls -> RunnerRec])'
  <2>1. PICK h \in Calls : runner' = [runner EXCEPT ![r].pc = "get", ![r].cur = h]
        BY HeadType, GidType DEF TakeNext
  <2> QED BY ZenonT(60), <1>0, <2>1 DEF RunnerRec, RunnerPc
<1>5. InHand' BY SMTT(30), GidType DEF TakeNext, Types, DirectoryTypes, InHand, RunnerRec, Working
<1> QED BY <1>0, <1>1, <1>2, <1>3, <1>4, <1>5
        DEF Types, AdmissionTypes, CellTypes, ShutdownTypes, shutdown, admission, cells

\* GetResident keeps the variables well typed.
LEMMA GetResidentTypes == ASSUME Types, NEW r \in Calls, GetResident(r) PROVE Types'
<1>0. runner \in [Calls -> RunnerRec] /\ call \in [Calls -> CallRec] BY DEF Types
<1>1. UNCHANGED <<admission, directory, cells, call, shutdown, woken>> BY DEF GetResident
<1>2. (runner \in [Calls -> RunnerRec])'
  <2>1. PICK k \in Calls : runner' = [runner EXCEPT ![r].pc = "gate", ![r].cell = k]
        BY GidType DEF GetResident, Held, Types, RunnerRec, CellTypes
  <2> QED BY ZenonT(60), <1>0, <2>1 DEF RunnerRec, RunnerPc
<1>3. InHand' BY GidType DEF GetResident, Types, Held, CellTypes, InHand, RunnerRec, Working
<1> QED BY <1>0, <1>1, <1>2, <1>3
        DEF Types, AdmissionTypes, DirectoryTypes, CellTypes, ShutdownTypes, shutdown, admission, directory, cells

\* LoadPlayer keeps the variables well typed.
LEMMA LoadPlayerTypes == ASSUME Types, NEW r \in Calls, LoadPlayer(r) PROVE Types'
<1>0. runner \in [Calls -> RunnerRec] /\ call \in [Calls -> CallRec] BY DEF Types
<1>1. UNCHANGED <<admission, directory, call, shutdown, woken>> BY DEF LoadPlayer
<1>2. (runner \in [Calls -> RunnerRec])' BY ZenonT(60), <1>0 DEF LoadPlayer, RunnerRec, RunnerPc
<1>3. CellTypes' BY GidType DEF LoadPlayer, Types, CellTypes
<1>4. InHand' BY DEF LoadPlayer, Types, InHand, RunnerRec, Working
<1> QED BY <1>0, <1>1, <1>2, <1>3, <1>4
        DEF Types, AdmissionTypes, DirectoryTypes, ShutdownTypes, shutdown, admission, directory

\* LoadFails keeps the variables well typed.
LEMMA LoadFailsTypes == ASSUME Types, NEW r \in Calls, LoadFails(r) PROVE Types'
<1>0. runner \in [Calls -> RunnerRec] /\ call \in [Calls -> CallRec] BY DEF Types
<1>1. UNCHANGED <<admission, directory, cells, shutdown, woken>> BY DEF LoadFails
<1>2. (call \in [Calls -> CallRec])' BY ZenonT(60), <1>0 DEF LoadFails, Complete, Outcome, CallRec, CallPc
<1>3. (runner \in [Calls -> RunnerRec])' BY <1>0 DEF LoadFails, RunnerRec, RunnerPc
<1>4. InHand' BY DEF LoadFails, Types, InHand, RunnerRec, Working
<1> QED BY <1>0, <1>1, <1>2, <1>3, <1>4
        DEF Types, AdmissionTypes, DirectoryTypes, CellTypes, ShutdownTypes, shutdown, admission, directory, cells

\* EnterGate keeps the variables well typed.
LEMMA EnterGateTypes == ASSUME Types, NEW r \in Calls, EnterGate(r) PROVE Types'
<1>0. runner \in [Calls -> RunnerRec] /\ call \in [Calls -> CallRec] BY DEF Types
<1>1. UNCHANGED <<admission, directory, shutdown, woken>> BY DEF EnterGate
<1>2. (call \in [Calls -> CallRec])' BY <1>0 DEF EnterGate, Complete, Outcome, CallRec, CallPc
<1>3. (runner \in [Calls -> RunnerRec])' BY <1>0 DEF EnterGate, RunnerRec, RunnerPc
<1>4. CellTypes' BY DEF EnterGate, Types, CellTypes
<1>5. InHand' BY DEF EnterGate, Types, InHand, RunnerRec, Working
<1> QED BY <1>0, <1>1, <1>2, <1>3, <1>4, <1>5
        DEF Types, AdmissionTypes, DirectoryTypes, ShutdownTypes, shutdown, admission, directory

\* PreloadFails keeps the variables well typed.
LEMMA PreloadFailsTypes == ASSUME Types, NEW r \in Calls, PreloadFails(r) PROVE Types'
<1>0. runner \in [Calls -> RunnerRec] /\ call \in [Calls -> CallRec] BY DEF Types
<1>1. UNCHANGED <<admission, directory, shutdown, woken>> BY DEF PreloadFails
<1>2. (call \in [Calls -> CallRec])' BY ZenonT(60), <1>0 DEF PreloadFails, Complete, Outcome, CallRec, CallPc
<1>3. (runner \in [Calls -> RunnerRec])' BY ZenonT(60), <1>0 DEF PreloadFails, RunnerRec, RunnerPc
<1>4. CellTypes' BY DEF PreloadFails, Types, Unreserve, Held, InHand, CellTypes
<1>5. InHand' BY DEF PreloadFails, Types, InHand, RunnerRec, Working
<1> QED BY <1>0, <1>1, <1>2, <1>3, <1>4, <1>5
        DEF Types, AdmissionTypes, DirectoryTypes, ShutdownTypes, shutdown, admission, directory

\* ExecuteDirty keeps the variables well typed.
LEMMA ExecuteDirtyTypes == ASSUME Types, NEW r \in Calls, NEW mutates \in BOOLEAN, ExecuteDirty(r, mutates) PROVE Types'
<1>0. runner \in [Calls -> RunnerRec] /\ call \in [Calls -> CallRec] BY DEF Types
<1>1. UNCHANGED <<admission, directory, shutdown, woken>> BY DEF ExecuteDirty
<1>2. (call \in [Calls -> CallRec])' BY ZenonT(60), <1>0 DEF ExecuteDirty, CallRec, CallPc
<1>3. (runner \in [Calls -> RunnerRec])'
  <2>1. runner' = [runner EXCEPT ![r].pc = "save", ![r].resv = FALSE] BY DEF ExecuteDirty
  <2> QED BY <1>0, <2>1, SetResv DEF RunnerPc
<1>4. CellTypes' BY DEF ExecuteDirty, Types, Held, InHand, Working, CellTypes
<1>5. InHand' BY DEF ExecuteDirty, Types, InHand, RunnerRec, Working
<1> QED BY <1>0, <1>1, <1>2, <1>3, <1>4, <1>5
        DEF Types, AdmissionTypes, DirectoryTypes, ShutdownTypes, shutdown, admission, directory

\* ExecuteClean keeps the variables well typed.
LEMMA ExecuteCleanTypes == ASSUME Types, NEW r \in Calls, ExecuteClean(r) PROVE Types'
<1>0. runner \in [Calls -> RunnerRec] /\ call \in [Calls -> CallRec] BY DEF Types
<1>1. UNCHANGED <<admission, directory, shutdown, woken>> BY DEF ExecuteClean
<1>2. (call \in [Calls -> CallRec])' BY ZenonT(60), <1>0 DEF ExecuteClean, Complete, Outcome, CallRec, CallPc
<1>3. (runner \in [Calls -> RunnerRec])' BY ZenonT(60), <1>0 DEF ExecuteClean, RunnerRec, RunnerPc
<1>4. CellTypes' BY DEF ExecuteClean, Types, Unreserve, Held, InHand, CellTypes
<1>5. InHand' BY DEF ExecuteClean, Types, InHand, RunnerRec, Working
<1> QED BY <1>0, <1>1, <1>2, <1>3, <1>4, <1>5
        DEF Types, AdmissionTypes, DirectoryTypes, ShutdownTypes, shutdown, admission, directory

\* SavePlayer keeps the variables well typed.
LEMMA SavePlayerTypes == ASSUME Types, NEW r \in Calls, SavePlayer(r) PROVE Types'
<1>0. runner \in [Calls -> RunnerRec] /\ call \in [Calls -> CallRec] BY DEF Types
<1>1. UNCHANGED <<admission, directory, shutdown, woken>> BY DEF SavePlayer
<1>2. (call \in [Calls -> CallRec])' BY <1>0 DEF SavePlayer, Complete, Outcome, CallRec, CallPc
<1>3. (runner \in [Calls -> RunnerRec])' BY <1>0 DEF SavePlayer, RunnerRec, RunnerPc
<1>4. CellTypes' BY GidType DEF SavePlayer, Types, SaveOk, SaveFails, Held, InHand, CellTypes
<1>5. InHand' BY DEF SavePlayer, Types, InHand, RunnerRec, Working
<1> QED BY <1>0, <1>1, <1>2, <1>3, <1>4, <1>5
        DEF Types, AdmissionTypes, DirectoryTypes, ShutdownTypes, shutdown, admission, directory

\* Finish keeps the variables well typed.
LEMMA FinishTypes == ASSUME Types, NEW r \in Calls, Finish(r) PROVE Types'
<1>0. runner \in [Calls -> RunnerRec] /\ call \in [Calls -> CallRec] BY DEF Types
<1>1. UNCHANGED <<admission, cells, shutdown, woken>> BY DEF Finish
<1>2. DirectoryTypes'
  <2>1. Gid(r) \in Gids /\ call[runner[r].cur].kib \in Nat
        BY GidType DEF Finish, Types, InHand, Working, CallRec
  <2>2. inflight' \in [Gids -> Int] /\ inflightKib' \in [Gids -> Int]
        BY <2>1 DEF Finish, Types, DirectoryTypes
  <2>3. mailbox' \in [Gids -> Seq(Calls)]
        BY <2>1, HeadType DEF Finish, Types, DirectoryTypes
  <2> QED BY <2>2, <2>3 DEF Finish, Types, DirectoryTypes
<1>3. (call \in [Calls -> CallRec])' BY SMTT(100), <1>0 DEF Finish, CallRec, CallPc
<1>4. (runner \in [Calls -> RunnerRec])'
  <2>1. PICK h \in Calls \cup {None} :
           runner' = [runner EXCEPT ![r].pc = "dropCalls", ![r].next = h]
        BY HeadType, GidType DEF Finish
  <2>2. "dropCalls" \in RunnerPc BY DEF RunnerPc
  <2> QED BY <1>0, <2>1, <2>2, SetNext
<1>5. InHand' BY DEF Finish, Types, InHand, RunnerRec, Working
<1> QED BY <1>0, <1>1, <1>2, <1>3, <1>4, <1>5
        DEF Types, AdmissionTypes, CellTypes, ShutdownTypes, shutdown, admission, cells

\* DropCalls keeps the variables well typed.
LEMMA DropCallsTypes == ASSUME Types, NEW r \in Calls, DropCalls(r) PROVE Types'
<1>0. runner \in [Calls -> RunnerRec] /\ call \in [Calls -> CallRec] BY DEF Types
<1>1. UNCHANGED <<directory, cells, shutdown, woken>> BY DEF DropCalls
<1>2. AdmissionTypes' BY DEF DropCalls, Types, AdmissionTypes
<1>3. (call \in [Calls -> CallRec])' BY <1>0 DEF DropCalls, CallRec, CallPc
<1>4. (runner \in [Calls -> RunnerRec])' BY <1>0 DEF DropCalls, RunnerRec, RunnerPc
<1>5. InHand' BY DEF DropCalls, Types, InHand, RunnerRec, Working
<1> QED BY <1>0, <1>1, <1>2, <1>3, <1>4, <1>5
        DEF Types, DirectoryTypes, CellTypes, ShutdownTypes, shutdown, directory, cells

\* DropKib keeps the variables well typed.
LEMMA DropKibTypes == ASSUME Types, NEW r \in Calls, DropKib(r) PROVE Types'
<1>0. runner \in [Calls -> RunnerRec] /\ call \in [Calls -> CallRec] BY DEF Types
<1>1. UNCHANGED <<directory, cells>> BY DEF DropKib
<1>2. AdmissionTypes' BY DEF DropKib, Types, CallRec, InHand, Working, AdmissionTypes
<1>3. (call \in [Calls -> CallRec])' BY <1>0 DEF DropKib, CallRec, CallPc
<1>4. (runner \in [Calls -> RunnerRec])'
  <2>1. PICK p \in {"reinsert", "get"}, h \in Calls \cup {None} :
           runner' = [runner EXCEPT ![r].pc = p, ![r].cur = h, ![r].next = None]
        BY <1>0 DEF DropKib, RunnerRec
  <2> QED BY <1>0, <2>1, SetCur DEF RunnerPc
<1>5. ShutdownTypes' BY DEF DropKib, Types, NotifyDrain, ShutdownTypes, shutdown
<1>6. InHand' BY DEF DropKib, Types, InHand, RunnerRec, Working
<1> QED BY <1>0, <1>1, <1>2, <1>3, <1>4, <1>5, <1>6
        DEF Types, DirectoryTypes, CellTypes, directory, cells

\* Reinsert keeps the variables well typed.
LEMMA ReinsertTypes == ASSUME Types, NEW r \in Calls, Reinsert(r) PROVE Types'
<1>0. runner \in [Calls -> RunnerRec] /\ call \in [Calls -> CallRec] BY DEF Types
<1>1. UNCHANGED <<admission, directory, call, shutdown, woken>> BY DEF Reinsert
<1>2. (runner \in [Calls -> RunnerRec])' BY <1>0 DEF Reinsert, RunnerRec, RunnerPc
<1>3. CellTypes' BY GidType DEF Reinsert, Types, Held, RunnerRec, CellTypes
<1>4. InHand' BY DEF Reinsert, Types, InHand, RunnerRec, Working
<1> QED BY <1>0, <1>1, <1>2, <1>3, <1>4
        DEF Types, AdmissionTypes, DirectoryTypes, ShutdownTypes, shutdown, admission, directory

\* Retire keeps the variables well typed.
LEMMA RetireTypes == ASSUME Types, NEW r \in Calls, Retire(r) PROVE Types'
<1>0. /\ runner \in [Calls -> RunnerRec] /\ call \in [Calls -> CallRec]
      /\ InHand /\ DirectoryTypes /\ Gid(r) \in Gids
  BY GidType DEF Types
<1>1. UNCHANGED <<admission, cells, dirLock, inflight, inflightKib>> BY DEF Retire
<1>2. ShutdownTypes' BY DEF Retire, Types, NotifyDrain, ShutdownTypes, shutdown
<1>3. CASE MayRetire(Gid(r))
  <2>1. /\ runner' = [runner EXCEPT ![r] = Idle]
        /\ UNCHANGED <<call, mailbox>> /\ slots' = slots \ {Gid(r)}
    BY <1>3 DEF Retire
  <2>2. (runner \in [Calls -> RunnerRec])' BY <2>1, <1>0 DEF RunnerRec, RunnerPc, Idle
  <2>3. InHand' BY <2>1, <1>0 DEF InHand, Idle, Working, RunnerRec
  <2> QED BY <1>0, <1>1, <1>2, <2>1, <2>2, <2>3
          DEF Types, AdmissionTypes, DirectoryTypes, CellTypes, admission, cells
<1>4. CASE ~MayRetire(Gid(r))
  <2>0. mailbox[Gid(r)] # <<>> BY <1>4 DEF MayRetire
  <2>1. PICK h \in Calls : /\ runner' = [runner EXCEPT ![r].pc = "get", ![r].cur = h]
                           /\ call' = [call EXCEPT ![h].pc = "running"]
    BY <1>0, <2>0, <1>4, HeadType DEF Retire
  <2>2. (runner \in [Calls -> RunnerRec])' BY ZenonT(60), <2>1, <1>0 DEF RunnerRec, RunnerPc
  <2>3. InHand' BY <2>1, <1>0 DEF InHand, Working, RunnerRec
  <2>4. (call \in [Calls -> CallRec])' BY <2>1, <1>0 DEF CallRec, CallPc
  <2>5. mailbox' = [mailbox EXCEPT ![Gid(r)] = Tail(@)] /\ slots' = slots BY <1>4 DEF Retire
  <2>6. DirectoryTypes' BY <1>0, <1>1, <2>0, <2>5, HeadType DEF DirectoryTypes
  <2> QED BY <1>0, <1>1, <1>2, <2>2, <2>3, <2>4, <2>6
          DEF Types, AdmissionTypes, CellTypes, admission, cells
<1> QED BY <1>3, <1>4

\* Evict keeps the variables well typed.
LEMMA EvictTypes == ASSUME Types, NEW g \in Gids, Evict(g) PROVE Types'
<1>1. UNCHANGED <<admission, directory, call, runner, shutdown, woken>> BY DEF Evict
<1>2. CellTypes' BY DEF Evict, Types, CellTypes
<1> QED BY <1>1, <1>2
        DEF Types, AdmissionTypes, DirectoryTypes, ShutdownTypes, shutdown, InHand, admission, directory

\* SaverLock keeps the variables well typed.
LEMMA SaverLockTypes == ASSUME Types, NEW k \in Calls, SaverLock(k) PROVE Types'
<1>1. UNCHANGED <<admission, directory, call, runner, shutdown, woken>> BY DEF SaverLock
<1>2. CellTypes' BY DEF SaverLock, Types, CellTypes
<1> QED BY <1>1, <1>2
        DEF Types, AdmissionTypes, DirectoryTypes, ShutdownTypes, shutdown, InHand, admission, directory

\* SaverDone keeps the variables well typed.
LEMMA SaverDoneTypes == ASSUME Types, NEW k \in Calls, SaverDone(k) PROVE Types'
<1>1. UNCHANGED <<admission, directory, call, runner, shutdown, woken>> BY DEF SaverDone
<1>2. CellTypes' BY GidType DEF SaverDone, Types, SaveOk, SaveFails, CellTypes
<1> QED BY <1>1, <1>2
        DEF Types, AdmissionTypes, DirectoryTypes, ShutdownTypes, shutdown, InHand, admission, directory

\* Close keeps the variables well typed.
LEMMA CloseTypes == ASSUME Types, Close PROVE Types'
<1>1. UNCHANGED <<directory, cells, call, runner>> BY DEF Close
<1>2. AdmissionTypes' BY DEF Close, Types, AdmissionTypes
<1>3. ShutdownTypes' BY DEF Close, Types, ShutPc, ShutdownTypes, shutdown
<1> QED BY <1>1, <1>2, <1>3
        DEF Types, DirectoryTypes, CellTypes, InHand, directory, cells

\* CheckCalls keeps the variables well typed.
LEMMA CheckCallsTypes == ASSUME Types, CheckCalls PROVE Types'
<1>1. UNCHANGED <<admission, directory, cells, call, runner>> BY DEF CheckCalls
<1>2. ShutdownTypes' BY DEF CheckCalls, Types, ShutPc, ShutdownTypes, shutdown
<1> QED BY <1>1, <1>2
        DEF Types, AdmissionTypes, DirectoryTypes, CellTypes, InHand, admission, directory, cells

\* CheckActive keeps the variables well typed.
LEMMA CheckActiveTypes == ASSUME Types, CheckActive PROVE Types'
<1>1. UNCHANGED <<admission, directory, cells, call, runner>> BY DEF CheckActive
<1>2. ShutdownTypes' BY DEF CheckActive, Types, ShutPc, ShutdownTypes, shutdown
<1> QED BY <1>1, <1>2
        DEF Types, AdmissionTypes, DirectoryTypes, CellTypes, InHand, admission, directory, cells

\* Listen keeps the variables well typed.
LEMMA ListenTypes == ASSUME Types, Listen PROVE Types'
<1>1. UNCHANGED <<admission, directory, cells, call, runner>> BY DEF Listen
<1>2. ShutdownTypes' BY DEF Listen, Types, ShutPc, ShutdownTypes, shutdown
<1> QED BY <1>1, <1>2
        DEF Types, AdmissionTypes, DirectoryTypes, CellTypes, InHand, admission, directory, cells

\* Wake keeps the variables well typed.
LEMMA WakeTypes == ASSUME Types, Wake PROVE Types'
<1>1. UNCHANGED <<admission, directory, cells, call, runner>> BY DEF Wake
<1>2. ShutdownTypes' BY DEF Wake, Types, ShutPc, ShutdownTypes, shutdown
<1> QED BY <1>1, <1>2
        DEF Types, AdmissionTypes, DirectoryTypes, CellTypes, InHand, admission, directory, cells

\* FlushPlayer keeps the variables well typed.
LEMMA FlushPlayerTypes == ASSUME Types, NEW g \in Gids, FlushPlayer(g) PROVE Types'
<1>1. UNCHANGED <<admission, directory, call, runner>> BY DEF FlushPlayer
<1>2. CellTypes' BY DEF FlushPlayer, Types, SaveOk, SaveFails, CellTypes
<1>3. ShutdownTypes' BY DEF FlushPlayer, Types, ShutPc, ShutdownTypes, shutdown
<1> QED BY <1>1, <1>2, <1>3
        DEF Types, AdmissionTypes, DirectoryTypes, InHand, admission, directory

\* FlushEnd keeps the variables well typed.
LEMMA FlushEndTypes == ASSUME Types, FlushEnd PROVE Types'
<1>1. UNCHANGED <<admission, directory, cells, call, runner>> BY DEF FlushEnd
<1>2. ShutdownTypes'
  <2>1. stopped' \in BOOLEAN BY Zenon DEF FlushEnd, NoDirtyPlayers
  <2>2. UNCHANGED woken /\ shut' = "idle" BY DEF FlushEnd
  <2> QED BY <2>1, <2>2 DEF Types, ShutdownTypes, ShutPc
<1> QED BY <1>1, <1>2
        DEF Types, AdmissionTypes, DirectoryTypes, CellTypes, InHand, admission, directory, cells

\* The initial states are well typed.
LEMMA TypesInit == Init => Types
<1> SUFFICES ASSUME Init PROVE Types OBVIOUS
<1>1. AdmissionTypes
  <2>1. calls \in Int /\ kib \in Int BY DEF Init
  <2>2. closed \in BOOLEAN BY Zenon DEF Init
  <2> QED BY <2>1, <2>2 DEF AdmissionTypes
<1>2. DirectoryTypes BY DEF Init, DirectoryTypes
<1>3. call \in [Calls -> CallRec] BY RuntimeConfig DEF Init, CallRec, CallPc, Outcome
<1>4. runner \in [Calls -> RunnerRec] /\ InHand
  BY DEF Init, Idle, RunnerRec, RunnerPc, InHand, Working
<1>5. CellTypes BY DEF Init, CellTypes
<1>6. ShutdownTypes BY DEF Init, ShutdownTypes, ShutPc
<1> QED BY <1>1, <1>2, <1>3, <1>4, <1>5, <1>6 DEF Types

\* Every step keeps Types.
LEMMA TypesNext == ASSUME Types, [Next]_vars PROVE Types'
<1>1. ASSUME NEW c \in Calls, Enqueue(c) PROVE Types'
  BY <1>1, TryUseTypes, AcquireKibTypes, UndoCallsTypes, PushTypes DEF Enqueue
<1>2. ASSUME NEW r \in Calls, RunGid(r) PROVE Types'
  BY <1>2, TakeNextTypes, GetResidentTypes, LoadPlayerTypes, LoadFailsTypes, EnterGateTypes,
     PreloadFailsTypes, ExecuteDirtyTypes, ExecuteCleanTypes, SavePlayerTypes, FinishTypes,
     DropCallsTypes, DropKibTypes, ReinsertTypes, RetireTypes
     DEF RunGid
<1>3. ASSUME NEW k \in Calls, CacheSaver(k) PROVE Types'
  BY <1>3, SaverLockTypes, SaverDoneTypes DEF CacheSaver
<1>4. ASSUME NEW g \in Gids, Evict(g) PROVE Types' BY <1>4, EvictTypes
<1>5. CASE Close BY <1>5, CloseTypes
<1>6. CASE ShutdownStep
  BY <1>6, CheckCallsTypes, CheckActiveTypes, ListenTypes, WakeTypes, FlushPlayerTypes, FlushEndTypes
     DEF ShutdownStep
<1>7. CASE UNCHANGED vars
  BY <1>7 DEF vars, admission, directory, cells, shutdown, Types, AdmissionTypes, DirectoryTypes,
              CellTypes, ShutdownTypes, InHand
<1> QED BY <1>1, <1>2, <1>3, <1>4, <1>5, <1>6, <1>7 DEF Next

-----------------------------------------------------------------------------
(* Ownership *)

USE DistinctNames

\* The elements of a queue, and that none occurs twice.
Elems(s) == {s[i] : i \in DOMAIN s}
NoRepeat(s) == \A i, j \in DOMAIN s : s[i] = s[j] => i = j

\* push_back adds the call once.
LEMMA PushBox == ASSUME NEW s \in Seq(Calls), NEW c \in Calls, c \notin Elems(s), NoRepeat(s)
                 PROVE  Elems(Append(s, c)) = Elems(s) \cup {c} /\ NoRepeat(Append(s, c))
<1>1. /\ DOMAIN s = 1..Len(s) /\ DOMAIN Append(s, c) = 1..(Len(s) + 1) /\ Len(s) \in Nat
      /\ \A i \in 1..Len(s) : Append(s, c)[i] = s[i]
      /\ Append(s, c)[Len(s) + 1] = c
  OBVIOUS
<1>2. Elems(Append(s, c)) = Elems(s) \cup {c} BY <1>1 DEF Elems
<1>3. NoRepeat(Append(s, c)) BY <1>1 DEF NoRepeat, Elems
<1> QED BY <1>2, <1>3

\* pop_front takes the head out.
LEMMA PopBox == ASSUME NEW s \in Seq(Calls), s # <<>>, NoRepeat(s)
                PROVE  /\ Head(s) \in Elems(s) /\ Tail(s) \in Seq(Calls)
                       /\ Elems(Tail(s)) = Elems(s) \ {Head(s)} /\ NoRepeat(Tail(s))
<1>1. /\ DOMAIN s = 1..Len(s) /\ Len(s) \in Nat \ {0} /\ DOMAIN Tail(s) = 1..(Len(s) - 1)
      /\ Head(s) = s[1] /\ \A i \in 1..(Len(s) - 1) : Tail(s)[i] = s[i + 1]
  OBVIOUS
<1>2. Head(s) \in Elems(s) BY <1>1 DEF Elems
<1>3. Elems(Tail(s)) \subseteq Elems(s) \ {Head(s)} BY <1>1 DEF Elems, NoRepeat
<1>4. ASSUME NEW x \in Elems(s) \ {Head(s)} PROVE x \in Elems(Tail(s))
  <2>1. PICK i \in 1..Len(s) : x = s[i] BY <1>1 DEF Elems
  <2>2. i # 1 BY <1>1, <2>1
  <2>3. i - 1 \in 1..(Len(s) - 1) /\ Tail(s)[i - 1] = x BY <1>1, <2>1, <2>2
  <2> QED BY <1>1, <2>3 DEF Elems
<1>5. NoRepeat(Tail(s)) BY <1>1 DEF NoRepeat
<1> QED BY <1>2, <1>3, <1>4, <1>5

\* A queue is empty when it has no elements.
LEMMA EmptyBox == ASSUME NEW s \in Seq(Calls) PROVE s = <<>> <=> Elems(s) = {}
<1>1. s # <<>> => 1 \in DOMAIN s OBVIOUS
<1>2. s = <<>> => DOMAIN s = {} OBVIOUS
<1>3. s # <<>> => Elems(s) # {} BY <1>1 DEF Elems
<1>4. s = <<>> => Elems(s) = {} BY <1>2 DEF Elems
<1> QED BY <1>3, <1>4

\* Phases of an enqueue that holds the directory and mailbox locks.
Locked == {"kib", "undo", "push"}

LockOwner == \A c \in Calls, g \in Gids :
                dirLock[g] = c <=> Gid(c) = g /\ call[c].pc \in Locked

NotStarted == \A c \in Calls : call[c].pc \in Locked \cup {"new"} => ~Live(c)

\* The phase of the call in the hand of a runner at pc.
Phase(pc) == CASE pc = "dropCalls" -> "finished"
               [] pc = "dropKib"   -> "dropping"
               [] OTHER            -> "running"

CurCall == \A r \in Calls :
              /\ runner[r].pc \in Working => /\ Gid(runner[r].cur) = Gid(r)
                                            /\ call[runner[r].cur].pc = Phase(runner[r].pc)
              /\ runner[r].pc \notin Working => runner[r].cur = None

NextCall == \A r \in Calls : runner[r].next # None =>
               /\ runner[r].pc \in {"dropCalls", "dropKib"}
               /\ Gid(runner[r].next) = Gid(r)
               /\ call[runner[r].next].pc = "running"

InFlight == \A c \in Calls : call[c].pc \in {"running", "finished", "dropping"} =>
               \E r \in Calls : Live(r) /\ Gid(r) = Gid(c) /\ c \in {runner[r].cur, runner[r].next}

Mailboxes == \A g \in Gids :
                /\ Elems(mailbox[g]) = {c \in Calls : Gid(c) = g /\ call[c].pc = "queued"}
                /\ NoRepeat(mailbox[g])
                /\ mailbox[g] # <<>> => g \in slots

TakeFinds == \A r \in Calls : runner[r].pc = "take" => mailbox[Gid(r)] # <<>>

Ownership == /\ LockOwner /\ NotStarted /\ CurCall /\ NextCall /\ InFlight
             /\ Mailboxes /\ TakeFinds /\ OneRunnerPerGid

\* Ownership implies that no accepted call is lost.
LEMMA OwnershipNoOrphan == ASSUME Types, Ownership PROVE NoOrphanCall
<1>1. ASSUME NEW c \in Calls, call[c].pc = "queued"
      PROVE  \E i \in DOMAIN mailbox[Gid(c)] : mailbox[Gid(c)][i] = c
  BY <1>1, GidType DEF Ownership, Mailboxes, Elems
<1>2. \A g \in Gids : \A i, j \in DOMAIN mailbox[g] : mailbox[g][i] = mailbox[g][j] => i = j
  BY DEF Ownership, Mailboxes, NoRepeat
<1>3. \A g \in Gids : mailbox[g] # <<>> => \E r \in Calls : Live(r) /\ Gid(r) = g
  BY DEF Ownership, Mailboxes, OneRunnerPerGid
<1> QED BY <1>1, <1>2, <1>3 DEF Ownership, InFlight, TakeFinds, NoOrphanCall

\* What the steps between get_i64 and finish_envelope do to the directory: nothing
\* but moving the runner on.
InnerStep(r) ==
    /\ runner[r].pc \in {"get", "gate", "logic", "save"}
    /\ \A x \in Calls : call'[x].pc = call[x].pc /\ call'[x].gid = call[x].gid
    /\ \A x \in Calls \ {r} : runner'[x] = runner[x]
    /\ runner'[r].pc \in {"gate", "logic", "save", "finish"}
    /\ runner'[r].cur = runner[r].cur /\ runner'[r].next = runner[r].next
    /\ UNCHANGED <<calls, dirLock, mailbox, slots, inflight>>

InnerAction(r) ==
    \/ GetResident(r) \/ LoadPlayer(r) \/ LoadFails(r) \/ EnterGate(r) \/ PreloadFails(r)
    \/ (\E mutates \in BOOLEAN : ExecuteDirty(r, mutates)) \/ ExecuteClean(r) \/ SavePlayer(r)

\* The actions of run_gid that serve a call are inner steps.
LEMMA InnerActions == ASSUME Types, NEW r \in Calls, InnerAction(r) PROVE InnerStep(r)
<1>0. runner \in [Calls -> RunnerRec] /\ call \in [Calls -> CallRec] BY DEF Types
<1>1. CASE GetResident(r) BY <1>0, <1>1 DEF GetResident, InnerStep, RunnerRec, CallRec, admission, directory
<1>2. CASE LoadPlayer(r) BY <1>0, <1>2 DEF LoadPlayer, InnerStep, RunnerRec, CallRec, admission, directory
<1>3. CASE LoadFails(r) BY <1>0, <1>3 DEF LoadFails, Complete, InnerStep, RunnerRec, CallRec, admission, directory
<1>4. CASE EnterGate(r) BY <1>0, <1>4 DEF EnterGate, Complete, InnerStep, RunnerRec, CallRec, admission, directory
<1>5. CASE PreloadFails(r) BY <1>0, <1>5 DEF PreloadFails, Complete, InnerStep, RunnerRec, CallRec, admission, directory
<1>6. ASSUME NEW mutates \in BOOLEAN, ExecuteDirty(r, mutates) PROVE InnerStep(r)
  BY <1>0, <1>6 DEF ExecuteDirty, InnerStep, RunnerRec, CallRec, admission, directory
<1>7. CASE ExecuteClean(r) BY <1>0, <1>7 DEF ExecuteClean, Complete, InnerStep, RunnerRec, CallRec, admission, directory
<1>8. CASE SavePlayer(r) BY <1>0, <1>8 DEF SavePlayer, Complete, InnerStep, RunnerRec, CallRec, admission, directory
<1> QED BY <1>1, <1>2, <1>3, <1>4, <1>5, <1>6, <1>7, <1>8 DEF InnerAction

\* Inner steps keep Ownership.
LEMMA InnerOwnership == ASSUME Types, Types', Ownership, NEW r \in Calls, InnerStep(r) PROVE Ownership'
<1>1. LockOwner' BY DEF Ownership, LockOwner, InnerStep, Gid
<1>2. NotStarted' BY DEF Ownership, NotStarted, InnerStep, Live, Locked
<1>3. CurCall' BY DEF Ownership, CurCall, InnerStep, Gid, Working, Phase, Types, InHand
<1>4. NextCall' BY DEF Ownership, NextCall, InnerStep, Gid, Types, RunnerRec
<1>5. InFlight' BY DEF Ownership, InFlight, InnerStep, Gid, Live
<1>6. Mailboxes' BY DEF Ownership, Mailboxes, InnerStep, Gid
<1>7. TakeFinds' BY DEF Ownership, TakeFinds, InnerStep, Gid
<1>8. OneRunnerPerGid' BY DEF Ownership, OneRunnerPerGid, InnerStep, Gid, Live
<1> QED BY <1>1, <1>2, <1>3, <1>4, <1>5, <1>6, <1>7, <1>8 DEF Ownership

\* One call moves on.
EnqueueStep(c, from, to) ==
    /\ call[c].pc = from /\ call'[c].pc = to
    /\ \A x \in Calls : call'[x].gid = call[x].gid
    /\ \A x \in Calls \ {c} : call'[x] = call[x]

\* TryUse keeps Ownership.
LEMMA TryUseOwnership == ASSUME Types, Types', Ownership, NEW c \in Calls, TryUse(c) PROVE Ownership'
<1>0. call \in [Calls -> CallRec] /\ dirLock \in [Gids -> Calls \cup {None}] /\ Gid(c) \in Gids
  BY GidType DEF Types, DirectoryTypes
<1>1. /\ UNCHANGED <<runner, mailbox, slots>> /\ dirLock[Gid(c)] = None
      /\ \/ EnqueueStep(c, "new", "rejected") /\ UNCHANGED dirLock
         \/ EnqueueStep(c, "new", "kib") /\ dirLock' = [dirLock EXCEPT ![Gid(c)] = c]
  BY <1>0 DEF TryUse, EnqueueStep, CallRec
<1>2. LockOwner' BY <1>0, <1>1 DEF Ownership, LockOwner, EnqueueStep, Gid, Locked
<1>3. NotStarted' BY <1>1 DEF Ownership, NotStarted, EnqueueStep, Live, Locked
<1>4. CurCall' BY <1>1 DEF Ownership, CurCall, EnqueueStep, Gid, Working, Phase, Types, InHand
<1>5. NextCall' BY <1>1 DEF Ownership, NextCall, EnqueueStep, Gid, Types, RunnerRec
<1>6. InFlight' BY <1>1 DEF Ownership, InFlight, EnqueueStep, Gid, Live
<1>7. Mailboxes' BY <1>1 DEF Ownership, Mailboxes, EnqueueStep, Gid
<1>8. TakeFinds' BY <1>1 DEF Ownership, TakeFinds, EnqueueStep, Gid
<1>9. OneRunnerPerGid' BY <1>1 DEF Ownership, OneRunnerPerGid, EnqueueStep, Gid, Live
<1> QED BY <1>2, <1>3, <1>4, <1>5, <1>6, <1>7, <1>8, <1>9 DEF Ownership

\* AcquireKib keeps Ownership.
LEMMA AcquireKibOwnership == ASSUME Types, Types', Ownership, NEW c \in Calls, AcquireKib(c) PROVE Ownership'
<1>0. call \in [Calls -> CallRec] BY DEF Types
<1>1. /\ UNCHANGED <<runner, mailbox, slots, dirLock>>
      /\ EnqueueStep(c, "kib", "push") \/ EnqueueStep(c, "kib", "undo")
  BY <1>0 DEF AcquireKib, EnqueueStep, CallRec, directory
<1>2. LockOwner' BY <1>1 DEF Ownership, LockOwner, EnqueueStep, Gid, Locked
<1>3. NotStarted' BY <1>1 DEF Ownership, NotStarted, EnqueueStep, Live, Locked
<1>4. CurCall' BY <1>1 DEF Ownership, CurCall, EnqueueStep, Gid, Working, Phase, Types, InHand
<1>5. NextCall' BY <1>1 DEF Ownership, NextCall, EnqueueStep, Gid, Types, RunnerRec
<1>6. InFlight' BY <1>1 DEF Ownership, InFlight, EnqueueStep, Gid, Live
<1>7. Mailboxes' BY <1>1 DEF Ownership, Mailboxes, EnqueueStep, Gid
<1>8. TakeFinds' BY <1>1 DEF Ownership, TakeFinds, EnqueueStep, Gid
<1>9. OneRunnerPerGid' BY <1>1 DEF Ownership, OneRunnerPerGid, EnqueueStep, Gid, Live
<1> QED BY <1>2, <1>3, <1>4, <1>5, <1>6, <1>7, <1>8, <1>9 DEF Ownership

\* UndoCalls keeps Ownership.
LEMMA UndoCallsOwnership == ASSUME Types, Types', Ownership, NEW c \in Calls, UndoCalls(c) PROVE Ownership'
<1>0. call \in [Calls -> CallRec] /\ dirLock \in [Gids -> Calls \cup {None}] /\ Gid(c) \in Gids
  BY GidType DEF Types, DirectoryTypes
<1>1. /\ UNCHANGED <<runner, mailbox, slots>> /\ EnqueueStep(c, "undo", "rejected")
      /\ dirLock' = [dirLock EXCEPT ![Gid(c)] = None]
  BY <1>0 DEF UndoCalls, EnqueueStep, CallRec
<1>2. LockOwner' BY <1>0, <1>1 DEF Ownership, LockOwner, EnqueueStep, Gid, Locked
<1>3. NotStarted' BY <1>1 DEF Ownership, NotStarted, EnqueueStep, Live, Locked
<1>4. CurCall' BY <1>1 DEF Ownership, CurCall, EnqueueStep, Gid, Working, Phase, Types, InHand
<1>5. NextCall' BY <1>1 DEF Ownership, NextCall, EnqueueStep, Gid, Types, RunnerRec
<1>6. InFlight' BY <1>1 DEF Ownership, InFlight, EnqueueStep, Gid, Live
<1>7. Mailboxes' BY <1>1 DEF Ownership, Mailboxes, EnqueueStep, Gid
<1>8. TakeFinds' BY <1>1 DEF Ownership, TakeFinds, EnqueueStep, Gid
<1>9. OneRunnerPerGid' BY <1>1 DEF Ownership, OneRunnerPerGid, EnqueueStep, Gid, Live
<1> QED BY <1>2, <1>3, <1>4, <1>5, <1>6, <1>7, <1>8, <1>9 DEF Ownership

\* Push keeps Ownership.
LEMMA PushOwnership == ASSUME Types, Types', Ownership, NEW c \in Calls, Push(c) PROVE Ownership'
<1> DEFINE g0 == Gid(c)
<1>0. /\ call \in [Calls -> CallRec] /\ runner \in [Calls -> RunnerRec] /\ DirectoryTypes /\ g0 \in Gids
      /\ mailbox[g0] \in Seq(Calls)
  BY GidType DEF Types, DirectoryTypes
<1>1. /\ EnqueueStep(c, "push", "queued")
      /\ slots' = slots \cup {g0} /\ dirLock' = [dirLock EXCEPT ![g0] = None]
      /\ mailbox'[g0] = Append(mailbox[g0], c) /\ \A g \in Gids \ {g0} : mailbox'[g] = mailbox[g]
      /\ \A x \in Calls : runner'[x].cur = runner[x].cur /\ runner'[x].next = runner[x].next
      /\ \A x \in Calls \ {c} : runner'[x].pc = runner[x].pc
      /\ runner'[c].pc = IF g0 \in slots THEN runner[c].pc ELSE "take"
  BY SMTT(30), <1>0 DEF Push, SpawnsRunner, PushBack, EnqueueStep, CallRec, RunnerRec, DirectoryTypes
<1>2. /\ runner[c].pc = "off" /\ runner[c].next = None
  BY <1>0, <1>1 DEF Ownership, NotStarted, NextCall, Live, EnqueueStep, Locked
<1>3. LockOwner' BY <1>0, <1>1 DEF Ownership, LockOwner, EnqueueStep, Gid, Locked, DirectoryTypes
<1>4. NotStarted' BY <1>1 DEF Ownership, NotStarted, EnqueueStep, Live, Locked
<1>5. CurCall' BY SMTT(30), <1>1, <1>2 DEF Ownership, CurCall, EnqueueStep, Gid, Working, Phase, Types, InHand
<1>6. NextCall' BY SMTT(30), <1>0, <1>1, <1>2 DEF Ownership, NextCall, EnqueueStep, Gid, RunnerRec
<1>7. InFlight' BY <1>1, <1>2 DEF Ownership, InFlight, EnqueueStep, Gid, Live
<1>8. Mailboxes'
  <2>1. c \notin Elems(mailbox[g0]) /\ NoRepeat(mailbox[g0])
    BY <1>0, <1>1 DEF Ownership, Mailboxes, EnqueueStep
  <2>2. Elems(mailbox'[g0]) = Elems(mailbox[g0]) \cup {c} /\ NoRepeat(mailbox'[g0])
    BY <1>0, <1>1, <2>1, PushBox
  <2> SUFFICES ASSUME NEW g \in Gids
               PROVE  /\ Elems(mailbox'[g]) = {x \in Calls : call'[x].gid = g /\ call'[x].pc = "queued"}
                      /\ NoRepeat(mailbox'[g])
                      /\ mailbox'[g] # <<>> => g \in slots'
    BY DEF Mailboxes, Gid
  <2>3. CASE g = g0
    <3>1. Elems(mailbox[g0]) = {x \in Calls : call[x].gid = g0 /\ call[x].pc = "queued"}
      BY <1>0 DEF Ownership, Mailboxes, Gid
    <3>2. \A x \in Calls : call'[x].gid = g0 /\ call'[x].pc = "queued" <=>
                              x = c \/ (call[x].gid = g0 /\ call[x].pc = "queued")
      BY <1>1 DEF EnqueueStep, Gid
    <3>3. Elems(mailbox'[g0]) = {x \in Calls : call'[x].gid = g0 /\ call'[x].pc = "queued"}
      BY <2>2, <3>1, <3>2
    <3>4. g0 \in slots' BY <1>1
    <3> QED BY <2>2, <2>3, <3>3, <3>4
  <2>4. CASE g # g0 BY <1>0, <1>1, <2>4 DEF Ownership, Mailboxes, EnqueueStep, Gid
  <2> QED BY <2>3, <2>4
<1>9. TakeFinds'
  <2>1. Append(mailbox[g0], c) # <<>> BY <1>0
  <2>2. mailbox'[g0] # <<>> BY <1>1, <2>1
  <2> QED BY <1>0, <1>1, <2>2, GidType DEF Ownership, TakeFinds, EnqueueStep, Gid
<1>10. OneRunnerPerGid'
  <2>1. \A g \in Gids : g \in slots <=> \E r \in Calls : runner[r].pc # "off" /\ call[r].gid = g
    BY DEF Ownership, OneRunnerPerGid, Live, Gid
  <2>2. CASE g0 \in slots
    <3>1. \A x \in Calls : runner'[x].pc = runner[x].pc BY <1>1, <2>2
    <3>2. slots' = slots BY <1>1, <2>2
    <3> QED BY <1>1, <3>1, <3>2 DEF Ownership, OneRunnerPerGid, EnqueueStep, Gid, Live
  <2>3. CASE g0 \notin slots
    <3>1. \A x \in Calls : runner[x].pc # "off" => call[x].gid # g0 BY <1>0, <2>1, <2>3
    <3>2. runner'[c].pc # "off" /\ call'[c].gid = g0 BY <1>1, <2>3 DEF EnqueueStep, Gid
    <3> QED BY SMTT(30), <1>0, <1>1, <1>2, <3>1, <3>2 DEF Ownership, OneRunnerPerGid, EnqueueStep, Gid, Live
  <2> QED BY <2>2, <2>3
<1> QED BY <1>3, <1>4, <1>5, <1>6, <1>7, <1>8, <1>9, <1>10 DEF Ownership

\* A runner pops the head h of its mailbox.
PickUpStep(r, h) ==
    /\ runner[r].pc \in {"take", "retire"} /\ mailbox[Gid(r)] # <<>> /\ h = Head(mailbox[Gid(r)])
    /\ runner'[r].pc = "get" /\ runner'[r].cur = h /\ runner'[r].next = runner[r].next
    /\ \A x \in Calls \ {r} : runner'[x] = runner[x]
    /\ EnqueueStep(h, "queued", "running")
    /\ mailbox'[Gid(r)] = Tail(mailbox[Gid(r)])
    /\ \A g \in Gids \ {Gid(r)} : mailbox'[g] = mailbox[g]
    /\ UNCHANGED <<slots, dirLock>>

\* Popping a call into the hand of a runner keeps Ownership.
LEMMA PickUpOwnership == ASSUME Types, Types', Ownership, NEW r \in Calls, NEW h \in Calls,
                                PickUpStep(r, h)
                         PROVE  Ownership'
<1> DEFINE g0 == Gid(r)
<1>0. g0 \in Gids /\ mailbox[g0] \in Seq(Calls) /\ runner \in [Calls -> RunnerRec]
  BY GidType DEF Types, DirectoryTypes
<1>1. /\ h \in Elems(mailbox[g0]) /\ Elems(mailbox'[g0]) = Elems(mailbox[g0]) \ {h}
      /\ NoRepeat(mailbox'[g0])
  BY <1>0, PopBox DEF PickUpStep, Ownership, Mailboxes
<1>2. Gid(h) = g0 /\ call[h].pc = "queued" BY <1>0, <1>1 DEF Ownership, Mailboxes
<1>3. runner[r].next = None BY DEF Ownership, NextCall, PickUpStep
<1>4. \A x \in Calls \ {r} : Live(x) => Gid(x) # g0
  BY DEF Ownership, OneRunnerPerGid, PickUpStep, Live
<1>5. LockOwner' BY DEF Ownership, LockOwner, PickUpStep, EnqueueStep, Gid, Locked
<1>6. NotStarted' BY <1>2 DEF Ownership, NotStarted, PickUpStep, EnqueueStep, Live, Locked
<1>7. CurCall' BY SMTT(30), <1>2 DEF Ownership, CurCall, PickUpStep, EnqueueStep, Gid, Working, Phase, Types, InHand
<1>8. NextCall' BY <1>2, <1>3 DEF Ownership, NextCall, PickUpStep, EnqueueStep, Gid, Types, RunnerRec
<1>9. InFlight'
  <2> SUFFICES ASSUME NEW x \in Calls, call'[x].pc \in {"running", "finished", "dropping"}
               PROVE  \E q \in Calls : /\ runner'[q].pc # "off" /\ call'[q].gid = call'[x].gid
                                       /\ x \in {runner'[q].cur, runner'[q].next}
    BY DEF InFlight, Live, Gid
  <2>1. CASE x = h BY <2>1, <1>2 DEF PickUpStep, EnqueueStep, Gid
  <2>2. CASE x # h
    <3>1. PICK q \in Calls : Live(q) /\ Gid(q) = Gid(x) /\ x \in {runner[q].cur, runner[q].next}
      BY <2>2 DEF Ownership, InFlight, PickUpStep, EnqueueStep
    <3>2. CASE q = r BY <1>3, <3>1, <3>2 DEF Ownership, CurCall, PickUpStep, Working
    <3>3. CASE q # r BY <3>1, <3>3 DEF PickUpStep, EnqueueStep, Gid, Live
    <3> QED BY <3>2, <3>3
  <2> QED BY <2>1, <2>2
<1>10. Mailboxes'
  <2> SUFFICES ASSUME NEW g \in Gids
               PROVE  /\ Elems(mailbox'[g]) = {x \in Calls : call'[x].gid = g /\ call'[x].pc = "queued"}
                      /\ NoRepeat(mailbox'[g])
                      /\ mailbox'[g] # <<>> => g \in slots'
    BY DEF Mailboxes, Gid
  <2>1. Elems(mailbox[g]) = {x \in Calls : call[x].gid = g /\ call[x].pc = "queued"}
    BY DEF Ownership, Mailboxes, Gid
  <2>2. CASE g = g0
    <3>1. \A x \in Calls : call'[x].gid = g0 /\ call'[x].pc = "queued" <=>
                              x # h /\ call[x].gid = g0 /\ call[x].pc = "queued"
      BY DEF PickUpStep, EnqueueStep
    <3>2. Elems(mailbox'[g0]) = {x \in Calls : call'[x].gid = g0 /\ call'[x].pc = "queued"}
      BY <1>1, <2>1, <2>2, <3>1
    <3>3. g0 \in slots' BY <1>0 DEF PickUpStep, Ownership, Mailboxes
    <3> QED BY <1>1, <2>2, <3>2, <3>3
  <2>3. CASE g # g0 BY <1>2, <2>1, <2>3 DEF Ownership, Mailboxes, PickUpStep, EnqueueStep, Gid
  <2> QED BY <2>2, <2>3
<1>11. TakeFinds' BY <1>0, <1>4, GidType DEF Ownership, TakeFinds, PickUpStep, EnqueueStep, Gid, Live
<1>12. OneRunnerPerGid' BY DEF Ownership, OneRunnerPerGid, PickUpStep, EnqueueStep, Gid, Live
<1> QED BY <1>5, <1>6, <1>7, <1>8, <1>9, <1>10, <1>11, <1>12 DEF Ownership

\* TakeNext keeps Ownership.
LEMMA TakeNextOwnership == ASSUME Types, Types', Ownership, NEW r \in Calls, TakeNext(r)
                           PROVE  Ownership'
<1>0. /\ call \in [Calls -> CallRec] /\ runner \in [Calls -> RunnerRec] /\ Gid(r) \in Gids
      /\ mailbox \in [Gids -> Seq(Calls)] /\ mailbox[Gid(r)] # <<>>
  BY GidType DEF Types, DirectoryTypes, TakeNext
<1>1. PICK h \in Calls : h = Head(mailbox[Gid(r)]) BY <1>0, HeadType
<1>2. call[h].pc = "queued"
  BY <1>0, <1>1, PopBox DEF Ownership, Mailboxes
<1>3. PickUpStep(r, h)
  BY <1>0, <1>1, <1>2 DEF TakeNext, PickUpStep, EnqueueStep, CallRec, RunnerRec
<1> QED BY <1>3, PickUpOwnership

\* DropCalls keeps Ownership.
LEMMA DropCallsOwnership == ASSUME Types, Types', Ownership, NEW r \in Calls, DropCalls(r)
                            PROVE  Ownership'
<1> DEFINE c == runner[r].cur
<1>0. /\ call \in [Calls -> CallRec] /\ runner \in [Calls -> RunnerRec] /\ c \in Calls
  BY DEF Types, InHand, DropCalls, Working
<1>1. /\ runner[r].pc = "dropCalls" /\ runner'[r].pc = "dropKib"
      /\ runner'[r].cur = c /\ runner'[r].next = runner[r].next
      /\ \A x \in Calls \ {r} : runner'[x] = runner[x]
      /\ UNCHANGED <<slots, dirLock, mailbox>>
  BY <1>0 DEF DropCalls, RunnerRec, directory
<1>2. EnqueueStep(c, "finished", "dropping") /\ Gid(c) = Gid(r)
  BY <1>0 DEF DropCalls, EnqueueStep, CallRec, Ownership, CurCall, Working, Phase
<1>4. \A x \in Calls \ {r} : Live(x) => Gid(x) # Gid(r)
  BY <1>1 DEF Ownership, OneRunnerPerGid, Live
<1>5. LockOwner' BY <1>1, <1>2 DEF Ownership, LockOwner, EnqueueStep, Gid, Locked
<1>6. NotStarted' BY <1>1, <1>2 DEF Ownership, NotStarted, EnqueueStep, Live, Locked
<1>7. CurCall'
  BY <1>0, <1>1, <1>2, <1>4 DEF Ownership, CurCall, EnqueueStep, Gid, Live, Working, Phase, Types, InHand
<1>8. NextCall' BY <1>1, <1>2 DEF Ownership, NextCall, EnqueueStep, Gid, Types, RunnerRec
<1>9. InFlight' BY <1>1, <1>2 DEF Ownership, InFlight, EnqueueStep, Gid, Live
<1>10. Mailboxes' BY <1>1, <1>2 DEF Ownership, Mailboxes, EnqueueStep, Gid
<1>11. TakeFinds' BY <1>1, <1>2 DEF Ownership, TakeFinds, EnqueueStep, Gid
<1>12. OneRunnerPerGid' BY <1>1, <1>2 DEF Ownership, OneRunnerPerGid, EnqueueStep, Gid, Live
<1> QED BY <1>5, <1>6, <1>7, <1>8, <1>9, <1>10, <1>11, <1>12 DEF Ownership

\* DropKib keeps Ownership.
LEMMA DropKibOwnership == ASSUME Types, Types', Ownership, NEW r \in Calls, DropKib(r)
                          PROVE  Ownership'
<1> DEFINE c == runner[r].cur
<1>0. /\ call \in [Calls -> CallRec] /\ runner \in [Calls -> RunnerRec] /\ c \in Calls
  BY DEF Types, InHand, DropKib, Working
<1>1. /\ runner[r].pc = "dropKib"
      /\ runner'[r].pc = IF runner[r].next = None THEN "reinsert" ELSE "get"
      /\ runner'[r].cur = runner[r].next /\ runner'[r].next = None
      /\ \A x \in Calls \ {r} : runner'[x] = runner[x]
      /\ UNCHANGED <<slots, dirLock, mailbox>>
  BY <1>0 DEF DropKib, RunnerRec, directory
<1>2. EnqueueStep(c, "dropping", "done") /\ Gid(c) = Gid(r)
  BY <1>0 DEF DropKib, EnqueueStep, CallRec, Ownership, CurCall, Working, Phase
<1>4. \A x \in Calls \ {r} : Live(x) => Gid(x) # Gid(r)
  BY <1>1 DEF Ownership, OneRunnerPerGid, Live
<1>5. LockOwner' BY <1>1, <1>2 DEF Ownership, LockOwner, EnqueueStep, Gid, Locked
<1>6. NotStarted' BY <1>1, <1>2 DEF Ownership, NotStarted, EnqueueStep, Live, Locked
<1>7. CurCall'
  BY <1>0, <1>1, <1>2, <1>4
     DEF Ownership, CurCall, NextCall, EnqueueStep, Gid, Live, Working, Phase, Types, InHand, RunnerRec
<1>8. NextCall' BY <1>1, <1>2 DEF Ownership, NextCall, EnqueueStep, Gid, Types, RunnerRec
<1>9. InFlight' BY <1>1, <1>2 DEF Ownership, InFlight, EnqueueStep, Gid, Live
<1>10. Mailboxes' BY <1>1, <1>2 DEF Ownership, Mailboxes, EnqueueStep, Gid
<1>11. TakeFinds' BY <1>1, <1>2 DEF Ownership, TakeFinds, EnqueueStep, Gid
<1>12. OneRunnerPerGid' BY <1>1, <1>2 DEF Ownership, OneRunnerPerGid, EnqueueStep, Gid, Live
<1> QED BY <1>5, <1>6, <1>7, <1>8, <1>9, <1>10, <1>11, <1>12 DEF Ownership

\* Reinsert keeps Ownership.
LEMMA ReinsertOwnership == ASSUME Types, Types', Ownership, NEW r \in Calls, Reinsert(r)
                           PROVE  Ownership'
<1>0. runner \in [Calls -> RunnerRec] BY DEF Types
<1>1. /\ runner[r].pc = "reinsert" /\ runner'[r].pc = "retire"
      /\ runner'[r].cur = runner[r].cur /\ runner'[r].next = runner[r].next
      /\ \A x \in Calls \ {r} : runner'[x] = runner[x]
      /\ UNCHANGED <<call, slots, dirLock, mailbox>>
  BY <1>0 DEF Reinsert, RunnerRec, directory
<1>5. LockOwner' BY <1>1 DEF Ownership, LockOwner, Gid
<1>6. NotStarted' BY <1>1 DEF Ownership, NotStarted, Live
<1>7. CurCall' BY <1>1 DEF Ownership, CurCall, Gid, Working
<1>8. NextCall' BY <1>1 DEF Ownership, NextCall, Gid
<1>9. InFlight' BY <1>1 DEF Ownership, InFlight, Gid, Live
<1>10. Mailboxes' BY <1>1 DEF Ownership, Mailboxes, Gid
<1>11. TakeFinds' BY <1>1 DEF Ownership, TakeFinds, Gid
<1>12. OneRunnerPerGid' BY <1>1 DEF Ownership, OneRunnerPerGid, Gid, Live
<1> QED BY <1>5, <1>6, <1>7, <1>8, <1>9, <1>10, <1>11, <1>12 DEF Ownership

\* Retire keeps Ownership.
LEMMA RetireOwnership == ASSUME Types, Types', Ownership, NEW r \in Calls, Retire(r)
                         PROVE  Ownership'
<1>0. /\ call \in [Calls -> CallRec] /\ runner \in [Calls -> RunnerRec] /\ Gid(r) \in Gids
      /\ mailbox \in [Gids -> Seq(Calls)] /\ runner[r].pc = "retire"
  BY GidType DEF Types, DirectoryTypes, Retire
<1>1. CASE mailbox[Gid(r)] # <<>>
  <2>1. PICK h \in Calls : h = Head(mailbox[Gid(r)]) BY <1>0, <1>1, HeadType
  <2>2. call[h].pc = "queued" BY <1>0, <1>1, <2>1, PopBox DEF Ownership, Mailboxes
  <2>3. /\ runner' = [runner EXCEPT ![r].pc = "get", ![r].cur = h]
        /\ call' = [call EXCEPT ![h].pc = "running"]
        /\ mailbox' = [mailbox EXCEPT ![Gid(r)] = Tail(@)]
        /\ UNCHANGED <<slots, dirLock>>
    BY <1>1, <2>1 DEF Retire, MayRetire
  <2>4. PickUpStep(r, h)
    BY <1>0, <1>1, <2>1, <2>2, <2>3 DEF PickUpStep, EnqueueStep, CallRec, RunnerRec
  <2> QED BY <2>4, PickUpOwnership
<1>2. CASE mailbox[Gid(r)] = <<>>
  <2>1. /\ UNCHANGED <<call, mailbox, dirLock>> /\ slots' = slots \ {Gid(r)}
        /\ runner'[r] = Idle /\ \A x \in Calls \ {r} : runner'[x] = runner[x]
    BY <1>0, <1>2 DEF Retire, MayRetire
  <2>2. runner[r].cur = None /\ runner[r].next = None
    BY <1>0 DEF Ownership, CurCall, NextCall, Working
  <2>3. \A x \in Calls \ {r} : Live(x) => Gid(x) # Gid(r)
    BY <1>0 DEF Ownership, OneRunnerPerGid, Live
  <2>5. LockOwner' BY <2>1 DEF Ownership, LockOwner, Gid
  <2>6. NotStarted' BY <2>1 DEF Ownership, NotStarted, Live, Idle
  <2>7. CurCall' BY <2>1 DEF Ownership, CurCall, Gid, Working, Idle
  <2>8. NextCall' BY <2>1 DEF Ownership, NextCall, Gid, Idle
  <2>9. InFlight' BY <2>1, <2>2 DEF Ownership, InFlight, Gid, Live
  <2>10. Mailboxes' BY <1>2, <2>1 DEF Ownership, Mailboxes, Gid
  <2>11. TakeFinds' BY <2>1 DEF Ownership, TakeFinds, Gid, Idle
  <2>12. OneRunnerPerGid'
    <3>1. \A x \in Calls : runner'[x].pc # "off" <=> x # r /\ runner[x].pc # "off"
      BY <2>1 DEF Idle
    <3>2. ASSUME NEW g \in Gids
          PROVE  g \in slots' <=> \E x \in Calls : runner'[x].pc # "off" /\ call[x].gid = g
      <4>1. CASE g = Gid(r) BY <4>1, <2>1, <2>3, <3>1 DEF Live, Gid
      <4>2. CASE g # Gid(r)
        BY <4>2, <2>1, <3>1 DEF Ownership, OneRunnerPerGid, Live, Gid
      <4> QED BY <4>1, <4>2
    <3> QED BY <2>1, <3>1, <3>2 DEF Ownership, OneRunnerPerGid, Gid, Live
  <2> QED BY <2>5, <2>6, <2>7, <2>8, <2>9, <2>10, <2>11, <2>12 DEF Ownership
<1> QED BY <1>1, <1>2

\* Finish keeps Ownership.
LEMMA FinishOwnership == ASSUME Types, Types', Ownership, NEW r \in Calls, Finish(r)
                         PROVE  Ownership'
<1> DEFINE g0 == Gid(r)
           c == runner[r].cur
           nxt == IF mailbox[g0] = <<>> THEN None ELSE Head(mailbox[g0])
<1>0. /\ call \in [Calls -> CallRec] /\ runner \in [Calls -> RunnerRec] /\ c \in Calls
      /\ g0 \in Gids /\ mailbox \in [Gids -> Seq(Calls)] /\ mailbox[g0] \in Seq(Calls)
  BY SMTT(30), GidType DEF Types, DirectoryTypes, InHand, Finish, Working
<1>1. /\ runner[r].pc = "finish" /\ runner'[r].pc = "dropCalls"
      /\ runner'[r].cur = c /\ runner'[r].next = nxt
      /\ \A x \in Calls \ {r} : runner'[x] = runner[x]
      /\ UNCHANGED <<slots, dirLock>>
  BY <1>0 DEF Finish, RunnerRec
<1>2. call[c].pc = "running" /\ Gid(c) = g0 /\ runner[r].next = None
  BY <1>1 DEF Ownership, CurCall, NextCall, Working, Phase
<1>3. /\ nxt # None => nxt \in Calls /\ call[nxt].pc = "queued" /\ Gid(nxt) = g0
      /\ Elems(mailbox'[g0]) = Elems(mailbox[g0]) \ {nxt} /\ NoRepeat(mailbox'[g0])
      /\ mailbox'[g0] # <<>> => mailbox[g0] # <<>>
      /\ \A g \in Gids \ {g0} : mailbox'[g] = mailbox[g]
  <2>1. NoRepeat(mailbox[g0])
        /\ Elems(mailbox[g0]) = {x \in Calls : Gid(x) = g0 /\ call[x].pc = "queued"}
    BY <1>0 DEF Ownership, Mailboxes
  <2>2. CASE mailbox[g0] = <<>>
    <3>1. nxt = None /\ mailbox' = mailbox BY <2>2 DEF Finish
    <3>2. None \notin Elems(mailbox[g0]) BY <2>1
    <3> QED BY <2>1, <3>1, <3>2
  <2>3. CASE mailbox[g0] # <<>>
    <3>1. nxt = Head(mailbox[g0]) /\ nxt \in Calls BY <1>0, <2>3, HeadType
    <3>2. mailbox' = [mailbox EXCEPT ![g0] = Tail(@)] BY <2>3, <3>1 DEF Finish
    <3>3. mailbox'[g0] = Tail(mailbox[g0]) BY <1>0, <3>2
    <3>4. nxt \in Elems(mailbox[g0]) /\ Elems(mailbox'[g0]) = Elems(mailbox[g0]) \ {nxt}
          /\ NoRepeat(mailbox'[g0])
      BY <1>0, <2>1, <2>3, <3>1, <3>3, PopBox
    <3> QED BY <1>0, <2>1, <2>3, <3>2, <3>4
  <2> QED BY <2>2, <2>3
<1>4. /\ call'[c].pc = "finished"
      /\ nxt # None => call'[nxt].pc = "running"
      /\ \A x \in Calls : call'[x].gid = call[x].gid
      /\ \A x \in Calls : x # c /\ x # nxt => call'[x] = call[x]
  BY <1>0, <1>2, <1>3 DEF Finish, CallRec
<1>5. \A x \in Calls \ {r} : Live(x) => Gid(x) # g0
  BY <1>1 DEF Ownership, OneRunnerPerGid, Live
<1> HIDE DEF g0, c, nxt
<1>6. LockOwner' BY <1>1, <1>2, <1>3, <1>4 DEF Ownership, LockOwner, Gid, Locked
<1>7. NotStarted' BY <1>1, <1>2, <1>3, <1>4 DEF Ownership, NotStarted, Live, Locked
<1>8. CurCall'
  <2> SUFFICES ASSUME NEW q \in Calls
               PROVE  /\ runner'[q].pc \in Working =>
                           call'[runner'[q].cur].gid = call'[q].gid
                           /\ call'[runner'[q].cur].pc = Phase(runner'[q].pc)
                      /\ runner'[q].pc \notin Working => runner'[q].cur = None
    BY DEF CurCall, Gid
  <2>1. CASE q = r BY <2>1, <1>0, <1>1, <1>2, <1>4 DEF Gid, Working, Phase, g0
  <2>2. CASE q # r /\ runner[q].pc \in Working
    <3>1. runner[q].cur \in Calls /\ Gid(runner[q].cur) = Gid(q) /\ Gid(q) # g0
      BY <2>2, <1>5 DEF Types, InHand, Ownership, CurCall, Live, Working
    <3>2. runner[q].cur # c /\ runner[q].cur # nxt BY <3>1, <1>2, <1>3
    <3> QED BY <2>2, <3>1, <3>2, <1>1, <1>4 DEF Ownership, CurCall, Gid
  <2>3. CASE q # r /\ runner[q].pc \notin Working BY <2>3, <1>1 DEF Ownership, CurCall
  <2> QED BY <2>1, <2>2, <2>3
<1>9. NextCall'
  <2> SUFFICES ASSUME NEW q \in Calls, runner'[q].next # None
               PROVE  /\ runner'[q].pc \in {"dropCalls", "dropKib"}
                      /\ call'[runner'[q].next].gid = call'[q].gid
                      /\ call'[runner'[q].next].pc = "running"
    BY DEF NextCall, Gid
  <2>1. CASE q = r BY <2>1, <1>0, <1>1, <1>3, <1>4 DEF Gid, g0
  <2>2. CASE q # r
    <3>1. /\ runner[q].next \in Calls /\ Gid(runner[q].next) = Gid(q) /\ Live(q)
          /\ runner[q].pc \in {"dropCalls", "dropKib"} /\ call[runner[q].next].pc = "running"
      BY <2>2, <1>0, <1>1 DEF RunnerRec, Ownership, NextCall, Live
    <3>2. runner[q].next # c /\ runner[q].next # nxt BY <2>2, <3>1, <1>2, <1>3, <1>5
    <3> QED BY <2>2, <3>1, <3>2, <1>1, <1>4 DEF Gid
  <2> QED BY <2>1, <2>2
<1>10. InFlight'
  <2> SUFFICES ASSUME NEW x \in Calls, call'[x].pc \in {"running", "finished", "dropping"}
               PROVE  \E q \in Calls : /\ runner'[q].pc # "off" /\ call'[q].gid = call'[x].gid
                                       /\ x \in {runner'[q].cur, runner'[q].next}
    BY DEF InFlight, Live, Gid
  <2>1. CASE x = c \/ x = nxt BY <2>1, <1>1, <1>2, <1>3, <1>4 DEF Gid, g0
  <2>2. CASE x # c /\ x # nxt
    <3>1. PICK q \in Calls : Live(q) /\ Gid(q) = Gid(x) /\ x \in {runner[q].cur, runner[q].next}
      BY <2>2, <1>4 DEF Ownership, InFlight
    <3>2. q # r BY <3>1, <2>2, <1>2 DEF c
    <3> QED BY <3>1, <3>2, <1>1, <1>4 DEF Gid, Live
  <2> QED BY <2>1, <2>2
<1>11. Mailboxes'
  <2> SUFFICES ASSUME NEW g \in Gids
               PROVE  /\ Elems(mailbox'[g]) = {x \in Calls : call'[x].gid = g /\ call'[x].pc = "queued"}
                      /\ NoRepeat(mailbox'[g])
                      /\ mailbox'[g] # <<>> => g \in slots'
    BY DEF Mailboxes, Gid
  <2>1. Elems(mailbox[g]) = {x \in Calls : call[x].gid = g /\ call[x].pc = "queued"}
    BY DEF Ownership, Mailboxes, Gid
  <2>2. CASE g = g0
    <3>1. \A x \in Calls : call'[x].gid = g0 /\ call'[x].pc = "queued" <=>
                              x # nxt /\ call[x].gid = g0 /\ call[x].pc = "queued"
      BY <1>2, <1>3, <1>4
    <3>2. Elems(mailbox'[g0]) = {x \in Calls : call'[x].gid = g0 /\ call'[x].pc = "queued"}
      BY <1>3, <2>1, <2>2, <3>1
    <3>3. mailbox'[g0] # <<>> => g0 \in slots' BY <1>0, <1>1, <1>3 DEF Ownership, Mailboxes
    <3> QED BY <1>3, <2>2, <3>2, <3>3
  <2>3. CASE g # g0
    <3>1. \A x \in Calls : call'[x].gid = g /\ call'[x].pc = "queued" <=>
                              call[x].gid = g /\ call[x].pc = "queued"
      BY <2>3, <1>2, <1>3, <1>4 DEF Gid
    <3>2. Elems(mailbox'[g]) = {x \in Calls : call'[x].gid = g /\ call'[x].pc = "queued"}
      BY <2>3, <1>3, <2>1, <3>1
    <3> QED BY <2>3, <3>2, <1>1, <1>3 DEF Ownership, Mailboxes
  <2> QED BY <2>2, <2>3
<1>12. TakeFinds'
  <2> SUFFICES ASSUME NEW q \in Calls, runner'[q].pc = "take" PROVE mailbox'[call'[q].gid] # <<>>
    BY DEF TakeFinds, Gid
  <2>1. q # r /\ runner[q].pc = "take" BY <1>1
  <2>2. Gid(q) # g0 /\ Gid(q) \in Gids BY <2>1, <1>5, GidType DEF Live
  <2> QED BY <2>1, <2>2, <1>3, <1>4 DEF Ownership, TakeFinds, Gid
<1>13. OneRunnerPerGid' BY <1>1, <1>4 DEF Ownership, OneRunnerPerGid, Gid, Live
<1> QED BY <1>6, <1>7, <1>8, <1>9, <1>10, <1>11, <1>12, <1>13 DEF Ownership

\* Ownership holds initially.
LEMMA OwnershipInit == Init => Ownership
<1> SUFFICES ASSUME Init PROVE Ownership OBVIOUS
<1>1. /\ \A c \in Calls : call[c].pc = "new" /\ runner[c] = Idle
      /\ \A g \in Gids : dirLock[g] = None /\ mailbox[g] = <<>>
      /\ slots = {}
  BY DEF Init
<1>2. LockOwner BY <1>1 DEF LockOwner, Locked
<1>3. NotStarted /\ CurCall /\ NextCall /\ TakeFinds
  BY <1>1 DEF NotStarted, CurCall, NextCall, TakeFinds, Live, Idle, Working
<1>4. InFlight BY <1>1 DEF InFlight
<1>5. Mailboxes
  <2>1. Elems(<<>>) = {} /\ NoRepeat(<<>>) BY DEF Elems, NoRepeat
  <2> QED BY <1>1, <2>1 DEF Mailboxes
<1>6. OneRunnerPerGid BY <1>1 DEF OneRunnerPerGid, Live, Idle
<1> QED BY <1>2, <1>3, <1>4, <1>5, <1>6 DEF Ownership

\* A step that leaves the directory, the calls and the runners alone keeps Ownership.
LEMMA SameOwnership == ASSUME Ownership, UNCHANGED <<slots, dirLock, mailbox, call, runner>>
                       PROVE  Ownership'
BY DEF Ownership, LockOwner, NotStarted, CurCall, NextCall, InFlight, Mailboxes, TakeFinds,
       OneRunnerPerGid, Gid, Live

\* Every step keeps Ownership.
LEMMA OwnershipNext == ASSUME Types, Ownership, [Next]_vars PROVE Ownership'
<1>0. Types' BY TypesNext
<1>1. ASSUME NEW c \in Calls, Enqueue(c) PROVE Ownership'
  BY <1>0, <1>1, TryUseOwnership, AcquireKibOwnership, UndoCallsOwnership, PushOwnership DEF Enqueue
<1>2. ASSUME NEW r \in Calls, RunGid(r) PROVE Ownership'
  <2>1. CASE InnerAction(r) BY <1>0, <2>1, InnerActions, InnerOwnership
  <2>2. CASE ~InnerAction(r)
    BY <1>0, <1>2, <2>2, TakeNextOwnership, FinishOwnership, DropCallsOwnership, DropKibOwnership,
       ReinsertOwnership, RetireOwnership
       DEF RunGid, InnerAction
  <2> QED BY <2>1, <2>2
<1>3. ASSUME NEW k \in Calls, CacheSaver(k) PROVE Ownership'
  BY <1>3, SameOwnership DEF CacheSaver, SaverLock, SaverDone, directory
<1>4. ASSUME NEW g \in Gids, Evict(g) PROVE Ownership'
  BY <1>4, SameOwnership DEF Evict, directory
<1>5. CASE Close BY <1>5, SameOwnership DEF Close, directory
<1>6. CASE ShutdownStep
  BY <1>6, SameOwnership
     DEF ShutdownStep, CheckCalls, CheckActive, Listen, Wake, FlushPlayer, FlushEnd, directory
<1>7. CASE UNCHANGED vars BY <1>7, SameOwnership DEF vars, directory
<1> QED BY <1>1, <1>2, <1>3, <1>4, <1>5, <1>6, <1>7 DEF Next

\* Types and Ownership are invariants.
LEMMA OwnershipInvariant == Spec => [](Types /\ Ownership)
<1>1. Init => Types /\ Ownership BY TypesInit, OwnershipInit
<1>2. Types /\ Ownership /\ [Next]_vars => (Types /\ Ownership)' BY TypesNext, OwnershipNext
<1> QED BY <1>1, <1>2, PTL DEF Spec

\* For any number of players and calls, any limits and any cache: enqueue and
\* retire_or_take_next never leave a gid with two runner tasks, or a slot without one.
THEOREM OneRunner == Spec => []OneRunnerPerGid
<1>1. Types /\ Ownership => OneRunnerPerGid BY DEF Ownership
<1> QED BY <1>1, OwnershipInvariant, PTL

\* An accepted call is always in its mailbox or in the hand of a live runner of its
\* gid, whatever races the retirement of that runner.
THEOREM NoCallLost == Spec => []NoOrphanCall
<1>1. Types /\ Ownership => NoOrphanCall BY OwnershipNoOrphan
<1> QED BY <1>1, OwnershipInvariant, PTL

-----------------------------------------------------------------------------
(*****************************************************************************)
(* Proof that the counters of the runtime are exact (CallsExact, KibExact,   *)
(* DirtySlotsExact), with it that no counter underflows (TypeOK), and that   *)
(* the drain of shutdown() is complete (DrainedBeforeFlush).                 *)
(*                                                                           *)
(* The limit of a mailbox is tested when the lock is taken and used when     *)
(* the call is pushed: Room, and KibRoom for the sizes, say that it is       *)
(* still valid then, because LockOwner keeps other calls of the gid out.     *)
(* The budget rests on Gates: a cell is in a critical step only for the      *)
(* holder of its save gate, and a reservation exists only for a clean cell   *)
(* under running logic.                                                      *)
(*                                                                           *)
(* A drain check reads two counters one after the other.  Drained says why   *)
(* that is enough: admission is closed before, so that a call count once     *)
(* found at zero stays there, and then no slot can appear any more.          *)
(*****************************************************************************)


\* A new element adds one.
LEMMA AddOne == ASSUME NEW S, NEW x, IsFiniteSet(S), x \notin S
                PROVE  Cardinality(S \cup {x}) = Cardinality(S) + 1 /\ IsFiniteSet(S \cup {x})
BY FS_AddElement

\* Removing an element takes one away.
LEMMA DropOne == ASSUME NEW S, NEW x, IsFiniteSet(S), x \in S
                 PROVE  Cardinality(S \ {x}) = Cardinality(S) - 1 /\ IsFiniteSet(S \ {x})
BY FS_RemoveElement

\* Sets of calls are finite.
LEMMA FiniteParts == ASSUME NEW S \in SUBSET Calls PROVE IsFiniteSet(S) /\ Cardinality(S) \in Nat
BY FiniteCalls, FS_Subset, FS_CardinalityType

\* Phases that own a unit of Admission.calls, and of Mailbox.inflight_calls.
Holding == {"kib", "undo", "push", "queued", "running", "finished"}
Boxed == {"queued", "running"}

\* The per-gid limit tested by enqueue still holds when it pushes.
Room == \A c \in Calls : call[c].pc \in Locked => inflight[Gid(c)] < MaxCallsPerGid

Counting == CallsExact /\ Room

\* The phase of one call changes.
CountStep(c, from, to) ==
    /\ call[c].pc = from /\ call'[c].pc = to
    /\ \A x \in Calls : call'[x].gid = call[x].gid
    /\ \A x \in Calls \ {c} : call'[x].pc = call[x].pc

\* HoldCall when a call keeps its unit, ...
LEMMA HoldSame == ASSUME NEW c \in Calls, NEW from, NEW to, CountStep(c, from, to),
                         from \in Holding <=> to \in Holding
                  PROVE  HoldCall' = HoldCall
BY DEF CountStep, HoldCall, Holding

\* ... acquires one ...
LEMMA HoldMore == ASSUME NEW c \in Calls, NEW from, NEW to, CountStep(c, from, to),
                         from \notin Holding, to \in Holding
                  PROVE  /\ HoldCall' = HoldCall \cup {c}
                         /\ Cardinality(HoldCall)' = Cardinality(HoldCall) + 1
<1>1. HoldCall' = HoldCall \cup {c} /\ c \notin HoldCall BY DEF CountStep, HoldCall, Holding
<1>2. IsFiniteSet(HoldCall) BY FiniteParts DEF HoldCall
<1>3. Cardinality(HoldCall)' = Cardinality(HoldCall \cup {c}) BY <1>1
<1> QED BY <1>1, <1>2, <1>3, AddOne

\* ... or gives it back.
LEMMA HoldLess == ASSUME NEW c \in Calls, NEW from, NEW to, CountStep(c, from, to),
                         from \in Holding, to \notin Holding
                  PROVE  Cardinality(HoldCall)' = Cardinality(HoldCall) - 1
<1>1. HoldCall' = HoldCall \ {c} /\ c \in HoldCall BY DEF CountStep, HoldCall, Holding
<1>2. IsFiniteSet(HoldCall) BY FiniteParts DEF HoldCall
<1>3. Cardinality(HoldCall)' = Cardinality(HoldCall \ {c}) BY <1>1
<1> QED BY <1>1, <1>2, <1>3, DropOne

\* InMailbox when a call stays in or out, ...
LEMMA BoxSame == ASSUME NEW c \in Calls, NEW from, NEW to, CountStep(c, from, to),
                        from \in Boxed <=> to \in Boxed, NEW g \in Gids
                 PROVE  InMailbox(g)' = InMailbox(g)
BY DEF CountStep, InMailbox, Boxed, Gid

\* ... or is pushed.
LEMMA BoxMore == ASSUME NEW c \in Calls, NEW from, NEW to, CountStep(c, from, to),
                        from \notin Boxed, to \in Boxed, NEW g \in Gids
                 PROVE  /\ g = Gid(c) => Cardinality(InMailbox(g))' = Cardinality(InMailbox(g)) + 1
                        /\ g # Gid(c) => InMailbox(g)' = InMailbox(g)
<1>1. CASE g = Gid(c)
  <2>1. InMailbox(g)' = InMailbox(g) \cup {c} /\ c \notin InMailbox(g)
    BY <1>1 DEF CountStep, InMailbox, Boxed, Gid
  <2>2. IsFiniteSet(InMailbox(g)) BY FiniteParts DEF InMailbox
  <2>3. Cardinality(InMailbox(g))' = Cardinality(InMailbox(g) \cup {c}) BY <2>1
  <2> QED BY <1>1, <2>1, <2>2, <2>3, AddOne
<1>2. g # Gid(c) => InMailbox(g)' = InMailbox(g) BY DEF CountStep, InMailbox, Boxed, Gid
<1> QED BY <1>1, <1>2

\* No call moves.
LEMMA CountingSame == ASSUME Counting, UNCHANGED <<calls, inflight>>,
                             \A x \in Calls : /\ call'[x].pc = call[x].pc
                                              /\ call'[x].gid = call[x].gid
                      PROVE  Counting'
<1>1. HoldCall' = HoldCall BY DEF HoldCall
<1>2. \A g \in Gids : InMailbox(g)' = InMailbox(g) BY DEF InMailbox, Gid
<1>3. Room' BY DEF Counting, Room, Gid
<1> QED BY <1>1, <1>2, <1>3 DEF Counting, CallsExact

\* A call moves without touching a counter.
LEMMA CountingStep == ASSUME Counting, NEW c \in Calls, NEW from, NEW to, CountStep(c, from, to),
                             from \in Holding <=> to \in Holding, from \in Boxed <=> to \in Boxed,
                             to \in Locked => from \in Locked, UNCHANGED <<calls, inflight>>
                      PROVE  Counting'
<1>1. HoldCall' = HoldCall BY HoldSame
<1>2. \A g \in Gids : InMailbox(g)' = InMailbox(g) BY BoxSame
<1>3. Room' BY DEF Counting, Room, Gid, CountStep
<1> QED BY <1>1, <1>2, <1>3 DEF Counting, CallsExact

\* TryUse keeps Counting.
LEMMA TryUseCounting == ASSUME Types, Ownership, Counting, NEW c \in Calls, TryUse(c) PROVE Counting'
<1>0. call \in [Calls -> CallRec] /\ calls \in Int /\ inflight \in [Gids -> Int] /\ Gid(c) \in Gids
  BY GidType DEF Types, AdmissionTypes, DirectoryTypes
<1>1. CASE Refuses(c)
  <2>1. CountStep(c, "new", "rejected") /\ UNCHANGED <<calls, inflight>>
    BY <1>0, <1>1 DEF TryUse, CountStep, CallRec
  <2> QED BY <2>1, CountingStep DEF Holding, Boxed, Locked
<1>2. CASE ~Refuses(c)
  <2>1. CountStep(c, "new", "kib") /\ calls' = calls + 1 /\ UNCHANGED inflight
    BY <1>0, <1>2 DEF TryUse, CountStep, CallRec
  <2>2. inflight[Gid(c)] < MaxCallsPerGid /\ calls < MaxCalls
    BY <1>0, <1>2, RuntimeConfig DEF Refuses, GidFull
  <2>3. Cardinality(HoldCall)' = Cardinality(HoldCall) + 1 BY <2>1, HoldMore DEF Holding
  <2>4. \A g \in Gids : InMailbox(g)' = InMailbox(g) BY <2>1, BoxSame DEF Boxed
  <2>5. Room' BY <2>1, <2>2 DEF Counting, Room, CountStep, Gid
  <2>6. calls' <= MaxCalls BY <1>0, <2>1, <2>2, RuntimeConfig
  <2> QED BY <2>1, <2>3, <2>4, <2>5, <2>6 DEF Counting, CallsExact
<1> QED BY <1>1, <1>2

\* AcquireKib keeps Counting.
LEMMA AcquireKibCounting == ASSUME Types, Counting, NEW c \in Calls, AcquireKib(c) PROVE Counting'
<1>0. call \in [Calls -> CallRec] BY DEF Types
<1>1. \/ CountStep(c, "kib", "push") \/ CountStep(c, "kib", "undo")
  BY <1>0 DEF AcquireKib, CountStep, CallRec
<1>2. UNCHANGED <<calls, inflight>> BY DEF AcquireKib, directory
<1> QED BY <1>1, <1>2, CountingStep DEF Holding, Boxed, Locked

\* UndoCalls keeps Counting.
LEMMA UndoCallsCounting == ASSUME Types, Counting, NEW c \in Calls, UndoCalls(c) PROVE Counting'
<1>0. call \in [Calls -> CallRec] /\ calls \in Int BY DEF Types, AdmissionTypes
<1>1. CountStep(c, "undo", "rejected") /\ calls' = calls - 1 /\ UNCHANGED inflight
  BY <1>0 DEF UndoCalls, CountStep, CallRec
<1>2. Cardinality(HoldCall)' = Cardinality(HoldCall) - 1 BY <1>1, HoldLess DEF Holding
<1>3. \A g \in Gids : InMailbox(g)' = InMailbox(g) BY <1>1, BoxSame DEF Boxed
<1>4. Room' BY <1>1 DEF Counting, Room, CountStep, Gid, Locked
<1>5. calls' <= MaxCalls BY <1>0, <1>1, RuntimeConfig DEF Counting, CallsExact
<1> QED BY <1>1, <1>2, <1>3, <1>4, <1>5 DEF Counting, CallsExact

\* Push keeps Counting.
LEMMA PushCounting == ASSUME Types, Ownership, Counting, NEW c \in Calls, Push(c) PROVE Counting'
<1> DEFINE g0 == Gid(c)
<1>0. /\ call \in [Calls -> CallRec] /\ inflight \in [Gids -> Int] /\ g0 \in Gids
      /\ dirLock \in [Gids -> Calls \cup {None}]
  BY GidType DEF Types, DirectoryTypes
<1>1. /\ CountStep(c, "push", "queued") /\ UNCHANGED calls
      /\ inflight' = [inflight EXCEPT ![g0] = @ + 1]
  BY <1>0 DEF Push, CountStep, CallRec, admission
<1>2. HoldCall' = HoldCall BY <1>1, HoldSame DEF Holding
<1>3. \A g \in Gids : /\ g = g0 => Cardinality(InMailbox(g))' = Cardinality(InMailbox(g)) + 1
                      /\ g # g0 => InMailbox(g)' = InMailbox(g)
  BY <1>1, BoxMore DEF Boxed
<1>4. inflight[g0] < MaxCallsPerGid /\ dirLock[g0] = c
  BY <1>0, <1>1 DEF Counting, Room, CountStep, Ownership, LockOwner, Locked
<1>5. \A x \in Calls \ {c} : call[x].pc \in Locked => Gid(x) # g0
  BY <1>0, <1>4 DEF Ownership, LockOwner
<1>6. Room' BY <1>0, <1>1, <1>5, GidType DEF Counting, Room, CountStep, Gid, Locked
<1>7. \A g \in Gids : /\ inflight'[g] = Cardinality(InMailbox(g))'
                      /\ inflight'[g] <= MaxCallsPerGid
  <2> SUFFICES ASSUME NEW g \in Gids
               PROVE  /\ inflight'[g] = Cardinality(InMailbox(g))'
                      /\ inflight'[g] <= MaxCallsPerGid
    OBVIOUS
  <2>1. inflight[g] = Cardinality(InMailbox(g)) /\ inflight[g] <= MaxCallsPerGid
    BY DEF Counting, CallsExact
  <2>2. CASE g = g0 BY <2>1, <2>2, <1>0, <1>1, <1>3, <1>4, RuntimeConfig
  <2>3. CASE g # g0 BY <2>1, <2>3, <1>0, <1>1, <1>3
  <2> QED BY <2>2, <2>3
<1>8. calls' = Cardinality(HoldCall)' /\ calls' <= MaxCalls BY <1>1, <1>2 DEF Counting, CallsExact
<1> QED BY <1>6, <1>7, <1>8 DEF Counting, CallsExact

\* TakeNext keeps Counting.
LEMMA TakeNextCounting == ASSUME Types, Ownership, Counting, NEW r \in Calls, TakeNext(r)
                          PROVE  Counting'
<1>0. /\ call \in [Calls -> CallRec] /\ Gid(r) \in Gids
      /\ mailbox \in [Gids -> Seq(Calls)] /\ mailbox[Gid(r)] # <<>>
  BY GidType DEF Types, DirectoryTypes, TakeNext
<1>1. PICK h \in Calls : h = Head(mailbox[Gid(r)]) BY <1>0, HeadType
<1>2. call[h].pc = "queued" BY <1>0, <1>1, PopBox DEF Ownership, Mailboxes
<1>3. CountStep(h, "queued", "running") BY <1>0, <1>1, <1>2 DEF TakeNext, CountStep, CallRec
<1>4. UNCHANGED <<calls, inflight>> BY DEF TakeNext, admission
<1> QED BY <1>3, <1>4, CountingStep DEF Holding, Boxed, Locked

\* Retire keeps Counting.
LEMMA RetireCounting == ASSUME Types, Ownership, Counting, NEW r \in Calls, Retire(r)
                        PROVE  Counting'
<1>0. call \in [Calls -> CallRec] /\ Gid(r) \in Gids /\ mailbox \in [Gids -> Seq(Calls)]
  BY GidType DEF Types, DirectoryTypes, Retire
<1>1. UNCHANGED <<calls, inflight>> BY DEF Retire, admission
<1>2. CASE mailbox[Gid(r)] # <<>>
  <2>1. PICK h \in Calls : h = Head(mailbox[Gid(r)]) BY <1>0, <1>2, HeadType
  <2>2. call[h].pc = "queued" BY <1>0, <1>2, <2>1, PopBox DEF Ownership, Mailboxes
  <2>3. call' = [call EXCEPT ![h].pc = "running"] BY <1>2, <2>1 DEF Retire, MayRetire
  <2>4. CountStep(h, "queued", "running") BY <1>0, <2>2, <2>3 DEF CountStep, CallRec
  <2> QED BY <1>1, <2>4, CountingStep DEF Holding, Boxed, Locked
<1>3. CASE mailbox[Gid(r)] = <<>>
  <2>1. UNCHANGED call BY <1>3 DEF Retire, MayRetire
  <2> QED BY <1>1, <2>1, CountingSame
<1> QED BY <1>2, <1>3

\* DropCalls keeps Counting.
LEMMA DropCallsCounting == ASSUME Types, Ownership, Counting, NEW r \in Calls, DropCalls(r)
                           PROVE  Counting'
<1> DEFINE c == runner[r].cur
<1>0. call \in [Calls -> CallRec] /\ calls \in Int /\ c \in Calls
  BY DEF Types, AdmissionTypes, InHand, DropCalls, Working
<1>1. CountStep(c, "finished", "dropping") /\ calls' = calls - 1 /\ UNCHANGED inflight
  BY <1>0 DEF DropCalls, CountStep, CallRec, directory, Ownership, CurCall, Working, Phase
<1>2. Cardinality(HoldCall)' = Cardinality(HoldCall) - 1 BY <1>0, <1>1, HoldLess DEF Holding
<1>3. \A g \in Gids : InMailbox(g)' = InMailbox(g) BY <1>0, <1>1, BoxSame DEF Boxed
<1>4. Room' BY <1>0, <1>1 DEF Counting, Room, CountStep, Gid, Locked
<1>5. calls' <= MaxCalls BY <1>0, <1>1, RuntimeConfig DEF Counting, CallsExact
<1> QED BY <1>1, <1>2, <1>3, <1>4, <1>5 DEF Counting, CallsExact

\* DropKib keeps Counting.
LEMMA DropKibCounting == ASSUME Types, Ownership, Counting, NEW r \in Calls, DropKib(r)
                         PROVE  Counting'
<1> DEFINE c == runner[r].cur
<1>0. call \in [Calls -> CallRec] /\ c \in Calls BY DEF Types, InHand, DropKib, Working
<1>1. CountStep(c, "dropping", "done") /\ UNCHANGED <<calls, inflight>>
  BY <1>0 DEF DropKib, CountStep, CallRec, directory, Ownership, CurCall, Working, Phase
<1> QED BY <1>0, <1>1, CountingStep DEF Holding, Boxed, Locked

\* Finish keeps Counting.
LEMMA FinishCounting == ASSUME Types, Ownership, Counting, NEW r \in Calls, Finish(r)
                        PROVE  Counting'
<1>g. PICK g0 \in Gids : g0 = Gid(r) BY GidType
<1> DEFINE c == runner[r].cur
           nxt == IF mailbox[g0] = <<>> THEN None ELSE Head(mailbox[g0])
<1>0. /\ call \in [Calls -> CallRec] /\ c \in Calls
      /\ mailbox[g0] \in Seq(Calls) /\ inflight \in [Gids -> Int]
  BY GidType DEF Types, DirectoryTypes, InHand, Finish, Working
<1>1. call[c].pc = "running" /\ Gid(c) = g0
  BY <1>g DEF Finish, Ownership, CurCall, Working, Phase
<1>2. nxt # None => nxt \in Calls /\ call[nxt].pc = "queued"
  BY <1>0, HeadType, PopBox DEF Ownership, Mailboxes
<1>3. /\ call'[c].pc = "finished" /\ (nxt # None => call'[nxt].pc = "running")
      /\ \A x \in Calls : call'[x].gid = call[x].gid
      /\ \A x \in Calls : x # c /\ x # nxt => call'[x].pc = call[x].pc
  BY <1>g, <1>0, <1>1, <1>2 DEF Finish, CallRec
<1>4. UNCHANGED calls /\ inflight' = [inflight EXCEPT ![g0] = @ - 1] BY <1>g DEF Finish, admission
<1> HIDE DEF c, nxt
<1>5. HoldCall' = HoldCall BY <1>1, <1>2, <1>3 DEF HoldCall
<1>6. /\ InMailbox(g0)' = InMailbox(g0) \ {c} /\ c \in InMailbox(g0)
      /\ \A g \in Gids : g # g0 => InMailbox(g)' = InMailbox(g)
  BY <1>0, <1>1, <1>2, <1>3 DEF InMailbox, Gid
<1>7. Cardinality(InMailbox(g0))' = Cardinality(InMailbox(g0)) - 1
  <2>1. IsFiniteSet(InMailbox(g0)) BY FiniteParts DEF InMailbox
  <2>2. Cardinality(InMailbox(g0) \ {c}) = Cardinality(InMailbox(g0)) - 1 BY <1>6, <2>1, DropOne
  <2> QED BY <1>6, <2>2
<1>8. Room' BY <1>0, <1>1, <1>2, <1>3, <1>4, GidType, RuntimeConfig DEF Counting, Room, Locked, Gid
<1>9. \A g \in Gids : /\ inflight'[g] = Cardinality(InMailbox(g))'
                      /\ inflight'[g] <= MaxCallsPerGid
  <2> SUFFICES ASSUME NEW g \in Gids
               PROVE  /\ inflight'[g] = Cardinality(InMailbox(g))'
                      /\ inflight'[g] <= MaxCallsPerGid
    OBVIOUS
  <2>1. inflight[g] = Cardinality(InMailbox(g)) /\ inflight[g] <= MaxCallsPerGid
    BY DEF Counting, CallsExact
  <2>2. CASE g = g0 BY <2>1, <2>2, <1>0, <1>4, <1>7, RuntimeConfig
  <2>3. CASE g # g0 BY <2>1, <2>3, <1>0, <1>4, <1>6
  <2> QED BY <2>2, <2>3
<1>10. calls' = Cardinality(HoldCall)' /\ calls' <= MaxCalls BY <1>4, <1>5 DEF Counting, CallsExact
<1> QED BY <1>8, <1>9, <1>10 DEF Counting, CallsExact

\* Counting holds initially.
LEMMA CountingInit == Init => Counting
<1> SUFFICES ASSUME Init PROVE Counting OBVIOUS
<1>1. \A c \in Calls : call[c].pc = "new" BY DEF Init
<1>2. HoldCall = {} /\ \A g \in Gids : InMailbox(g) = {} BY <1>1 DEF HoldCall, InMailbox
<1>3. Room BY <1>1 DEF Room, Locked
<1>4. calls = 0 /\ \A g \in Gids : inflight[g] = 0 BY DEF Init
<1>5. Cardinality({}) = 0 BY FS_EmptySet
<1> QED BY <1>2, <1>3, <1>4, <1>5, RuntimeConfig DEF Counting, CallsExact

\* Every step keeps Counting.
LEMMA CountingNext == ASSUME Types, Ownership, Counting, [Next]_vars PROVE Counting'
<1>1. ASSUME NEW c \in Calls, Enqueue(c) PROVE Counting'
  BY <1>1, TryUseCounting, AcquireKibCounting, UndoCallsCounting, PushCounting DEF Enqueue
<1>2. ASSUME NEW r \in Calls, RunGid(r) PROVE Counting'
  <2>1. CASE InnerAction(r)
    <3>1. InnerStep(r) BY <2>1, InnerActions
    <3> QED BY <3>1, CountingSame DEF InnerStep
  <2>2. CASE Reinsert(r) BY <2>2, CountingSame DEF Reinsert, admission, directory
  <2>3. CASE ~InnerAction(r) /\ ~Reinsert(r)
    BY <1>2, <2>3, TakeNextCounting, FinishCounting, DropCallsCounting, DropKibCounting, RetireCounting
       DEF RunGid, InnerAction
  <2> QED BY <2>1, <2>2, <2>3
<1>3. ASSUME NEW k \in Calls, CacheSaver(k) PROVE Counting'
  BY <1>3, CountingSame DEF CacheSaver, SaverLock, SaverDone, admission, directory
<1>4. ASSUME NEW g \in Gids, Evict(g) PROVE Counting'
  BY <1>4, CountingSame DEF Evict, admission, directory
<1>5. CASE Close BY <1>5, CountingSame DEF Close, directory
<1>6. CASE ShutdownStep
  BY <1>6, CountingSame
     DEF ShutdownStep, CheckCalls, CheckActive, Listen, Wake, FlushPlayer, FlushEnd, admission, directory
<1>7. CASE UNCHANGED vars BY <1>7, CountingSame DEF vars, admission, directory
<1> QED BY <1>1, <1>2, <1>3, <1>4, <1>5, <1>6, <1>7 DEF Next

\* Runners with a reservation of the dirty budget.
Reserved == {r \in Calls : runner[r].resv}

\* Save gates, reservations and dirty slots agree.
Gates ==
    /\ \A r \in Calls : runner[r].pc \in {"logic", "save"} => saveGate[Held(r)] = r
    /\ \A r \in Calls : runner[r].resv => runner[r].pc = "logic" /\ Held(r) \notin dirtySlot
    /\ \A r \in Calls : runner[r].pc = "logic" /\ ~runner[r].resv => Held(r) \in dirtySlot
    /\ \A r \in Calls : runner[r].pc = "save" => Held(r) \in dirtySlot
    /\ \A k \in Calls : saver[k] = "saving" => saveGate[k] = Saver /\ k \in dirtySlot

Budget == Gates /\ DirtySlotsExact

\* Steps outside the save gate keep Budget.
LEMMA BudgetSame == ASSUME Budget, UNCHANGED <<saveGate, dirty, dirtySlot, dirtySlots>>,
                           \A k \in Calls : saver'[k] = "saving" => saver[k] = "saving",
                           \A x \in Calls : \/ runner'[x] = runner[x]
                                            \/ /\ runner[x].pc # "logic" /\ runner'[x].pc \notin {"logic", "save"}
                                               /\ runner'[x].resv = runner[x].resv
                    PROVE  Budget'
<1>1. Reserved' = Reserved BY DEF Reserved
<1>2. Gates' BY DEF Budget, Gates, Held
<1> QED BY <1>1, <1>2 DEF Budget, DirtySlotsExact, Reserved

\* Admission and push keep Budget.
LEMMA EnqueueBudget == ASSUME Types, Ownership, Budget, NEW c \in Calls, Enqueue(c) PROVE Budget'
<1>0. runner \in [Calls -> RunnerRec] BY DEF Types
<1>1. UNCHANGED <<saveGate, dirty, dirtySlot, dirtySlots, saver>>
  BY DEF Enqueue, TryUse, AcquireKib, UndoCalls, Push, cells
<1>2. CASE Push(c)
  <2>1. runner[c].pc = "off" BY <1>2 DEF Push, Ownership, NotStarted, Locked, Live
  <2>2. \A x \in Calls : \/ runner'[x] = runner[x]
                         \/ /\ runner[x].pc # "logic" /\ runner'[x].pc \notin {"logic", "save"}
                            /\ runner'[x].resv = runner[x].resv
    BY <1>0, <1>2, <2>1 DEF Push, RunnerRec
  <2> QED BY <1>1, <2>2, BudgetSame
<1>3. CASE ~Push(c)
  <2>1. UNCHANGED runner BY <1>3 DEF Enqueue, TryUse, AcquireKib, UndoCalls
  <2> QED BY <1>1, <2>1, BudgetSame
<1> QED BY <1>2, <1>3

\* Steps of run_gid outside the save gate.
PassiveAction(r) ==
    \/ TakeNext(r) \/ GetResident(r) \/ LoadPlayer(r) \/ LoadFails(r)
    \/ Finish(r) \/ DropCalls(r) \/ DropKib(r) \/ Reinsert(r) \/ Retire(r)

\* The steps of a runner outside the save gate keep Budget.
LEMMA PassiveBudget == ASSUME Types, Budget, NEW r \in Calls, PassiveAction(r) PROVE Budget'
<1>0. runner \in [Calls -> RunnerRec] /\ (runner[r].resv => runner[r].pc = "logic")
  BY DEF Types, Budget, Gates
<1>1. UNCHANGED <<saveGate, dirty, dirtySlot, dirtySlots, saver>>
  BY DEF PassiveAction, TakeNext, GetResident, LoadPlayer, LoadFails, Finish, DropCalls, DropKib,
         Reinsert, Retire, cells
<1>2. runner[r].pc # "logic"
  BY DEF PassiveAction, TakeNext, GetResident, LoadPlayer, LoadFails, Finish, DropCalls, DropKib,
         Reinsert, Retire
<1>3. /\ \A x \in Calls \ {r} : runner'[x] = runner[x]
      /\ runner'[r].pc \notin {"logic", "save"} /\ runner'[r].resv = FALSE
  <2>0. runner[r].resv = FALSE BY <1>0, <1>2 DEF RunnerRec
  <2>1. CASE TakeNext(r) BY <1>0, <2>0, <2>1 DEF TakeNext, RunnerRec
  <2>2. CASE GetResident(r) BY <1>0, <2>0, <2>2 DEF GetResident, RunnerRec
  <2>3. CASE LoadPlayer(r) BY <1>0, <2>0, <2>3 DEF LoadPlayer, RunnerRec
  <2>4. CASE LoadFails(r) BY <1>0, <2>0, <2>4 DEF LoadFails, RunnerRec
  <2>5. CASE Finish(r) BY <1>0, <2>0, <2>5 DEF Finish, RunnerRec
  <2>6. CASE DropCalls(r) BY <1>0, <2>0, <2>6 DEF DropCalls, RunnerRec
  <2>7. CASE DropKib(r) BY <1>0, <2>0, <2>7 DEF DropKib, RunnerRec
  <2>8. CASE Reinsert(r) BY <1>0, <2>0, <2>8 DEF Reinsert, RunnerRec
  <2>9. CASE Retire(r) BY <1>0, <2>0, <2>9 DEF Retire, RunnerRec, Idle
  <2> QED BY <2>1, <2>2, <2>3, <2>4, <2>5, <2>6, <2>7, <2>8, <2>9 DEF PassiveAction
<1>4. runner[r].resv = FALSE BY <1>0, <1>2 DEF RunnerRec
<1> QED BY <1>1, <1>2, <1>3, <1>4, BudgetSame

\* EnterGate keeps Budget.
LEMMA EnterGateBudget == ASSUME Types, Budget, NEW r \in Calls, EnterGate(r) PROVE Budget'
<1> DEFINE k == Held(r)
<1>0. /\ runner \in [Calls -> RunnerRec] /\ k \in Calls /\ runner[r].pc = "gate"
      /\ saveGate \in [Calls -> Calls \cup {None, Saver}] /\ saveGate[k] = None
      /\ dirtySlots \in Int /\ runner[r].resv = FALSE
  BY DEF Types, CellTypes, InHand, EnterGate, Held, Budget, Gates, RunnerRec
<1>1. /\ \A x \in Calls \ {r} : runner'[x] = runner[x]
      /\ runner'[r].cell = runner[r].cell
      /\ UNCHANGED <<dirty, dirtySlot, saver>>
  BY <1>0 DEF EnterGate, RunnerRec
<1>2. CASE k \in dirtySlot
  <2>1. /\ runner'[r].pc = "logic" /\ runner'[r].resv = FALSE /\ UNCHANGED dirtySlots
        /\ saveGate' = [saveGate EXCEPT ![k] = r]
    BY <1>0, <1>2 DEF EnterGate, RunnerRec
  <2>2. Reserved' = Reserved BY <1>0, <1>1, <2>1 DEF Reserved
  <2>3. Gates' BY <1>0, <1>1, <1>2, <2>1 DEF Budget, Gates, Held
  <2> QED BY <1>1, <2>1, <2>2, <2>3 DEF Budget, DirtySlotsExact, Reserved
<1>3. CASE k \notin dirtySlot /\ dirtySlots < MaxDirty
  <2>1. /\ runner'[r].pc = "logic" /\ runner'[r].resv = TRUE /\ dirtySlots' = dirtySlots + 1
        /\ saveGate' = [saveGate EXCEPT ![k] = r]
    BY <1>0, <1>3, RuntimeConfig DEF EnterGate, RunnerRec
  <2>2. Reserved' = Reserved \cup {r} /\ r \notin Reserved BY <1>0, <1>1, <2>1 DEF Reserved
  <2>3. Cardinality(Reserved)' = Cardinality(Reserved) + 1
    BY <2>2, AddOne, FiniteParts DEF Reserved
  <2>4. Gates' BY <1>0, <1>1, <1>3, <2>1 DEF Budget, Gates, Held
  <2>5. Cardinality(dirtySlot) \in Nat /\ Cardinality(Reserved) \in Nat
    BY FiniteParts DEF Types, CellTypes, Reserved
  <2>6. dirtySlots' <= MaxDirty BY <1>0, <1>3, <2>1, RuntimeConfig
  <2>7. dirtySlots' = Cardinality(dirtySlot)' + Cardinality(Reserved)'
    BY <1>1, <2>1, <2>3, <2>5 DEF Budget, DirtySlotsExact, Reserved
  <2> QED BY <1>1, <2>4, <2>6, <2>7 DEF Budget, DirtySlotsExact, Reserved
<1>4. CASE k \notin dirtySlot /\ dirtySlots >= MaxDirty
  <2>1. runner'[r].pc = "finish" /\ runner'[r].resv = FALSE /\ UNCHANGED <<dirtySlots, saveGate>>
    BY <1>0, <1>4, RuntimeConfig DEF EnterGate, RunnerRec
  <2> QED BY <1>0, <1>1, <2>1, BudgetSame
<1> QED BY <1>0, <1>2, <1>3, <1>4, RuntimeConfig

\* Giving a reservation back keeps Budget.
LEMMA ReleaseBudget == ASSUME Types, Budget, NEW r \in Calls, PreloadFails(r) \/ ExecuteClean(r)
                       PROVE  Budget'
<1> DEFINE k == Held(r)
<1>0. /\ runner \in [Calls -> RunnerRec] /\ k \in Calls /\ runner[r].pc = "logic"
      /\ saveGate \in [Calls -> Calls \cup {None, Saver}] /\ saveGate[k] = r /\ dirtySlots \in Int
  BY DEF Types, CellTypes, InHand, PreloadFails, ExecuteClean, Held, Budget, Gates
<1>1. /\ \A x \in Calls \ {r} : runner'[x] = runner[x]
      /\ runner'[r].pc = "finish" /\ runner'[r].resv = FALSE
      /\ saveGate' = [saveGate EXCEPT ![k] = None]
      /\ dirtySlots' = IF runner[r].resv THEN dirtySlots - 1 ELSE dirtySlots
      /\ UNCHANGED <<dirty, dirtySlot, saver>>
  BY <1>0 DEF PreloadFails, ExecuteClean, Unreserve, RunnerRec
<1>2. Gates' BY <1>0, <1>1 DEF Budget, Gates, Held
<1>3. Cardinality(dirtySlot) \in Nat /\ Cardinality(Reserved) \in Nat
  BY FiniteParts DEF Types, CellTypes, Reserved
<1>4. Reserved' = Reserved \ {r} BY <1>1 DEF Reserved
<1>5. CASE runner[r].resv
  <2>1. Cardinality(Reserved)' = Cardinality(Reserved) - 1
    BY <1>4, <1>5, DropOne, FiniteParts DEF Reserved
  <2>2. dirtySlots' = Cardinality(dirtySlot)' + Cardinality(Reserved)' /\ dirtySlots' <= MaxDirty
    BY <1>0, <1>1, <1>3, <1>5, <2>1, RuntimeConfig DEF Budget, DirtySlotsExact, Reserved
  <2> QED BY <1>1, <1>2, <2>2 DEF Budget, DirtySlotsExact, Reserved
<1>6. CASE ~runner[r].resv
  <2>1. Reserved' = Reserved BY <1>4, <1>6 DEF Reserved
  <2> QED BY <1>1, <1>2, <1>6, <2>1 DEF Budget, DirtySlotsExact, Reserved
<1> QED BY <1>5, <1>6

\* ExecuteDirty keeps Budget.
LEMMA ExecuteDirtyBudget == ASSUME Types, Budget, NEW r \in Calls, NEW mutates \in BOOLEAN,
                                   ExecuteDirty(r, mutates)
                            PROVE  Budget'
<1> DEFINE k == Held(r)
<1>0. /\ runner \in [Calls -> RunnerRec] /\ k \in Calls /\ runner[r].pc = "logic"
      /\ saveGate[k] = r /\ dirtySlots \in Int /\ dirty = dirtySlot
  BY DEF Types, CellTypes, InHand, ExecuteDirty, Held, Budget, Gates, DirtySlotsExact
<1>1. /\ \A x \in Calls \ {r} : runner'[x] = runner[x]
      /\ runner'[r].pc = "save" /\ runner'[r].resv = FALSE /\ runner'[r].cell = runner[r].cell
      /\ dirty' = dirty \cup {k} /\ dirtySlot' = dirtySlot \cup {k}
      /\ UNCHANGED <<saveGate, dirtySlots, saver>>
  BY <1>0 DEF ExecuteDirty, RunnerRec
<1>2. Gates' BY <1>0, <1>1 DEF Budget, Gates, Held
<1>3. Cardinality(dirtySlot) \in Nat /\ Cardinality(Reserved) \in Nat /\ IsFiniteSet(dirtySlot)
  BY FiniteParts DEF Types, CellTypes, Reserved
<1>4. Reserved' = Reserved \ {r} BY <1>1 DEF Reserved
<1>5. CASE runner[r].resv
  <2>1. Cardinality(Reserved)' = Cardinality(Reserved) - 1
    BY <1>4, <1>5, DropOne, FiniteParts DEF Reserved
  <2>2. k \notin dirtySlot BY <1>5 DEF Budget, Gates
  <2>3. Cardinality(dirtySlot)' = Cardinality(dirtySlot) + 1 BY <1>1, <1>3, <2>2, AddOne
  <2>4. dirtySlots' = Cardinality(dirtySlot)' + Cardinality(Reserved)'
    BY <1>1, <1>3, <2>1, <2>3 DEF Budget, DirtySlotsExact, Reserved
  <2> QED BY <1>0, <1>1, <1>2, <2>4 DEF Budget, DirtySlotsExact, Reserved
<1>6. CASE ~runner[r].resv
  <2>1. Reserved' = Reserved BY <1>4, <1>6 DEF Reserved
  <2>2. dirtySlot' = dirtySlot BY <1>0, <1>1, <1>6 DEF Budget, Gates
  <2> QED BY <1>0, <1>1, <1>2, <2>1, <2>2 DEF Budget, DirtySlotsExact, Reserved
<1> QED BY <1>5, <1>6

\* save_one, failed or not, keeps the count exact.
LEMMA SavedBudget == ASSUME Types, Budget, NEW g \in Gids, NEW k \in dirtySlot,
                            SaveOk(g, k) \/ SaveFails(g, k), Reserved' = Reserved
                     PROVE  DirtySlotsExact' /\ dirtySlot \ {k} \subseteq dirtySlot'
                            /\ dirtySlot' \subseteq dirtySlot
<1>0. dirtySlots \in Int /\ dirtySlot \subseteq Calls BY DEF Types, CellTypes
<1>1. Cardinality(dirtySlot) \in Nat /\ IsFiniteSet(dirtySlot) /\ Cardinality(Reserved) \in Nat
  BY <1>0, FiniteParts DEF Reserved
<1>2. CASE SaveOk(g, k)
  <2>1. /\ dirty' = dirty \ {k} /\ dirtySlot' = dirtySlot \ {k} /\ dirtySlots' = dirtySlots - 1
    BY <1>2 DEF SaveOk
  <2>2. Cardinality(dirtySlot)' = Cardinality(dirtySlot) - 1 BY <1>1, <2>1, DropOne
  <2>3. Cardinality(Reserved)' = Cardinality(Reserved) OBVIOUS
  <2>4. dirtySlots = Cardinality(dirtySlot) + Cardinality(Reserved) /\ dirtySlots <= MaxDirty
    BY DEF Budget, DirtySlotsExact, Reserved
  <2>5. dirtySlots' = Cardinality(dirtySlot)' + Cardinality(Reserved)' /\ dirtySlots' <= MaxDirty
    BY <1>0, <1>1, <2>1, <2>2, <2>3, <2>4, RuntimeConfig
  <2> QED BY <2>1, <2>5 DEF Budget, DirtySlotsExact, Reserved
<1>3. CASE SaveFails(g, k)
  <2>1. UNCHANGED <<dirty, dirtySlot, dirtySlots>> BY <1>3 DEF SaveFails
  <2> QED BY <2>1 DEF Budget, DirtySlotsExact, Reserved
<1> QED BY <1>2, <1>3

\* SavePlayer keeps Budget.
LEMMA SavePlayerBudget == ASSUME Types, Budget, NEW r \in Calls, SavePlayer(r) PROVE Budget'
<1>0. /\ runner \in [Calls -> RunnerRec] /\ runner[r].pc = "save" /\ Gid(r) \in Gids
      /\ saveGate \in [Calls -> Calls \cup {None, Saver}]
  BY GidType DEF Types, CellTypes, SavePlayer
<1>k. PICK k \in Calls : k = Held(r) BY <1>0 DEF Types, InHand, Held
<1>1. /\ \A x \in Calls \ {r} : runner'[x] = runner[x]
      /\ runner'[r].pc = "finish" /\ runner'[r].resv = runner[r].resv
      /\ saveGate' = [saveGate EXCEPT ![k] = None] /\ UNCHANGED saver
      /\ SaveOk(Gid(r), k) \/ SaveFails(Gid(r), k)
  BY <1>0, <1>k DEF SavePlayer, RunnerRec
<1>2. saveGate[k] = r /\ k \in dirtySlot /\ runner[r].resv = FALSE
  BY <1>0, <1>k DEF Budget, Gates, RunnerRec
<1>3. Reserved' = Reserved BY <1>1 DEF Reserved
<1>4. DirtySlotsExact' /\ dirtySlot \ {k} \subseteq dirtySlot' /\ dirtySlot' \subseteq dirtySlot
  BY <1>0, <1>1, <1>2, <1>3, SavedBudget
<1>5. Gates' BY <1>0, <1>1, <1>2, <1>4 DEF Budget, Gates, Held
<1> QED BY <1>4, <1>5 DEF Budget

\* The fallback saver of the cache keeps Budget.
LEMMA SaverBudget == ASSUME Types, Budget, NEW k \in Calls, CacheSaver(k) PROVE Budget'
<1>0. /\ saveGate \in [Calls -> Calls \cup {None, Saver}] /\ Gid(k) \in Gids
      /\ saver \in [Calls -> {"idle", "wait", "saving"}]
  BY GidType DEF Types, CellTypes
<1>1. UNCHANGED runner BY DEF CacheSaver, SaverLock, SaverDone
<1>2. Reserved' = Reserved BY <1>1 DEF Reserved
<1>3. CASE SaverLock(k)
  <2>1. /\ saveGate[k] = None /\ UNCHANGED <<dirty, dirtySlot, dirtySlots>>
        /\ saver' = [saver EXCEPT ![k] = IF k \in dirty THEN "saving" ELSE "idle"]
        /\ saveGate' = IF k \in dirty THEN [saveGate EXCEPT ![k] = Saver] ELSE saveGate
    BY <1>3 DEF SaverLock
  <2>2. dirty = dirtySlot BY DEF Budget, DirtySlotsExact
  <2>3. Gates' BY <1>0, <1>1, <2>1, <2>2 DEF Budget, Gates, Held
  <2> QED BY <1>1, <2>1, <2>3 DEF Budget, DirtySlotsExact
<1>4. CASE SaverDone(k)
  <2>1. /\ saver[k] = "saving" /\ saver' = [saver EXCEPT ![k] = "idle"]
        /\ saveGate' = [saveGate EXCEPT ![k] = None]
        /\ SaveOk(Gid(k), k) \/ SaveFails(Gid(k), k)
    BY <1>4 DEF SaverDone
  <2>2. saveGate[k] = Saver /\ k \in dirtySlot BY <2>1 DEF Budget, Gates
  <2>3. DirtySlotsExact' /\ dirtySlot \ {k} \subseteq dirtySlot' /\ dirtySlot' \subseteq dirtySlot
    BY <1>0, <1>2, <2>1, <2>2, SavedBudget
  <2>4. Gates' BY <1>0, <1>1, <2>1, <2>2, <2>3 DEF Budget, Gates, Held
  <2> QED BY <2>3, <2>4 DEF Budget
<1> QED BY <1>3, <1>4 DEF CacheSaver

\* FlushPlayer keeps Budget.
LEMMA FlushPlayerBudget == ASSUME Types, Budget, NEW g \in Gids, FlushPlayer(g) PROVE Budget'
<1>k. PICK k \in Calls : k = resident[g] BY DEF Types, CellTypes, FlushPlayer
<1>0. UNCHANGED <<runner, saveGate, saver>> /\ saveGate[k] = None BY <1>k DEF FlushPlayer
<1>1. k \in dirtySlot /\ (SaveOk(g, k) \/ SaveFails(g, k))
  BY <1>k DEF FlushPlayer, Budget, DirtySlotsExact
<1>2. Reserved' = Reserved BY <1>0 DEF Reserved
<1>3. DirtySlotsExact' /\ dirtySlot \ {k} \subseteq dirtySlot' /\ dirtySlot' \subseteq dirtySlot
  BY <1>1, <1>2, SavedBudget
<1>4. Gates' BY <1>0, <1>1, <1>3 DEF Budget, Gates, Held
<1> QED BY <1>3, <1>4 DEF Budget

\* Budget holds initially.
LEMMA BudgetInit == Init => Budget
<1> SUFFICES ASSUME Init PROVE Budget OBVIOUS
<1>1. /\ \A r \in Calls : runner[r] = Idle /\ saver[r] = "idle"
      /\ dirty = {} /\ dirtySlot = {} /\ dirtySlots = 0
  BY DEF Init
<1>2. Gates BY <1>1 DEF Gates, Idle
<1>3. {r \in Calls : runner[r].resv} = {} BY <1>1 DEF Idle
<1>4. Cardinality({r \in Calls : runner[r].resv}) = 0 /\ Cardinality(dirtySlot) = 0
  BY <1>1, <1>3, FS_EmptySet
<1>5. dirtySlots <= MaxDirty BY <1>1, RuntimeConfig
<1> QED BY <1>1, <1>2, <1>4, <1>5 DEF Budget, DirtySlotsExact

\* Every step keeps Budget.
LEMMA BudgetNext == ASSUME Types, Ownership, Budget, [Next]_vars PROVE Budget'
<1>1. ASSUME NEW c \in Calls, Enqueue(c) PROVE Budget' BY <1>1, EnqueueBudget
<1>2. ASSUME NEW r \in Calls, RunGid(r) PROVE Budget'
  BY <1>2, PassiveBudget, EnterGateBudget, ReleaseBudget, ExecuteDirtyBudget, SavePlayerBudget
     DEF RunGid, PassiveAction
<1>3. ASSUME NEW k \in Calls, CacheSaver(k) PROVE Budget' BY <1>3, SaverBudget
<1>4. ASSUME NEW g \in Gids, Evict(g) PROVE Budget'
  <2>1. \A k \in Calls : saver'[k] = "saving" => saver[k] = "saving"
    BY <1>4 DEF Evict, Types, CellTypes
  <2> QED BY <1>4, <2>1, BudgetSame DEF Evict
<1>5. CASE Close BY <1>5, BudgetSame DEF Close, cells
<1>6. CASE ShutdownStep
  <2>1. ASSUME NEW g \in Gids, FlushPlayer(g) PROVE Budget' BY <2>1, FlushPlayerBudget
  <2>2. CASE CheckCalls \/ CheckActive \/ Listen \/ Wake \/ FlushEnd
    BY <2>2, BudgetSame DEF CheckCalls, CheckActive, Listen, Wake, FlushEnd, cells
  <2> QED BY <1>6, <2>1, <2>2 DEF ShutdownStep
<1>7. CASE UNCHANGED vars BY <1>7, BudgetSame DEF vars, cells
<1> QED BY <1>1, <1>2, <1>3, <1>4, <1>5, <1>6, <1>7 DEF Next

\* The inductive invariant of the runtime.
RuntimeInv == Types /\ Ownership /\ Counting /\ Budget

\* RuntimeInv is an invariant of the runtime.
LEMMA RuntimeInvariant == Spec => []RuntimeInv
<1>1. Init => RuntimeInv
  BY TypesInit, OwnershipInit, CountingInit, BudgetInit DEF RuntimeInv
<1>2. RuntimeInv /\ [Next]_vars => RuntimeInv'
  BY TypesNext, OwnershipNext, CountingNext, BudgetNext DEF RuntimeInv
<1> QED BY <1>1, <1>2, PTL DEF Spec

\* Every variable of the runtime keeps its type; in particular the call count, the
\* mailbox counts and the dirty slots never go below zero.
THEOREM TypeCorrect == Spec => []TypeOK
<1>1. ASSUME RuntimeInv PROVE TypeOK
  <2>1. calls \in Nat /\ (\A g \in Gids : inflight[g] \in Nat) /\ dirtySlots \in Nat
    <3>1. Cardinality(HoldCall) \in Nat /\ \A g \in Gids : Cardinality(InMailbox(g)) \in Nat
      BY FiniteParts DEF HoldCall, InMailbox
    <3>2. Cardinality(dirtySlot) \in Nat /\ Cardinality({r \in Calls : runner[r].resv}) \in Nat
      BY <1>1, FiniteParts DEF RuntimeInv, Types, CellTypes
    <3> QED BY <1>1, <3>1, <3>2
            DEF RuntimeInv, Counting, CallsExact, Budget, DirtySlotsExact
  <2>2. inflight \in [Gids -> Nat] BY <1>1, <2>1 DEF RuntimeInv, Types, DirectoryTypes
  <2> QED BY <1>1, <2>1, <2>2
          DEF RuntimeInv, Types, AdmissionTypes, DirectoryTypes, CellTypes, ShutdownTypes,
              CallRec, RunnerRec, TypeOK
<1>2. RuntimeInv => TypeOK BY <1>1
<1> QED BY <1>2, RuntimeInvariant, PTL

\* For any limits: the call counters of the admission and of every mailbox are what
\* the calls in flight own, and within their limits.
THEOREM CallCountersExact == Spec => []CallsExact
<1>1. RuntimeInv => CallsExact BY DEF RuntimeInv, Counting
<1> QED BY <1>1, RuntimeInvariant, PTL

\* For any budget and any cache behaviour: dirty_slots counts the dirty players and the
\* reservations of running logic, and never exceeds max_dirty_players.
THEOREM DirtyBudgetExact == Spec => []DirtySlotsExact
<1>1. RuntimeInv => DirtySlotsExact BY DEF RuntimeInv, Budget
<1> QED BY <1>1, RuntimeInvariant, PTL

-----------------------------------------------------------------------------
(* The retained KiB *)

\* The declared size of every call.
Size == [c \in Calls |-> call[c].kib]

\* The per-gid limit tested by enqueue still holds when it pushes.
KibRoom == \A c \in Calls : call[c].pc \in Locked => call[c].kib + inflightKib[Gid(c)] <= MaxKibPerGid

Weighing == KibExact /\ KibRoom

\* No step changes what a call is about.
Fixed == \A x \in Calls : call'[x].kib = call[x].kib /\ call'[x].gid = call[x].gid

\* Every step of the runtime leaves the size and the player of a call alone.
LEMMA CallsFixed == ASSUME Types, [Next]_vars PROVE Fixed
<1>0. call \in [Calls -> CallRec] BY DEF Types
<1>1. ASSUME NEW c \in Calls, Enqueue(c) PROVE Fixed
  BY <1>0, <1>1 DEF Enqueue, TryUse, AcquireKib, UndoCalls, Push, Fixed, CallRec
<1>2. ASSUME NEW r \in Calls, RunGid(r) PROVE Fixed
  <2>1. CASE GetResident(r) \/ LoadPlayer(r) \/ Reinsert(r) BY <2>1 DEF GetResident, LoadPlayer, Reinsert, Fixed
  <2>2. CASE LoadFails(r) \/ EnterGate(r) \/ PreloadFails(r) \/ ExecuteClean(r) \/ SavePlayer(r)
    BY SMTT(30), <1>0, <2>2 DEF LoadFails, EnterGate, PreloadFails, ExecuteClean, SavePlayer, Complete, Fixed, CallRec
  <2>3. CASE TakeNext(r) \/ DropCalls(r) \/ DropKib(r) \/ Retire(r)
    <3>1. ASSUME NEW x, NEW p, call' = [call EXCEPT ![x].pc = p] PROVE Fixed BY <1>0, <3>1 DEF Fixed, CallRec
    <3>2. CASE TakeNext(r) BY <3>1, <3>2 DEF TakeNext
    <3>3. CASE DropCalls(r) BY <3>1, <3>3 DEF DropCalls
    <3>4. CASE DropKib(r) BY <3>1, <3>4 DEF DropKib
    <3>5. CASE Retire(r)
      <4>1. CASE UNCHANGED call BY <4>1 DEF Fixed
      <4> QED BY <3>1, <3>5, <4>1 DEF Retire
    <3> QED BY <2>3, <3>2, <3>3, <3>4, <3>5
  <2>4. ASSUME NEW mutates \in BOOLEAN, ExecuteDirty(r, mutates) PROVE Fixed
    BY <1>0, <2>4 DEF ExecuteDirty, Fixed, CallRec
  <2>5. CASE Finish(r) BY <1>0, <2>5 DEF Finish, Fixed, CallRec
  <2> QED BY <1>2, <2>1, <2>2, <2>3, <2>4, <2>5 DEF RunGid
<1>3. CASE \/ \E k \in Calls : CacheSaver(k)
           \/ \E g \in Gids : Evict(g)
           \/ Close \/ ShutdownStep \/ UNCHANGED vars
  BY <1>3 DEF CacheSaver, SaverLock, SaverDone, Evict, Close, ShutdownStep, CheckCalls, CheckActive, Listen, Wake,
              FlushPlayer, FlushEnd, vars, Fixed
<1> QED BY <1>1, <1>2, <1>3 DEF Next

\* Sizes are natural numbers, and the sums over sets of calls are too.
LEMMA Weights == ASSUME Types, NEW S \in SUBSET Calls
                 PROVE  /\ IsFiniteSet(S) /\ \A x \in S : Size[x] \in Nat /\ Size[x] = call[x].kib
                        /\ KibOf(S) = SumFunctionOnSet(Size, S) /\ KibOf(S) \in Nat
<1>1. IsFiniteSet(S) BY FiniteParts
<1>2. \A x \in S : Size[x] \in Nat /\ Size[x] = call[x].kib BY DEF Size, Types, CallRec
<1>3. KibOf(S) = SumFunctionOnSet(Size, S) BY DEF KibOf, Size
<1> QED BY <1>1, <1>2, <1>3, SumNat

\* The weight of a set of calls does not change, ...
LEMMA WeightSame == ASSUME Fixed, NEW S PROVE SumFunctionOnSet(Size', S) = SumFunctionOnSet(Size, S)
<1>1. Size' = Size BY DEF Fixed, Size
<1> QED BY <1>1

\* ... a call that joins it ...
LEMMA WeightMore == ASSUME Types, NEW S \in SUBSET Calls, NEW c \in Calls, c \notin S
                    PROVE  SumFunctionOnSet(Size, S \cup {c}) = SumFunctionOnSet(Size, S) + call[c].kib
<1>1. IsFiniteSet(S) BY FiniteParts
<1>2. \A x \in S \cup {c} : Size[x] \in Int BY DEF Size, Types, CallRec
<1>3. Size[c] = call[c].kib BY DEF Size
<1> QED BY <1>1, <1>2, <1>3, SumAdd

\* ... or leaves it counts with its size.
LEMMA WeightLess == ASSUME Types, NEW S \in SUBSET Calls, NEW c \in S
                    PROVE  SumFunctionOnSet(Size, S \ {c}) = SumFunctionOnSet(Size, S) - call[c].kib
<1>1. S \ {c} \in SUBSET Calls /\ c \in Calls /\ c \notin S \ {c} /\ (S \ {c}) \cup {c} = S OBVIOUS
<1>2. SumFunctionOnSet(Size, S) = SumFunctionOnSet(Size, S \ {c}) + call[c].kib BY <1>1, WeightMore
<1>3. SumFunctionOnSet(Size, S \ {c}) \in Nat /\ call[c].kib \in Nat BY <1>1, Weights DEF Types, CallRec
<1> QED BY <1>2, <1>3

\* KibExact in terms of sums that primed states share.
LEMMA WeighingIs == Weighing <=> /\ kib = SumFunctionOnSet(Size, HoldKib) /\ kib <= MaxKib
                                 /\ \A g \in Gids : /\ inflightKib[g] = SumFunctionOnSet(Size, InMailbox(g))
                                                    /\ inflightKib[g] <= MaxKibPerGid
                                 /\ KibRoom
BY DEF Weighing, KibExact, KibOf, Size

\* No call joins or leaves a sum.
LEMMA WeighingSame == ASSUME Weighing, Fixed, UNCHANGED <<kib, inflightKib>>, HoldKib' = HoldKib,
                             \A g \in Gids : InMailbox(g)' = InMailbox(g),
                             \A x \in Calls : call'[x].pc \in Locked => call[x].pc \in Locked
                      PROVE  Weighing'
<1>1. Size' = Size BY DEF Fixed, Size
<1>2. /\ kib' = SumFunctionOnSet(Size', HoldKib') /\ kib' <= MaxKib
      /\ \A g \in Gids : /\ inflightKib'[g] = SumFunctionOnSet(Size', InMailbox(g)')
                         /\ inflightKib'[g] <= MaxKibPerGid
  BY <1>1, WeighingIs
<1>3. KibRoom' BY DEF Weighing, KibRoom, Gid, Fixed
<1> QED BY <1>2, <1>3 DEF Weighing, KibExact, KibOf, Size

\* The states of a call whose size the runtime counts.
Weighed == {"push", "queued", "running", "finished", "dropping"}

\* A call moves on without joining or leaving a sum.
LEMMA WeighingMove == ASSUME Weighing, Fixed, NEW c \in Calls, NEW from, NEW to, CountStep(c, from, to),
                             from \in Weighed <=> to \in Weighed, from \in Boxed <=> to \in Boxed,
                             to \in Locked => from \in Locked, UNCHANGED <<kib, inflightKib>>
                      PROVE  Weighing'
<1>1. HoldKib' = HoldKib BY DEF HoldKib, Weighed, CountStep
<1>2. \A g \in Gids : InMailbox(g)' = InMailbox(g) BY BoxSame
<1>3. \A x \in Calls : call'[x].pc \in Locked => call[x].pc \in Locked BY DEF CountStep
<1> QED BY <1>1, <1>2, <1>3, WeighingSame

\* TryUse: the KiB limit of the mailbox has been tested.
LEMMA TryUseWeighing == ASSUME Types, Weighing, Fixed, NEW c \in Calls, TryUse(c) PROVE Weighing'
<1>0. /\ call \in [Calls -> CallRec] /\ inflightKib \in [Gids -> Int] /\ Gid(c) \in Gids
      /\ call[c].kib \in Nat /\ inflightKib[Gid(c)] \in Int
  BY GidType DEF Types, DirectoryTypes, CallRec
<1>1. UNCHANGED <<kib, inflightKib>> BY DEF TryUse
<1>2. CASE Refuses(c)
  <2>1. CountStep(c, "new", "rejected") BY <1>0, <1>2 DEF TryUse, CountStep, CallRec
  <2> QED BY <1>1, <2>1, WeighingMove DEF Weighed, Boxed, Locked
<1>3. CASE ~Refuses(c)
  <2>1. CountStep(c, "new", "kib") BY <1>0, <1>3 DEF TryUse, CountStep, CallRec
  <2>2. call[c].kib + inflightKib[Gid(c)] <= MaxKibPerGid BY <1>0, <1>3, RuntimeConfig DEF Refuses, GidFull
  <2>3. HoldKib' = HoldKib BY <2>1 DEF HoldKib, CountStep
  <2>4. \A g \in Gids : InMailbox(g)' = InMailbox(g) BY <2>1, BoxSame DEF Boxed
  <2>5. KibRoom' BY <1>1, <2>1, <2>2 DEF Weighing, KibRoom, CountStep, Gid, Fixed
  <2>6. Size' = Size BY DEF Fixed, Size
  <2>7. /\ kib' = SumFunctionOnSet(Size', HoldKib') /\ kib' <= MaxKib
        /\ \A g \in Gids : /\ inflightKib'[g] = SumFunctionOnSet(Size', InMailbox(g)')
                           /\ inflightKib'[g] <= MaxKibPerGid
    BY <1>1, <2>3, <2>4, <2>6, WeighingIs
  <2> QED BY <2>5, <2>7 DEF Weighing, KibExact, KibOf, Size
<1> QED BY <1>2, <1>3

\* AcquireKib: a reservation that fits, or one that is refused.
LEMMA AcquireKibWeighing == ASSUME Types, Weighing, Fixed, NEW c \in Calls, AcquireKib(c) PROVE Weighing'
<1>0. call \in [Calls -> CallRec] /\ kib \in Int /\ call[c].kib \in Nat BY DEF Types, AdmissionTypes, CallRec
<1>1. UNCHANGED inflightKib BY DEF AcquireKib, directory
<1>2. CASE ~KibFits(c)
  <2>1. CountStep(c, "kib", "undo") /\ UNCHANGED kib BY <1>0, <1>2 DEF AcquireKib, CountStep, CallRec
  <2> QED BY <1>1, <2>1, WeighingMove DEF Weighed, Boxed, Locked
<1>3. CASE KibFits(c)
  <2>1. CountStep(c, "kib", "push") /\ kib' = kib + call[c].kib /\ kib' <= MaxKib
    BY <1>0, <1>3 DEF AcquireKib, CountStep, CallRec, KibFits
  <2>2. HoldKib' = HoldKib \cup {c} /\ c \notin HoldKib BY <2>1 DEF HoldKib, CountStep
  <2>3. \A g \in Gids : InMailbox(g)' = InMailbox(g) BY <2>1, BoxSame DEF Boxed
  <2>4. Size' = Size BY DEF Fixed, Size
  <2>5. HoldKib \in SUBSET Calls BY DEF HoldKib
  <2>6. SumFunctionOnSet(Size, HoldKib \cup {c}) = SumFunctionOnSet(Size, HoldKib) + call[c].kib
    BY <2>2, <2>5, WeightMore
  <2>7. kib' = SumFunctionOnSet(Size', HoldKib') BY <2>1, <2>2, <2>4, <2>6, WeighingIs
  <2>8. \A g \in Gids : /\ inflightKib'[g] = SumFunctionOnSet(Size', InMailbox(g)')
                        /\ inflightKib'[g] <= MaxKibPerGid
    BY <1>1, <2>3, <2>4, WeighingIs
  <2>9. KibRoom' BY <1>1, <2>1 DEF Weighing, KibRoom, CountStep, Gid, Fixed, Locked
  <2> QED BY <2>1, <2>7, <2>8, <2>9 DEF Weighing, KibExact, KibOf, Size
<1> QED BY <1>2, <1>3

\* Push: the mailbox takes over the size, within the limit that TryUse tested.
LEMMA PushWeighing == ASSUME Types, Ownership, Weighing, Fixed, NEW c \in Calls, Push(c) PROVE Weighing'
<1>g. PICK g0 \in Gids : g0 = Gid(c) BY GidType
<1>0. /\ call \in [Calls -> CallRec] /\ inflightKib \in [Gids -> Int] /\ call[c].kib \in Nat
      /\ dirLock \in [Gids -> Calls \cup {None}]
  BY DEF Types, DirectoryTypes, CallRec
<1>1. /\ CountStep(c, "push", "queued") /\ UNCHANGED kib
      /\ inflightKib' = [inflightKib EXCEPT ![g0] = @ + call[c].kib]
  BY <1>0, <1>g DEF Push, CountStep, CallRec, admission
<1>2. HoldKib' = HoldKib BY <1>1 DEF HoldKib, CountStep
<1>3. /\ InMailbox(g0)' = InMailbox(g0) \cup {c} /\ c \notin InMailbox(g0)
      /\ \A g \in Gids : g # g0 => InMailbox(g)' = InMailbox(g)
  BY <1>g, <1>1 DEF InMailbox, CountStep, Gid
<1>4. Size' = Size BY DEF Fixed, Size
<1>5. InMailbox(g0) \in SUBSET Calls BY DEF InMailbox
<1>6. SumFunctionOnSet(Size, InMailbox(g0) \cup {c}) = SumFunctionOnSet(Size, InMailbox(g0)) + call[c].kib
  BY <1>3, <1>5, WeightMore
<1>7. call[c].kib + inflightKib[g0] <= MaxKibPerGid /\ dirLock[g0] = c
  BY <1>g, <1>0, <1>1 DEF Weighing, KibRoom, CountStep, Ownership, LockOwner, Locked
<1>8. ASSUME NEW g \in Gids PROVE inflightKib'[g] = SumFunctionOnSet(Size', InMailbox(g)') /\ inflightKib'[g] <= MaxKibPerGid
  <2>1. inflightKib[g] = SumFunctionOnSet(Size, InMailbox(g)) /\ inflightKib[g] <= MaxKibPerGid BY WeighingIs
  <2>2. CASE g = g0
    <3>1. inflightKib'[g] = inflightKib[g] + call[c].kib BY <1>0, <1>1, <2>2
    <3>2. inflightKib'[g] = SumFunctionOnSet(Size, InMailbox(g0) \cup {c}) BY <1>6, <2>1, <2>2, <3>1
    <3>3. inflightKib'[g] <= MaxKibPerGid BY <1>0, <1>7, <2>2, <3>1
    <3> QED BY <1>3, <1>4, <2>2, <3>2, <3>3
  <2>3. CASE g # g0 BY <1>0, <1>1, <1>3, <1>4, <2>1, <2>3
  <2> QED BY <2>2, <2>3
<1>9. \A x \in Calls \ {c} : call[x].pc \in Locked => Gid(x) # g0 BY <1>0, <1>7 DEF Ownership, LockOwner
<1>10. KibRoom' BY <1>0, <1>1, <1>9, GidType DEF Weighing, KibRoom, CountStep, Gid, Locked, Fixed
<1>11. kib' = SumFunctionOnSet(Size', HoldKib') /\ kib' <= MaxKib BY <1>1, <1>2, <1>4, WeighingIs
<1> QED BY <1>8, <1>10, <1>11 DEF Weighing, KibExact, KibOf, Size

\* Finish: the mailbox gives the size of the finished call back; the next one stays in.
LEMMA FinishWeighing == ASSUME Types, Ownership, Weighing, Fixed, NEW r \in Calls, Finish(r) PROVE Weighing'
<1>g. PICK g0 \in Gids : g0 = Gid(r) BY GidType
<1> DEFINE c == runner[r].cur
           nxt == IF mailbox[g0] = <<>> THEN None ELSE Head(mailbox[g0])
<1>0. /\ call \in [Calls -> CallRec] /\ c \in Calls /\ call[c].kib \in Nat
      /\ mailbox[g0] \in Seq(Calls) /\ inflightKib \in [Gids -> Int]
  BY GidType DEF Types, DirectoryTypes, InHand, Finish, Working, CallRec
<1>1. call[c].pc = "running" /\ Gid(c) = g0
  BY <1>g DEF Finish, Ownership, CurCall, Working, Phase
<1>2. nxt # None => nxt \in Calls /\ call[nxt].pc = "queued"
  BY <1>0, HeadType, PopBox DEF Ownership, Mailboxes
<1>3. /\ call'[c].pc = "finished" /\ (nxt # None => call'[nxt].pc = "running")
      /\ \A x \in Calls : x # c /\ x # nxt => call'[x].pc = call[x].pc
  BY <1>g, <1>0, <1>1, <1>2 DEF Finish, CallRec
<1>4. UNCHANGED kib /\ inflightKib' = [inflightKib EXCEPT ![g0] = @ - call[c].kib] BY <1>g DEF Finish, admission
<1> HIDE DEF c, nxt
<1>5. HoldKib' = HoldKib BY <1>1, <1>2, <1>3 DEF HoldKib
<1>6. /\ InMailbox(g0)' = InMailbox(g0) \ {c} /\ c \in InMailbox(g0)
      /\ \A g \in Gids : g # g0 => InMailbox(g)' = InMailbox(g)
  BY <1>0, <1>1, <1>2, <1>3 DEF InMailbox, Gid, Fixed
<1>7. Size' = Size BY DEF Fixed, Size
<1>8. InMailbox(g0) \in SUBSET Calls BY DEF InMailbox
<1>9. SumFunctionOnSet(Size, InMailbox(g0) \ {c}) = SumFunctionOnSet(Size, InMailbox(g0)) - call[c].kib
  BY <1>6, <1>8, WeightLess
<1>10. ASSUME NEW g \in Gids PROVE inflightKib'[g] = SumFunctionOnSet(Size', InMailbox(g)') /\ inflightKib'[g] <= MaxKibPerGid
  <2>1. inflightKib[g] = SumFunctionOnSet(Size, InMailbox(g)) /\ inflightKib[g] <= MaxKibPerGid BY WeighingIs
  <2>2. CASE g = g0
    <3>1. inflightKib'[g] = inflightKib[g] - call[c].kib BY <1>0, <1>4, <2>2
    <3>2. inflightKib'[g] = SumFunctionOnSet(Size, InMailbox(g0) \ {c}) BY <1>9, <2>1, <2>2, <3>1
    <3>3. inflightKib[g] \in Int BY <1>0
    <3>4. inflightKib'[g] <= MaxKibPerGid BY <1>0, <2>1, <3>1, <3>3, RuntimeConfig
    <3> QED BY <1>6, <1>7, <2>2, <3>2, <3>4
  <2>3. CASE g # g0 BY <1>0, <1>4, <1>6, <1>7, <2>1, <2>3
  <2> QED BY <2>2, <2>3
<1>11. KibRoom'
  <2> SUFFICES ASSUME NEW x \in Calls, call'[x].pc \in Locked
               PROVE  call'[x].kib + inflightKib'[Gid(x)'] <= MaxKibPerGid
    BY DEF KibRoom
  <2>1. x # c /\ x # nxt BY <1>2, <1>3 DEF Locked
  <2>2. call[x].kib + inflightKib[Gid(x)] <= MaxKibPerGid BY <1>3, <2>1 DEF Weighing, KibRoom
  <2>3. Gid(x)' = Gid(x) /\ Gid(x) \in Gids /\ call'[x].kib = call[x].kib /\ call[x].kib \in Nat
    BY <1>0, GidType DEF Fixed, Gid, CallRec
  <2>4. inflightKib'[Gid(x)] <= inflightKib[Gid(x)] /\ inflightKib'[Gid(x)] \in Int /\ inflightKib[Gid(x)] \in Int
    BY <1>0, <1>4, <2>3
  <2> QED BY <2>2, <2>3, <2>4, RuntimeConfig
<1>12. kib' = SumFunctionOnSet(Size', HoldKib') /\ kib' <= MaxKib BY <1>4, <1>5, <1>7, WeighingIs
<1> QED BY <1>10, <1>11, <1>12 DEF Weighing, KibExact, KibOf, Size

\* DropKib: the permit's KiB go last.
LEMMA DropKibWeighing == ASSUME Types, Ownership, Weighing, Fixed, NEW r \in Calls, DropKib(r) PROVE Weighing'
<1> DEFINE c == runner[r].cur
<1>0. call \in [Calls -> CallRec] /\ c \in Calls /\ kib \in Int /\ call[c].kib \in Nat
  BY DEF Types, InHand, DropKib, Working, AdmissionTypes, CallRec
<1>1. CountStep(c, "dropping", "done") /\ UNCHANGED inflightKib /\ kib' = kib - call[c].kib
  BY <1>0 DEF DropKib, CountStep, CallRec, directory, Ownership, CurCall, Working, Phase
<1> HIDE DEF c
<1>2. HoldKib' = HoldKib \ {c} /\ c \in HoldKib BY <1>0, <1>1 DEF HoldKib, CountStep
<1>3. \A g \in Gids : InMailbox(g)' = InMailbox(g) BY <1>0, <1>1, BoxSame DEF Boxed
<1>4. Size' = Size BY DEF Fixed, Size
<1>5. HoldKib \in SUBSET Calls BY DEF HoldKib
<1>6. SumFunctionOnSet(Size, HoldKib \ {c}) = SumFunctionOnSet(Size, HoldKib) - call[c].kib BY <1>2, <1>5, WeightLess
<1>7. kib' = SumFunctionOnSet(Size', HoldKib') BY <1>1, <1>2, <1>4, <1>6, WeighingIs
<1>8. kib' <= MaxKib BY <1>0, <1>1, WeighingIs, RuntimeConfig
<1>9. \A g \in Gids : /\ inflightKib'[g] = SumFunctionOnSet(Size', InMailbox(g)')
                      /\ inflightKib'[g] <= MaxKibPerGid
  BY <1>1, <1>3, <1>4, WeighingIs
<1>10. KibRoom' BY <1>1 DEF Weighing, KibRoom, CountStep, Gid, Fixed, Locked
<1> QED BY <1>7, <1>8, <1>9, <1>10 DEF Weighing, KibExact, KibOf, Size

\* The moves of a call that no KiB counter notices.
LEMMA QuietWeighing == ASSUME Types, Ownership, Weighing, Fixed, NEW r \in Calls,
                              UndoCalls(r) \/ TakeNext(r) \/ DropCalls(r) \/ Retire(r)
                       PROVE  Weighing'
<1>0. call \in [Calls -> CallRec] /\ Gid(r) \in Gids /\ mailbox \in [Gids -> Seq(Calls)]
  BY GidType DEF Types, DirectoryTypes
<1>1. UNCHANGED <<kib, inflightKib>> BY DEF UndoCalls, TakeNext, DropCalls, Retire, admission, directory
<1>2. CASE UndoCalls(r)
  <2>1. CountStep(r, "undo", "rejected") BY <1>0, <1>2 DEF UndoCalls, CountStep, CallRec
  <2> QED BY <1>1, <2>1, WeighingMove DEF Weighed, Boxed, Locked
<1>3. CASE DropCalls(r)
  <2>1. runner[r].cur \in Calls BY <1>3 DEF Types, InHand, DropCalls, Working
  <2>2. CountStep(runner[r].cur, "finished", "dropping")
    BY <1>0, <1>3, <2>1 DEF DropCalls, CountStep, CallRec, Ownership, CurCall, Working, Phase
  <2> QED BY <1>1, <2>1, <2>2, WeighingMove DEF Weighed, Boxed, Locked
<1>4. ASSUME mailbox[Gid(r)] # <<>>, call' = [call EXCEPT ![Head(mailbox[Gid(r)])].pc = "running"] PROVE Weighing'
  <2>1. PICK h \in Calls : h = Head(mailbox[Gid(r)]) BY <1>0, <1>4, HeadType
  <2>2. call[h].pc = "queued" BY <1>0, <1>4, <2>1, PopBox DEF Ownership, Mailboxes
  <2>3. CountStep(h, "queued", "running") BY <1>0, <1>4, <2>1, <2>2 DEF CountStep, CallRec
  <2> QED BY <1>1, <2>3, WeighingMove DEF Weighed, Boxed, Locked
<1>5. CASE TakeNext(r) BY <1>4, <1>5 DEF TakeNext
<1>6. CASE Retire(r)
  <2>1. CASE UNCHANGED call
    <3>1. HoldKib' = HoldKib /\ \A g \in Gids : InMailbox(g)' = InMailbox(g) BY <2>1 DEF HoldKib, InMailbox, Gid
    <3> QED BY <1>1, <2>1, <3>1, WeighingSame
  <2> QED BY <1>4, <1>6, <2>1 DEF Retire, MayRetire
<1> QED BY <1>2, <1>3, <1>5, <1>6

\* Steps that leave the phases of all calls alone.
LEMMA StillWeighing == ASSUME Weighing, Fixed, UNCHANGED <<kib, inflightKib>>, \A x \in Calls : call'[x].pc = call[x].pc
                       PROVE  Weighing'
<1>1. HoldKib' = HoldKib BY DEF HoldKib
<1>2. \A g \in Gids : InMailbox(g)' = InMailbox(g) BY DEF InMailbox, Gid, Fixed
<1> QED BY <1>1, <1>2, WeighingSame

\* Every step keeps Weighing.
LEMMA WeighingNext == ASSUME Types, Ownership, Weighing, [Next]_vars PROVE Weighing'
<1>0. Fixed BY CallsFixed
<1>1. ASSUME NEW c \in Calls, Enqueue(c) PROVE Weighing'
  BY <1>0, <1>1, TryUseWeighing, AcquireKibWeighing, QuietWeighing, PushWeighing DEF Enqueue
<1>2. ASSUME NEW r \in Calls, RunGid(r) PROVE Weighing'
  <2>1. CASE InnerAction(r)
    <3>1. InnerStep(r) BY <2>1, InnerActions
    <3>2. UNCHANGED <<kib, inflightKib>>
      BY <2>1 DEF InnerAction, GetResident, LoadPlayer, LoadFails, EnterGate, PreloadFails, ExecuteDirty, ExecuteClean,
                  SavePlayer, admission, directory
    <3> QED BY <1>0, <3>1, <3>2, StillWeighing DEF InnerStep
  <2>2. CASE Reinsert(r) BY <1>0, <2>2, StillWeighing DEF Reinsert, admission, directory
  <2>3. CASE ~InnerAction(r) /\ ~Reinsert(r)
    BY <1>0, <1>2, <2>3, FinishWeighing, DropKibWeighing, QuietWeighing DEF RunGid, InnerAction
  <2> QED BY <2>1, <2>2, <2>3
<1>3. CASE \/ \E k \in Calls : CacheSaver(k)
           \/ \E g \in Gids : Evict(g)
           \/ Close \/ ShutdownStep \/ UNCHANGED vars
  <2>1. UNCHANGED <<call, kib, inflightKib>>
    BY <1>3 DEF CacheSaver, SaverLock, SaverDone, Evict, Close, ShutdownStep, CheckCalls, CheckActive, Listen, Wake,
                FlushPlayer, FlushEnd, vars, admission, directory
  <2> QED BY <1>0, <2>1, StillWeighing
<1> QED BY <1>1, <1>2, <1>3 DEF Next

\* Weighing holds initially.
LEMMA WeighingInit == Init => Weighing
<1> SUFFICES ASSUME Init PROVE Weighing OBVIOUS
<1>1. \A c \in Calls : call[c].pc = "new" BY DEF Init
<1>2. HoldKib = {} /\ \A g \in Gids : InMailbox(g) = {} BY <1>1 DEF HoldKib, InMailbox
<1>3. KibRoom BY <1>1 DEF KibRoom, Locked
<1>4. kib = 0 /\ \A g \in Gids : inflightKib[g] = 0 BY DEF Init
<1>5. SumFunctionOnSet(Size, {}) = 0 BY SumEmpty
<1> QED BY <1>2, <1>3, <1>4, <1>5, WeighingIs, RuntimeConfig

\* Every counter of retained KiB is the sum over the calls that own them, and
\* within its limit, for any number of calls, players and sizes.
THEOREM KibCountersExact == Spec => []KibExact
<1>1. Init => Weighing BY WeighingInit
<1>2. RuntimeInv /\ Weighing /\ [Next]_vars => Weighing' BY WeighingNext DEF RuntimeInv
<1>3. Weighing => KibExact BY DEF Weighing
<1> QED BY <1>1, <1>2, <1>3, RuntimeInvariant, PTL DEF Spec

-----------------------------------------------------------------------------
(* The drain *)

\* Admission stays closed from the start of shutdown() on; the counter that a drain
\* check found at zero stays there.
Drained ==
    /\ shut # "idle" \/ stopped => closed
    /\ shut \in {"checkActive", "recheckActive", "flush"} \/ stopped => calls = 0
    /\ shut = "flush" \/ stopped => slots = {}

\* Once admission is closed and no call is counted, nothing is admitted or queued.
LEMMA NothingStarts == ASSUME RuntimeInv, closed, calls = 0, [Next]_vars
                       PROVE  closed' /\ calls' = 0 /\ slots' \subseteq slots
<1>1. HoldCall = {}
  <2>1. HoldCall \in SUBSET Calls BY DEF HoldCall
  <2>2. IsFiniteSet(HoldCall) /\ Cardinality(HoldCall) = 0 BY <2>1, FiniteParts DEF RuntimeInv, Counting, CallsExact
  <2> QED BY <2>2, FS_EmptySet
<1>2. \A c \in Calls : call[c].pc \notin {"kib", "undo", "push", "finished"} BY <1>1 DEF HoldCall
<1>3. ASSUME NEW c \in Calls, Enqueue(c) PROVE closed' /\ calls' = 0 /\ slots' \subseteq slots
  BY <1>2, <1>3 DEF Enqueue, TryUse, Refuses, AcquireKib, UndoCalls, Push
<1>4. ASSUME NEW r \in Calls, RunGid(r) PROVE closed' /\ calls' = 0 /\ slots' \subseteq slots
  <2>1. CASE DropCalls(r)
    <3>1. runner[r].cur \in Calls /\ call[runner[r].cur].pc = "finished"
      BY <2>1 DEF DropCalls, RuntimeInv, Types, InHand, Ownership, CurCall, Working, Phase
    <3> QED BY <1>2, <3>1
  <2>2. CASE Retire(r) BY <2>2 DEF Retire, admission
  <2>3. CASE ~DropCalls(r) /\ ~Retire(r)
    BY <1>4, <2>3 DEF RunGid, TakeNext, GetResident, LoadPlayer, LoadFails, EnterGate, PreloadFails, ExecuteDirty,
                      ExecuteClean, SavePlayer, Finish, DropKib, Reinsert, admission, directory
  <2> QED BY <2>1, <2>2, <2>3
<1>5. CASE \/ \E k \in Calls : CacheSaver(k)
           \/ \E g \in Gids : Evict(g)
           \/ Close \/ ShutdownStep \/ UNCHANGED vars
  BY <1>5 DEF CacheSaver, SaverLock, SaverDone, Evict, Close, ShutdownStep, CheckCalls, CheckActive, Listen, Wake,
              FlushPlayer, FlushEnd, vars, admission, directory
<1> QED BY <1>3, <1>4, <1>5 DEF Next

\* Only shutdown() moves its program counter.
LEMMA OutsideShutdown == ASSUME [Next]_vars, ~Close, ~ShutdownStep PROVE UNCHANGED <<shut, stopped>> /\ closed' = closed
<1>1. ASSUME NEW c \in Calls, Enqueue(c) PROVE UNCHANGED <<shut, stopped, closed>>
  BY SMTT(30), <1>1 DEF Enqueue, TryUse, AcquireKib, UndoCalls, Push, shutdown, admission
<1>2. ASSUME NEW r \in Calls, RunGid(r) PROVE UNCHANGED <<shut, stopped, closed>>
  BY <1>2 DEF RunGid, TakeNext, GetResident, LoadPlayer, LoadFails, EnterGate, PreloadFails, ExecuteDirty,
              ExecuteClean, SavePlayer, Finish, DropCalls, DropKib, Reinsert, Retire, shutdown, admission
<1>3. CASE (\E k \in Calls : CacheSaver(k)) \/ (\E g \in Gids : Evict(g)) \/ UNCHANGED vars
  BY <1>3 DEF CacheSaver, SaverLock, SaverDone, Evict, vars, shutdown, admission
<1> QED BY <1>1, <1>2, <1>3 DEF Next

\* Every step keeps Drained.
LEMMA DrainedNext == ASSUME RuntimeInv, Drained, [Next]_vars PROVE Drained'
<1>1. CASE Close BY <1>1 DEF Close, Drained
<1>2. CASE ShutdownStep
  <2>1. UNCHANGED <<calls, closed, slots>>
    BY <1>2 DEF ShutdownStep, CheckCalls, CheckActive, Listen, Wake, FlushPlayer, FlushEnd, admission, directory
  <2>2. CASE CheckCalls \/ Listen \/ Wake BY <2>1, <2>2 DEF CheckCalls, NoInflightCalls, Listen, Wake, Drained
  <2>3. CASE CheckActive BY <2>1, <2>3 DEF CheckActive, NoActiveGids, Drained
  <2>4. ASSUME NEW g \in Gids, FlushPlayer(g) PROVE Drained' BY <2>1, <2>4 DEF FlushPlayer, Drained
  <2>5. CASE FlushEnd BY <2>1, <2>5 DEF FlushEnd, Drained
  <2> QED BY <1>2, <2>2, <2>3, <2>4, <2>5 DEF ShutdownStep
<1>3. CASE ~Close /\ ~ShutdownStep
  <2>1. UNCHANGED <<shut, stopped>> /\ closed' = closed BY <1>3, OutsideShutdown
  <2>2. CASE shut \in {"checkActive", "recheckActive", "flush"} \/ stopped
    <3>1. calls' = 0 /\ slots' \subseteq slots BY <2>2, NothingStarts DEF Drained
    <3> QED BY <2>1, <3>1 DEF Drained
  <2>3. CASE ~(shut \in {"checkActive", "recheckActive", "flush"} \/ stopped) BY <2>1, <2>3 DEF Drained
  <2> QED BY <2>2, <2>3
<1> QED BY <1>1, <1>2, <1>3

\* Drained and the counters of the other invariants describe an idle runtime.
LEMMA DrainedIdle == ASSUME RuntimeInv, Weighing, Drained PROVE DrainedBeforeFlush
<1> SUFFICES ASSUME shut = "flush" \/ stopped
             PROVE  calls = 0 /\ kib = 0 /\ \A c \in Calls : ~Live(c) /\ call[c].pc \in {"new", "done", "rejected"}
  BY DEF DrainedBeforeFlush
<1>1. calls = 0 /\ slots = {} BY DEF Drained
<1>2. \A c \in Calls : ~Live(c) BY <1>1, GidType DEF RuntimeInv, Ownership, OneRunnerPerGid
<1>3. HoldCall = {}
  <2>1. HoldCall \in SUBSET Calls BY DEF HoldCall
  <2>2. IsFiniteSet(HoldCall) /\ Cardinality(HoldCall) = 0
    BY <1>1, <2>1, FiniteParts DEF RuntimeInv, Counting, CallsExact
  <2> QED BY <2>2, FS_EmptySet
<1>4. \A c \in Calls : call[c].pc # "dropping" BY <1>2 DEF RuntimeInv, Ownership, InFlight
<1>5. \A c \in Calls : call[c].pc \in CallPc BY DEF RuntimeInv, Types, CallRec
<1>6. \A c \in Calls : call[c].pc \in {"new", "done", "rejected"} BY <1>3, <1>4, <1>5 DEF HoldCall, CallPc
<1>7. HoldKib = {} BY <1>6 DEF HoldKib
<1>8. kib = 0 BY <1>7, WeighingIs, SumEmpty
<1> QED BY <1>1, <1>2, <1>6, <1>8

\* shutdown() flushes, and reports Stopped, only when no call is in flight, no KiB is
\* retained and no runner is left, however its two loads interleave with the runners.
THEOREM DrainComplete == Spec => []DrainedBeforeFlush
<1>1. Init => Drained BY DEF Init, Drained
<1>2. RuntimeInv /\ Drained /\ [Next]_vars => Drained' BY DrainedNext
<1>3. Init => Weighing BY WeighingInit
<1>4. RuntimeInv /\ Weighing /\ [Next]_vars => Weighing' BY WeighingNext DEF RuntimeInv
<1>5. RuntimeInv /\ Weighing /\ Drained => DrainedBeforeFlush BY DrainedIdle
<1> QED BY <1>1, <1>2, <1>3, <1>4, <1>5, RuntimeInvariant, PTL DEF Spec

-----------------------------------------------------------------------------
(*****************************************************************************)
(* Proof that the cache holds one generation of a player (OneGeneration),    *)
(* that an acknowledged mutation is durable and Stopped means saved          *)
(* (AckedDurable, StoppedMeansSaved), and that the runtime implements        *)
(* PlayerCalls (ServesPlayerCalls).  All but the first are proved for a      *)
(* cache that drops no dirty player.                                         *)
(*                                                                           *)
(* Durable says where the mutations are: a dirty cell is in the cache or in  *)
(* a runner's hand (DirtyKept, Reinserted), a cell in use contains what the  *)
(* database contains (Copies), and what ran is in the database or in a       *)
(* dirty cell (Recorded).  For the refinement Owed adds what a write of a    *)
(* dirty cell may bring to the database: mutations that were answered        *)
(* "unsaved", and the one that is being saved.                               *)
(*                                                                           *)
(* A call leaves the queue of PlayerCalls when it is answered, not when the  *)
(* runner pops it: the queue is the mailbox, with the call that is served    *)
(* and not answered in front (ServingIs, PendingIs).  So taking a call from  *)
(* the mailbox, in three places, is a stutter (PopUnseen), and every answer  *)
(* goes to the oldest call (AnswerServes).                                   *)
(*****************************************************************************)


-----------------------------------------------------------------------------
(* Generations of a player *)

\* The cell of a gid, in the cache or in a runner's hand, was loaded for that gid,
\* and the cache has no other one than the runner.
Generations ==
    /\ \A g \in Gids : resident[g] # None => Gid(resident[g]) = g
    /\ \A r \in Calls : Held(r) # None => /\ Gid(Held(r)) = Gid(r)
                                          /\ resident[Gid(r)] \in {None, Held(r)}
    /\ \A r \in Calls : runner[r].pc \in {"off", "take"} => Held(r) = None

\* Steps that keep the cells where they are.
LEMMA GenerationsSame == ASSUME Types, Generations, Fixed, resident' = resident,
                                \A x \in Calls : /\ runner'[x].cell = runner[x].cell
                                                 /\ runner'[x].pc \in {"off", "take"} => runner[x].pc \in {"off", "take"}
                         PROVE  Generations'
<1>0. /\ \A x \in Calls : Held(x) \in Calls \cup {None} /\ Gid(x) \in Gids /\ Gid(x)' = Gid(x) /\ Held(x)' = Held(x)
      /\ \A g \in Gids : resident[g] \in Calls \cup {None}
  BY GidType DEF Types, RunnerRec, CellTypes, Held, Fixed, Gid
<1> QED BY <1>0 DEF Generations

\* Every step keeps Generations.
LEMMA GenerationsNext == ASSUME Types, Ownership, Generations, [Next]_vars PROVE Generations'
<1>0. Fixed /\ runner \in [Calls -> RunnerRec] BY CallsFixed DEF Types
<1>t. /\ \A x \in Calls : Held(x) \in Calls \cup {None} /\ Gid(x) \in Gids /\ Gid(x)' = Gid(x)
      /\ resident \in [Gids -> Calls \cup {None}]
  BY <1>0, GidType DEF Types, RunnerRec, CellTypes, Held, Fixed, Gid
<1>1. ASSUME NEW c \in Calls, Enqueue(c) PROVE Generations'
  <2>1. UNCHANGED resident BY <1>1 DEF Enqueue, TryUse, AcquireKib, UndoCalls, Push, cells
  <2>2. CASE Push(c)
    <3>1. runner[c].pc = "off" BY <2>2 DEF Push, Ownership, NotStarted, Locked, Live
    <3>2. \A x \in Calls : /\ runner'[x].cell = runner[x].cell
                           /\ runner'[x].pc \in {"off", "take"} => runner[x].pc \in {"off", "take"}
      BY <1>0, <2>2, <3>1 DEF Push, RunnerRec
    <3> QED BY <1>0, <2>1, <3>2, GenerationsSame
  <2>3. CASE UNCHANGED runner BY <1>0, <2>1, <2>3, GenerationsSame
  <2> QED BY <1>1, <2>2, <2>3 DEF Enqueue, TryUse, AcquireKib, UndoCalls
<1>2. ASSUME NEW r \in Calls, RunGid(r) PROVE Generations'
  <2>1. CASE \/ TakeNext(r) \/ LoadFails(r) \/ EnterGate(r) \/ PreloadFails(r) \/ (\E mutates \in BOOLEAN : ExecuteDirty(r, mutates))
             \/ ExecuteClean(r) \/ SavePlayer(r) \/ Finish(r) \/ DropCalls(r) \/ DropKib(r)
    <3>1. UNCHANGED resident
      BY <2>1 DEF TakeNext, LoadFails, EnterGate, PreloadFails, ExecuteDirty, ExecuteClean, SavePlayer, Finish, DropCalls,
                  DropKib, cells
    <3>2. \A x \in Calls : /\ runner'[x].cell = runner[x].cell
                           /\ runner'[x].pc \in {"off", "take"} => runner[x].pc \in {"off", "take"}
      <4>1. CASE TakeNext(r) BY <1>0, <4>1 DEF TakeNext, RunnerRec
      <4>2. CASE LoadFails(r) BY <1>0, <4>2 DEF LoadFails, RunnerRec
      <4>3. CASE EnterGate(r) BY <1>0, <4>3 DEF EnterGate, RunnerRec
      <4>4. CASE PreloadFails(r) \/ ExecuteClean(r) BY <1>0, <4>4 DEF PreloadFails, ExecuteClean, RunnerRec
      <4>5. CASE \E mutates \in BOOLEAN : ExecuteDirty(r, mutates) BY <1>0, <4>5 DEF ExecuteDirty, RunnerRec
      <4>6. CASE SavePlayer(r) BY <1>0, <4>6 DEF SavePlayer, RunnerRec
      <4>7. CASE Finish(r) BY <1>0, <4>7 DEF Finish, RunnerRec
      <4>8. CASE DropCalls(r) BY <1>0, <4>8 DEF DropCalls, RunnerRec
      <4>9. CASE DropKib(r) BY <1>0, <4>9 DEF DropKib, RunnerRec
      <4> QED BY <2>1, <4>1, <4>2, <4>3, <4>4, <4>5, <4>6, <4>7, <4>8, <4>9
    <3> QED BY <1>0, <3>1, <3>2, GenerationsSame
  <2>2. CASE GetResident(r)
    <3>1. /\ resident' = resident /\ \A x \in Calls \ {r} : runner'[x] = runner[x]
          /\ runner'[r].pc = "gate" /\ runner'[r].cell = IF Held(r) # None THEN Held(r) ELSE resident[Gid(r)]
      BY <1>0, <2>2 DEF GetResident, RunnerRec, cells
    <3> QED BY <1>t, <3>1 DEF Generations, Held
  <2>3. CASE LoadPlayer(r)
    <3>1. /\ resident[Gid(r)] = None /\ resident' = [resident EXCEPT ![Gid(r)] = r]
          /\ \A x \in Calls \ {r} : runner'[x] = runner[x]
          /\ runner[r].pc = "get" /\ runner'[r].pc = "gate" /\ runner'[r].cell = r
      BY <1>0, <2>3 DEF LoadPlayer, RunnerRec
    <3>2. \A x \in Calls \ {r} : Held(x) # None => Gid(x) # Gid(r)
      BY <3>1 DEF Generations, Ownership, OneRunnerPerGid, Live
    <3> QED BY <1>t, <3>1, <3>2 DEF Generations, Held
  <2>4. CASE Reinsert(r)
    <3>1. /\ \A x \in Calls \ {r} : runner'[x] = runner[x]
          /\ runner[r].pc = "reinsert" /\ runner'[r].pc = "retire" /\ runner'[r].cell = Held(r)
      BY <1>0, <2>4 DEF Reinsert, RunnerRec, Held
    <3>2. CASE resident' = resident BY <1>0, <3>1, <3>2, GenerationsSame DEF Held
    <3>3. CASE Held(r) # None /\ resident[Gid(r)] = None /\ resident' = [resident EXCEPT ![Gid(r)] = Held(r)]
      <4>1. \A x \in Calls \ {r} : Held(x) # None => Gid(x) # Gid(r)
        BY <3>1 DEF Generations, Ownership, OneRunnerPerGid, Live
      <4> QED BY <1>t, <3>1, <3>3, <4>1 DEF Generations, Held
    <3> QED BY <2>4, <3>2, <3>3 DEF Reinsert
  <2>5. CASE Retire(r)
    <3>1. resident' = resident BY <2>5 DEF Retire, cells
    <3>2. /\ \A x \in Calls \ {r} : runner'[x] = runner[x]
          /\ \/ runner'[r].cell = None
             \/ runner[r].pc = "retire" /\ runner'[r].pc = "get" /\ runner'[r].cell = Held(r)
      BY <1>0, <2>5 DEF Retire, RunnerRec, Held, Idle
    <3> QED BY <1>t, <3>1, <3>2 DEF Generations, Held
  <2> QED BY SMTT(30), <1>2, <2>1, <2>2, <2>3, <2>4, <2>5 DEF RunGid
<1>3. CASE (\E k \in Calls : CacheSaver(k)) \/ Close \/ ShutdownStep \/ UNCHANGED vars
  <2>1. UNCHANGED <<runner, resident>>
    BY <1>3 DEF CacheSaver, SaverLock, SaverDone, Close, ShutdownStep, CheckCalls, CheckActive, Listen, Wake,
                FlushPlayer, FlushEnd, vars, cells
  <2> QED BY <1>0, <2>1, GenerationsSame
<1>4. ASSUME NEW g \in Gids, Evict(g) PROVE Generations'
  <2>1. UNCHANGED runner /\ resident' = [resident EXCEPT ![g] = None] BY <1>4 DEF Evict
  <2> QED BY <1>t, <2>1 DEF Generations, Held
<1> QED BY <1>1, <1>2, <1>3, <1>4 DEF Next

\* A runner never meets a second generation of its player in the cache, whatever the
\* cache drops and whenever it drops it.
THEOREM OneGenerationInUse == Spec => []OneGeneration
<1>1. Init => Generations
  BY DEF Init, Generations, Held, Idle
<1>2. RuntimeInv /\ Generations /\ [Next]_vars => Generations' BY GenerationsNext DEF RuntimeInv
<1>3. RuntimeInv /\ Generations => OneGeneration BY DEF Generations, OneGeneration
<1> QED BY <1>1, <1>2, <1>3, RuntimeInvariant, PTL DEF Spec

-----------------------------------------------------------------------------
(* Durability *)

\* A cell somebody can still read: the cache or a runner has it.
Kept(k) == resident[Gid(k)] = k \/ \E r \in Calls : Held(r) = k

DirtyKept == \A k \in dirty : Kept(k)

\* A cell in use contains what the database contains, and no more unless it is dirty.
Copies == \A k \in Calls : Kept(k) => /\ disk[Gid(k)] \subseteq val[k]
                                      /\ k \notin dirty => val[k] = disk[Gid(k)]

\* An executed mutation is in the database or in a dirty cell of its player.
Recorded == \A c \in Calls : call[c].mut =>
               c \in disk[Gid(c)] \/ \E k \in dirty : Gid(k) = Gid(c) /\ c \in val[k]

\* A call has no outcome before its runner has served it.
Unanswered ==
    /\ \A c \in Calls : call[c].pc \in {"new", "kib", "undo", "push", "queued"} => call[c].out = "none"
    /\ \A r \in Calls : runner[r].pc \in {"get", "gate", "logic", "save"} => call[runner[r].cur].out = "none"
    /\ \A r \in Calls : runner[r].pc = "finish" => call[runner[r].cur].out # "none"
    /\ \A r \in Calls : runner[r].next # None => call[runner[r].next].out = "none"

\* A runner about to retire has put its dirty cell back.
Reinserted == \A r \in Calls : runner[r].pc = "retire" /\ Held(r) \in dirty => resident[Gid(r)] = Held(r)

Durable == DirtyKept /\ Reinserted /\ Copies /\ Recorded /\ AckedDurable

\* No call is in the hands of two runners, nor twice in those of one.
LEMMA OwnHands == ASSUME Types, Ownership, NEW r \in Calls, NEW x \in Calls, runner[r].pc \in Working,
                         x # r \/ runner[r].pc \notin {"dropCalls", "dropKib"}
                  PROVE  /\ x # r /\ runner[x].pc \in Working => runner[x].cur # runner[r].cur
                         /\ runner[x].next # None => runner[x].next # runner[r].cur
<1>1. Gid(runner[r].cur) = Gid(r) BY DEF Ownership, CurCall
<1>2. ASSUME x # r, Live(x) PROVE Gid(x) # Gid(r)
  BY <1>2 DEF Ownership, OneRunnerPerGid, Live, Working
<1>3. runner[x].next # None => Live(x) /\ Gid(runner[x].next) = Gid(x) /\ runner[x].pc \in {"dropCalls", "dropKib"}
  BY DEF Ownership, NextCall, Live
<1>4. runner[x].pc \in Working => Live(x) /\ Gid(runner[x].cur) = Gid(x) BY DEF Ownership, CurCall, Live, Working
<1> QED BY <1>1, <1>2, <1>3, <1>4

\* What serving a call does to its outcome.
LEMMA InnerAnswer == ASSUME Types, NEW r \in Calls, InnerAction(r)
                     PROVE  /\ \A x \in Calls \ {runner[r].cur} : call'[x] = call[x]
                            /\ \/ call'[runner[r].cur].out = call[runner[r].cur].out /\ runner'[r].pc # "finish"
                               \/ call'[runner[r].cur].out # "none" /\ runner'[r].pc = "finish"
<1>0. runner \in [Calls -> RunnerRec] /\ call \in [Calls -> CallRec] BY DEF Types
<1>1. CASE GetResident(r) BY <1>0, <1>1 DEF GetResident, RunnerRec
<1>2. CASE LoadPlayer(r) BY <1>0, <1>2 DEF LoadPlayer, RunnerRec
<1>c. ASSUME runner[r].pc \in Working, NEW o \in Outcome \ {"none"}, Complete(r, o), runner'[r].pc = "finish"
      PROVE  /\ \A x \in Calls \ {runner[r].cur} : call'[x] = call[x]
             /\ call'[runner[r].cur].out # "none" /\ runner'[r].pc = "finish"
  BY <1>0, <1>c DEF Complete, CallRec, Types, InHand
<1>3. CASE LoadFails(r)
  <2>1. runner'[r].pc = "finish" BY <1>0, <1>3 DEF LoadFails, RunnerRec
  <2> QED BY <1>3, <1>c, <2>1 DEF LoadFails, Outcome, Working
<1>4. CASE EnterGate(r)
  <2>1. CASE UNCHANGED call
    <3>1. runner'[r].pc # "finish" \/ Complete(r, "dirtyCapacity") BY <1>0, <1>4 DEF EnterGate, RunnerRec
    <3>2. CASE runner'[r].pc # "finish" BY <2>1, <3>2
    <3>3. CASE runner'[r].pc = "finish" BY <1>4, <1>c, <3>1, <3>3 DEF EnterGate, Outcome, Working
    <3> QED BY <3>2, <3>3
  <2>2. CASE Complete(r, "dirtyCapacity") /\ runner' = [runner EXCEPT ![r].pc = "finish"]
    <3>1. runner'[r].pc = "finish" BY <1>0, <2>2 DEF RunnerRec
    <3> QED BY <1>4, <1>c, <2>2, <3>1 DEF EnterGate, Outcome, Working
  <2> QED BY <1>4, <2>1, <2>2 DEF EnterGate
<1>5. CASE PreloadFails(r)
  <2>1. runner'[r].pc = "finish" BY <1>0, <1>5 DEF PreloadFails, RunnerRec
  <2> QED BY <1>5, <1>c, <2>1 DEF PreloadFails, Outcome, Working
<1>6. ASSUME NEW mutates \in BOOLEAN, ExecuteDirty(r, mutates)
      PROVE  /\ \A x \in Calls \ {runner[r].cur} : call'[x] = call[x]
             /\ call'[runner[r].cur].out = call[runner[r].cur].out /\ runner'[r].pc # "finish"
  <2>1. runner[r].cur \in Calls BY <1>6 DEF ExecuteDirty, Types, InHand, Working
  <2>2. runner'[r].pc = "save" BY <1>0, <1>6 DEF ExecuteDirty, RunnerRec
  <2> QED BY <1>0, <1>6, <2>1, <2>2 DEF ExecuteDirty, CallRec
<1>7. CASE ExecuteClean(r)
  <2>1. runner'[r].pc = "finish" BY <1>0, <1>7 DEF ExecuteClean, RunnerRec
  <2> QED BY <1>7, <1>c, <2>1 DEF ExecuteClean, Outcome, Working
<1>8. CASE SavePlayer(r)
  <2>1. runner'[r].pc = "finish" BY <1>0, <1>8 DEF SavePlayer, RunnerRec
  <2> QED BY <1>8, <1>c, <2>1 DEF SavePlayer, Outcome, Working
<1> QED BY <1>1, <1>2, <1>3, <1>4, <1>5, <1>6, <1>7, <1>8 DEF InnerAction

\* Serving a call keeps Unanswered.
LEMMA InnerUnanswered == ASSUME Types, Ownership, Unanswered, NEW r \in Calls, InnerAction(r) PROVE Unanswered'
<1>0. InnerStep(r) BY InnerActions
<1>1. runner[r].cur \in Calls /\ call[runner[r].cur].pc = "running" /\ runner[r].pc \in Working
      /\ runner[r].pc \in {"get", "gate", "logic", "save"}
  BY <1>0 DEF InnerStep, Types, InHand, Ownership, CurCall, Working, Phase
<1> DEFINE c == runner[r].cur
<1>2. /\ \A x \in Calls \ {c} : call'[x] = call[x]
      /\ \/ call'[c].out = call[c].out /\ runner'[r].pc # "finish"
         \/ call'[c].out # "none" /\ runner'[r].pc = "finish"
  BY InnerAnswer
<1>3. \A x \in Calls : /\ x # r /\ runner[x].pc \in Working => runner[x].cur # c
                       /\ runner[x].next # None => runner[x].next # c
  BY <1>1, OwnHands
<1>4. /\ \A x \in Calls : runner[x].pc \in Working => runner[x].cur \in Calls
      /\ \A x \in Calls : runner[x].next \in Calls \cup {None}
  BY DEF Types, InHand, RunnerRec
<1> HIDE DEF c
<1>5. call[c].out = "none" BY <1>1 DEF Unanswered, c
<1>6. /\ \A x \in Calls : call'[x].pc = call[x].pc
      /\ \A x \in Calls \ {r} : runner'[x] = runner[x]
      /\ runner'[r].cur = c /\ runner'[r].next = runner[r].next
      /\ runner'[r].pc \in {"gate", "logic", "save", "finish"}
  BY <1>0 DEF InnerStep, c
<1>7. \A x \in Calls : call'[x].pc \in {"new", "kib", "undo", "push", "queued"} => call'[x].out = "none"
  BY <1>1, <1>2, <1>6 DEF Unanswered, c
<1>8. ASSUME NEW x \in Calls
      PROVE  /\ runner'[x].pc \in {"get", "gate", "logic", "save"} => call'[runner'[x].cur].out = "none"
             /\ runner'[x].pc = "finish" => call'[runner'[x].cur].out # "none"
  <2>1. CASE x = r BY <1>2, <1>5, <1>6, <2>1
  <2>2. CASE x # r
    <3>1. runner'[x] = runner[x] BY <1>6, <2>2
    <3>2. runner[x].pc \in Working => call'[runner[x].cur] = call[runner[x].cur] BY <1>2, <1>3, <1>4, <2>2
    <3> QED BY <3>1, <3>2 DEF Unanswered, Working
  <2> QED BY <2>1, <2>2
<1>9. \A x \in Calls : runner'[x].next # None => call'[runner'[x].next].out = "none"
  BY <1>2, <1>3, <1>4, <1>6 DEF Unanswered
<1> QED BY <1>7, <1>8, <1>9 DEF Unanswered

\* A refused call is in nobody's hands, and no other step outside the service of a
\* call gives an answer.
LEMMA EnqueueUnanswered == ASSUME Types, Ownership, Unanswered, NEW c \in Calls, Enqueue(c) PROVE Unanswered'
<1>0. /\ call \in [Calls -> CallRec] /\ runner \in [Calls -> RunnerRec]
      /\ \A x \in Calls : runner[x].pc \in Working => runner[x].cur \in Calls
      /\ \A x \in Calls : runner[x].next \in Calls \cup {None}
  BY DEF Types, InHand, RunnerRec
<1>1. call[c].pc \in {"new", "kib", "undo", "push"} BY DEF Enqueue, TryUse, AcquireKib, UndoCalls, Push
<1>2. \A x \in Calls : /\ runner[x].pc \in Working => runner[x].cur # c
                       /\ runner[x].next # None => runner[x].next # c
  BY <1>1 DEF Ownership, CurCall, NextCall, Phase
<1>3. /\ \A x \in Calls \ {c} : call'[x] = call[x]
      /\ call'[c].pc = "rejected" \/ call'[c].out = call[c].out
  <2>1. CASE TryUse(c) BY <1>0, <2>1 DEF TryUse, CallRec
  <2>2. CASE AcquireKib(c) BY <1>0, <2>2 DEF AcquireKib, CallRec
  <2>3. CASE UndoCalls(c) BY <1>0, <2>3 DEF UndoCalls, CallRec
  <2>4. CASE Push(c) BY <1>0, <2>4 DEF Push, CallRec
  <2> QED BY <2>1, <2>2, <2>3, <2>4 DEF Enqueue
<1>4. \A x \in Calls : /\ runner'[x].pc = runner[x].pc \/ runner'[x].pc = "take"
                       /\ runner'[x].cur = runner[x].cur /\ runner'[x].next = runner[x].next
  BY <1>0 DEF Enqueue, TryUse, AcquireKib, UndoCalls, Push, RunnerRec
<1>5. \A x \in Calls : call'[x].pc \in {"new", "kib", "undo", "push", "queued"} => call'[x].out = "none"
  BY <1>1, <1>3 DEF Unanswered
<1>6. ASSUME NEW x \in Calls
      PROVE  /\ runner'[x].pc \in {"get", "gate", "logic", "save"} => call'[runner'[x].cur].out = "none"
             /\ runner'[x].pc = "finish" => call'[runner'[x].cur].out # "none"
  <2>1. runner[x].pc \in Working => call'[runner[x].cur] = call[runner[x].cur] BY <1>0, <1>2, <1>3
  <2> QED BY <1>4, <2>1 DEF Unanswered, Working
<1>7. \A x \in Calls : runner'[x].next # None => call'[runner'[x].next].out = "none"
  BY <1>0, <1>2, <1>3, <1>4 DEF Unanswered
<1> QED BY <1>5, <1>6, <1>7 DEF Unanswered

\* Taking, finishing and dropping calls keeps Unanswered.
LEMMA HandOverUnanswered ==
  ASSUME Types, Ownership, Unanswered, NEW r \in Calls,
         TakeNext(r) \/ Finish(r) \/ DropCalls(r) \/ DropKib(r) \/ Reinsert(r) \/ Retire(r)
  PROVE  Unanswered'
<1>0. /\ call \in [Calls -> CallRec] /\ runner \in [Calls -> RunnerRec] /\ Gid(r) \in Gids
      /\ \A x \in Calls : runner[x].pc \in Working => runner[x].cur \in Calls
      /\ \A x \in Calls : runner[x].next \in Calls \cup {None}
  BY GidType DEF Types, InHand, RunnerRec
<1>1. ASSUME mailbox[Gid(r)] # <<>>
      PROVE  Head(mailbox[Gid(r)]) \in Calls /\ call[Head(mailbox[Gid(r)])].out = "none" /\ call[Head(mailbox[Gid(r)])].pc = "queued"
  <2>1. mailbox[Gid(r)] \in Seq(Calls) BY <1>0 DEF Types, DirectoryTypes
  <2>2. Head(mailbox[Gid(r)]) \in Calls /\ call[Head(mailbox[Gid(r)])].pc = "queued"
    BY <1>0, <1>1, <2>1, HeadType, PopBox DEF Ownership, Mailboxes
  <2> QED BY <2>2 DEF Unanswered
<1>2. \A x \in Calls : runner[x].pc \in Working => call[runner[x].cur].pc \notin {"new", "kib", "undo", "push", "queued"}
  BY DEF Ownership, CurCall, Phase
<1>3. /\ \A x \in Calls : call'[x].out = call[x].out
      /\ \A x \in Calls : call'[x].pc \in {"new", "kib", "undo", "push", "queued"} => call[x].pc = call'[x].pc
  <2>1. ASSUME NEW h \in Calls, NEW p \in {"running", "dropping", "done"}, call' = [call EXCEPT ![h].pc = p]
        PROVE  /\ \A x \in Calls : call'[x].out = call[x].out
               /\ \A x \in Calls : call'[x].pc \in {"new", "kib", "undo", "push", "queued"} => call[x].pc = call'[x].pc
    BY <1>0, <2>1 DEF CallRec
  <2>2. CASE TakeNext(r) BY <1>1, <2>1, <2>2 DEF TakeNext
  <2>3. CASE Finish(r) BY <1>0, <2>3 DEF Finish, CallRec
  <2>4. CASE DropCalls(r) BY <1>0, <2>1, <2>4 DEF DropCalls, Working
  <2>5. CASE DropKib(r) BY <1>0, <2>1, <2>5 DEF DropKib, Working
  <2>6. CASE Reinsert(r) BY <2>6 DEF Reinsert
  <2>7. CASE Retire(r) BY <1>1, <2>1, <2>7 DEF Retire, MayRetire
  <2> QED BY <2>2, <2>3, <2>4, <2>5, <2>6, <2>7
<1>4. /\ \A x \in Calls \ {r} : runner'[x] = runner[x]
      /\ runner'[r].pc \in {"get", "gate", "logic", "save"} => call[runner'[r].cur].out = "none"
      /\ runner'[r].pc # "finish"
      /\ runner'[r].next # None => call[runner'[r].next].out = "none"
  <2>1. CASE TakeNext(r) BY <1>0, <1>1, <2>1 DEF TakeNext, RunnerRec, Unanswered
  <2>2. CASE Finish(r)
    <3>1. /\ \A x \in Calls \ {r} : runner'[x] = runner[x]
          /\ runner'[r].pc = "dropCalls"
          /\ runner'[r].next = IF mailbox[Gid(r)] = <<>> THEN None ELSE Head(mailbox[Gid(r)])
      BY <1>0, <2>2 DEF Finish, RunnerRec
    <3> QED BY <1>1, <3>1
  <2>3. CASE DropCalls(r) BY <1>0, <2>3 DEF DropCalls, RunnerRec, Unanswered
  <2>4. CASE DropKib(r) BY <1>0, <2>4 DEF DropKib, RunnerRec, Unanswered
  <2>5. CASE Reinsert(r) BY <1>0, <2>5 DEF Reinsert, RunnerRec, Unanswered
  <2>6. CASE Retire(r) BY <1>0, <1>1, <2>6 DEF Retire, MayRetire, RunnerRec, Unanswered, Idle
  <2> QED BY <2>1, <2>2, <2>3, <2>4, <2>5, <2>6
<1>5. \A x \in Calls : call'[x].pc \in {"new", "kib", "undo", "push", "queued"} => call'[x].out = "none"
  BY <1>3 DEF Unanswered
<1>6. ASSUME NEW x \in Calls
      PROVE  /\ runner'[x].pc \in {"get", "gate", "logic", "save"} => runner'[x].cur \in Calls /\ call[runner'[x].cur].out = "none"
             /\ runner'[x].pc = "finish" => runner'[x].cur \in Calls /\ call[runner'[x].cur].out # "none"
             /\ runner'[x].next # None => runner'[x].next \in Calls /\ call[runner'[x].next].out = "none"
  <2>1. Types' BY TypesNext DEF Next, RunGid
  <2>2. /\ runner'[x].pc \in Working => runner'[x].cur \in Calls
        /\ runner'[x].next \in Calls \cup {None}
    BY <2>1 DEF Types, InHand, RunnerRec
  <2> QED BY <1>4, <2>2 DEF Unanswered, Working
<1> QED BY <1>3, <1>5, <1>6 DEF Unanswered

\* Every step keeps Unanswered.
LEMMA UnansweredNext == ASSUME Types, Ownership, Unanswered, [Next]_vars PROVE Unanswered'
<1>1. ASSUME NEW c \in Calls, Enqueue(c) PROVE Unanswered' BY <1>1, EnqueueUnanswered
<1>2. ASSUME NEW r \in Calls, RunGid(r) PROVE Unanswered'
  BY <1>2, InnerUnanswered, HandOverUnanswered DEF RunGid, InnerAction
<1>3. CASE \/ \E k \in Calls : CacheSaver(k)
           \/ \E g \in Gids : Evict(g)
           \/ Close \/ ShutdownStep \/ UNCHANGED vars
  <2>1. UNCHANGED <<call, runner>>
    BY <1>3 DEF CacheSaver, SaverLock, SaverDone, Evict, Close, ShutdownStep, CheckCalls, CheckActive, Listen, Wake,
                FlushPlayer, FlushEnd, vars
  <2> QED BY <2>1 DEF Unanswered
<1> QED BY <1>1, <1>2, <1>3 DEF Next

\* A player has at most one cell in use.
LEMMA OneKept == ASSUME Types, Ownership, Generations, NEW k1 \in Calls, NEW k2 \in Calls, Kept(k1), Kept(k2), Gid(k1) = Gid(k2)
                 PROVE  k1 = k2
<1>1. ASSUME NEW r \in Calls, NEW k \in Calls, Held(r) = k PROVE Live(r) /\ Gid(r) = Gid(k) /\ resident[Gid(k)] \in {None, k}
  BY <1>1 DEF Generations, Live
<1>2. CASE resident[Gid(k1)] = k1 BY <1>1, <1>2 DEF Kept
<1>3. CASE resident[Gid(k2)] = k2 BY <1>1, <1>3 DEF Kept
<1>4. CASE (\E r \in Calls : Held(r) = k1) /\ (\E r \in Calls : Held(r) = k2)
  BY <1>1, <1>4 DEF Ownership, OneRunnerPerGid
<1> QED BY <1>2, <1>3, <1>4 DEF Kept

\* The cell in a runner's hand is in use, and of the runner's player.
LEMMA HeldKept == ASSUME Types, Generations, NEW r \in Calls, Held(r) # None
                  PROVE  Held(r) \in Calls /\ Kept(Held(r)) /\ Gid(Held(r)) = Gid(r)
BY DEF Types, RunnerRec, Held, Generations, Kept

\* Steps that write no cell, no player and no answer that promises anything.
LEMMA DurableSame ==
  ASSUME Types, Durable, Fixed, UNCHANGED <<val, dirty, disk>>,
         \A x \in Calls : call'[x].mut = call[x].mut,
         \A x \in Calls : call'[x].out = "ok" => call[x].out = "ok",
         \A k \in Calls : Kept(k)' => Kept(k),
         \A k \in dirty : Kept(k) => Kept(k)',
         \A r \in Calls : runner'[r].pc = "retire" /\ Held(r)' \in dirty => resident'[Gid(r)] = Held(r)'
  PROVE  Durable'
<1>0. \A x \in Calls : Gid(x)' = Gid(x) BY DEF Fixed, Gid
<1>1. DirtyKept' BY DEF Durable, DirtyKept
<1>2. Reinserted' BY <1>0 DEF Reinserted
<1>3. Copies' BY <1>0 DEF Durable, Copies
<1>4. Recorded'
  <2>1. dirty \subseteq Calls BY DEF Types, CellTypes
  <2> QED BY <1>0, <2>1 DEF Durable, Recorded
<1>5. AckedDurable' BY <1>0 DEF Durable, AckedDurable
<1> QED BY <1>1, <1>2, <1>3, <1>4, <1>5 DEF Durable

\* The same when the cells do not move.
LEMMA DurableStill ==
  ASSUME Types, Durable, Fixed, UNCHANGED <<val, dirty, disk, resident>>,
         \A x \in Calls : call'[x].mut = call[x].mut,
         \A x \in Calls : call'[x].out = "ok" => call[x].out = "ok",
         \A x \in Calls : runner'[x].cell = runner[x].cell /\ (runner'[x].pc = "retire" => runner[x].pc = "retire")
  PROVE  Durable'
<1>0. \A x \in Calls : Gid(x)' = Gid(x) /\ Held(x)' = Held(x) BY DEF Fixed, Gid, Held
<1>1. \A k \in Calls : Kept(k)' <=> Kept(k) BY <1>0 DEF Kept
<1>2. dirty \subseteq Calls BY DEF Types, CellTypes
<1>3. \A r \in Calls : runner'[r].pc = "retire" /\ Held(r)' \in dirty => resident'[Gid(r)] = Held(r)'
  BY <1>0 DEF Durable, Reinserted
<1> QED BY <1>1, <1>2, <1>3, DurableSame

\* Admission keeps Durable.
LEMMA EnqueueDurable == ASSUME Types, Durable, Fixed, NEW c \in Calls, Enqueue(c) PROVE Durable'
<1>0. call \in [Calls -> CallRec] /\ runner \in [Calls -> RunnerRec] BY DEF Types
<1>1. UNCHANGED <<val, dirty, disk, resident>> BY DEF Enqueue, TryUse, AcquireKib, UndoCalls, Push, cells
<1>2. \A x \in Calls : call'[x].mut = call[x].mut /\ (call'[x].out = "ok" => call[x].out = "ok")
  <2>1. CASE TryUse(c) BY <1>0, <2>1 DEF TryUse, CallRec
  <2>2. CASE AcquireKib(c) BY <1>0, <2>2 DEF AcquireKib, CallRec
  <2>3. CASE UndoCalls(c) BY <1>0, <2>3 DEF UndoCalls, CallRec
  <2>4. CASE Push(c) BY <1>0, <2>4 DEF Push, CallRec
  <2> QED BY <2>1, <2>2, <2>3, <2>4 DEF Enqueue
<1>3. \A x \in Calls : runner'[x].cell = runner[x].cell /\ (runner'[x].pc = "retire" => runner[x].pc = "retire")
  BY <1>0 DEF Enqueue, TryUse, AcquireKib, UndoCalls, Push, RunnerRec
<1> QED BY <1>1, <1>2, <1>3, DurableStill

\* A runner that takes, fails or finishes a call keeps Durable.
LEMMA RunnerMovesDurable ==
  ASSUME Types, Ownership, Durable, Fixed, NEW r \in Calls,
         \/ TakeNext(r) \/ LoadFails(r) \/ EnterGate(r) \/ PreloadFails(r)
         \/ Finish(r) \/ DropCalls(r) \/ DropKib(r)
  PROVE  Durable'
<1>0. /\ call \in [Calls -> CallRec] /\ runner \in [Calls -> RunnerRec] /\ Gid(r) \in Gids
      /\ runner[r].pc \in Working => runner[r].cur \in Calls
  BY GidType DEF Types, InHand
<1>1. UNCHANGED <<val, dirty, disk, resident>>
  BY DEF TakeNext, LoadFails, EnterGate, PreloadFails, Finish, DropCalls, DropKib, cells
<1>2. \A x \in Calls : call'[x].mut = call[x].mut /\ (call'[x].out = "ok" => call[x].out = "ok")
  <2>1. ASSUME NEW h \in Calls, NEW p, call' = [call EXCEPT ![h].pc = p]
        PROVE  \A x \in Calls : call'[x].mut = call[x].mut /\ (call'[x].out = "ok" => call[x].out = "ok")
    BY <1>0, <2>1 DEF CallRec
  <2>2. ASSUME NEW h \in Calls, NEW o \in Outcome \ {"ok"}, call' = [call EXCEPT ![h].out = o]
        PROVE  \A x \in Calls : call'[x].mut = call[x].mut /\ (call'[x].out = "ok" => call[x].out = "ok")
    BY <1>0, <2>2 DEF CallRec
  <2>3. CASE TakeNext(r) BY <1>0, <2>1, <2>3, HeadType DEF TakeNext
  <2>4. CASE LoadFails(r) BY <1>0, <2>2, <2>4 DEF LoadFails, Complete, Outcome, Working
  <2>5. CASE EnterGate(r)
    <3>1. CASE UNCHANGED call BY <3>1
    <3>2. CASE Complete(r, "dirtyCapacity") BY <1>0, <2>2, <2>5, <3>2 DEF EnterGate, Complete, Outcome, Working
    <3> QED BY <2>5, <3>1, <3>2 DEF EnterGate
  <2>6. CASE PreloadFails(r) BY <1>0, <2>2, <2>6 DEF PreloadFails, Complete, Outcome, Working
  <2>7. CASE Finish(r) BY <1>0, <2>7 DEF Finish, CallRec
  <2>8. CASE DropCalls(r) BY <1>0, <2>1, <2>8 DEF DropCalls, Working
  <2>9. CASE DropKib(r) BY <1>0, <2>1, <2>9 DEF DropKib, Working
  <2> QED BY <2>3, <2>4, <2>5, <2>6, <2>7, <2>8, <2>9
<1>3. \A x \in Calls : runner'[x].cell = runner[x].cell /\ (runner'[x].pc = "retire" => runner[x].pc = "retire")
  <2>1. CASE TakeNext(r) BY <1>0, <2>1 DEF TakeNext, RunnerRec
  <2>2. CASE LoadFails(r) BY <1>0, <2>2 DEF LoadFails, RunnerRec
  <2>3. CASE EnterGate(r) BY <1>0, <2>3 DEF EnterGate, RunnerRec
  <2>4. CASE PreloadFails(r) BY <1>0, <2>4 DEF PreloadFails, RunnerRec
  <2>5. CASE Finish(r) BY <1>0, <2>5 DEF Finish, RunnerRec
  <2>6. CASE DropCalls(r) BY <1>0, <2>6 DEF DropCalls, RunnerRec
  <2>7. CASE DropKib(r) BY <1>0, <2>7 DEF DropKib, RunnerRec
  <2> QED BY <2>1, <2>2, <2>3, <2>4, <2>5, <2>6, <2>7
<1> QED BY <1>1, <1>2, <1>3, DurableStill

\* A runner that finds its cell, puts it back or retires keeps Durable.
LEMMA CellMovesDurable ==
  ASSUME Types, Ownership, Generations, Durable, Fixed, ~LossyCache, NEW r \in Calls,
         GetResident(r) \/ Reinsert(r) \/ Retire(r)
  PROVE  Durable'
<1>0. /\ call \in [Calls -> CallRec] /\ runner \in [Calls -> RunnerRec] /\ Gid(r) \in Gids
      /\ resident \in [Gids -> Calls \cup {None}] /\ dirty \subseteq Calls
      /\ \A x \in Calls : Gid(x)' = Gid(x) /\ Gid(x) \in Gids /\ Held(x) \in Calls \cup {None}
  BY GidType DEF Types, CellTypes, Fixed, Gid, Held, RunnerRec
<1>1. UNCHANGED <<val, dirty, disk>> BY DEF GetResident, Reinsert, Retire, cells
<1>2. \A x \in Calls : call'[x].mut = call[x].mut /\ (call'[x].out = "ok" => call[x].out = "ok")
  <2>1. CASE UNCHANGED call BY <2>1
  <2>2. ASSUME NEW h \in Calls, call' = [call EXCEPT ![h].pc = "running"]
        PROVE  \A x \in Calls : call'[x].mut = call[x].mut /\ (call'[x].out = "ok" => call[x].out = "ok")
    BY <1>0, <2>2 DEF CallRec
  <2>3. CASE Retire(r) BY <1>0, <2>1, <2>2, <2>3, HeadType DEF Retire, MayRetire
  <2> QED BY <2>1, <2>3 DEF GetResident, Reinsert
<1>3. CASE GetResident(r)
  <2>1. /\ resident' = resident /\ \A x \in Calls \ {r} : runner'[x] = runner[x]
        /\ runner'[r].pc = "gate" /\ Held(r)' = IF Held(r) # None THEN Held(r) ELSE resident[Gid(r)]
        /\ Held(r)' # None
    BY <1>0, <1>3 DEF GetResident, RunnerRec, cells, Held
  <2>2. Held(r)' \in Calls /\ Gid(Held(r)') = Gid(r) /\ Kept(Held(r)') BY <1>0, <2>1 DEF Generations, Kept
  <2>3. \A k \in Calls : Kept(k)' <=> Kept(k)
    <3>1. ASSUME NEW k \in Calls, Kept(k)' PROVE Kept(k) BY <1>0, <2>1, <2>2, <3>1 DEF Kept, Held
    <3>2. ASSUME NEW k \in Calls, Kept(k) PROVE Kept(k)'
      <4>1. CASE resident[Gid(k)] = k BY <1>0, <2>1, <4>1 DEF Kept
      <4>2. ASSUME NEW x \in Calls, Held(x) = k PROVE Kept(k)'
        <5>1. Held(x)' = k BY <2>1, <4>2 DEF Held
        <5> QED BY <5>1 DEF Kept
      <4> QED BY <3>2, <4>1, <4>2 DEF Kept
    <3> QED BY <3>1, <3>2
  <2>4. \A x \in Calls : runner'[x].pc = "retire" /\ Held(x)' \in dirty => resident'[Gid(x)] = Held(x)'
    BY <2>1 DEF Durable, Reinserted, Held
  <2> QED BY <1>0, <1>1, <1>2, <2>3, <2>4, DurableSame
<1>4. CASE Reinsert(r)
  <2>1. /\ \A x \in Calls : Held(x)' = Held(x)
        /\ \A x \in Calls \ {r} : runner'[x] = runner[x]
    BY <1>0, <1>4 DEF Reinsert, RunnerRec, Held
  <2>2. \/ resident' = resident /\ (Held(r) = None \/ resident[Gid(r)] # None)
        \/ Held(r) # None /\ resident[Gid(r)] = None /\ resident' = [resident EXCEPT ![Gid(r)] = Held(r)]
    BY <1>4 DEF Reinsert
  <2>3. Held(r) # None => resident'[Gid(r)] = Held(r) BY <1>0, <2>2 DEF Generations
  <2>4. \A k \in Calls : Kept(k)' <=> Kept(k)
    <3>1. ASSUME NEW k \in Calls, Kept(k)' PROVE Kept(k) BY <1>0, <2>1, <2>2, <3>1 DEF Kept
    <3>2. ASSUME NEW k \in Calls, Kept(k) PROVE Kept(k)'
      <4>1. CASE resident[Gid(k)] = k BY <1>0, <2>2, <4>1 DEF Kept
      <4>2. ASSUME NEW x \in Calls, Held(x) = k PROVE Kept(k)'
        <5>1. Held(x)' = k BY <2>1, <4>2
        <5> QED BY <5>1 DEF Kept
      <4> QED BY <3>2, <4>1, <4>2 DEF Kept
    <3> QED BY <3>1, <3>2
  <2>5. ASSUME NEW x \in Calls, runner'[x].pc = "retire", Held(x)' \in dirty PROVE resident'[Gid(x)] = Held(x)'
    <3>1. CASE x = r BY <1>0, <2>1, <2>3, <2>5, <3>1
    <3>2. CASE x # r BY <1>0, <2>1, <2>2, <2>5, <3>2 DEF Durable, Reinserted
    <3> QED BY <3>1, <3>2
  <2> QED BY <1>0, <1>1, <1>2, <2>4, <2>5, DurableSame
<1>5. CASE Retire(r)
  <2>1. resident' = resident BY <1>5 DEF Retire, cells
  <2>2. /\ \A x \in Calls \ {r} : runner'[x] = runner[x]
        /\ runner[r].pc = "retire" /\ runner'[r].pc # "retire"
        /\ Held(r)' = None \/ Held(r)' = Held(r)
    BY <1>0, <1>5 DEF Retire, RunnerRec, Held, Idle
  <2>3. \A k \in Calls : Kept(k)' => Kept(k) BY <1>0, <2>1, <2>2 DEF Kept, Held
  <2>4. ASSUME NEW k \in dirty, Kept(k) PROVE Kept(k)'
    <3>1. CASE resident[Gid(k)] = k BY <1>0, <2>1, <3>1 DEF Kept
    <3>2. ASSUME NEW x \in Calls, Held(x) = k, x # r PROVE Kept(k)'
      <4>1. Held(x)' = k BY <2>2, <3>2 DEF Held
      <4> QED BY <4>1 DEF Kept
    <3>3. CASE Held(r) = k
      <4>1. resident[Gid(r)] = k /\ Gid(r) = Gid(k) BY <1>0, <2>2, <2>4, <3>3 DEF Durable, Reinserted, Generations
      <4> QED BY <3>1, <4>1
    <3> QED BY <2>4, <3>1, <3>2, <3>3 DEF Kept
  <2>5. \A x \in Calls : runner'[x].pc = "retire" /\ Held(x)' \in dirty => resident'[Gid(x)] = Held(x)'
    BY <2>1, <2>2 DEF Durable, Reinserted, Held
  <2> QED BY <1>0, <1>1, <1>2, <2>3, <2>4, <2>5, DurableSame
<1> QED BY <1>3, <1>4, <1>5

\* The cache drops only clean cells.
LEMMA EvictDurable == ASSUME Types, Generations, Durable, Fixed, ~LossyCache, NEW g \in Gids, Evict(g) PROVE Durable'
<1>0. /\ resident \in [Gids -> Calls \cup {None}] /\ dirty \subseteq Calls
      /\ \A x \in Calls : Gid(x)' = Gid(x) /\ Gid(x) \in Gids
  BY GidType DEF Types, CellTypes, Fixed, Gid
<1>1. UNCHANGED <<val, dirty, disk, call, runner>> /\ resident' = [resident EXCEPT ![g] = None] /\ resident[g] \notin dirty
  BY DEF Evict
<1>2. \A k \in Calls : Kept(k)' => Kept(k) BY <1>0, <1>1 DEF Kept, Held
<1>3. ASSUME NEW k \in dirty, Kept(k) PROVE Kept(k)' BY <1>0, <1>1, <1>3 DEF Kept, Held
<1>4. \A x \in Calls : runner'[x].pc = "retire" /\ Held(x)' \in dirty => resident'[Gid(x)] = Held(x)'
  BY <1>0, <1>1 DEF Durable, Reinserted, Held
<1> QED BY <1>1, <1>2, <1>3, <1>4, DurableSame

\* A load takes place only when no cell of the player is in use, so that nothing is
\* missing from the database.
LEMMA LoadDurable == ASSUME Types, Ownership, Generations, Durable, Fixed, NEW r \in Calls, LoadPlayer(r) PROVE Durable'
<1>g. PICK g \in Gids : g = Gid(r) BY GidType
<1>0. /\ runner \in [Calls -> RunnerRec] /\ resident \in [Gids -> Calls \cup {None}] /\ dirty \subseteq Calls
      /\ val \in [Calls -> SUBSET Calls]
      /\ \A x \in Calls : Gid(x)' = Gid(x) /\ Gid(x) \in Gids /\ Held(x) \in Calls \cup {None}
  BY GidType DEF Types, CellTypes, Fixed, Gid, Held, RunnerRec
<1>1. /\ UNCHANGED <<dirty, disk, call>> /\ resident[g] = None /\ Held(r) = None
      /\ val' = [val EXCEPT ![r] = disk[g]] /\ resident' = [resident EXCEPT ![g] = r]
      /\ Live(r)
  BY <1>g DEF LoadPlayer, Live
<1>2. /\ \A x \in Calls \ {r} : runner'[x] = runner[x] /\ Held(x)' = Held(x)
      /\ runner'[r].pc = "gate" /\ Held(r)' = r
  BY <1>0 DEF LoadPlayer, RunnerRec, Held
<1>3. ~Kept(r) /\ \A x \in Calls : Held(x) # None => Gid(x) # g
  <2>1. ASSUME NEW x \in Calls, Held(x) # None PROVE Gid(x) # g
    BY <1>g, <1>1, <2>1 DEF Generations, Ownership, OneRunnerPerGid, Live
  <2>2. \A x \in Calls : Held(x) # r BY <1>g, <2>1 DEF Generations
  <2> QED BY <1>g, <1>1, <2>1, <2>2 DEF Kept
<1>4. r \notin dirty BY <1>3 DEF Durable, DirtyKept
<1>5. \A k \in Calls \ {r} : Kept(k)' <=> Kept(k)
  <2>1. ASSUME NEW k \in Calls \ {r}, Kept(k)' PROVE Kept(k) BY <1>0, <1>1, <1>2, <2>1 DEF Kept
  <2>2. ASSUME NEW k \in Calls \ {r}, Kept(k) PROVE Kept(k)'
    <3>1. CASE resident[Gid(k)] = k BY <1>0, <1>1, <3>1 DEF Kept
    <3>2. ASSUME NEW x \in Calls, Held(x) = k PROVE Kept(k)'
      <4>1. Held(x)' = k BY <1>1, <1>2, <3>2
      <4> QED BY <4>1 DEF Kept
    <3> QED BY <2>2, <3>1, <3>2 DEF Kept
  <2> QED BY <2>1, <2>2
<1>6. DirtyKept' BY <1>0, <1>1, <1>4, <1>5 DEF Durable, DirtyKept
<1>7. Reinserted' BY <1>0, <1>1, <1>2, <1>3 DEF Durable, Reinserted
<1>8. Copies'
  <2>1. ASSUME NEW k \in Calls, Kept(k)' PROVE disk[Gid(k)] \subseteq val'[k] /\ (k \notin dirty => val'[k] = disk[Gid(k)])
    <3>1. CASE k = r BY <1>g, <1>0, <1>1, <3>1
    <3>2. CASE k # r BY <1>0, <1>1, <1>5, <2>1, <3>2 DEF Durable, Copies
    <3> QED BY <3>1, <3>2
  <2> QED BY <1>0, <1>1, <2>1 DEF Copies
<1>9. Recorded' BY <1>0, <1>1, <1>4 DEF Durable, Recorded
<1>10. AckedDurable' BY <1>0, <1>1 DEF Durable, AckedDurable
<1> QED BY <1>6, <1>7, <1>8, <1>9, <1>10 DEF Durable

\* The logic runs: the mutation is in a dirty cell that is in use.
LEMMA ExecuteDirtyDurable ==
  ASSUME Types, Ownership, Generations, Unanswered, Durable, Fixed, NEW r \in Calls, NEW mutates \in BOOLEAN,
         ExecuteDirty(r, mutates)
  PROVE  Durable'
<1> DEFINE k == Held(r)
           c == runner[r].cur
<1>0. /\ call \in [Calls -> CallRec] /\ runner \in [Calls -> RunnerRec] /\ dirty \subseteq Calls
      /\ val \in [Calls -> SUBSET Calls]
      /\ \A x \in Calls : Gid(x)' = Gid(x) /\ Gid(x) \in Gids
  BY GidType DEF Types, CellTypes, Fixed, Gid
<1>1. k \in Calls /\ c \in Calls /\ runner[r].pc = "logic" BY DEF ExecuteDirty, Types, InHand, Working, Held
<1>2. Kept(k) /\ Gid(k) = Gid(r) /\ Gid(c) = Gid(r) /\ call[c].out = "none"
  BY <1>1, HeldKept DEF Ownership, CurCall, Working, Unanswered
<1>3. /\ UNCHANGED <<disk, resident>> /\ dirty' = dirty \cup {k}
      /\ \A x \in Calls \ {k} : val'[x] = val[x]
      /\ val'[k] = IF mutates THEN val[k] \cup {c} ELSE val[k]
  BY <1>0, <1>1 DEF ExecuteDirty
<1>4. /\ \A x \in Calls \ {c} : call'[x] = call[x]
      /\ call'[c].out = call[c].out /\ call'[c].mut = mutates
  BY <1>0, <1>1 DEF ExecuteDirty, CallRec
<1>5. /\ \A x \in Calls : Held(x)' = Held(x)
      /\ \A x \in Calls \ {r} : runner'[x] = runner[x]
      /\ runner'[r].pc = "save"
  BY <1>0 DEF ExecuteDirty, RunnerRec, Held
<1>6. \A x \in Calls \ {r} : runner[x].pc = "retire" => Held(x) # k
  BY <1>1, <1>2 DEF Generations, Ownership, OneRunnerPerGid, Live
<1> HIDE DEF k, c
<1>7. \A x \in Calls : Kept(x)' <=> Kept(x) BY <1>0, <1>3, <1>5 DEF Kept
<1>8. DirtyKept' BY <1>0, <1>1, <1>2, <1>3, <1>7 DEF Durable, DirtyKept
<1>9. Reinserted' BY <1>0, <1>3, <1>5, <1>6 DEF Durable, Reinserted
<1>10. Copies'
  <2>1. ASSUME NEW x \in Calls, Kept(x) PROVE disk[Gid(x)] \subseteq val'[x] /\ (x \notin dirty' => val'[x] = disk[Gid(x)])
    <3>1. disk[Gid(x)] \subseteq val[x] /\ (x \notin dirty => val[x] = disk[Gid(x)]) BY <2>1 DEF Durable, Copies
    <3> QED BY <1>3, <3>1
  <2> QED BY <1>0, <1>3, <1>7, <2>1 DEF Copies
<1>11. Recorded'
  <2>1. ASSUME NEW x \in Calls, call'[x].mut PROVE x \in disk[Gid(x)] \/ \E y \in dirty' : Gid(y) = Gid(x) /\ x \in val'[y]
    <3>1. CASE x = c
      <4>1. mutates BY <1>4, <2>1, <3>1
      <4>2. k \in dirty' /\ Gid(k) = Gid(x) /\ x \in val'[k] BY <1>2, <1>3, <3>1, <4>1
      <4> QED BY <4>2
    <3>2. CASE x # c
      <4>1. x \in disk[Gid(x)] \/ \E y \in dirty : Gid(y) = Gid(x) /\ x \in val[y]
        BY <1>4, <2>1, <3>2 DEF Durable, Recorded
      <4>2. \A y \in dirty : y \in dirty' /\ val[y] \subseteq val'[y] BY <1>0, <1>3
      <4> QED BY <4>1, <4>2
    <3> QED BY <3>1, <3>2
  <2>2. dirty' \subseteq Calls BY <1>0, <1>1, <1>3
  <2> QED BY <1>0, <1>3, <2>1, <2>2 DEF Recorded
<1>12. AckedDurable' BY <1>0, <1>2, <1>3, <1>4 DEF Durable, AckedDurable
<1> QED BY <1>8, <1>9, <1>10, <1>11, <1>12 DEF Durable

\* What a save of the dirty cell k leaves behind: nothing, or its contents on disk.
LEMMA SaveEffect == ASSUME NEW g, NEW k, SaveOk(g, k) \/ SaveFails(g, k)
                    PROVE  \/ UNCHANGED <<disk, dirty>>
                           \/ disk' = [disk EXCEPT ![g] = val[k]] /\ dirty' \in {dirty, dirty \ {k}}
BY DEF SaveOk, SaveFails

\* A written cell contains all that was on disk, so that nothing is lost.
LEMMA WriteDurable ==
  ASSUME Types, Ownership, Generations, Durable, Fixed, NEW k \in dirty, NEW g \in Gids, g = Gid(k),
         disk' = [disk EXCEPT ![g] = val[k]], dirty' \in {dirty, dirty \ {k}}, UNCHANGED <<val, resident>>,
         \A x \in Calls : call'[x].mut = call[x].mut,
         \A x \in Calls : call'[x].out = "ok" => call[x].out = "ok" \/ (call[x].mut => x \in disk'[Gid(x)]),
         \A x \in Calls : Held(x)' = Held(x) /\ (runner'[x].pc = "retire" => runner[x].pc = "retire")
  PROVE  Durable' /\ \A x \in Calls : Gid(x) = g /\ call[x].mut => x \in disk'[Gid(x)]
<1>0. /\ dirty \subseteq Calls /\ k \in Calls /\ disk \in [Gids -> SUBSET Calls]
      /\ \A x \in Calls : Gid(x)' = Gid(x) /\ Gid(x) \in Gids
  BY GidType DEF Types, CellTypes, Fixed, Gid
<1>1. \A x \in Calls : Kept(x)' <=> Kept(x) BY <1>0 DEF Kept
<1>2. Kept(k) /\ disk[g] \subseteq val[k] BY <1>0 DEF Durable, DirtyKept, Copies
<1>3. \A x \in Calls : Kept(x) /\ Gid(x) = g => x = k BY <1>0, <1>2, OneKept
<1>4. disk'[g] = val[k] /\ \A h \in Gids : disk[h] \subseteq disk'[h] /\ (h # g => disk'[h] = disk[h]) BY <1>0, <1>2
<1>5. DirtyKept' BY <1>0, <1>1 DEF Durable, DirtyKept
<1>6. Reinserted' BY <1>0 DEF Durable, Reinserted
<1>7. Copies'
  <2>1. ASSUME NEW x \in Calls, Kept(x) PROVE disk'[Gid(x)] \subseteq val[x] /\ (x \notin dirty' => val[x] = disk'[Gid(x)])
    <3>1. CASE Gid(x) = g BY <1>3, <1>4, <2>1, <3>1
    <3>2. CASE Gid(x) # g BY <1>0, <1>4, <2>1, <3>2 DEF Durable, Copies
    <3> QED BY <3>1, <3>2
  <2> QED BY <1>0, <1>1, <2>1 DEF Copies
<1>8. ASSUME NEW x \in Calls, call[x].mut
      PROVE  /\ x \in disk'[Gid(x)] \/ \E y \in dirty' : Gid(y) = Gid(x) /\ x \in val[y]
             /\ Gid(x) = g => x \in disk'[Gid(x)]
  <2>1. x \in disk[Gid(x)] \/ \E y \in dirty : Gid(y) = Gid(x) /\ x \in val[y] BY <1>8 DEF Durable, Recorded
  <2>2. CASE x \in disk[Gid(x)] BY <1>0, <1>4, <2>2
  <2>3. ASSUME NEW y \in dirty, Gid(y) = Gid(x), x \in val[y]
        PROVE  /\ x \in disk'[Gid(x)] \/ \E z \in dirty' : Gid(z) = Gid(x) /\ x \in val[z]
               /\ Gid(x) = g => x \in disk'[Gid(x)]
    <3>1. CASE Gid(x) = g
      <4>1. y = k BY <1>0, <1>3, <2>3, <3>1 DEF Durable, DirtyKept
      <4> QED BY <1>4, <2>3, <3>1, <4>1
    <3>2. CASE Gid(x) # g
      <4>1. y \in dirty' BY <2>3, <3>2
      <4> QED BY <2>3, <3>2, <4>1
    <3> QED BY <3>1, <3>2
  <2> QED BY <2>1, <2>2, <2>3
<1>9. Recorded'
  <2>1. dirty' \subseteq Calls BY <1>0
  <2> QED BY <1>0, <1>8, <2>1 DEF Recorded
<1>10. AckedDurable' BY <1>0, <1>4 DEF Durable, AckedDurable
<1> QED BY <1>5, <1>6, <1>7, <1>8, <1>9, <1>10 DEF Durable

\* The runner answers "ok" once the save is done, or when there was nothing to save.
LEMMA AnswerDurable == ASSUME Types, Ownership, Budget, Generations, Durable, Fixed, NEW r \in Calls,
                              ExecuteClean(r) \/ SavePlayer(r)
                       PROVE  Durable'
<1> DEFINE k == Held(r)
           c == runner[r].cur
<1>g. PICK g \in Gids : g = Gid(r) BY GidType
<1>0. /\ call \in [Calls -> CallRec] /\ runner \in [Calls -> RunnerRec] /\ dirty \subseteq Calls
      /\ \A x \in Calls : Gid(x)' = Gid(x) /\ Gid(x) \in Gids
  BY GidType DEF Types, CellTypes, Fixed, Gid
<1>1. k \in Calls /\ c \in Calls /\ runner[r].pc \in {"logic", "save"}
  BY DEF ExecuteClean, SavePlayer, Types, InHand, Working, Held
<1>2. Kept(k) /\ Gid(k) = g /\ Gid(c) = g BY <1>g, <1>1, HeldKept DEF Ownership, CurCall, Working
<1>3. /\ \A x \in Calls : runner'[x].cell = runner[x].cell /\ (runner'[x].pc = "retire" => runner[x].pc = "retire")
      /\ UNCHANGED <<val, resident>>
  BY <1>0 DEF ExecuteClean, SavePlayer, RunnerRec
<1>4. /\ \A x \in Calls \ {c} : call'[x] = call[x]
      /\ call'[c].mut = call[c].mut
  BY <1>0, <1>1 DEF ExecuteClean, SavePlayer, Complete, CallRec
<1>5. CASE ExecuteClean(r)
  <2>1. UNCHANGED <<disk, dirty>> /\ k \notin dirty BY <1>5 DEF ExecuteClean
  <2>2. call[c].mut => c \in disk[g]
    <3>1. \A y \in dirty : Gid(y) # g BY <1>0, <1>1, <1>2, <2>1, OneKept DEF Durable, DirtyKept
    <3> QED BY <1>1, <1>2, <3>1 DEF Durable, Recorded
  <2>3. \A x \in Calls : Gid(x)' = Gid(x) /\ Held(x)' = Held(x) BY <1>0, <1>3 DEF Held
  <2> HIDE DEF k, c
  <2>4. \A x \in Calls : Kept(x)' <=> Kept(x) BY <1>3, <2>3 DEF Kept
  <2>5. DirtyKept' BY <1>0, <2>1, <2>4 DEF Durable, DirtyKept
  <2>6. Reinserted' BY <1>3, <2>1, <2>3 DEF Durable, Reinserted
  <2>7. Copies' BY <1>3, <2>1, <2>3, <2>4 DEF Durable, Copies
  <2>8. \A x \in Calls : call'[x].mut = call[x].mut BY <1>4
  <2>9. Recorded' BY <1>0, <1>3, <2>1, <2>3, <2>8 DEF Durable, Recorded
  <2>10. AckedDurable' BY <1>2, <1>4, <2>1, <2>2, <2>3 DEF Durable, AckedDurable
  <2> QED BY <2>5, <2>6, <2>7, <2>9, <2>10 DEF Durable
<1>6. CASE SavePlayer(r)
  <2>1. k \in dirty BY <1>6 DEF SavePlayer, Budget, Gates, DirtySlotsExact
  <2>2. (SaveOk(g, k) /\ Complete(r, "ok")) \/ (SaveFails(g, k) /\ Complete(r, "unsaved")) BY <1>g, <1>6 DEF SavePlayer
  <2>3. \A x \in Calls : Held(x)' = Held(x) BY <1>3 DEF Held
  <2>4. CASE SaveFails(g, k) /\ Complete(r, "unsaved") /\ UNCHANGED <<disk, dirty>>
    <3>1. \A x \in Calls : call'[x].out = "ok" => call[x].out = "ok"
      BY <1>0, <1>1, <2>4 DEF Complete, CallRec
    <3> QED BY <1>3, <1>4, <2>4, <3>1, DurableStill
  <2>5. CASE disk' = [disk EXCEPT ![g] = val[k]] /\ dirty' \in {dirty, dirty \ {k}}
    <3>1. c \in disk'[g] \/ ~call[c].mut
      <4>1. disk'[g] = val[k] BY <2>5 DEF Types, CellTypes
      <4>2. disk[g] \subseteq val[k] BY <1>1, <1>2 DEF Durable, Copies
      <4>3. \A y \in dirty : Gid(y) = g => y = k BY <1>0, <1>1, <1>2, OneKept DEF Durable, DirtyKept
      <4>4. call[c].mut => c \in disk[g] \/ \E y \in dirty : Gid(y) = g /\ c \in val[y]
        BY <1>1, <1>2 DEF Durable, Recorded
      <4> QED BY <4>1, <4>2, <4>3, <4>4
    <3> HIDE DEF k, c
    <3>2. \A x \in Calls : call'[x].out = "ok" => call[x].out = "ok" \/ (call[x].mut => x \in disk'[Gid(x)])
      BY <1>2, <1>4, <3>1
    <3>3. \A x \in Calls : call'[x].mut = call[x].mut BY <1>4
    <3> QED BY <1>2, <1>3, <2>1, <2>3, <2>5, <3>2, <3>3, WriteDurable
  <2>6. SaveFails(g, k) => UNCHANGED <<dirty>> /\ (UNCHANGED disk \/ disk' = [disk EXCEPT ![g] = val[k]]) BY DEF SaveFails
  <2>7. SaveOk(g, k) => disk' = [disk EXCEPT ![g] = val[k]] /\ dirty' = dirty \ {k} BY DEF SaveOk
  <2> QED BY <2>2, <2>4, <2>5, <2>6, <2>7
<1> QED BY <1>5, <1>6

\* The cache's saver and the flush keep Durable.
LEMMA BackgroundDurable ==
  ASSUME Types, Ownership, Budget, Generations, Durable, Fixed,
         (\E k \in Calls : CacheSaver(k)) \/ Close \/ ShutdownStep \/ UNCHANGED vars
  PROVE  Durable'
<1>0. UNCHANGED <<call, runner, resident, val>>
  BY DEF CacheSaver, SaverLock, SaverDone, Close, ShutdownStep, CheckCalls, CheckActive, Listen, Wake,
         FlushPlayer, FlushEnd, vars, cells
<1>1. CASE UNCHANGED <<disk, dirty>> BY <1>0, <1>1, DurableStill
<1>2. ASSUME NEW g \in Gids, NEW k \in dirty, g = Gid(k), SaveOk(g, k) \/ SaveFails(g, k) PROVE Durable'
  <2>1. CASE disk' = [disk EXCEPT ![g] = val[k]] /\ dirty' \in {dirty, dirty \ {k}}
    BY <1>0, <1>2, <2>1, WriteDurable DEF Held
  <2> QED BY <1>1, <1>2, <2>1, SaveEffect
<1>3. ASSUME NEW k \in Calls, SaverDone(k) PROVE Durable'
  <2>1. k \in dirty BY <1>3 DEF SaverDone, Budget, Gates, DirtySlotsExact
  <2> QED BY <1>2, <1>3, <2>1, GidType DEF SaverDone
<1>4. ASSUME NEW g \in Gids, FlushPlayer(g) PROVE Durable'
  <2>1. resident[g] \in dirty /\ Gid(resident[g]) = g BY <1>4 DEF FlushPlayer, Generations
  <2> QED BY <1>2, <1>4, <2>1 DEF FlushPlayer
<1>5. CASE \/ \E k \in Calls : SaverLock(k)
           \/ Close \/ CheckCalls \/ CheckActive \/ Listen \/ Wake \/ FlushEnd \/ UNCHANGED vars
  <2>1. UNCHANGED <<disk, dirty>> BY <1>5 DEF SaverLock, Close, CheckCalls, CheckActive, Listen, Wake, FlushEnd, vars, cells
  <2> QED BY <1>1, <2>1
<1> QED BY <1>3, <1>4, <1>5 DEF CacheSaver, ShutdownStep

\* Every step keeps Durable, if the cache drops clean cells only.
LEMMA DurableNext == ASSUME ~LossyCache, RuntimeInv, Generations, Unanswered, Durable, [Next]_vars PROVE Durable'
<1>0. Types /\ Ownership /\ Budget /\ Fixed BY CallsFixed DEF RuntimeInv
<1>1. ASSUME NEW c \in Calls, Enqueue(c) PROVE Durable' BY <1>0, <1>1, EnqueueDurable
<1>2. ASSUME NEW r \in Calls, RunGid(r) PROVE Durable'
  BY <1>0, <1>2, RunnerMovesDurable, CellMovesDurable, LoadDurable, ExecuteDirtyDurable, AnswerDurable DEF RunGid
<1>3. ASSUME NEW g \in Gids, Evict(g) PROVE Durable' BY <1>0, <1>3, EvictDurable
<1>4. CASE (\E k \in Calls : CacheSaver(k)) \/ Close \/ ShutdownStep \/ UNCHANGED vars
  BY <1>0, <1>4, BackgroundDurable
<1> QED BY <1>1, <1>2, <1>3, <1>4 DEF Next

\* The invariants of this module that need no assumption about the cache, ...
CacheInv == RuntimeInv /\ Drained /\ Generations /\ Unanswered

\* ... and all that the durability of answered calls rests on.
LEMMA CacheInvariant == Spec => []CacheInv
<1>1. Init => Drained /\ Generations BY DEF Init, Drained, Generations, Held, Idle
<1>2. ASSUME Init PROVE Unanswered
  <2>1. \A c \in Calls : call[c].out = "none" BY <1>2 DEF Init
  <2>2. \A r \in Calls : runner[r].pc = "off" /\ runner[r].next = None BY <1>2 DEF Init, Idle
  <2> QED BY <2>1, <2>2 DEF Unanswered
<1>3. RuntimeInv /\ Drained /\ Generations /\ Unanswered /\ [Next]_vars => Drained' /\ Generations' /\ Unanswered'
  BY DrainedNext, GenerationsNext, UnansweredNext DEF RuntimeInv
<1> QED BY <1>1, <1>2, <1>3, RuntimeInvariant, PTL DEF Spec, CacheInv

\* Durable holds initially.
LEMMA DurableInit == Init => Durable
<1> SUFFICES ASSUME Init PROVE Durable OBVIOUS
<1>1. /\ dirty = {} /\ \A c \in Calls : ~call[c].mut /\ call[c].out = "none"
      /\ \A r \in Calls : runner[r].pc = "off" /\ Held(r) = None
      /\ \A c \in Calls : Gid(c) \in Gids /\ resident[Gid(c)] = None
  BY DEF Init, Held, Idle, Gid
<1>2. \A k \in Calls : ~Kept(k) BY <1>1 DEF Kept
<1> QED BY <1>1, <1>2 DEF Durable, DirtyKept, Reinserted, Copies, Recorded, AckedDurable

\* Durable is an invariant when the cache drops clean players only.
LEMMA DurableInvariant == ASSUME ~LossyCache PROVE Spec => []Durable
<1>1. CacheInv /\ Durable /\ [Next]_vars => Durable' BY DurableNext DEF CacheInv
<1> QED BY <1>1, DurableInit, CacheInvariant, PTL DEF Spec

\* If the cache never drops a dirty player, a mutation whose caller was told "ok" is
\* on disk from then on, whatever is evicted, saved, flushed or reloaded meanwhile.
THEOREM AnswersAreDurable == ASSUME ~LossyCache PROVE Spec => []AckedDurable
<1>1. Durable => AckedDurable BY DEF Durable
<1> QED BY <1>1, DurableInvariant, PTL

\* After Stopped there is no dirty player: nobody is left to run logic.
LEMMA StoppedNext == ASSUME CacheInv, stopped => dirty = {}, [Next]_vars PROVE (stopped => dirty = {})'
<1>1. CASE stopped
  <2>1. \A c \in Calls : ~Live(c)
    BY <1>1, GidType DEF CacheInv, Drained, RuntimeInv, Ownership, OneRunnerPerGid
  <2>2. dirty = {} BY <1>1
  <2>3. ASSUME NEW c \in Calls, Enqueue(c) PROVE dirty' = {} BY SMTT(30), <2>2, <2>3 DEF Enqueue, TryUse, AcquireKib, UndoCalls, Push, cells
  <2>4. ASSUME NEW r \in Calls, RunGid(r) PROVE FALSE
    BY <2>1, <2>4 DEF Live, RunGid, TakeNext, GetResident, LoadPlayer, LoadFails, EnterGate, PreloadFails, ExecuteDirty,
                      ExecuteClean, SavePlayer, Finish, DropCalls, DropKib, Reinsert, Retire
  <2>5. CASE \/ \E k \in Calls : CacheSaver(k)
             \/ \E g \in Gids : Evict(g)
             \/ Close \/ ShutdownStep \/ UNCHANGED vars
    BY <2>2, <2>5 DEF CacheSaver, SaverLock, SaverDone, Evict, Close, ShutdownStep, CheckCalls, CheckActive, Listen, Wake,
                      FlushPlayer, FlushEnd, SaveOk, SaveFails, vars, cells
  <2> QED BY <2>3, <2>4, <2>5 DEF Next
<1>2. CASE ~stopped
  <2>1. CASE FlushEnd BY <2>1 DEF FlushEnd, NoDirtyPlayers, cells
  <2>2. CASE ~FlushEnd
    <3>1. stopped' = stopped
      <4>1. CASE Close \/ ShutdownStep
        BY <2>2, <4>1 DEF Close, ShutdownStep, CheckCalls, CheckActive, Listen, Wake, FlushPlayer
      <4>2. CASE ~Close /\ ~ShutdownStep BY <4>2, OutsideShutdown
      <4> QED BY <4>1, <4>2
    <3> QED BY <1>2, <3>1
  <2> QED BY <2>1, <2>2
<1> QED BY <1>1, <1>2

\* If the cache never drops a dirty player, Stopped is reported only when every
\* mutation that ran, acknowledged or not, is on disk.
THEOREM StopSavesAll == ASSUME ~LossyCache PROVE Spec => []StoppedMeansSaved
<1> DEFINE Clean == stopped => dirty = {}
<1>1. Init => Clean BY DEF Init
<1>2. CacheInv /\ Clean /\ [Next]_vars => Clean' BY StoppedNext
<1>3. Durable /\ Clean => StoppedMeansSaved BY DEF Durable, Recorded, StoppedMeansSaved
<1> HIDE DEF Clean
<1> QED BY <1>1, <1>2, <1>3, CacheInvariant, DurableInvariant, PTL DEF Spec

-----------------------------------------------------------------------------
(* What the database still lacks *)

\* What a dirty cell has and the database has not was answered "unsaved", or is the
\* mutation that is being saved.
Owed == \A k \in dirty : \A c \in val[k] \ disk[Gid(k)] :
           /\ Gid(c) = Gid(k)
           /\ \/ call[c].out = "unsaved"
              \/ call[c].mut /\ \E r \in Calls : runner[r].pc = "save" /\ Held(r) = k /\ runner[r].cur = c

\* No other runner holds the cell of a runner.
LEMMA OwnCell == ASSUME Types, Ownership, Generations, NEW r \in Calls, NEW x \in Calls, Held(r) # None, Held(x) = Held(r)
                 PROVE  x = r
<1>1. Live(r) /\ Live(x) BY DEF Generations, Live
<1>2. Gid(r) = Gid(x) BY DEF Generations
<1> QED BY <1>1, <1>2 DEF Ownership, OneRunnerPerGid

\* Steps that write no cell and no player.
LEMMA OwedSame == ASSUME Types, Owed, Fixed, UNCHANGED <<dirty, disk>>, \A k \in dirty : val'[k] = val[k],
                         \A x \in Calls : call'[x].mut = call[x].mut,
                         \A x \in Calls : call[x].out = "unsaved" => call'[x].out = "unsaved",
                         \A x \in Calls : runner[x].pc = "save" => runner'[x] = runner[x]
                  PROVE  Owed'
<1>0. /\ dirty \subseteq Calls /\ \A k \in dirty : val[k] \subseteq Calls
      /\ \A x \in Calls : Gid(x)' = Gid(x)
  BY DEF Types, CellTypes, Fixed, Gid
<1> SUFFICES ASSUME NEW k \in dirty, NEW c \in val[k] \ disk[Gid(k)]
             PROVE  /\ Gid(c) = Gid(k)
                    /\ \/ call'[c].out = "unsaved"
                       \/ call'[c].mut /\ \E r \in Calls : runner'[r].pc = "save" /\ Held(r)' = k /\ runner'[r].cur = c
  BY <1>0 DEF Owed
<1>1. c \in Calls BY <1>0
<1>2. CASE call[c].out = "unsaved" BY <1>1, <1>2 DEF Owed
<1>3. ASSUME call[c].mut, NEW r \in Calls, runner[r].pc = "save", Held(r) = k, runner[r].cur = c
      PROVE  call'[c].mut /\ runner'[r].pc = "save" /\ Held(r)' = k /\ runner'[r].cur = c
  BY <1>1, <1>3 DEF Held
<1> QED BY <1>2, <1>3 DEF Owed

\* Admission keeps Owed.
LEMMA EnqueueOwed == ASSUME Types, Ownership, Unanswered, Owed, Fixed, NEW c \in Calls, Enqueue(c) PROVE Owed'
<1>0. call \in [Calls -> CallRec] /\ runner \in [Calls -> RunnerRec] BY DEF Types
<1>1. UNCHANGED <<val, dirty, disk>> BY DEF Enqueue, TryUse, AcquireKib, UndoCalls, Push, cells
<1>2. call[c].pc \in {"new", "kib", "undo", "push"} BY DEF Enqueue, TryUse, AcquireKib, UndoCalls, Push
<1>3. call[c].out = "none" /\ runner[c].pc = "off" BY <1>2 DEF Unanswered, Ownership, NotStarted, Locked, Live
<1>4. /\ \A x \in Calls \ {c} : call'[x] = call[x]
      /\ call'[c].mut = call[c].mut
  <2>1. CASE TryUse(c) BY <1>0, <2>1 DEF TryUse, CallRec
  <2>2. CASE AcquireKib(c) BY <1>0, <2>2 DEF AcquireKib, CallRec
  <2>3. CASE UndoCalls(c) BY <1>0, <2>3 DEF UndoCalls, CallRec
  <2>4. CASE Push(c) BY <1>0, <2>4 DEF Push, CallRec
  <2> QED BY <2>1, <2>2, <2>3, <2>4 DEF Enqueue
<1>5. \A x \in Calls : runner[x].pc = "save" => runner'[x] = runner[x]
  BY <1>0, <1>3 DEF Enqueue, TryUse, AcquireKib, UndoCalls, Push, RunnerRec
<1> QED BY <1>1, <1>3, <1>4, <1>5, OwedSame

\* Serving a call without writing keeps Owed.
LEMMA InnerOwed == ASSUME Types, Ownership, Generations, Unanswered, Durable, Owed, Fixed, NEW r \in Calls,
                          \/ GetResident(r) \/ LoadPlayer(r) \/ LoadFails(r) \/ EnterGate(r) \/ PreloadFails(r)
                          \/ ExecuteClean(r)
                   PROVE  Owed'
<1>0. /\ call \in [Calls -> CallRec] /\ InnerStep(r) /\ InnerAction(r) BY InnerActions DEF InnerAction, Types
<1>1. /\ runner[r].pc \in {"get", "gate", "logic"} /\ \A x \in Calls : runner[x].pc = "save" => runner'[x] = runner[x]
  BY <1>0 DEF InnerStep, GetResident, LoadPlayer, LoadFails, EnterGate, PreloadFails, ExecuteClean
<1>2. runner[r].cur \in Calls /\ call[runner[r].cur].out = "none" BY <1>1 DEF Types, InHand, Working, Unanswered
<1>3. \A x \in Calls \ {runner[r].cur} : call'[x] = call[x] BY <1>0, InnerAnswer
<1>4. call'[runner[r].cur].mut = call[runner[r].cur].mut
  BY <1>0, <1>2 DEF GetResident, LoadPlayer, LoadFails, EnterGate, PreloadFails, ExecuteClean, Complete, CallRec
<1>5. UNCHANGED <<dirty, disk>> BY DEF GetResident, LoadPlayer, LoadFails, EnterGate, PreloadFails, ExecuteClean, cells
<1>6. \A k \in dirty : val'[k] = val[k]
  <2>1. CASE LoadPlayer(r)
    <3>1. ASSUME r \in dirty PROVE FALSE
      <4>1. Kept(r) /\ resident[Gid(r)] = None /\ Held(r) = None /\ Live(r) BY <2>1, <3>1 DEF Durable, DirtyKept, LoadPlayer, Live
      <4>2. PICK x \in Calls : Held(x) = r BY <4>1 DEF Kept
      <4>3. Gid(x) = Gid(r) /\ Live(x) BY <4>2 DEF Generations, Live
      <4> QED BY <4>1, <4>2, <4>3 DEF Ownership, OneRunnerPerGid
    <3> QED BY <2>1, <3>1 DEF LoadPlayer, Types, CellTypes
  <2>2. CASE UNCHANGED val BY <2>2
  <2> QED BY <2>1, <2>2 DEF GetResident, LoadFails, EnterGate, PreloadFails, ExecuteClean, cells
<1> QED BY <1>1, <1>2, <1>3, <1>4, <1>5, <1>6, OwedSame

\* Taking, finishing and dropping calls keeps Owed.
LEMMA HandOverOwed ==
  ASSUME Types, Owed, Fixed, NEW r \in Calls,
         TakeNext(r) \/ Finish(r) \/ DropCalls(r) \/ DropKib(r) \/ Reinsert(r) \/ Retire(r)
  PROVE  Owed'
<1>0. /\ call \in [Calls -> CallRec] /\ runner \in [Calls -> RunnerRec] /\ Gid(r) \in Gids
      /\ runner[r].pc \in Working => runner[r].cur \in Calls
  BY GidType DEF Types, InHand
<1>1. UNCHANGED <<val, dirty, disk>> BY DEF TakeNext, Finish, DropCalls, DropKib, Reinsert, Retire, cells
<1>2. \A x \in Calls : runner[x].pc = "save" => runner'[x] = runner[x]
  BY <1>0 DEF TakeNext, Finish, DropCalls, DropKib, Reinsert, Retire, RunnerRec
<1>3. \A x \in Calls : call'[x].mut = call[x].mut /\ call'[x].out = call[x].out
  <2>1. ASSUME NEW h \in Calls, NEW p, call' = [call EXCEPT ![h].pc = p]
        PROVE  \A x \in Calls : call'[x].mut = call[x].mut /\ call'[x].out = call[x].out
    BY <1>0, <2>1 DEF CallRec
  <2>2. CASE TakeNext(r) BY <1>0, <2>1, <2>2, HeadType DEF TakeNext
  <2>3. CASE Finish(r) BY <1>0, <2>3 DEF Finish, CallRec
  <2>4. CASE DropCalls(r) BY <1>0, <2>1, <2>4 DEF DropCalls, Working
  <2>5. CASE DropKib(r) BY <1>0, <2>1, <2>5 DEF DropKib, Working
  <2>6. CASE UNCHANGED call BY <2>6
  <2>7. CASE Retire(r) BY <1>0, <2>1, <2>6, <2>7, HeadType DEF Retire, MayRetire
  <2> QED BY <2>2, <2>3, <2>4, <2>5, <2>6, <2>7 DEF Reinsert
<1> QED BY <1>1, <1>2, <1>3, OwedSame

\* The logic runs: only its own mutation joins what is owed.
LEMMA ExecuteDirtyOwed ==
  ASSUME Types, Ownership, Generations, Unanswered, Durable, Owed, Fixed, NEW r \in Calls, NEW mutates \in BOOLEAN,
         ExecuteDirty(r, mutates)
  PROVE  Owed'
<1> DEFINE k == Held(r)
           c == runner[r].cur
<1>0. /\ call \in [Calls -> CallRec] /\ runner \in [Calls -> RunnerRec] /\ dirty \subseteq Calls
      /\ val \in [Calls -> SUBSET Calls]
      /\ \A x \in Calls : Gid(x)' = Gid(x) /\ Gid(x) \in Gids
  BY GidType DEF Types, CellTypes, Fixed, Gid
<1>1. k \in Calls /\ c \in Calls /\ runner[r].pc = "logic" BY DEF ExecuteDirty, Types, InHand, Working, Held
<1>2. Kept(k) /\ Gid(k) = Gid(r) /\ Gid(c) = Gid(r) /\ call[c].out = "none"
  BY <1>1, HeldKept DEF Ownership, CurCall, Working, Unanswered
<1>3. /\ UNCHANGED disk /\ dirty' = dirty \cup {k}
      /\ \A x \in Calls \ {k} : val'[x] = val[x]
      /\ val'[k] = IF mutates THEN val[k] \cup {c} ELSE val[k]
  BY <1>0, <1>1 DEF ExecuteDirty
<1>4. /\ \A x \in Calls \ {c} : call'[x] = call[x]
      /\ call'[c].out = call[c].out /\ call'[c].mut = mutates
  BY <1>0, <1>1 DEF ExecuteDirty, CallRec
<1>5. /\ \A x \in Calls : Held(x)' = Held(x)
      /\ \A x \in Calls \ {r} : runner'[x] = runner[x]
      /\ runner'[r].pc = "save" /\ runner'[r].cur = c
  BY <1>0 DEF ExecuteDirty, RunnerRec, Held
<1>6. \A x \in Calls : runner[x].pc = "save" => x # r /\ Held(x) # k BY <1>1, OwnCell
<1>7. \A y \in val[k] \ disk[Gid(k)] : Gid(y) = Gid(k) /\ call[y].out = "unsaved" /\ y \in Calls
  <2>1. CASE k \in dirty BY <1>0, <1>1, <1>6, <2>1 DEF Owed
  <2>2. CASE k \notin dirty BY <1>1, <1>2, <2>2 DEF Durable, Copies
  <2> QED BY <2>1, <2>2
<1> HIDE DEF k, c
<1> SUFFICES ASSUME NEW z \in dirty', NEW y \in val'[z] \ disk[Gid(z)]
             PROVE  /\ Gid(y) = Gid(z)
                    /\ \/ call'[y].out = "unsaved"
                       \/ call'[y].mut /\ \E x \in Calls : runner'[x].pc = "save" /\ Held(x)' = z /\ runner'[x].cur = y
  <2>1. dirty' \subseteq Calls /\ \A z \in dirty' : val'[z] \subseteq Calls BY <1>0, <1>1, <1>3
  <2> QED BY <1>0, <1>3, <2>1 DEF Owed
<1>8. CASE z = k
  <2>1. CASE y \in val[k] BY <1>2, <1>4, <1>7, <1>8, <2>1
  <2>2. CASE y \notin val[k]
    <3>1. y = c /\ mutates BY <1>3, <1>8, <2>2
    <3>2. runner'[r].pc = "save" /\ Held(r)' = z /\ runner'[r].cur = y BY <1>5, <1>8, <3>1 DEF k
    <3> QED BY <1>2, <1>4, <1>8, <3>1, <3>2
  <2> QED BY <2>1, <2>2
<1>9. CASE z # k
  <2>1. z \in dirty /\ val'[z] = val[z] /\ y \in val[z] \ disk[Gid(z)] /\ y \in Calls BY <1>0, <1>3, <1>9
  <2>2. CASE call[y].out = "unsaved"
    <3>1. y # c BY <1>2, <2>2
    <3> QED BY <1>4, <2>1, <2>2, <3>1 DEF Owed
  <2>3. ASSUME call[y].mut, NEW x \in Calls, runner[x].pc = "save", Held(x) = z, runner[x].cur = y
        PROVE  call'[y].mut /\ runner'[x].pc = "save" /\ Held(x)' = z /\ runner'[x].cur = y
    <3>1. x # r BY <1>1, <2>3
    <3>2. y # c BY <1>1, <2>3, <3>1, OwnHands DEF c, Working
    <3> QED BY <1>4, <1>5, <2>1, <2>3, <3>1, <3>2
  <2> QED BY <2>1, <2>2, <2>3 DEF Owed
<1> QED BY <1>8, <1>9

\* What is written is owed no more; what is not written stays owed.
LEMMA WriteOwed ==
  ASSUME Types, Ownership, Generations, Durable, Owed, Fixed, NEW k \in dirty, NEW g \in Gids, g = Gid(k),
         SaveOk(g, k) \/ SaveFails(g, k), UNCHANGED val,
         \A x \in Calls : call'[x].mut = call[x].mut,
         \A x \in Calls : call[x].out = "unsaved" => call'[x].out = "unsaved",
         \A x \in Calls : runner[x].pc = "save" =>
            \/ runner'[x] = runner[x]
            \/ Held(x) = k /\ (SaveFails(g, k) => call'[runner[x].cur].out = "unsaved")
  PROVE  Owed'
<1>0. /\ dirty \subseteq Calls /\ k \in Calls /\ disk \in [Gids -> SUBSET Calls]
      /\ \A x \in Calls : Gid(x)' = Gid(x) /\ Gid(x) \in Gids
      /\ \A y \in dirty : val[y] \subseteq Calls
  BY GidType DEF Types, CellTypes, Fixed, Gid
<1>1. \A y \in dirty : Gid(y) = g => y = k BY <1>0, OneKept DEF Durable, DirtyKept
<1>2. \/ SaveFails(g, k) /\ UNCHANGED <<disk, dirty>>
      \/ disk' = [disk EXCEPT ![g] = val[k]] /\ dirty' \in {dirty, dirty \ {k}}
  BY DEF SaveOk, SaveFails
<1> SUFFICES ASSUME NEW z \in dirty', NEW y \in val[z] \ disk'[Gid(z)]
             PROVE  /\ Gid(y) = Gid(z)
                    /\ \/ call'[y].out = "unsaved"
                       \/ call'[y].mut /\ \E x \in Calls : runner'[x].pc = "save" /\ Held(x)' = z /\ runner'[x].cur = y
  <2>1. dirty' \subseteq Calls /\ \A z \in dirty' : val'[z] \subseteq Calls BY <1>0, <1>2
  <2> QED BY <1>0, <2>1 DEF Owed
<1>3. /\ z \in dirty /\ y \in val[z] \ disk[Gid(z)] /\ y \in Calls
      /\ z = k => SaveFails(g, k)
  <2>1. z \in dirty BY <1>2
  <2>2. CASE SaveFails(g, k) /\ UNCHANGED <<disk, dirty>> BY <1>0, <2>1, <2>2
  <2>3. CASE disk' = [disk EXCEPT ![g] = val[k]]
    <3>1. disk'[g] = val[k] BY <1>0, <2>3
    <3>2. z # k BY <3>1
    <3>3. Gid(z) # g BY <1>1, <2>1, <3>2
    <3> QED BY <1>0, <2>1, <2>3, <3>2, <3>3
  <2> QED BY <1>2, <2>2, <2>3
<1>4. CASE call[y].out = "unsaved" BY <1>3, <1>4 DEF Owed
<1>5. ASSUME call[y].mut, NEW x \in Calls, runner[x].pc = "save", Held(x) = z, runner[x].cur = y
      PROVE  \/ call'[y].out = "unsaved"
             \/ call'[y].mut /\ runner'[x].pc = "save" /\ Held(x)' = z /\ runner'[x].cur = y
  BY <1>3, <1>5 DEF Held
<1> QED BY <1>3, <1>4, <1>5 DEF Owed

\* SavePlayer keeps Owed.
LEMMA SavePlayerOwed == ASSUME Types, Ownership, Budget, Generations, Unanswered, Durable, Owed, Fixed,
                               NEW r \in Calls, SavePlayer(r)
                        PROVE  Owed'
<1>g. PICK g \in Gids : g = Gid(r) BY GidType
<1> DEFINE k == Held(r)
           c == runner[r].cur
<1>0. call \in [Calls -> CallRec] /\ runner \in [Calls -> RunnerRec] BY DEF Types
<1>1. c \in Calls /\ k \in dirty /\ k \in Calls /\ Gid(k) = g /\ call[c].out = "none" /\ runner[r].pc = "save"
  BY <1>g, HeldKept DEF SavePlayer, Types, InHand, Working, Held, Budget, Gates, DirtySlotsExact, Unanswered
<1>2. /\ (SaveOk(g, k) /\ Complete(r, "ok")) \/ (SaveFails(g, k) /\ Complete(r, "unsaved"))
      /\ UNCHANGED val /\ \A x \in Calls \ {r} : runner'[x] = runner[x]
  BY <1>g, <1>0 DEF SavePlayer
<1>3. /\ \A x \in Calls \ {c} : call'[x] = call[x]
      /\ call'[c].mut = call[c].mut
      /\ Complete(r, "unsaved") => call'[c].out = "unsaved"
  BY <1>0, <1>1, <1>2 DEF Complete, CallRec
<1>4. CASE SaveFails(g, k) /\ Complete(r, "unsaved")
  <2>1. \A x \in Calls : call'[x].mut = call[x].mut /\ (call[x].out = "unsaved" => call'[x].out = "unsaved")
    BY <1>1, <1>3, <1>4
  <2>2. \A x \in Calls : runner[x].pc = "save" =>
            \/ runner'[x] = runner[x]
            \/ Held(x) = k /\ (SaveFails(g, k) => call'[runner[x].cur].out = "unsaved")
    BY <1>2, <1>3, <1>4
  <2> QED BY <1>1, <1>2, <1>4, <2>1, <2>2, WriteOwed
<1>5. CASE SaveOk(g, k) /\ ~SaveFails(g, k)
  <2>1. \A x \in Calls : call'[x].mut = call[x].mut /\ (call[x].out = "unsaved" => call'[x].out = "unsaved")
    BY <1>1, <1>3
  <2>2. \A x \in Calls : runner[x].pc = "save" =>
            \/ runner'[x] = runner[x]
            \/ Held(x) = k /\ (SaveFails(g, k) => call'[runner[x].cur].out = "unsaved")
    BY <1>2, <1>5
  <2> QED BY <1>1, <1>2, <1>5, <2>1, <2>2, WriteOwed
<1>6. SaveOk(g, k) => ~SaveFails(g, k) BY <1>1 DEF SaveOk, SaveFails
<1> QED BY <1>2, <1>4, <1>5, <1>6

\* The cache's saver and the flush keep Owed.
LEMMA BackgroundOwed ==
  ASSUME Types, Ownership, Budget, Generations, Durable, Owed, Fixed,
         \/ \E k \in Calls : CacheSaver(k)
         \/ \E g \in Gids : Evict(g)
         \/ Close \/ ShutdownStep \/ UNCHANGED vars
  PROVE  Owed'
<1>0. UNCHANGED <<call, runner, val>>
  BY DEF CacheSaver, SaverLock, SaverDone, Evict, Close, ShutdownStep, CheckCalls, CheckActive, Listen, Wake,
         FlushPlayer, FlushEnd, vars, cells
<1>1. CASE UNCHANGED <<disk, dirty>> BY <1>0, <1>1, OwedSame
<1>2. ASSUME NEW k \in Calls, SaverDone(k) PROVE Owed'
  <2>1. k \in dirty BY <1>2 DEF SaverDone, Budget, Gates, DirtySlotsExact
  <2> QED BY <1>0, <1>2, <2>1, GidType, WriteOwed DEF SaverDone
<1>3. ASSUME NEW g \in Gids, FlushPlayer(g) PROVE Owed'
  <2>1. resident[g] \in dirty /\ Gid(resident[g]) = g BY <1>3 DEF FlushPlayer, Generations
  <2> QED BY <1>0, <1>3, <2>1, WriteOwed DEF FlushPlayer
<1>4. CASE \/ \E k \in Calls : SaverLock(k)
           \/ \E g \in Gids : Evict(g)
           \/ Close \/ CheckCalls \/ CheckActive \/ Listen \/ Wake \/ FlushEnd \/ UNCHANGED vars
  <2>1. UNCHANGED <<disk, dirty>>
    BY <1>4 DEF SaverLock, Evict, Close, CheckCalls, CheckActive, Listen, Wake, FlushEnd, vars, cells
  <2> QED BY <1>1, <2>1
<1> QED BY <1>2, <1>3, <1>4 DEF CacheSaver, ShutdownStep

\* Every step keeps Owed.
LEMMA OwedNext == ASSUME RuntimeInv, Generations, Unanswered, Durable, Owed, [Next]_vars PROVE Owed'
<1>0. Types /\ Ownership /\ Budget /\ Fixed BY CallsFixed DEF RuntimeInv
<1>1. ASSUME NEW c \in Calls, Enqueue(c) PROVE Owed' BY <1>0, <1>1, EnqueueOwed
<1>2. ASSUME NEW r \in Calls, RunGid(r) PROVE Owed'
  BY <1>0, <1>2, InnerOwed, HandOverOwed, ExecuteDirtyOwed, SavePlayerOwed DEF RunGid
<1>3. CASE \/ \E k \in Calls : CacheSaver(k)
           \/ \E g \in Gids : Evict(g)
           \/ Close \/ ShutdownStep \/ UNCHANGED vars
  BY <1>0, <1>3, BackgroundOwed
<1> QED BY <1>1, <1>2, <1>3 DEF Next

-----------------------------------------------------------------------------
(* The steps of PlayerCalls *)

\* What a step of the runtime that PlayerCalls does not see leaves alone.
SameTargets == \A x \in Calls : Gid(x)' = Gid(x)
SameQueues == \A g \in Gids : Pending(g)' = Pending(g)
SameAnswers(S) == \A x \in Calls \ S : Answer(x)' = Answer(x)

\* The abstract variables of two states.
LEMMA SameTarget == ASSUME SameTargets PROVE [c \in Calls |-> Gid(c)]' = [c \in Calls |-> Gid(c)]
BY DEF SameTargets
\* The abstract queues stay when no queue changes, ...
LEMMA SameQueue == ASSUME SameQueues PROVE [g \in Gids |-> Pending(g)]' = [g \in Gids |-> Pending(g)]
BY DEF SameQueues
\* ... and the abstract answers when no answer does; ...
LEMMA SameAnswer == ASSUME SameAnswers({}) PROVE [c \in Calls |-> Answer(c)]' = [c \in Calls |-> Answer(c)]
BY DEF SameAnswers
\* ... one call is answered; ...
LEMMA NewAnswer == ASSUME NEW c \in Calls, NEW a, SameAnswers({c}), Answer(c)' = a
                   PROVE  [x \in Calls |-> Answer(x)]' = [[x \in Calls |-> Answer(x)] EXCEPT ![c] = a]
BY DEF SameAnswers
\* ... one player's queue changes.
LEMMA NewQueue == ASSUME NEW h \in Gids, NEW q, Pending(h)' = q, \A g \in Gids \ {h} : Pending(g)' = Pending(g)
                  PROVE  [g \in Gids |-> Pending(g)]' = [[g \in Gids |-> Pending(g)] EXCEPT ![h] = q]
OBVIOUS

\* A step that PlayerCalls does not see.
LEMMA SimStutter == ASSUME SameTargets, SameQueues, SameAnswers({}), disk' = disk
                    PROVE  UNCHANGED Caller!callVars
BY SameTarget, SameQueue, SameAnswer DEF Caller!callVars

\* A refusal.
LEMMA SimRefuse == ASSUME NEW c \in Calls, Types, SameTargets, SameQueues, SameAnswers({c}), disk' = disk,
                          Answer(c) = "none", Answer(c)' = "refused", c \notin Elems(Pending(Gid(c)))
                   PROVE  Caller!Refuse(c)
<1>1. Gid(c) \in Gids BY GidType
<1>2. ~Caller!Waiting(c) BY <1>1 DEF Caller!Waiting, Elems
<1> QED BY <1>2, SameTarget, SameQueue, NewAnswer DEF Caller!Refuse

\* An accepted call.
LEMMA SimAccept == ASSUME NEW c \in Calls, NEW g \in Gids, g = Gid(c), SameTargets, SameAnswers({}), disk' = disk,
                          Answer(c) = "none", c \notin Elems(Pending(g)),
                          Pending(g)' = Append(Pending(g), c),
                          \A h \in Gids \ {g} : Pending(h)' = Pending(h)
                   PROVE  Caller!Accept(c)
<1>1. [x \in Calls |-> Gid(x)][c] = g /\ [h \in Gids |-> Pending(h)][g] = Pending(g) OBVIOUS
<1>2. ~Caller!Waiting(c) BY <1>1 DEF Caller!Waiting, Elems
<1>3. [h \in Gids |-> Pending(h)]' = [[h \in Gids |-> Pending(h)] EXCEPT ![g] = Append(Pending(g), c)] BY NewQueue
<1>4. [h \in Gids |-> Pending(h)]' = [[h \in Gids |-> Pending(h)] EXCEPT ![g] = Append(@, c)] BY <1>1, <1>3
<1> QED BY <1>1, <1>2, <1>4, SameTarget, SameAnswer DEF Caller!Accept

\* A served call; old and own are what the step adds to the database.
LEMMA SimServe == ASSUME NEW c \in Calls, NEW g \in Gids, g = Gid(c), Types, SameTargets, SameAnswers({c}),
                         Pending(g) # <<>>, c = Head(Pending(g)), Pending(g)' = Tail(Pending(g)),
                         \A h \in Gids \ {g} : Pending(h)' = Pending(h),
                         NEW a \in {"read", "stored", "unsaved", "failed"}, Answer(c)' = a,
                         NEW old \in SUBSET Caller!Unsaved(g), NEW own \in SUBSET {c},
                         a = "stored" => own = {c}, a \in {"read", "failed"} => own = {},
                         disk' = [disk EXCEPT ![g] = @ \cup old \cup own]
                  PROVE  Caller!Serve(c)
<1>1. [x \in Calls |-> Gid(x)][c] = g /\ [h \in Gids |-> Pending(h)][g] = Pending(g) OBVIOUS
<1>2. [h \in Gids |-> Pending(h)]' = [[h \in Gids |-> Pending(h)] EXCEPT ![g] = Tail(Pending(g))] BY NewQueue
<1>3. [h \in Gids |-> Pending(h)]' = [[h \in Gids |-> Pending(h)] EXCEPT ![g] = Tail(@)] BY <1>1, <1>2
<1>4. [x \in Calls |-> Answer(x)]' = [[x \in Calls |-> Answer(x)] EXCEPT ![c] = a] BY NewAnswer
<1>5. \E a1 \in {"read", "stored", "unsaved", "failed"}, old1 \in SUBSET Caller!Unsaved(g), own1 \in SUBSET {c} :
          /\ a1 = "stored" => own1 = {c}
          /\ a1 \in {"read", "failed"} => own1 = {}
          /\ [x \in Calls |-> Answer(x)]' = [[x \in Calls |-> Answer(x)] EXCEPT ![c] = a1]
          /\ disk' = [disk EXCEPT ![g] = @ \cup old1 \cup own1]
  BY <1>4
<1> QED BY <1>1, <1>3, <1>5, SameTarget DEF Caller!Serve

\* A background write.
LEMMA SimWriteBack == ASSUME NEW g \in Gids, SameTargets, SameQueues, SameAnswers({}),
                             NEW old \in SUBSET Caller!Unsaved(g), disk' = [disk EXCEPT ![g] = @ \cup old]
                      PROVE  Caller!WriteBack(g)
BY SameTarget, SameQueue, SameAnswer DEF Caller!WriteBack

-----------------------------------------------------------------------------
(* The queue of PlayerCalls *)

\* Queues with a call in front.
LEMMA Front == ASSUME NEW m \in Seq(Calls), NEW c \in Calls
               PROVE  /\ <<>> \o m = m /\ <<c>> \o m # <<>> /\ Head(<<c>> \o m) = c /\ Tail(<<c>> \o m) = m
                      /\ <<c>> \o m \in Seq(Calls)
<1>1. <<>> \o m = m OBVIOUS
<1>2. /\ <<c>> \o m \in Seq(Calls) /\ Len(<<c>> \o m) = Len(m) + 1 /\ (<<c>> \o m)[1] = c
      /\ \A i \in 1..Len(m) : (<<c>> \o m)[i + 1] = m[i]
  OBVIOUS
<1>3. <<c>> \o m # <<>> /\ Head(<<c>> \o m) = c BY <1>2
<1>4. Tail(<<c>> \o m) \in Seq(Calls) /\ Len(Tail(<<c>> \o m)) = Len(m) BY <1>2
<1>5. \A i \in 1..Len(m) : Tail(<<c>> \o m)[i] = m[i] BY <1>2
<1>6. Tail(<<c>> \o m) = m BY <1>4, <1>5
<1> QED BY <1>1, <1>2, <1>3, <1>6

\* Taking the head of a queue and putting it in front again.
LEMMA Refront == ASSUME NEW m \in Seq(Calls), m # <<>> PROVE <<Head(m)>> \o Tail(m) = m
<1>1. Head(m) \in Calls /\ Tail(m) \in Seq(Calls) /\ Len(Tail(m)) = Len(m) - 1 /\ Len(m) \in Nat \ {0}
      /\ Head(m) = m[1] /\ \A i \in 1..Len(Tail(m)) : Tail(m)[i] = m[i + 1]
  OBVIOUS
<1> DEFINE t == Tail(m)
           q == <<Head(m)>> \o t
<1>2. q \in Seq(Calls) /\ Len(q) = Len(m) /\ q[1] = m[1] BY <1>1
<1>3. ASSUME NEW i \in 1..Len(m) PROVE q[i] = m[i]
  <2>1. CASE i = 1 BY <1>2, <2>1
  <2>2. CASE i # 1
    <3>1. i - 1 \in 1..Len(t) /\ t[i - 1] = m[i] BY <1>1, <2>2
    <3>2. q[i] = t[i - 1] BY <1>1, <2>2
    <3> QED BY <3>1, <3>2
  <2> QED BY <2>1, <2>2
<1> HIDE DEF q
<1>4. q = m BY <1>2, <1>3
<1> QED BY <1>4 DEF q

\* Appending behind a front.
LEMMA FrontAppend == ASSUME NEW s \in Seq(Calls), NEW m \in Seq(Calls), NEW c \in Calls
                     PROVE  s \o Append(m, c) = Append(s \o m, c)
<1> DEFINE a == s \o Append(m, c)
           b == Append(s \o m, c)
<1>1. a \in Seq(Calls) /\ b \in Seq(Calls) /\ Len(a) = Len(s) + Len(m) + 1 /\ Len(b) = Len(a) OBVIOUS
<1>2. \A i \in 1..Len(a) : a[i] = b[i] OBVIOUS
<1> HIDE DEF a, b
<1>3. a = b BY <1>1, <1>2
<1> QED BY <1>3 DEF a, b

\* The runner of a gid serves at most one call.
LEMMA OneRunning == ASSUME Types, Ownership, NEW c1 \in Calls, NEW c2 \in Calls, Gid(c1) = Gid(c2),
                           call[c1].pc = "running", call[c2].pc = "running"
                    PROVE  c1 = c2
<1>1. PICK r \in Calls : Live(r) /\ Gid(r) = Gid(c1) /\ c1 \in {runner[r].cur, runner[r].next} BY DEF Ownership, InFlight
<1>2. PICK x \in Calls : Live(x) /\ Gid(x) = Gid(c2) /\ c2 \in {runner[x].cur, runner[x].next} BY DEF Ownership, InFlight
<1>3. x = r BY <1>1, <1>2 DEF Ownership, OneRunnerPerGid
<1>4. \A c \in Calls : c = runner[r].cur => runner[r].pc \in Working BY DEF Ownership, CurCall
<1>5. \A c \in Calls : c = runner[r].next => runner[r].pc \in {"dropCalls", "dropKib"} BY DEF Ownership, NextCall
<1>6. runner[r].pc \in Working => call[runner[r].cur].pc = Phase(runner[r].pc) BY DEF Ownership, CurCall
<1> QED BY <1>1, <1>2, <1>3, <1>4, <1>5, <1>6 DEF Phase

\* The unanswered call in the hands of a runner.
LEMMA ServingIs == ASSUME Types, Ownership, Unanswered, NEW r \in Calls, Live(r), NEW g, g = Gid(r)
                   PROVE  /\ runner[r].pc \in {"get", "gate", "logic", "save"} => Serving(g) = {runner[r].cur}
                          /\ runner[r].pc \in {"take", "finish", "reinsert", "retire"} => Serving(g) = {}
<1>1. CASE runner[r].pc \in {"get", "gate", "logic", "save"}
  <2>1. runner[r].cur \in Calls /\ call[runner[r].cur].pc = "running" /\ Gid(runner[r].cur) = g
    BY <1>1 DEF Types, InHand, Working, Ownership, CurCall, Phase
  <2>2. call[runner[r].cur].out = "none" BY <1>1 DEF Unanswered
  <2>3. \A x \in Serving(g) : x = runner[r].cur BY <2>1, OneRunning DEF Serving
  <2> QED BY <1>1, <2>1, <2>2, <2>3 DEF Serving
<1>2. CASE runner[r].pc \in {"take", "finish", "reinsert", "retire"}
  <2>1. ASSUME NEW c \in Serving(g) PROVE FALSE
    <3>1. c \in Calls /\ Gid(c) = Gid(r) /\ call[c].pc = "running" /\ call[c].out = "none" BY DEF Serving
    <3>2. PICK x \in Calls : Live(x) /\ Gid(x) = Gid(c) /\ c \in {runner[x].cur, runner[x].next}
      BY <3>1 DEF Ownership, InFlight
    <3>3. x = r BY <3>1, <3>2 DEF Ownership, OneRunnerPerGid
    <3>4. runner[r].next = None BY <1>2 DEF Ownership, NextCall
    <3>5. runner[r].cur = c BY <3>1, <3>2, <3>3, <3>4
    <3>6. runner[r].pc = "finish" BY <1>2, <3>1, <3>5 DEF Ownership, CurCall, Working
    <3> QED BY <3>1, <3>5, <3>6 DEF Unanswered
  <2> QED BY <1>2, <2>1
<1> QED BY <1>1, <1>2

\* The queue in the two situations.
LEMMA PendingIs == ASSUME Types, NEW g \in Gids
                   PROVE  /\ mailbox[g] \in Seq(Calls)
                          /\ Serving(g) = {} => Pending(g) = mailbox[g]
                          /\ \A c \in Calls : Serving(g) = {c} => Pending(g) = <<c>> \o mailbox[g]
<1>1. mailbox[g] \in Seq(Calls) BY DEF Types, DirectoryTypes
<1>2. Serving(g) = {} => Pending(g) = <<>> \o mailbox[g] BY DEF Pending
<1>3. ASSUME NEW c \in Calls, Serving(g) = {c} PROVE Pending(g) = <<c>> \o mailbox[g]
  <2>1. (CHOOSE x \in Serving(g) : TRUE) = c BY <1>3
  <2>2. Serving(g) # {} BY <1>3
  <2> QED BY <2>1, <2>2 DEF Pending
<1>4. <<>> \o mailbox[g] = mailbox[g] BY <1>1
<1> QED BY <1>1, <1>2, <1>3, <1>4

\* The calls in it are queued or running.
LEMMA PendingElems == ASSUME Types, Ownership, NEW g \in Gids, NEW x \in Elems(Pending(g))
                      PROVE  call[x].pc \in {"queued", "running"}
<1>0. mailbox[g] \in Seq(Calls) BY PendingIs
<1>1. \A y \in Elems(mailbox[g]) : call[y].pc = "queued" BY DEF Ownership, Mailboxes
<1>2. CASE Serving(g) = {} BY <1>1, <1>2, PendingIs
<1>3. CASE Serving(g) # {}
  <2>1. PICK c \in Calls : c = (CHOOSE y \in Serving(g) : TRUE) /\ c \in Serving(g)
    <3>1. \E y \in Serving(g) : TRUE BY <1>3
    <3>2. (CHOOSE y \in Serving(g) : TRUE) \in Serving(g) BY <3>1
    <3> QED BY <3>2 DEF Serving
  <2>2. Pending(g) = <<c>> \o mailbox[g] BY <1>3, <2>1 DEF Pending
  <2>3. call[c].pc = "running" BY <2>1 DEF Serving
  <2>4. PICK i \in DOMAIN (<<c>> \o mailbox[g]) : x = (<<c>> \o mailbox[g])[i] BY <2>2 DEF Elems
  <2>5. x = c \/ \E j \in DOMAIN mailbox[g] : x = mailbox[g][j]
    <3>1. i \in 1..(Len(mailbox[g]) + 1) BY <1>0, <2>4
    <3>2. CASE i = 1 BY <1>0, <2>4, <3>2
    <3>3. CASE i # 1
      <4>1. i - 1 \in 1..Len(mailbox[g]) /\ x = mailbox[g][i - 1] BY <1>0, <2>4, <3>1, <3>3
      <4> QED BY <1>0, <4>1
    <3> QED BY <3>2, <3>3
  <2> QED BY <1>1, <2>3, <2>5 DEF Elems
<1> QED BY <1>2, <1>3

\* The queue of g does not change when its two parts do not.
LEMMA PendingStill == ASSUME NEW g \in Gids, mailbox'[g] = mailbox[g], Serving(g)' = Serving(g) PROVE Pending(g)' = Pending(g)
BY DEF Pending

\* The same from the phases of the calls.
LEMMA PendingSame == ASSUME NEW g \in Gids, mailbox'[g] = mailbox[g], SameTargets,
                            \A x \in Calls : (call'[x].pc = "running" /\ call'[x].out = "none") <=>
                                             (call[x].pc = "running" /\ call[x].out = "none")
                     PROVE  Pending(g)' = Pending(g)
<1>1. Serving(g)' = Serving(g) BY DEF Serving, SameTargets
<1> QED BY <1>1, PendingStill

-----------------------------------------------------------------------------
(* Every step of the runtime is a step of PlayerCalls *)

Seen == [Caller!Next]_(Caller!callVars)

\* Admission: accepted calls join the end of the queue, the others are refused.
LEMMA EnqueueSeen == ASSUME Types, Ownership, Unanswered, Fixed, NEW c \in Calls, Enqueue(c) PROVE Seen
<1>g. PICK g \in Gids : g = Gid(c) BY GidType
<1>0. call \in [Calls -> CallRec] /\ mailbox \in [Gids -> Seq(Calls)] /\ SameTargets
  BY DEF Types, DirectoryTypes, Fixed, SameTargets, Gid
<1>1. call[c].pc \in {"new", "kib", "undo", "push"} /\ disk' = disk
  BY DEF Enqueue, TryUse, AcquireKib, UndoCalls, Push, cells
<1>2. Answer(c) = "none" /\ call[c].out = "none" BY <1>1 DEF Unanswered, Answer
<1>3. c \notin Elems(Pending(g)) BY <1>1, PendingElems
<1>4. ASSUME NEW p \in CallPc \ {"running"}, \A x \in Calls \ {c} : call'[x] = call[x], call'[c].pc = p
      PROVE  /\ \A h \in Gids : mailbox'[h] = mailbox[h] => Pending(h)' = Pending(h)
             /\ SameAnswers({c})
  <2>1. \A x \in Calls : (call'[x].pc = "running" /\ call'[x].out = "none") <=>
                         (call[x].pc = "running" /\ call[x].out = "none")
    BY <1>1, <1>4
  <2>2. SameAnswers({c}) BY <1>4 DEF SameAnswers, Answer
  <2> QED BY <1>0, <2>1, <2>2, PendingSame
<1>5. ASSUME call' = [call EXCEPT ![c].pc = "rejected", ![c].out = "reject"], mailbox' = mailbox PROVE Seen
  <2>1. /\ \A x \in Calls \ {c} : call'[x] = call[x]
        /\ call'[c].pc = "rejected" /\ call'[c].out = "reject"
    BY <1>0, <1>5 DEF CallRec
  <2>2. SameQueues /\ SameAnswers({c}) BY <1>4, <1>5, <2>1 DEF SameQueues, CallPc
  <2>3. Answer(c)' = "refused" BY <2>1 DEF Answer
  <2>4. Caller!Refuse(c) BY <1>g, <1>0, <1>1, <1>2, <1>3, <2>2, <2>3, SimRefuse
  <2> QED BY <2>4 DEF Seen, Caller!Next
<1>6. ASSUME NEW p \in {"kib", "push", "undo"}, call' = [call EXCEPT ![c].pc = p], mailbox' = mailbox PROVE Seen
  <2>1. /\ \A x \in Calls \ {c} : call'[x] = call[x]
        /\ call'[c].pc = p /\ call'[c].out = "none"
    BY <1>0, <1>2, <1>6 DEF CallRec
  <2>2. SameQueues /\ SameAnswers({c}) BY <1>4, <1>6, <2>1 DEF SameQueues, CallPc
  <2>3. Answer(c)' = "none" BY <2>1 DEF Answer
  <2>4. SameAnswers({}) BY <1>2, <2>2, <2>3 DEF SameAnswers
  <2> QED BY <1>0, <1>1, <2>2, <2>4, SimStutter DEF Seen
<1>7. CASE Push(c)
  <2>1. /\ \A x \in Calls \ {c} : call'[x] = call[x]
        /\ call'[c].pc = "queued" /\ call'[c].out = "none"
        /\ mailbox'[g] = Append(mailbox[g], c) /\ \A h \in Gids \ {g} : mailbox'[h] = mailbox[h]
    BY <1>g, <1>0, <1>2, <1>7 DEF CallRec, Push, PushBack
  <2>2. /\ \A h \in Gids \ {g} : Pending(h)' = Pending(h)
        /\ SameAnswers({c})
    BY <1>4, <2>1 DEF CallPc
  <2>3. Answer(c)' = "none" BY <2>1 DEF Answer
  <2>4. SameAnswers({}) BY <1>2, <2>2, <2>3 DEF SameAnswers
  <2>5. Serving(g)' = Serving(g) BY <1>0, <1>1, <2>1 DEF Serving, SameTargets
  <2>6. Pending(g)' = Append(Pending(g), c)
    <3>1. PICK s \in Seq(Calls) : s = IF Serving(g) = {} THEN <<>> ELSE <<CHOOSE x \in Serving(g) : TRUE>>
      <4>1. CASE Serving(g) = {}
        <5>1. <<>> \in Seq(Calls) OBVIOUS
        <5> QED BY <4>1, <5>1
      <4>2. CASE Serving(g) # {}
        <5>1. \E x \in Serving(g) : TRUE BY <4>2
        <5>2. (CHOOSE x \in Serving(g) : TRUE) \in Serving(g) BY <5>1
        <5>3. PICK y \in Calls : y = CHOOSE x \in Serving(g) : TRUE BY <5>2 DEF Serving
        <5>4. <<y>> \in Seq(Calls) OBVIOUS
        <5> QED BY <4>2, <5>3, <5>4
      <4> QED BY <4>1, <4>2
    <3>2. Pending(g) = s \o mailbox[g] BY <3>1 DEF Pending
    <3>3. Pending(g)' = s \o mailbox'[g] BY <2>5, <3>1 DEF Pending
    <3>4. mailbox[g] \in Seq(Calls) BY <1>0
    <3> QED BY <2>1, <3>2, <3>3, <3>4, FrontAppend
  <2>7. Caller!Accept(c) BY <1>g, <1>0, <1>1, <1>2, <1>3, <2>2, <2>4, <2>6, SimAccept
  <2> QED BY <2>7 DEF Seen, Caller!Next
<1>8. CASE TryUse(c) BY <1>5, <1>6, <1>8 DEF TryUse
<1>9. CASE AcquireKib(c) BY <1>6, <1>9 DEF AcquireKib, directory
<1>10. CASE UndoCalls(c) BY <1>5, <1>10 DEF UndoCalls
<1> QED BY <1>7, <1>8, <1>9, <1>10 DEF Enqueue

\* Loading, the save gate and the logic itself are not seen.
LEMMA WorkUnseen == ASSUME Types, Ownership, Unanswered, Fixed, NEW r \in Calls, InnerAction(r), runner'[r].pc # "finish", disk' = disk
                    PROVE  Seen
<1>0. InnerStep(r) /\ SameTargets BY InnerActions DEF Fixed, SameTargets, Gid
<1>1. PICK c \in Calls : c = runner[r].cur /\ call[c].out = "none"
  BY <1>0 DEF InnerStep, Types, InHand, Working, Unanswered
<1>2. /\ \A x \in Calls \ {c} : call'[x] = call[x]
      /\ call'[c].out = "none"
  BY <1>1, InnerAnswer
<1>3. /\ \A x \in Calls : call'[x].pc = call[x].pc /\ call'[x].out = call[x].out
      /\ mailbox' = mailbox
  BY <1>0, <1>1, <1>2 DEF InnerStep
<1>4. SameQueues BY <1>0, <1>3, PendingSame DEF SameQueues
<1>5. SameAnswers({})
  <2>1. Answer(c)' = Answer(c) BY <1>1, <1>2 DEF Answer
  <2>2. \A x \in Calls \ {c} : Answer(x)' = Answer(x) BY <1>2 DEF Answer
  <2> QED BY <2>1, <2>2 DEF SameAnswers
<1> QED BY <1>0, <1>4, <1>5, SimStutter DEF Seen

\* What an answer lets a step do to the database.
Stores(g, c, a) ==
    \E old \in SUBSET Caller!Unsaved(g), own \in SUBSET {c} :
       /\ a = "stored" => own = {c}
       /\ a \in {"read", "failed"} => own = {}
       /\ disk' = [disk EXCEPT ![g] = @ \cup old \cup own]

\* Enough for it: ...
LEMMA StoresNothing == ASSUME NEW g \in Gids, NEW c, NEW a, a # "stored", disk \in [Gids -> SUBSET Calls], disk' = disk
                       PROVE  Stores(g, c, a)
<1> DEFINE old == {}
           own == {}
<1>1. old \in SUBSET Caller!Unsaved(g) /\ own \in SUBSET {c} OBVIOUS
<1>2. disk[g] \cup old \cup own = disk[g] OBVIOUS
<1> HIDE DEF old, own
<1>3. disk' = [disk EXCEPT ![g] = @ \cup old \cup own] BY <1>2
<1>4. a = "stored" => own = {c} OBVIOUS
<1>5. own = {} BY DEF own
<1> QED BY <1>1, <1>3, <1>4, <1>5 DEF Stores

\* ... or a write that adds unsaved calls and c itself.
LEMMA StoresSome == ASSUME NEW g \in Gids, NEW c, NEW a, disk \in [Gids -> SUBSET Calls], NEW v,
                           disk' = [disk EXCEPT ![g] = v],
                           NEW old \in SUBSET Caller!Unsaved(g), NEW own \in SUBSET {c}, v = disk[g] \cup old \cup own,
                           a = "stored" => own = {c}, a \in {"read", "failed"} => own = {}
                    PROVE  Stores(g, c, a)
<1>1. disk' = [disk EXCEPT ![g] = @ \cup old \cup own] OBVIOUS
<1> QED BY <1>1 DEF Stores

\* A step that answers the call in hand serves the oldest call of the player.
LEMMA AnswerServes ==
  ASSUME Types, Ownership, Unanswered, Fixed, NEW r \in Calls, InnerAction(r), runner'[r].pc = "finish",
         NEW c \in Calls, c = runner[r].cur, NEW g \in Gids, g = Gid(r),
         NEW a \in {"read", "stored", "unsaved", "failed"}, Answer(c)' = a, Stores(g, c, a)
  PROVE  Seen
<1>s. PICK old \in SUBSET Caller!Unsaved(g), own \in SUBSET {c} :
         /\ a = "stored" => own = {c}
         /\ a \in {"read", "failed"} => own = {}
         /\ disk' = [disk EXCEPT ![g] = @ \cup old \cup own]
  BY DEF Stores
<1>0. InnerStep(r) /\ SameTargets BY InnerActions DEF Fixed, SameTargets, Gid
<1>1. Live(r) /\ runner[r].pc \in {"get", "gate", "logic", "save"} BY <1>0 DEF InnerStep, Live
<1>2. Serving(g) = {c} BY <1>1, ServingIs
<1>3. /\ \A x \in Calls \ {c} : call'[x] = call[x]
      /\ call'[c].out # "none" /\ mailbox' = mailbox /\ Gid(c) = g
  <2>1. \A x \in Calls \ {c} : call'[x] = call[x] BY InnerAnswer
  <2>2. call'[c].out # "none" BY InnerAnswer
  <2>3. mailbox' = mailbox BY <1>0 DEF InnerStep
  <2>4. Gid(c) = g BY <1>1 DEF Ownership, CurCall, Working
  <2> QED BY <2>1, <2>2, <2>3, <2>4
<1>4. Serving(g)' = {} BY <1>0, <1>2, <1>3 DEF Serving, SameTargets
<1>5. mailbox[g] \in Seq(Calls) BY PendingIs
<1>6. Pending(g) = <<c>> \o mailbox[g] BY <1>2, PendingIs
<1>7. Pending(g)' = mailbox[g] BY <1>3, <1>4, <1>5 DEF Pending
<1>8. Pending(g) # <<>> /\ c = Head(Pending(g)) /\ Pending(g)' = Tail(Pending(g)) BY <1>5, <1>6, <1>7, Front
<1>9. ASSUME NEW h \in Gids \ {g} PROVE Pending(h)' = Pending(h)
  <2>1. Serving(h)' = Serving(h) BY <1>0, <1>3 DEF Serving, SameTargets
  <2> QED BY <1>3, <2>1 DEF Pending
<1>10. SameAnswers({c}) BY <1>3 DEF SameAnswers, Answer
<1>11. Caller!Serve(c) BY <1>s, <1>0, <1>3, <1>8, <1>9, <1>10, SimServe
<1> QED BY <1>11 DEF Seen, Caller!Next

\* A call that fails without an effect.
LEMMA FailureSeen == ASSUME Types, Ownership, Unanswered, Fixed, NEW r \in Calls, runner'[r].pc = "finish",
                            NEW o \in {"load", "preload", "dirtyCapacity"}, Complete(r, o), disk' = disk, InnerAction(r)
                     PROVE  Seen
<1>g. PICK g \in Gids : g = Gid(r) BY GidType
<1>0. call \in [Calls -> CallRec] /\ disk \in [Gids -> SUBSET Calls] BY DEF Types, CellTypes
<1>1. PICK c \in Calls : c = runner[r].cur BY InnerActions DEF InnerStep, Types, InHand, Working
<1>2. call'[c].out = o BY <1>0, <1>1 DEF Complete, CallRec
<1>3. Answer(c)' = "failed" BY <1>2 DEF Answer
<1>4. Stores(g, c, "failed") BY <1>0, StoresNothing
<1> QED BY <1>g, <1>1, <1>3, <1>4, AnswerServes

\* The logic left a clean player clean: nothing is written, and nothing had to be.
LEMMA ExecuteCleanSeen == ASSUME Types, Ownership, Generations, Unanswered, Durable, Fixed, NEW r \in Calls, ExecuteClean(r)
                          PROVE  Seen
<1>g. PICK g \in Gids : g = Gid(r) BY GidType
<1>0. /\ call \in [Calls -> CallRec] /\ disk \in [Gids -> SUBSET Calls] /\ dirty \subseteq Calls
      /\ runner \in [Calls -> RunnerRec] /\ InnerAction(r)
  BY DEF Types, CellTypes, InnerAction
<1>1. PICK c \in Calls : c = runner[r].cur BY DEF ExecuteClean, Types, InHand, Working
<1>2. Held(r) \in Calls /\ Kept(Held(r)) /\ Gid(Held(r)) = g /\ Gid(c) = g /\ Held(r) \notin dirty
  BY <1>g, <1>1, HeldKept DEF ExecuteClean, Types, InHand, Working, Held, Ownership, CurCall
<1>3. call[c].mut => c \in disk[g]
  <2>1. \A y \in dirty : Gid(y) # g BY <1>0, <1>2, OneKept DEF Durable, DirtyKept
  <2> QED BY <1>2, <2>1 DEF Durable, Recorded
<1>4. /\ call'[c].out = "ok" /\ call'[c].mut = call[c].mut /\ disk' = disk
      /\ runner'[r].pc = "finish"
  BY <1>0, <1>1 DEF ExecuteClean, Complete, CallRec, RunnerRec
<1>5. CASE call[c].mut
  <2>1. Answer(c)' = "stored" BY <1>4, <1>5 DEF Answer
  <2>2. disk[g] = disk[g] \cup {} \cup {c} BY <1>3, <1>5
  <2>3. Stores(g, c, "stored")
    <3>1. disk' = [disk EXCEPT ![g] = disk[g]] BY <1>0, <1>4
    <3>2. {} \in SUBSET Caller!Unsaved(g) /\ {c} \in SUBSET {c} OBVIOUS
    <3> QED BY <1>0, <2>2, <3>1, <3>2, StoresSome
  <2> QED BY <1>g, <1>0, <1>1, <1>4, <2>1, <2>3, AnswerServes
<1>6. CASE ~call[c].mut
  <2>1. Answer(c)' = "read" BY <1>4, <1>6 DEF Answer
  <2>2. Stores(g, c, "read") BY <1>0, <1>4, StoresNothing
  <2> QED BY <1>g, <1>0, <1>1, <1>4, <2>1, <2>2, AnswerServes
<1> QED BY <1>5, <1>6

\* The save writes the call's own mutation and older unsaved ones, nothing else.
LEMMA SavePlayerSeen == ASSUME Types, Ownership, Budget, Generations, Unanswered, Durable, Owed, Fixed,
                               NEW r \in Calls, SavePlayer(r)
                        PROVE  Seen
<1>g. PICK g \in Gids : g = Gid(r) BY GidType
<1>0. /\ call \in [Calls -> CallRec] /\ disk \in [Gids -> SUBSET Calls] /\ dirty \subseteq Calls
      /\ val \in [Calls -> SUBSET Calls] /\ runner \in [Calls -> RunnerRec] /\ InnerAction(r)
  BY DEF Types, CellTypes, InnerAction
<1>1. PICK c \in Calls : c = runner[r].cur BY DEF SavePlayer, Types, InHand, Working
<1>2. PICK k \in Calls : k = Held(r) BY DEF SavePlayer, Types, InHand, Held
<1>3. Kept(k) /\ Gid(k) = g /\ Gid(c) = g /\ k \in dirty /\ call[c].out = "none" /\ runner[r].pc = "save"
  BY <1>g, <1>1, <1>2, HeldKept
     DEF SavePlayer, Ownership, CurCall, Working, Budget, Gates, DirtySlotsExact, Unanswered
<1>4. PICK new \in SUBSET Calls : new = val[k] \ disk[g] BY <1>0
<1>5. val[k] = disk[g] \cup new BY <1>2, <1>3, <1>4 DEF Durable, Copies
<1>6. \A x \in new \ {c} : Gid(x) = g /\ call[x].out = "unsaved" /\ x \in Calls
  <2> SUFFICES ASSUME NEW x \in new \ {c} PROVE Gid(x) = g /\ call[x].out = "unsaved"
    OBVIOUS
  <2>1. /\ Gid(x) = g
        /\ \/ call[x].out = "unsaved"
           \/ call[x].mut /\ \E y \in Calls : runner[y].pc = "save" /\ Held(y) = k /\ runner[y].cur = x
    BY <1>3, <1>4 DEF Owed
  <2>2. ASSUME NEW y \in Calls, Held(y) = k PROVE y = r BY <1>2, <2>2, OwnCell
  <2> QED BY <1>1, <2>1, <2>2
<1>7. new \ {c} \in SUBSET Caller!Unsaved(g)
  <2>1. \A x \in Calls : call[x].out = "unsaved" => Answer(x) = "unsaved" BY DEF Answer
  <2> QED BY <1>6, <2>1 DEF Caller!Unsaved
<1>8. c \in new => call[c].mut BY <1>3, <1>4 DEF Owed
<1>9. call[c].mut => c \in val[k]
  <2>1. \A y \in dirty : Gid(y) = g => y = k BY <1>0, <1>3, OneKept DEF Durable, DirtyKept
  <2>2. call[c].mut => c \in disk[g] \/ \E y \in dirty : Gid(y) = g /\ c \in val[y] BY <1>3 DEF Durable, Recorded
  <2> QED BY <1>5, <2>1, <2>2
<1>10. runner'[r].pc = "finish" BY <1>0 DEF SavePlayer, RunnerRec
<1>11. ASSUME NEW o \in {"ok", "unsaved"}, Complete(r, o) PROVE call'[c].out = o /\ call'[c].mut = call[c].mut
  BY <1>0, <1>1, <1>11 DEF Complete, CallRec
<1>12. CASE SaveOk(g, k) /\ Complete(r, "ok")
  <2>1. disk' = [disk EXCEPT ![g] = val[k]] BY <1>12 DEF SaveOk
  <2>2. CASE call[c].mut
    <3>1. Answer(c)' = "stored" BY <1>11, <1>12, <2>2 DEF Answer
    <3>2. val[k] = disk[g] \cup (new \ {c}) \cup {c} BY <1>5, <1>9, <2>2
    <3>3. Stores(g, c, "stored") BY <1>0, <1>7, <2>1, <3>2, StoresSome
    <3> QED BY <1>g, <1>0, <1>1, <1>10, <3>1, <3>3, AnswerServes
  <2>3. CASE ~call[c].mut
    <3>1. Answer(c)' = "read" BY <1>11, <1>12, <2>3 DEF Answer
    <3>2. val[k] = disk[g] \cup (new \ {c}) \cup {} BY <1>5, <1>8, <2>3
    <3>3. {} \in SUBSET {c} OBVIOUS
    <3>4. Stores(g, c, "read") BY <1>0, <1>7, <2>1, <3>2, <3>3, StoresSome
    <3> QED BY <1>g, <1>0, <1>1, <1>10, <3>1, <3>4, AnswerServes
  <2> QED BY <2>2, <2>3
<1>13. CASE SaveFails(g, k) /\ Complete(r, "unsaved")
  <2>1. Answer(c)' = "unsaved" BY <1>11, <1>13 DEF Answer
  <2>2. CASE disk' = disk
    <3>1. Stores(g, c, "unsaved") BY <1>0, <2>2, StoresNothing
    <3> QED BY <1>g, <1>0, <1>1, <1>10, <2>1, <3>1, AnswerServes
  <2>3. CASE disk' = [disk EXCEPT ![g] = val[k]]
    <3>1. val[k] = disk[g] \cup (new \ {c}) \cup (new \cap {c}) BY <1>5
    <3>2. new \cap {c} \in SUBSET {c} OBVIOUS
    <3>3. Stores(g, c, "unsaved") BY <1>0, <1>7, <2>3, <3>1, <3>2, StoresSome
    <3> QED BY <1>g, <1>0, <1>1, <1>10, <2>1, <3>3, AnswerServes
  <2> QED BY <1>13, <2>2, <2>3 DEF SaveFails
<1> QED BY <1>g, <1>2, <1>12, <1>13 DEF SavePlayer

\* Taking the head of the mailbox leaves the queue as it is: nobody is being served.
LEMMA PopUnseen ==
  ASSUME Types, Ownership, Unanswered, Fixed, NEW r \in Calls, NEW g \in Gids, g = Gid(r), Live(r), disk' = disk,
         runner[r].pc \in {"take", "finish", "retire"}, mailbox[g] # <<>>, NEW h \in Calls, h = Head(mailbox[g]),
         mailbox' = [mailbox EXCEPT ![g] = Tail(@)],
         call'[h].pc = "running", \A x \in Calls : call'[x].out = call[x].out /\ call'[x].mut = call[x].mut,
         \A x \in Calls \ {h} : \/ call'[x].pc = call[x].pc
                                \/ call'[x].pc # "running" /\ (call[x].pc # "running" \/ call[x].out # "none")
  PROVE  Seen
<1>0. mailbox \in [Gids -> Seq(Calls)] /\ SameTargets BY DEF Types, DirectoryTypes, Fixed, SameTargets, Gid
<1>1. mailbox[g] \in Seq(Calls) /\ Tail(mailbox[g]) \in Seq(Calls) BY <1>0, PendingIs, HeadType
<1>2. h \in Elems(mailbox[g]) BY <1>1, PopBox DEF Ownership, Mailboxes
<1>3. Gid(h) = g /\ call[h].pc = "queued" BY <1>2 DEF Ownership, Mailboxes
<1>4. call[h].out = "none" BY <1>3 DEF Unanswered
<1>5. Serving(g) = {} BY ServingIs
<1>6. Serving(g)' = {h}
  <2>1. h \in Serving(g)' BY <1>0, <1>3, <1>4 DEF Serving, SameTargets
  <2>2. ASSUME NEW x \in Calls, x # h PROVE x \notin Serving(g)'
    <3>1. Gid(x)' = Gid(x) BY <1>0 DEF SameTargets
    <3>2. Gid(x) # g \/ call[x].pc # "running" \/ call[x].out # "none" BY <1>5 DEF Serving
    <3>3. Gid(x) # g \/ call'[x].pc # "running" \/ call'[x].out # "none" BY <2>2, <3>2
    <3> QED BY <3>1, <3>3 DEF Serving
  <2>3. Serving(g)' \subseteq Calls BY DEF Serving
  <2> QED BY <2>1, <2>2, <2>3
<1>7. Pending(g) = mailbox[g] BY <1>5, PendingIs
<1>8. Pending(g)' = <<h>> \o Tail(mailbox[g])
  <2>1. mailbox'[g] = Tail(mailbox[g]) BY <1>0
  <2>2. (CHOOSE x \in Serving(g)' : TRUE) = h BY <1>6
  <2>3. Serving(g)' # {} BY <1>6
  <2> QED BY <2>1, <2>2, <2>3 DEF Pending
<1>9. Pending(g)' = Pending(g) BY <1>1, <1>7, <1>8, Refront
<1>10. ASSUME NEW f \in Gids \ {g} PROVE Pending(f)' = Pending(f)
  <2>1. Serving(f)' = Serving(f) BY <1>0, <1>3 DEF Serving, SameTargets
  <2>2. mailbox'[f] = mailbox[f] BY <1>0
  <2> QED BY <2>1, <2>2, PendingStill
<1>11. SameQueues BY <1>9, <1>10 DEF SameQueues
<1>12. SameAnswers({}) BY DEF SameAnswers, Answer
<1> QED BY <1>0, <1>11, <1>12, SimStutter DEF Seen

\* Steps between two calls are not seen.
LEMMA HandOverUnseen ==
  ASSUME Types, Ownership, Unanswered, Fixed, NEW r \in Calls,
         TakeNext(r) \/ Finish(r) \/ DropCalls(r) \/ DropKib(r) \/ Reinsert(r) \/ Retire(r)
  PROVE  Seen
<1>g. PICK g \in Gids : g = Gid(r) BY SMTT(30), GidType
<1>0. /\ call \in [Calls -> CallRec] /\ mailbox \in [Gids -> Seq(Calls)] /\ SameTargets
      /\ Live(r) /\ disk' = disk
  BY DEF Types, DirectoryTypes, Fixed, SameTargets, Gid, Live,
         TakeNext, Finish, DropCalls, DropKib, Reinsert, Retire, cells
<1>1. ASSUME runner[r].pc \in {"take", "retire"}, mailbox[g] # <<>>, mailbox' = [mailbox EXCEPT ![g] = Tail(@)],
             call' = [call EXCEPT ![Head(mailbox[g])].pc = "running"]
      PROVE  Seen
  <2>1. PICK h \in Calls : h = Head(mailbox[g]) BY <1>1, HeadType
  <2>2. /\ call'[h].pc = "running" /\ \A x \in Calls : call'[x].out = call[x].out /\ call'[x].mut = call[x].mut
        /\ \A x \in Calls \ {h} : call'[x].pc = call[x].pc
    BY <1>0, <1>1, <2>1 DEF CallRec
  <2>3. \A x \in Calls \ {h} : \/ call'[x].pc = call[x].pc
                               \/ call'[x].pc # "running" /\ (call[x].pc # "running" \/ call[x].out # "none")
    BY <2>2
  <2>4. \A x \in Calls : call'[x].out = call[x].out /\ call'[x].mut = call[x].mut BY <2>2
  <2>5. call'[h].pc = "running" /\ runner[r].pc \in {"take", "finish", "retire"} BY <1>1, <2>2
  <2> QED BY <1>g, <1>0, <1>1, <2>1, <2>3, <2>4, <2>5, PopUnseen
<1>2. ASSUME mailbox' = mailbox, \A x \in Calls : call'[x].out = call[x].out /\ call'[x].mut = call[x].mut,
             \A x \in Calls : \/ call'[x].pc = call[x].pc
                              \/ call'[x].pc # "running" /\ (call[x].pc # "running" \/ call[x].out # "none")
      PROVE  Seen
  <2>1. SameQueues
    <3>1. \A x \in Calls : (call'[x].pc = "running" /\ call'[x].out = "none") <=>
                           (call[x].pc = "running" /\ call[x].out = "none")
      BY <1>2
    <3> QED BY <1>0, <1>2, <3>1, PendingSame DEF SameQueues
  <2>2. SameAnswers({}) BY <1>2 DEF SameAnswers, Answer
  <2> QED BY <1>0, <2>1, <2>2, SimStutter DEF Seen
<1>3. CASE TakeNext(r) BY <1>g, <1>1, <1>3 DEF TakeNext
<1>4. CASE Retire(r) /\ ~MayRetire(g) BY <1>g, <1>1, <1>4 DEF Retire, MayRetire
<1>5. CASE Retire(r) /\ MayRetire(g) BY <1>g, <1>2, <1>5 DEF Retire
<1>6. CASE Reinsert(r) BY <1>2, <1>6 DEF Reinsert, directory
<1>7. ASSUME NEW p \in {"dropping", "done"}, runner[r].pc \in {"dropCalls", "dropKib"}, mailbox' = mailbox,
             call' = [call EXCEPT ![runner[r].cur].pc = p]
      PROVE  Seen
  <2>1. PICK c \in Calls : c = runner[r].cur BY <1>7 DEF Types, InHand, Working
  <2>2. call[c].pc # "running" BY <1>7, <2>1 DEF Ownership, CurCall, Working, Phase
  <2>3. /\ call'[c].pc = p /\ \A x \in Calls : call'[x].out = call[x].out /\ call'[x].mut = call[x].mut
        /\ \A x \in Calls \ {c} : call'[x].pc = call[x].pc
    BY <1>0, <1>7, <2>1 DEF CallRec
  <2> QED BY <1>2, <1>7, <2>2, <2>3
<1>8. CASE DropCalls(r) BY <1>7, <1>8 DEF DropCalls, directory
<1>9. CASE DropKib(r) BY <1>7, <1>9 DEF DropKib, directory
<1>10. CASE Finish(r)
  <2>1. PICK c \in Calls : c = runner[r].cur BY <1>10 DEF Finish, Types, InHand, Working
  <2>2. call[c].out # "none" BY <1>10, <2>1 DEF Finish, Unanswered
  <2>3. CASE mailbox[g] = <<>>
    <3>1. mailbox' = mailbox BY <1>g, <1>10, <2>3 DEF Finish
    <3>2. \A x \in Calls : /\ call'[x].out = call[x].out /\ call'[x].mut = call[x].mut
                           /\ x # c => call'[x].pc = call[x].pc
                           /\ x = c => call'[x].pc = "finished"
      BY <1>g, <1>0, <1>10, <2>1, <2>3 DEF Finish, CallRec
    <3> QED BY <1>2, <2>2, <3>1, <3>2
  <2>4. CASE mailbox[g] # <<>>
    <3>1. PICK h \in Calls : h = Head(mailbox[g]) BY <2>4, HeadType
    <3>2. h # None BY <3>1
    <3>3. c # h
      <4>1. call[c].pc = "running" BY <1>10, <2>1 DEF Finish, Ownership, CurCall, Working, Phase
      <4>2. mailbox[g] \in Seq(Calls) BY <1>0
      <4>3. h \in Elems(mailbox[g]) BY <2>4, <3>1, <4>2, PopBox DEF Ownership, Mailboxes
      <4> QED BY <4>1, <4>3 DEF Ownership, Mailboxes
    <3>4. mailbox' = [mailbox EXCEPT ![g] = Tail(@)] BY <1>g, <1>10, <2>4, <3>1, <3>2 DEF Finish
    <3>5. \A x \in Calls : /\ call'[x].out = call[x].out /\ call'[x].mut = call[x].mut
                           /\ x # c /\ x # h => call'[x].pc = call[x].pc
                           /\ x = c => call'[x].pc = "finished"
      <4>1. call' = [x \in Calls |-> CASE x = c   -> [call[x] EXCEPT !.pc = "finished"]
                                      [] x = h   -> [call[x] EXCEPT !.pc = "running"]
                                      [] OTHER   -> call[x]]
        BY <1>g, <1>10, <2>1, <2>4, <3>1 DEF Finish
      <4>2. ASSUME NEW x \in Calls, NEW p, call'[x] = [call[x] EXCEPT !.pc = p]
            PROVE  call'[x].out = call[x].out /\ call'[x].mut = call[x].mut /\ call'[x].pc = p
        BY <1>0, <4>2 DEF CallRec
      <4>3. ASSUME NEW x \in Calls
            PROVE  /\ call'[x].out = call[x].out /\ call'[x].mut = call[x].mut
                   /\ x # c /\ x # h => call'[x].pc = call[x].pc
                   /\ x = c => call'[x].pc = "finished"
        <5>1. CASE x = c
          <6>1. call'[x] = [call[x] EXCEPT !.pc = "finished"] BY <3>3, <4>1, <5>1
          <6> QED BY <4>2, <5>1, <6>1
        <5>2. CASE x # c /\ x = h
          <6>1. call'[x] = [call[x] EXCEPT !.pc = "running"] BY <3>3, <4>1, <5>2
          <6> QED BY <4>2, <5>2, <6>1
        <5>3. CASE x # c /\ x # h
          <6>1. call'[x] = call[x] BY <4>1, <5>3
          <6> QED BY <5>3, <6>1
        <5> QED BY <5>1, <5>2, <5>3
      <4> QED BY <4>3
    <3>6. call'[h].pc = "running" BY <1>g, <1>0, <1>10, <2>1, <2>4, <3>1, <3>3 DEF Finish, CallRec
    <3>7. runner[r].pc = "finish" BY <1>10 DEF Finish
    <3>8. \A x \in Calls \ {h} : \/ call'[x].pc = call[x].pc
                                 \/ call'[x].pc # "running" /\ (call[x].pc # "running" \/ call[x].out # "none")
      BY <2>2, <3>5
    <3>9. \A x \in Calls : call'[x].out = call[x].out /\ call'[x].mut = call[x].mut BY <3>5
    <3>10. runner[r].pc \in {"take", "finish", "retire"} BY <3>7
    <3> QED BY <1>g, <1>0, <2>4, <3>1, <3>4, <3>6, <3>8, <3>9, <3>10, PopUnseen
  <2> QED BY <2>3, <2>4
<1> QED BY <1>3, <1>4, <1>5, <1>6, <1>8, <1>9, <1>10

\* The cache's saver and the flush write back unsaved calls.
LEMMA BackgroundSeen ==
  ASSUME Types, Ownership, Budget, Generations, Durable, Owed, Fixed,
         \/ \E k \in Calls : CacheSaver(k)
         \/ \E g \in Gids : Evict(g)
         \/ Close \/ ShutdownStep \/ UNCHANGED vars
  PROVE  Seen
<1>0. UNCHANGED <<call, mailbox, val>> /\ SameTargets /\ disk \in [Gids -> SUBSET Calls] /\ val \in [Calls -> SUBSET Calls]
      /\ dirty \subseteq Calls
  BY DEF CacheSaver, SaverLock, SaverDone, Evict, Close, ShutdownStep, CheckCalls, CheckActive, Listen, Wake,
         FlushPlayer, FlushEnd, vars, cells, directory, Fixed, SameTargets, Gid, Types, CellTypes
<1>1. SameQueues /\ SameAnswers({}) BY <1>0, PendingSame DEF SameQueues, SameAnswers, Answer
<1>2. CASE UNCHANGED disk BY <1>0, <1>1, <1>2, SimStutter DEF Seen
<1>3. ASSUME NEW g \in Gids, NEW k \in dirty, g = Gid(k), SaveOk(g, k) \/ SaveFails(g, k), saveGate[k] \in {None, Saver}
      PROVE  Seen
  <2>1. PICK new \in SUBSET Calls : new = val[k] \ disk[g] BY <1>0
  <2>2. val[k] = disk[g] \cup new BY <1>0, <1>3, <2>1 DEF Durable, DirtyKept, Copies
  <2>3. \A r \in Calls : runner[r].pc = "save" => Held(r) # k BY <1>3 DEF Budget, Gates
  <2>4. \A x \in new : Gid(x) = g /\ call[x].out = "unsaved" BY <1>3, <2>1, <2>3 DEF Owed
  <2>5. new \in SUBSET Caller!Unsaved(g)
    <3>1. \A x \in Calls : call[x].out = "unsaved" => Answer(x) = "unsaved" BY DEF Answer
    <3> QED BY <2>4, <3>1 DEF Caller!Unsaved
  <2>6. CASE disk' = [disk EXCEPT ![g] = val[k]]
    <3>1. disk' = [disk EXCEPT ![g] = @ \cup new] BY <1>0, <2>2, <2>6
    <3>2. Caller!WriteBack(g) BY <1>0, <1>1, <2>5, <3>1, SimWriteBack
    <3> QED BY <3>2 DEF Seen, Caller!Next
  <2> QED BY <1>2, <1>3, <2>6, SaveEffect
<1>4. ASSUME NEW k \in Calls, SaverDone(k) PROVE Seen
  <2>1. k \in dirty /\ saveGate[k] = Saver BY <1>4 DEF SaverDone, Budget, Gates, DirtySlotsExact
  <2> QED BY <1>3, <1>4, <2>1, GidType DEF SaverDone
<1>5. ASSUME NEW g \in Gids, FlushPlayer(g) PROVE Seen
  <2>1. resident[g] \in dirty /\ Gid(resident[g]) = g /\ saveGate[resident[g]] = None BY <1>5 DEF FlushPlayer, Generations
  <2> QED BY <1>3, <1>5, <2>1 DEF FlushPlayer
<1>6. CASE \/ \E k \in Calls : SaverLock(k)
           \/ \E g \in Gids : Evict(g)
           \/ Close \/ CheckCalls \/ CheckActive \/ Listen \/ Wake \/ FlushEnd \/ UNCHANGED vars
  <2>1. UNCHANGED disk
    BY <1>6 DEF SaverLock, Evict, Close, CheckCalls, CheckActive, Listen, Wake, FlushEnd, vars, cells
  <2> QED BY <1>2, <2>1
<1> QED BY <1>4, <1>5, <1>6 DEF CacheSaver, ShutdownStep

\* The work of a runner: obtaining the player and running the logic is not seen by
\* the caller, a failure and the end of the save are the answer.
LEMMA RunGidSeen == ASSUME Types, Ownership, Budget, Generations, Unanswered, Durable, Owed, Fixed,
                           NEW r \in Calls, RunGid(r)
                    PROVE  Seen
<1>0. runner \in [Calls -> RunnerRec] BY DEF Types
<1>1. CASE GetResident(r) \/ LoadPlayer(r)
  <2>1. InnerAction(r) /\ disk' = disk BY <1>1 DEF InnerAction, GetResident, LoadPlayer, cells
  <2>2. runner'[r].pc = "gate" BY <1>0, <1>1 DEF GetResident, LoadPlayer, RunnerRec
  <2> QED BY <2>1, <2>2, WorkUnseen
<1>2. CASE LoadFails(r)
  <2>1. InnerAction(r) /\ disk' = disk /\ Complete(r, "load") BY <1>2 DEF InnerAction, LoadFails, cells
  <2>2. runner'[r].pc = "finish" BY <1>0, <1>2 DEF LoadFails, RunnerRec
  <2> QED BY <2>1, <2>2, FailureSeen
<1>3. CASE EnterGate(r)
  <2>1. InnerAction(r) /\ disk' = disk BY <1>3 DEF InnerAction, EnterGate
  <2>2. \/ runner'[r].pc = "logic"
        \/ runner'[r].pc = "finish" /\ Complete(r, "dirtyCapacity")
    BY <1>0, <1>3 DEF EnterGate, RunnerRec
  <2> QED BY <2>1, <2>2, WorkUnseen, FailureSeen
<1>4. CASE PreloadFails(r)
  <2>1. InnerAction(r) /\ disk' = disk /\ Complete(r, "preload") BY <1>4 DEF InnerAction, PreloadFails
  <2>2. runner'[r].pc = "finish" BY <1>0, <1>4 DEF PreloadFails, RunnerRec
  <2> QED BY <2>1, <2>2, FailureSeen
<1>5. ASSUME NEW mutates \in BOOLEAN, ExecuteDirty(r, mutates) PROVE Seen
  <2>1. InnerAction(r) /\ disk' = disk BY <1>5 DEF InnerAction, ExecuteDirty
  <2>2. runner'[r].pc = "save" BY <1>0, <1>5 DEF ExecuteDirty, RunnerRec
  <2> QED BY <2>1, <2>2, WorkUnseen
<1>6. CASE ExecuteClean(r) BY <1>6, ExecuteCleanSeen
<1>7. CASE SavePlayer(r) BY <1>7, SavePlayerSeen
<1>8. CASE TakeNext(r) \/ Finish(r) \/ DropCalls(r) \/ DropKib(r) \/ Reinsert(r) \/ Retire(r) BY <1>8, HandOverUnseen
<1> QED BY <1>1, <1>2, <1>3, <1>4, <1>5, <1>6, <1>7, <1>8 DEF RunGid

\* Every step of the runtime is a step or a stutter of PlayerCalls.
LEMMA NextSeen == ASSUME CacheInv, Durable, Owed, [Next]_vars PROVE Seen
<1>0. Types /\ Ownership /\ Budget /\ Generations /\ Unanswered BY DEF CacheInv, RuntimeInv
<1>1. Fixed BY <1>0, CallsFixed
<1>2. ASSUME NEW c \in Calls, Enqueue(c) PROVE Seen BY <1>0, <1>1, <1>2, EnqueueSeen
<1>3. ASSUME NEW r \in Calls, RunGid(r) PROVE Seen BY <1>0, <1>1, <1>3, RunGidSeen
<1>4. CASE \/ \E k \in Calls : CacheSaver(k)
           \/ \E g \in Gids : Evict(g)
           \/ Close \/ ShutdownStep \/ UNCHANGED vars
  BY <1>0, <1>1, <1>4, BackgroundSeen
<1> QED BY <1>2, <1>3, <1>4 DEF Next

\* The runtime starts where PlayerCalls starts.
LEMMA InitSeen == ASSUME Init PROVE Caller!Init
<1>1. \A c \in Calls : Gid(c) \in Gids /\ Answer(c) = "none" /\ call[c].pc = "new" BY DEF Init, Gid, Answer
<1>2. \A g \in Gids : Serving(g) = {} BY <1>1 DEF Serving
<1>3. \A g \in Gids : mailbox[g] = <<>> BY DEF Init
<1>4. \A g \in Gids : Pending(g) = <<>> BY <1>2, <1>3 DEF Pending
<1>5. disk = [g \in Gids |-> {}] BY DEF Init
<1> QED BY <1>1, <1>4, <1>5 DEF Caller!Init

\* Owed is an invariant when the cache drops clean players only.
LEMMA OwedInvariant == ASSUME ~LossyCache PROVE Spec => []Owed
<1>1. Init => Owed BY DEF Init, Owed
<1>2. CacheInv /\ Durable /\ Owed /\ [Next]_vars => Owed' BY OwedNext DEF CacheInv
<1> QED BY <1>1, <1>2, CacheInvariant, DurableInvariant, PTL DEF Spec

\* If the cache never drops a dirty player, every behaviour of the runtime is one of
\* PlayerCalls: the accepted calls of a player are answered in the order of
\* acceptance, each once, across every hand-over between enqueue and the runner;
\* "ok" after a mutation means stored, a failed call leaves no trace, and the
\* database only ever gains mutations that were answered so.
THEOREM RuntimeServesPlayerCalls == ASSUME ~LossyCache PROVE Spec => ServesPlayerCalls
<1>1. Init => Caller!Init BY InitSeen
<1>2. CacheInv /\ Durable /\ Owed /\ [Next]_vars => [Caller!Next]_(Caller!callVars) BY NextSeen DEF Seen
<1> QED BY <1>1, <1>2, CacheInvariant, DurableInvariant, OwedInvariant, PTL DEF Spec, ServesPlayerCalls, Caller!Spec
=============================================================================
