-------------------------- MODULE PublicMailProofs --------------------------
(***************************************************************************)
(* Proofs about PublicMail, for any number of requests, mails, generations *)
(* and crashes.                                                            *)
(*                                                                         *)
(* The dirty set, the order of the saves and the final flush are right     *)
(* while the cache drops no player with unsaved changes (Orderly): then    *)
(* every save is one of flush_dirty, and of those only one is under way.   *)
(* A mail is granted once because a claim that is not at risk is seen by   *)
(* every later claim: in the cached player, and in the document before the *)
(* player leaves the cache (ClaimsKept).                                   *)
(***************************************************************************)
EXTENDS PublicMail, TLAPS

CellRec == [mails : Data, version : Nat, dirty : BOOLEAN]
FlushRec == [pc : {"idle", "snapshot", "write", "cleanup"}, snap : Snapshot]
SaverRec == [pc : {"idle", "snapshot", "write", "unregister"}, snap : Snapshot]
ReqRec == [pc : {"new", "held", "locate", "grant", "late", "done"},
           kind : {"none", "list", "read", "delete", "claim", "send"},
           ids : SUBSET MailIds, cell : 0..MaxCells]

\* A request that holds a cell holds the one in the cache.
Held == \A r \in Reqs : req[r].pc = "held" => resident # NoCell /\ req[r].cell = resident

\* The types, without the bounds that the proofs do not need.
Types ==
    /\ cell \in [Cells -> CellRec] /\ cells \in 0..MaxCells /\ resident \in 0..cells
    /\ registered \in BOOLEAN /\ disk \in Snapshot /\ version \in Nat /\ failed \in Nat
    /\ flush \in [Tasks -> FlushRec] /\ saver \in [Cells -> SaverRec]
    /\ req \in [Reqs -> ReqRec] /\ proc \in {"up", "stopping", "stopped"} /\ nextId \in Nat
    /\ claims \in [MailIds -> Nat] /\ granted \in [MailIds -> Nat]
    /\ confirmed \subseteq MailIds /\ atRisk \subseteq MailIds
    /\ Held

Writing(t) == flush[t].pc = "write"

\* No version is newer than the last change, which is that of a dirty cached player.
Ceiling ==
    /\ disk.version <= version
    /\ \A t \in Tasks : flush[t].snap.version <= version
    /\ \A k \in Cells : cell[k].version <= version /\ saver[k].snap.version <= version
    /\ resident # NoCell /\ cell[resident].dirty => cell[resident].version = version
    /\ \A m \in MailIds : claims[m] <= version

\* The final flush begins when the periodic one has ended.
OneFlush == flush["final"].pc # "idle" => proc = "stopping" /\ flush["periodic"].pc = "idle"

\* No player was dropped with changes that no save had finished to write.
Orderly == ~Evicts \/ atRisk # MailIds

\* Then the fallback saver finds nothing to write, and no save goes back.
Dropped ==
    /\ \A k \in Cells : saver[k].pc # "idle" => k <= cells /\ k # resident
    /\ Orderly => \A k \in Cells : saver[k].pc # "idle" => Evicts /\ saver[k].pc # "write" /\ ~cell[k].dirty
Forward == Orderly => \A t \in Tasks : Writing(t) => disk.version <= flush[t].snap.version

Versions == Ceiling /\ OneFlush /\ Dropped /\ Forward

\* A clean player is stored, or its save failed, or it is being written.
Settled ==
    resident # NoCell /\ ~cell[resident].dirty =>
        IF \E t \in Tasks : Writing(t) THEN \A t \in Tasks : Writing(t) => flush[t].snap = Snap(resident)
        ELSE disk = Snap(resident) \/ failed = cell[resident].version

\* The shutdown finds no request with a player; its flush leaves it clean.
Final ==
    /\ proc # "up" => \A r \in Reqs : req[r].pc # "held"
    /\ proc = "stopped" => \A t \in Tasks : flush[t].pc = "idle"
    /\ flush["final"].pc \in {"write", "cleanup"} \/ proc = "stopped" =>
          resident = NoCell \/ ~cell[resident].dirty

\* What holds when the cache drops no player at all.
Saves == DirtyRegistered /\ Settled /\ Final /\ \A t \in Tasks : Writing(t) => resident # NoCell

\* A mail that cannot be claimed.
Spent(mails, m) == mails[m] \in {"claimed", "absent"}

\* Ids that were not handed out yet name no mail.
FreshIds ==
    \A m \in MailIds : m >= nextId =>
        /\ claims[m] = 0 /\ disk.mails[m] = "absent"
        /\ \A k \in Cells : cell[k].mails[m] = "absent" /\ saver[k].snap.mails[m] = "absent"
        /\ \A t \in Tasks : flush[t].snap.mails[m] = "absent"

ClaimsKept ==
    \A m \in MailIds \ atRisk : claims[m] > 0 =>
        /\ IF resident # NoCell THEN Spent(cell[resident].mails, m) ELSE claims[m] <= disk.version
        /\ claims[m] <= disk.version => Spent(disk.mails, m)
        /\ \A t \in Tasks : Writing(t) /\ claims[m] <= flush[t].snap.version => Spent(flush[t].snap.mails, m)

\* Request r will ask Logic for the items of m, or has asked.
Granting(r, m) == req[r].pc \in {"locate", "grant", "late"} /\ m \in req[r].ids

OneGrant ==
    \A m \in MailIds \ atRisk :
        /\ granted[m] <= 1
        /\ claims[m] = 0 => granted[m] = 0
        /\ \A r \in Reqs : Granting(r, m) => claims[m] > 0 /\ granted[m] = 0
        /\ \A r, q \in Reqs : Granting(r, m) /\ Granting(q, m) => r = q

Confirmed == \A m \in confirmed : granted[m] > 0

Claims == FreshIds /\ ClaimsKept /\ OneGrant /\ Confirmed

USE MailConfig DEF NoCell, Cells

-----------------------------------------------------------------------------
(* Types *)

\* Constants of the module have their types.
LEMMA ConstantTypes == Empty \in Data /\ NoSnap \in Snapshot /\ Unused \in CellRec /\ Ended \in ReqRec
BY DEF Empty, Data, MailState, NoSnap, Snapshot, Unused, CellRec, Ended, ReqRec

\* Snap copies a cell.
LEMMA SnapType == ASSUME Types, NEW k \in Cells PROVE Snap(k) \in Snapshot /\ Snap(k).version = cell[k].version
BY DEF Types, CellRec, Snap, Snapshot

\* The mailbox of a player that gets new mails still has its type.
LEMMA UpdateTypes == ASSUME Types, NEW k \in Cells, NEW mails \in Data, Update(k, mails)
                     PROVE  /\ cell' \in [Cells -> CellRec] /\ version' \in Nat /\ registered' \in BOOLEAN
                            /\ UNCHANGED <<cells, resident>>
BY DEF Types, Update, CellRec

\* Ending a request keeps the requests well typed and holds nothing.
LEMMA DoneTypes == ASSUME Types, NEW r \in Reqs, Done(r), UNCHANGED resident
                   PROVE  req' \in [Reqs -> ReqRec] /\ Held'
BY ConstantTypes DEF Types, Done, Ended, ReqRec, Held

\* What a request does to the player: nothing ...
Keeps == UNCHANGED <<store, version, nextId, claims>>

\* ... or new mails for the cached player.  Only a mail that can be claimed is marked,
\* only a new id appears.
NewMails(mails) ==
    /\ resident # NoCell /\ mails \in Data /\ Update(resident, mails)
    /\ nextId' \in {nextId, nextId + 1} /\ claims' \in [MailIds -> Nat]
    /\ \A m \in MailIds :
          /\ \/ mails[m] \in {cell[resident].mails[m], "absent"}
             \/ m = nextId /\ nextId' = nextId + 1
             \/ ~Spent(cell[resident].mails, m)
          /\ \/ claims'[m] = claims[m]
             \/ claims'[m] = version + 1 /\ mails[m] = "claimed" /\ ~Spent(cell[resident].mails, m)

\* What MailReadReq does; a request that marks no mail leaves the player alone.
LEMMA ReadEffect == ASSUME Types, NEW r \in Reqs, Read(r)
                    PROVE  Keeps \/ \E mails \in Data : NewMails(mails)
<1> DEFINE k == req[r].cell
           marked == [m \in MailIds |-> IF m \in req[r].ids /\ cell[k].mails[m] = "unread" THEN "read"
                                        ELSE cell[k].mails[m]]
<1>1. k = resident /\ k \in Cells /\ cell[k].mails \in Data /\ resident # NoCell
  BY DEF Types, Held, Read, CellRec
<1>2. marked \in Data BY <1>1 DEF Data, MailState
<1>3. CASE Unread(cell[k].mails, req[r].ids) # {}
  <2>1. Update(resident, marked) /\ UNCHANGED <<nextId, claims>> BY <1>1, <1>3 DEF Read, ghosts
  <2>2. \A m \in MailIds : marked[m] = cell[resident].mails[m] \/ ~Spent(cell[resident].mails, m)
    BY <1>1 DEF Spent
  <2>3. NewMails(marked) BY <1>1, <1>2, <2>1, <2>2 DEF NewMails, Types
  <2> QED BY <1>2, <2>3
<1>4. CASE Unread(cell[k].mails, req[r].ids) = {}
  <2>1. marked = cell[k].mails BY <1>1, <1>2, <1>4 DEF Unread, Data
  <2>2. cell' = [cell EXCEPT ![k].mails = marked] /\ UNCHANGED <<cells, resident, registered, version>>
    BY <1>4 DEF Read
  <2>3. cell' = cell BY <1>1, <2>1, <2>2 DEF Types, CellRec
  <2> QED BY <2>2, <2>3 DEF Keeps, Read, ghosts, store
<1> QED BY <1>3, <1>4

\* What MailDeleteReq does.
LEMMA DeleteEffect == ASSUME Types, NEW r \in Reqs, Delete(r)
                      PROVE  Keeps \/ \E mails \in Data : NewMails(mails)
<1> DEFINE k == req[r].cell
           removed == req[r].ids \cap Kept(cell[k].mails)
           mails == [m \in MailIds |-> IF m \in removed THEN "absent" ELSE cell[k].mails[m]]
<1>1. k = resident /\ k \in Cells /\ cell[k].mails \in Data /\ resident # NoCell
  BY DEF Types, Held, Delete, CellRec
<1>2. mails \in Data BY <1>1 DEF Data, MailState
<1>3. CASE removed # {}
  <2>1. Update(resident, mails) /\ UNCHANGED <<nextId, claims>> BY <1>1, <1>3 DEF Delete, ghosts
  <2>2. \A m \in MailIds : mails[m] \in {cell[resident].mails[m], "absent"} BY <1>1
  <2>3. NewMails(mails) BY <1>1, <1>2, <2>1, <2>2 DEF NewMails, Types
  <2> QED BY <1>2, <2>3
<1>4. CASE removed = {} BY <1>4 DEF Delete, Untouched, Keeps, ghosts
<1> QED BY <1>3, <1>4

\* What a claim does before it asks Logic.
LEMMA ClaimEffect == ASSUME Types, NEW r \in Reqs, Claim(r)
                     PROVE  \/ Keeps /\ Done(r)
                            \/ /\ \E mails \in Data : NewMails(mails)
                               /\ req' = [req EXCEPT ![r].pc = "locate"]
                               /\ \A m \in req[r].ids : ~Spent(cell[resident].mails, m)
                               /\ \A m \in req[r].ids : claims'[m] = version + 1
<1> DEFINE k == req[r].cell
           mails == [m \in MailIds |-> IF m \in req[r].ids THEN "claimed" ELSE cell[k].mails[m]]
<1>1. k = resident /\ k \in Cells /\ cell[k].mails \in Data /\ resident # NoCell /\ req[r].ids \subseteq MailIds
  BY SMTT(30) DEF Types, Held, Claim, CellRec, ReqRec
<1>2. mails \in Data BY <1>1 DEF Data, MailState
<1>3. CASE \A m \in req[r].ids : Claimable(k, m)
  <2>1. /\ Update(resident, mails) /\ UNCHANGED nextId /\ req' = [req EXCEPT ![r].pc = "locate"]
        /\ claims' = [m \in MailIds |-> IF m \in req[r].ids THEN version + 1 ELSE claims[m]]
    BY <1>1, <1>3 DEF Claim
  <2>2. \A m \in req[r].ids : ~Spent(cell[resident].mails, m) BY <1>1, <1>3 DEF Spent, Claimable
  <2>3. \A m \in req[r].ids : claims'[m] = version + 1 BY <1>1, <2>1
  <2>4. claims' \in [MailIds -> Nat] BY <2>1 DEF Types
  <2>5. \A m \in MailIds : /\ mails[m] \in {cell[resident].mails[m], "absent"} \/ ~Spent(cell[resident].mails, m)
                           /\ \/ claims'[m] = claims[m]
                              \/ claims'[m] = version + 1 /\ mails[m] = "claimed" /\ ~Spent(cell[resident].mails, m)
    BY <1>1, <2>1, <2>2
  <2>6. NewMails(mails) BY <1>1, <1>2, <2>1, <2>4, <2>5 DEF NewMails
  <2> QED BY <1>2, <2>1, <2>2, <2>3, <2>6
<1>4. CASE ~\A m \in req[r].ids : Claimable(k, m)
  BY <1>4 DEF Claim, Untouched, Keeps
<1> QED BY <1>3, <1>4

\* What send_mail does.
LEMMA SendEffect == ASSUME Types, NEW r \in Reqs, SendMail(r) PROVE \E mails \in Data : NewMails(mails)
<1> DEFINE k == req[r].cell
           with == [cell[k].mails EXCEPT ![nextId] = "unread"]
           mails == IF Overfull(with) THEN [with EXCEPT ![Min(Kept(with))] = "absent"] ELSE with
<1>1. k = resident /\ k \in Cells /\ cell[k].mails \in Data /\ resident # NoCell
  BY DEF Types, Held, SendMail, CellRec
<1>2. with \in Data BY <1>1 DEF Data, MailState
<1>3. mails \in Data BY <1>2 DEF Data, MailState
<1>4. Update(resident, mails) /\ nextId' = nextId + 1 /\ UNCHANGED claims BY <1>1 DEF SendMail, ghosts
<1>5. \A m \in MailIds : mails[m] \in {with[m], "absent"} BY <1>2 DEF Data
<1>6. \A m \in MailIds : m # nextId => with[m] = cell[resident].mails[m] BY <1>1 DEF Data
<1>7. NewMails(mails)
  <2> HIDE DEF mails, with
  <2> QED BY <1>1, <1>3, <1>4, <1>5, <1>6 DEF NewMails, Types
<1> QED BY <1>3, <1>7

\* What any step of a request does to the player.
LEMMA HandleEffect == ASSUME Types, NEW r \in Reqs, Handle(r)
                      PROVE  /\ UNCHANGED <<disk, flush, saver, proc, atRisk, failed>>
                             /\ Keeps \/ (req[r].pc = "held" /\ \E mails \in Data : NewMails(mails))
<1>1. CASE Read(r) BY <1>1, ReadEffect DEF Read, ghosts
<1>2. CASE Delete(r) BY <1>2, DeleteEffect DEF Delete, ghosts
<1>3. CASE Claim(r) BY SMTT(30), <1>3, ClaimEffect DEF Claim
<1>4. CASE SendMail(r) BY <1>4, SendEffect DEF SendMail, ghosts
<1>5. CASE List(r) \/ Locate(r) \/ GrantTimesOut(r) \/ LateGrant(r)
  BY <1>5 DEF List, Locate, GrantTimesOut, LateGrant, KeepClaim, Untouched, Keeps, ghosts
<1>6. ASSUME NEW status \in {"ok", "unsaved", "refused"}, Grant(r, status) PROVE UNCHANGED <<disk, flush, saver, proc, atRisk, failed>> /\ Keeps
  BY <1>6 DEF Grant, Untouched, Keeps
<1> QED BY <1>1, <1>2, <1>3, <1>4, <1>5, <1>6 DEF Handle

\* A request that goes on to its next phase holds nothing.
LEMMA PhaseTypes == ASSUME Types, NEW r \in Reqs, NEW p \in {"locate", "grant", "late"},
                           req' = [req EXCEPT ![r].pc = p], UNCHANGED resident
                    PROVE  req' \in [Reqs -> ReqRec] /\ Held'
BY ZenonT(60) DEF Types, ReqRec, Held

\* The requests after any step of a request.
LEMMA HandleRequests == ASSUME Types, NEW r \in Reqs, Handle(r)
                        PROVE  /\ req' \in [Reqs -> ReqRec] /\ Held'
                               /\ \A q \in Reqs : req'[q].pc = "held" => req[q].pc = "held"
<1>1. UNCHANGED resident BY HandleEffect DEF Keeps, NewMails, Update, store
<1>2. Done(r) \/ \E p \in {"locate", "grant", "late"} : req' = [req EXCEPT ![r].pc = p]
  BY DEF Handle, List, Read, Delete, Claim, SendMail, Locate, GrantTimesOut, LateGrant, Grant
<1>3. \A q \in Reqs : req'[q].pc = "held" => req[q].pc = "held"
  <2>1. \A q \in Reqs : q # r => req'[q] = req[q] BY <1>2 DEF Done, Types
  <2>2. req'[r].pc # "held" BY SMTT(30), <1>2 DEF Done, Ended, Types, ReqRec
  <2> QED BY <2>1, <2>2
<1> QED BY <1>1, <1>2, <1>3, DoneTypes, PhaseTypes

\* The items of a claim are added, or nothing is.
LEMMA HandleGrants == ASSUME Types, NEW r \in Reqs, Handle(r)
                      PROVE  granted' \in [MailIds -> Nat] /\ confirmed' \subseteq MailIds
<1>1. granted' = granted \/ AddItems(r)
  BY SMTT(30) DEF Handle, List, Read, Delete, Claim, SendMail, Locate, GrantTimesOut, LateGrant, Grant, ghosts, grants
<1>2. confirmed' = confirmed \/ confirmed' = confirmed \cup req[r].ids
  BY DEF Handle, List, Read, Delete, Claim, SendMail, Locate, GrantTimesOut, LateGrant, Grant, ghosts, grants
<1>3. granted' \in [MailIds -> Nat]
  <2>1. CASE AddItems(r)
    <3>1. \A m \in MailIds : (IF m \in req[r].ids THEN granted[m] + 1 ELSE granted[m]) \in Nat BY DEF Types
    <3> QED BY <2>1, <3>1 DEF AddItems
  <2> QED BY <1>1, <2>1 DEF Types
<1>4. confirmed' \subseteq MailIds BY <1>2 DEF Types, ReqRec
<1> QED BY <1>3, <1>4

\* A step of a request keeps the variables well typed.
LEMMA HandleTypes == ASSUME Types, NEW r \in Reqs, Handle(r) PROVE Types'
<1>1. UNCHANGED <<disk, flush, saver, proc, atRisk, failed>> /\ (Keeps \/ \E mails \in Data : NewMails(mails))
  BY HandleEffect
<1>2. req' \in [Reqs -> ReqRec] /\ Held' /\ granted' \in [MailIds -> Nat] /\ confirmed' \subseteq MailIds
  BY HandleRequests, HandleGrants
<1>3. CASE Keeps BY <1>1, <1>2, <1>3 DEF Types, Keeps, store
<1>4. ASSUME NEW mails \in Data, NewMails(mails) PROVE Types'
  <2>1. resident \in Cells BY <1>4 DEF NewMails, Types
  <2>2. cell' \in [Cells -> CellRec] /\ version' \in Nat /\ registered' \in BOOLEAN /\ UNCHANGED <<cells, resident>>
    BY <1>4, <2>1, UpdateTypes DEF NewMails
  <2> QED BY <1>1, <1>2, <1>4, <2>2 DEF Types, NewMails
<1> QED BY <1>1, <1>3, <1>4

\* Receiving a request keeps the variables well typed.
LEMMA ReceiveTypes == ASSUME Types, NEW r \in Reqs, Receive(r) PROVE Types'
<1>1. ASSUME NEW ids \in SUBSET MailIds, NEW kind \in Kinds(ids), GetCached(r, kind, ids) PROVE Types'
  <2>1. req' \in [Reqs -> ReqRec] /\ Held' BY <1>1 DEF Types, GetCached, Hold, Kinds, ReqRec, Held, store
  <2> QED BY <1>1, <2>1 DEF Types, GetCached, store, ghosts, grants
<1>2. ASSUME NEW ids \in SUBSET MailIds, NEW kind \in Kinds(ids), Load(r, kind, ids) PROVE Types'
  <2>1. req' \in [Reqs -> ReqRec] BY <1>2 DEF Types, Load, Hold, Kinds, ReqRec
  <2>2. Held' BY <1>2 DEF Types, Load, Hold, Held
  <2>3. Loaded \in CellRec BY DEF Types, Loaded, Snapshot, CellRec
  <2>4. cell' \in [Cells -> CellRec] BY <1>2, <2>3 DEF Types, Load
  <2> QED BY <1>2, <2>1, <2>2, <2>4 DEF Types, Load, ghosts, grants
<1>3. CASE LoadFails(r)
  <2>1. req' \in [Reqs -> ReqRec] /\ Held' BY <1>3, DoneTypes DEF LoadFails, Done, store
  <2> QED BY <1>3, <2>1 DEF Types, LoadFails, store, ghosts, grants
<1> QED BY <1>1, <1>2, <1>3 DEF Receive

\* flush_dirty keeps the variables well typed.
LEMMA FlushTypes == ASSUME Types, NEW t \in Tasks, Flush(t) PROVE Types'
<1>1. CASE FlushSnapshot(t)
  <2>1. CASE resident # NoCell /\ cell[resident].dirty
    <3>1. Snap(resident) \in Snapshot BY <2>1, SnapType DEF Types
    <3>2. [pc |-> "write", snap |-> Snap(resident)] \in FlushRec BY <3>1 DEF FlushRec
    <3>3. flush' \in [Tasks -> FlushRec] BY <1>1, <2>1, <3>2 DEF Types, FlushSnapshot
    <3>4. cell' \in [Cells -> CellRec] BY ZenonT(120), <1>1, <2>1 DEF Types, FlushSnapshot, TakeSnapshot, CellRec
    <3> QED BY <1>1, <2>1, <3>3, <3>4 DEF Types, FlushSnapshot, TakeSnapshot, ghosts, grants, Held
  <2>2. CASE ~(resident # NoCell /\ cell[resident].dirty)
    <3>1. flush' \in [Tasks -> FlushRec] BY ZenonT(60), <1>1, <2>2 DEF Types, FlushSnapshot, To, FlushRec
    <3> QED BY <1>1, <2>2, <3>1 DEF Types, FlushSnapshot, store, ghosts, grants, Held
  <2> QED BY <2>1, <2>2
<1>2. CASE FlushWrite(t)
  <2>1. flush' \in [Tasks -> FlushRec] BY <1>2, ConstantTypes DEF Types, FlushWrite, FlushRec
  <2>2. disk' \in Snapshot /\ failed' \in Nat
    BY <1>2 DEF Types, FlushWrite, Save, FlushRec, Snapshot
  <2> QED BY <1>2, <2>1, <2>2 DEF Types, FlushWrite, store, ghosts, grants, Held
<1>3. CASE FlushCleanup(t)
  <2>1. flush' \in [Tasks -> FlushRec] BY <1>3 DEF Types, FlushCleanup, To, FlushRec
  <2> QED BY <1>3, <2>1 DEF Types, FlushCleanup, ghosts, grants, Held
<1> QED BY <1>1, <1>2, <1>3 DEF Flush

\* The fallback saver keeps the variables well typed.
LEMMA SaverTypes == ASSUME Types, NEW k \in Cells, SaverSnapshot(k) \/ SaverWrite(k) \/ SaverUnregister(k)
                    PROVE  Types'
<1>1. CASE SaverSnapshot(k)
  <2>1. saver' \in [Cells -> SaverRec]
    BY <1>1, SnapType, ConstantTypes DEF Types, SaverSnapshot, SaverRec
  <2>2. cell' \in [Cells -> CellRec] BY ZenonT(30), <1>1 DEF Types, SaverSnapshot, TakeSnapshot, CellRec
  <2> QED BY <1>1, <2>1, <2>2 DEF Types, SaverSnapshot, TakeSnapshot, ghosts, grants, Held
<1>2. CASE SaverWrite(k)
  <2>1. saver' \in [Cells -> SaverRec] BY <1>2, ConstantTypes DEF Types, SaverWrite, SaverRec
  <2>2. disk' \in Snapshot /\ failed' \in Nat
    BY <1>2 DEF Types, SaverWrite, Save, SaverRec, Snapshot
  <2> QED BY <1>2, <2>1, <2>2 DEF Types, SaverWrite, store, ghosts, grants, Held
<1>3. CASE SaverUnregister(k)
  <2>1. saver' \in [Cells -> SaverRec] BY ZenonT(120), <1>3 DEF Types, SaverUnregister, SaverRec
  <2>2. cell' \in [Cells -> CellRec] BY <1>3, ConstantTypes DEF Types, SaverUnregister
  <2> QED BY <1>3, <2>1, <2>2 DEF Types, SaverUnregister, ghosts, grants, Held
<1> QED BY <1>1, <1>2, <1>3

\* A crash keeps the variables well typed.
LEMMA CrashTypes == ASSUME Types, Crash PROVE Types'
<1>1. disk' \in Snapshot BY DEF Types, Crash, FlushRec, SaverRec
<1>2. cell' \in [Cells -> CellRec] /\ flush' \in [Tasks -> FlushRec] /\ saver' \in [Cells -> SaverRec]
  BY ConstantTypes DEF Crash, FlushRec, SaverRec
<1>3. req' \in [Reqs -> ReqRec] /\ \A r \in Reqs : req'[r].pc # "held"
  <2> SUFFICES ASSUME NEW r \in Reqs PROVE req'[r] \in ReqRec /\ req'[r].pc # "held"
    BY DEF Crash
  <2>1. CASE req[r].pc \in {"held", "locate"} BY <2>1, ConstantTypes DEF Crash, Ended
  <2>2. CASE req[r].pc = "grant"
    <3>1. req'[r] = [req[r] EXCEPT !.pc = "late"] BY <2>2 DEF Crash
    <3> QED BY <3>1 DEF Types, ReqRec
  <2>3. CASE req[r].pc \notin {"held", "locate", "grant"} BY <2>3 DEF Crash, Types
  <2> QED BY <2>1, <2>2, <2>3
<1>4. atRisk' \subseteq MailIds BY DEF Types, Crash, Forgotten
<1>5. Held' BY <1>3 DEF Held
<1>6. proc' = "up" /\ UNCHANGED <<cells, version, nextId, claims, granted, confirmed, failed>>
  BY DEF Crash, grants
<1>7. resident' \in 0..cells' /\ registered' \in BOOLEAN
  <2>1. resident' = NoCell /\ registered' = FALSE BY DEF Crash
  <2>2. resident' \in 0..cells' BY <2>1, <1>6 DEF Types
  <2> QED BY <2>1, <2>2, Zenon
<1> QED BY <1>1, <1>2, <1>3, <1>4, <1>5, <1>6, <1>7 DEF Types

\* Every step keeps the variables well typed.
LEMMA TypesNext == ASSUME Types, [Next]_vars PROVE Types'
<1>1. ASSUME NEW r \in Reqs, Receive(r) \/ Handle(r) PROVE Types' BY <1>1, ReceiveTypes, HandleTypes
<1>2. ASSUME NEW m \in MailIds, Expire(m) PROVE Types'
  BY <1>2 DEF Types, Expire, store, ghosts, grants, Held
<1>3. CASE FlushCollect
  <2>1. flush' \in [Tasks -> FlushRec] BY <1>3 DEF Types, FlushCollect, To, FlushRec
  <2> QED BY <1>3, <2>1 DEF Types, FlushCollect, store, ghosts, grants, Held
<1>4. ASSUME NEW t \in Tasks, Flush(t) PROVE Types' BY <1>4, FlushTypes
<1>5. CASE BeginShutdown BY <1>5 DEF Types, BeginShutdown, store, ghosts, grants, Held
<1>6. CASE FinalFlush
  <2>1. flush' \in [Tasks -> FlushRec] BY ZenonT(60), <1>6 DEF Types, FinalFlush, To, FlushRec
  <2> QED BY <1>6, <2>1 DEF Types, FinalFlush, store, ghosts, grants, Held
<1>7. CASE Evict
  <2>1. saver' \in [Cells -> SaverRec] BY <1>7 DEF Types, Evict, SaverRec
  <2> QED BY <1>7, <2>1 DEF Types, Evict, Held, Forgotten, grants
<1>8. ASSUME NEW k \in Cells, SaverSnapshot(k) \/ SaverWrite(k) \/ SaverUnregister(k) PROVE Types'
  BY <1>8, SaverTypes
<1>9. CASE Crash BY <1>9, CrashTypes
<1>10. CASE UNCHANGED vars BY <1>10 DEF Types, vars, store, ghosts, grants, Held
<1> QED BY <1>1, <1>2, <1>3, <1>4, <1>5, <1>6, <1>7, <1>8, <1>9, <1>10 DEF Next

-----------------------------------------------------------------------------
(* The order of versions and saves *)

\* A step that leaves alone what Versions is about.
LEMMA VersionsSame == ASSUME Versions, UNCHANGED <<cell, cells, resident, disk, version, flush, saver, proc, claims, atRisk>>
                      PROVE  Versions'
BY DEF Versions, Ceiling, OneFlush, Dropped, Orderly, Forward, Writing

\* A change of the cached player makes the newest version.
LEMMA VersionsUpdate == ASSUME Types, Versions, NEW mails \in Data, NewMails(mails),
                               UNCHANGED <<disk, flush, saver, proc, atRisk>>
                        PROVE  Versions'
<1>1. resident \in Cells /\ version' = version + 1 /\ UNCHANGED <<cells, resident>>
      /\ cell' = [cell EXCEPT ![resident] = [mails |-> mails, version |-> version + 1, dirty |-> TRUE]]
  BY DEF Types, NewMails, Update
<1>2. Ceiling'
  <2>1. disk.version \in Nat /\ (\A t \in Tasks : flush[t].snap.version \in Nat)
        /\ \A k \in Cells : cell[k].version \in Nat /\ saver[k].snap.version \in Nat
    BY DEF Types, Snapshot, FlushRec, SaverRec, CellRec
  <2>2. \A m \in MailIds : claims[m] \in Nat /\ claims[m] <= version /\ claims'[m] \in {claims[m], version + 1}
    BY DEF Types, NewMails, Versions, Ceiling
  <2>3. cell'[resident'].version = version' /\ \A k \in Cells : k # resident => cell'[k] = cell[k] BY <1>1 DEF Types
  <2>4. version \in Nat BY DEF Types
  <2>5. disk'.version <= version' /\ (\A t \in Tasks : flush'[t].snap.version <= version')
    BY <1>1, <2>1, <2>4 DEF Versions, Ceiling
  <2>6. \A k \in Cells : cell'[k].version <= version' /\ saver'[k].snap.version <= version'
    BY <1>1, <2>1, <2>3, <2>4 DEF Versions, Ceiling
  <2>7. \A m \in MailIds : claims'[m] <= version' BY <1>1, <2>2, <2>4
  <2> QED BY <2>3, <2>5, <2>6, <2>7 DEF Ceiling
<1>3. Dropped'
  <2>1. \A k \in Cells : k # resident => cell'[k] = cell[k] BY <1>1 DEF Types
  <2> QED BY <1>1, <2>1 DEF Versions, Dropped, Orderly
<1>4. OneFlush' /\ Forward' BY DEF Versions, OneFlush, Forward, Orderly, Writing
<1> QED BY <1>2, <1>3, <1>4 DEF Versions

\* Receiving a request: a loaded player is clean.
LEMMA ReceiveVersions == ASSUME Types, Versions, NEW r \in Reqs, Receive(r) PROVE Versions'
<1>1. ASSUME NEW ids \in SUBSET MailIds, NEW kind \in Kinds(ids), GetCached(r, kind, ids) PROVE Versions'
  BY <1>1, VersionsSame DEF GetCached, store, ghosts
<1>2. ASSUME NEW ids \in SUBSET MailIds, NEW kind \in Kinds(ids), Load(r, kind, ids) PROVE Versions'
  <2>1. cells + 1 \in Cells /\ cells' = cells + 1 /\ resident' = cells + 1 /\ ~cell'[resident'].dirty
        /\ \A k \in Cells : k <= cells => cell'[k] = cell[k]
    BY <1>2 DEF Types, Load, Loaded
  <2>2. UNCHANGED <<disk, version, flush, saver, proc, claims, atRisk>> BY <1>2 DEF Load, ghosts
  <2>3. Ceiling'
    <3>1. \A k \in Cells : cell'[k].version \in {cell[k].version, disk.version} BY <1>2 DEF Types, Load, Loaded
    <3> QED BY <2>1, <2>2, <3>1 DEF Versions, Ceiling
  <2>4. Dropped' BY <2>1, <2>2 DEF Types, Versions, Dropped, Orderly
  <2> QED BY <2>2, <2>3, <2>4 DEF Versions, OneFlush, Forward, Orderly, Writing
<1>3. CASE LoadFails(r) BY <1>3, VersionsSame DEF LoadFails, store, ghosts
<1> QED BY <1>1, <1>2, <1>3 DEF Receive

\* A step of a request.
LEMMA HandleVersions == ASSUME Types, Versions, NEW r \in Reqs, Handle(r) PROVE Versions'
<1>1. CASE Keeps BY <1>1, HandleEffect, VersionsSame DEF Keeps, store
<1> QED BY <1>1, HandleEffect, VersionsUpdate

\* A flush takes the newest version of the player, ...
LEMMA FlushSnapshotVersions == ASSUME Types, Versions, NEW t \in Tasks, FlushSnapshot(t) PROVE Versions'
<1>0. UNCHANGED <<cells, resident, disk, version, saver, proc, claims, atRisk>>
  BY DEF FlushSnapshot, TakeSnapshot, store, ghosts
<1>1. CASE resident # NoCell /\ cell[resident].dirty
  <2>1. resident \in Cells /\ Snap(resident).version = version
    BY <1>1, SnapType DEF Types, Versions, Ceiling
  <2>2. flush' = [flush EXCEPT ![t] = [pc |-> "write", snap |-> Snap(resident)]]
        /\ cell' = [cell EXCEPT ![resident].dirty = FALSE]
    BY <1>1 DEF FlushSnapshot, TakeSnapshot
  <2>3. \A u \in Tasks : flush'[u] = IF u = t THEN [pc |-> "write", snap |-> Snap(resident)] ELSE flush[u]
    BY <2>2 DEF Types
  <2>4. ~cell'[resident].dirty /\ \A k \in Cells : k # resident => cell'[k] = cell[k] BY <2>1, <2>2 DEF Types, CellRec
  <2>5. Ceiling'
    <3>1. \A k \in Cells : cell'[k].version = cell[k].version BY <2>1, <2>2 DEF Types, CellRec
    <3>2. version \in Nat BY DEF Types
    <3> QED BY <1>0, <2>1, <2>3, <2>4, <3>1, <3>2 DEF Versions, Ceiling
  <2>6. Dropped' BY <1>0, <2>4 DEF Versions, Dropped, Orderly
  <2>7. Forward' BY <1>0, <2>1, <2>3 DEF Versions, Forward, Orderly, Writing, Ceiling
  <2>8. OneFlush' BY <1>0, <2>3 DEF Versions, OneFlush, Tasks, FlushSnapshot
  <2> QED BY <2>5, <2>6, <2>7, <2>8 DEF Versions
<1>2. CASE ~(resident # NoCell /\ cell[resident].dirty)
  <2>1. flush' = [flush EXCEPT ![t].pc = "cleanup"] /\ cell' = cell BY <1>2 DEF FlushSnapshot, To, store
  <2>2. \A u \in Tasks : /\ flush'[u].snap = flush[u].snap
                         /\ flush'[u].pc = IF u = t THEN "cleanup" ELSE flush[u].pc
    BY <2>1 DEF Types, FlushRec
  <2>3. OneFlush' BY <1>0, <2>2 DEF Versions, OneFlush, Tasks, FlushSnapshot
  <2>4. Ceiling' /\ Forward' BY <1>0, <2>1, <2>2 DEF Versions, Ceiling, Forward, Orderly, Writing
  <2> QED BY <1>0, <2>1, <2>3, <2>4 DEF Versions, Dropped, Orderly
<1> QED BY <1>1, <1>2

\* ... and while it writes no other flush has one to write.
LEMMA FlushWriteVersions == ASSUME Types, Versions, NEW t \in Tasks, FlushWrite(t) PROVE Versions'
<1>1. UNCHANGED <<cell, cells, resident, version, saver, proc, claims, atRisk>> /\ flush[t].pc = "write"
      /\ disk' \in {disk, flush[t].snap}
  BY DEF FlushWrite, Save, store, ghosts
<1>2. \A u \in Tasks : flush'[u] = IF u = t THEN [pc |-> "cleanup", snap |-> NoSnap] ELSE flush[u]
  BY DEF Types, FlushWrite
<1>3. Ceiling'
  <2>1. version \in Nat /\ NoSnap.version = 0 BY DEF Types, NoSnap
  <2>2. disk'.version <= version' /\ \A u \in Tasks : flush'[u].snap.version <= version'
    BY <1>1, <1>2, <2>1 DEF Versions, Ceiling
  <2> QED BY <1>1, <2>2 DEF Versions, Ceiling
<1>4. OneFlush' BY <1>1, <1>2 DEF Versions, OneFlush, Tasks
<1>5. Forward'
  <2>1. \A u \in Tasks : u # t => flush[u].pc # "write" BY <1>1 DEF Versions, OneFlush, Tasks
  <2> QED BY <1>2, <2>1 DEF Forward, Writing
<1> QED BY <1>1, <1>3, <1>4, <1>5 DEF Versions, Dropped, Orderly

\* Steps that only move a flush on, or end it.
LEMMA FlushMoves == ASSUME Types, Versions, NEW t \in Tasks, NEW p \in {"idle", "snapshot"}, To(t, p), OneFlush',
                           UNCHANGED <<cell, cells, resident, disk, version, saver, claims, atRisk>>
                    PROVE  Versions'
<1>1. \A u \in Tasks : flush'[u].snap = flush[u].snap /\ (Writing(u)' => Writing(u))
  BY DEF Types, To, FlushRec, Writing
<1> QED BY <1>1 DEF Versions, Ceiling, Forward, Orderly, Dropped

\* Collecting the dirty set, its clean-up and the final flush.
LEMMA FlushPhaseVersions == ASSUME Types, Versions, FlushCollect \/ FinalFlush \/ (\E t \in Tasks : FlushCleanup(t))
                            PROVE  Versions'
<1>1. CASE FlushCollect
  <2>1. OneFlush' BY <1>1 DEF FlushCollect, To, Types, FlushRec, Versions, OneFlush, Tasks
  <2> QED BY <1>1, <2>1, FlushMoves DEF FlushCollect, store, ghosts, Tasks
<1>2. CASE FinalFlush /\ registered
  <2>1. OneFlush' BY <1>2 DEF FinalFlush, SaveTaskEnded, To, Types, FlushRec, Versions, OneFlush, Tasks
  <2> QED BY <1>2, <2>1, FlushMoves DEF FinalFlush, store, ghosts, Tasks
<1>3. CASE FinalFlush /\ ~registered
  <2>1. UNCHANGED <<cell, cells, resident, disk, version, flush, saver, claims, atRisk>> /\ flush["final"].pc = "idle"
    BY <1>3 DEF FinalFlush, store, ghosts
  <2> QED BY <2>1 DEF Versions, Ceiling, OneFlush, Dropped, Orderly, Forward, Writing
<1>4. ASSUME NEW t \in Tasks, FlushCleanup(t) PROVE Versions'
  <2>1. OneFlush' BY <1>4 DEF FlushCleanup, To, Types, FlushRec, Versions, OneFlush, Tasks
  <2> QED BY <1>4, <2>1, FlushMoves DEF FlushCleanup, ghosts
<1> QED BY <1>1, <1>2, <1>3, <1>4

\* The cache drops a player: a clean one, unless every mail is at risk from then on.
LEMMA EvictVersions == ASSUME Types, Versions, Evict PROVE Versions'
<1>1. UNCHANGED <<cell, cells, disk, version, flush, proc, claims>> /\ resident' = NoCell /\ resident \in Cells
      /\ resident <= cells
  BY DEF Evict, Types
<1>2. \A k \in Cells : /\ saver'[k].pc = IF k = resident THEN "snapshot" ELSE saver[k].pc
                       /\ saver'[k].snap = saver[k].snap
  BY <1>1 DEF Evict, Types, SaverRec
<1>3. Orderly' => Orderly /\ ~cell[resident].dirty BY DEF Orderly, Evict, Types, Forgotten
<1>4. Ceiling' BY <1>1, <1>2 DEF Versions, Ceiling
<1>5. Dropped' BY <1>1, <1>2, <1>3 DEF Versions, Dropped, Evict
<1> QED BY <1>1, <1>3, <1>4, <1>5 DEF Versions, OneFlush, Forward, Writing

\* The fallback saver.
LEMMA SaverVersions == ASSUME Types, Versions, NEW k \in Cells, SaverSnapshot(k) \/ SaverWrite(k) \/ SaverUnregister(k)
                       PROVE  Versions'
<1>1. UNCHANGED <<cells, resident, version, flush, proc, claims, atRisk>> /\ k # resident /\ saver[k].pc # "idle"
  BY DEF SaverSnapshot, SaverWrite, SaverUnregister, TakeSnapshot, Versions, Dropped, store, ghosts
<1>2. \A j \in Cells : j # k => cell'[j] = cell[j] /\ saver'[j] = saver[j]
  BY DEF Types, SaverSnapshot, SaverWrite, SaverUnregister, TakeSnapshot, store
<1>3. /\ cell'[k].dirty => cell[k].dirty
      /\ cell'[k].version \in {cell[k].version, 0}
      /\ saver'[k].snap.version \in {saver[k].snap.version, cell[k].version, 0}
      /\ saver'[k].pc = "write" => cell[k].dirty
  <2>1. CASE SaverSnapshot(k)
    BY <2>1 DEF Types, CellRec, SaverRec, SaverSnapshot, TakeSnapshot, Snap, NoSnap
  <2>2. CASE SaverWrite(k) BY <2>2 DEF Types, CellRec, SaverRec, SaverWrite, store, NoSnap
  <2>3. CASE SaverUnregister(k) BY <2>3 DEF Types, CellRec, SaverRec, SaverUnregister, Unused
  <2> QED BY <2>1, <2>2, <2>3
<1>4. disk' = disk \/ (~Orderly /\ disk' \in {disk, saver[k].snap})
  <2>1. SaverWrite(k) => ~Orderly BY DEF SaverWrite, Versions, Dropped
  <2> QED BY <2>1 DEF SaverSnapshot, SaverWrite, SaverUnregister, Save
<1>5. Ceiling'
  <2>1. version \in Nat BY DEF Types
  <2>2. \A j \in Cells : cell'[j].version <= version /\ saver'[j].snap.version <= version
    BY <1>2, <1>3, <2>1 DEF Versions, Ceiling
  <2>3. disk'.version <= version BY <1>4 DEF Versions, Ceiling
  <2>4. resident # NoCell => cell'[resident] = cell[resident] BY <1>1, <1>2 DEF Types
  <2> QED BY <1>1, <2>2, <2>3, <2>4 DEF Versions, Ceiling
<1>6. Dropped' BY <1>1, <1>2, <1>3 DEF Versions, Dropped, Orderly
<1>7. Forward' BY <1>1, <1>4 DEF Versions, Forward, Orderly, Writing
<1> QED BY <1>1, <1>5, <1>6, <1>7 DEF Versions, OneFlush

\* After a crash nothing is under way.
LEMMA CrashVersions == ASSUME Types, Versions, Crash PROVE Versions'
<1>1. /\ resident' = NoCell /\ UNCHANGED <<cells, version, claims>>
      /\ cell' = [k \in Cells |-> Unused]
      /\ flush' = [t \in Tasks |-> [pc |-> "idle", snap |-> NoSnap]]
      /\ saver' = [k \in Cells |-> [pc |-> "idle", snap |-> NoSnap]]
  BY DEF Crash
<1>2. disk'.version <= version
  BY DEF Crash, Versions, Ceiling
<1>3. version \in Nat /\ Unused.version = 0 /\ NoSnap.version = 0 BY DEF Types, Unused, NoSnap
<1>4. Ceiling' BY <1>1, <1>2, <1>3 DEF Versions, Ceiling
<1>5. Dropped' /\ Forward' /\ OneFlush' BY <1>1 DEF Dropped, Forward, OneFlush, Writing, Tasks
<1> QED BY <1>4, <1>5 DEF Versions

\* Every step keeps the order of versions and saves.
LEMMA VersionsNext == ASSUME Types, Versions, [Next]_vars PROVE Versions'
<1>1. ASSUME NEW r \in Reqs, Receive(r) \/ Handle(r) PROVE Versions' BY <1>1, ReceiveVersions, HandleVersions
<1>2. ASSUME NEW m \in MailIds, Expire(m) PROVE Versions' BY <1>2, VersionsSame DEF Expire, store, ghosts
<1>3. ASSUME NEW t \in Tasks, Flush(t) PROVE Versions'
  BY <1>3, FlushSnapshotVersions, FlushWriteVersions, FlushPhaseVersions DEF Flush
<1>4. CASE FlushCollect \/ FinalFlush BY <1>4, FlushPhaseVersions
<1>5. CASE BeginShutdown
  <2>1. UNCHANGED <<cell, cells, resident, disk, version, flush, saver, claims, atRisk>> /\ proc = "up"
    BY <1>5 DEF BeginShutdown, store, ghosts
  <2> QED BY <2>1 DEF Versions, Ceiling, OneFlush, Dropped, Orderly, Forward, Writing
<1>6. CASE Evict BY <1>6, EvictVersions
<1>7. ASSUME NEW k \in Cells, SaverSnapshot(k) \/ SaverWrite(k) \/ SaverUnregister(k) PROVE Versions'
  BY <1>7, SaverVersions
<1>8. CASE Crash BY <1>8, CrashVersions
<1>9. CASE UNCHANGED vars BY <1>9, VersionsSame DEF vars, store, ghosts
<1> QED BY <1>1, <1>2, <1>3, <1>4, <1>5, <1>6, <1>7, <1>8, <1>9 DEF Next

-----------------------------------------------------------------------------
(* The dirty set and the final flush, when the cache drops no player *)

\* Then the fallback saver never runs.
LEMMA NoSaver == ASSUME ~Evicts, Types, Versions, NEW k \in Cells PROVE saver[k].pc = "idle"
BY DEF Versions, Dropped, Orderly

\* Steps that leave the player, the flushes and the document alone.
LEMMA SavesSame == ASSUME Saves, UNCHANGED <<cell, resident, registered, disk, flush, failed>>,
                          Final'
                   PROVE  Saves'
BY DEF Saves, DirtyRegistered, Settled, Writing, Snap

\* Receiving a request: a loaded player is what Mongo holds.
LEMMA ReceiveSaves == ASSUME Types, Saves, NEW r \in Reqs, Receive(r) PROVE Saves'
<1>1. ASSUME NEW ids \in SUBSET MailIds, NEW kind \in Kinds(ids), GetCached(r, kind, ids) PROVE Saves'
  <2>1. Final' BY <1>1 DEF GetCached, store, Saves, Final
  <2> QED BY <1>1, <2>1, SavesSame DEF GetCached, store
<1>2. ASSUME NEW ids \in SUBSET MailIds, NEW kind \in Kinds(ids), Load(r, kind, ids) PROVE Saves'
  <2>1. resident' = cells + 1 /\ cells + 1 \in Cells /\ cell'[resident'] = Loaded /\ resident = NoCell /\ proc = "up"
    BY <1>2 DEF Types, Load
  <2>2. UNCHANGED <<registered, disk, flush, failed, proc>> BY <1>2 DEF Load
  <2>3. ~cell'[resident'].dirty /\ Snap(resident)' = disk BY <2>1 DEF Loaded, Snap, Types, Snapshot
  <2>4. \A t \in Tasks : ~Writing(t) BY <2>1 DEF Saves
  <2>5. Settled' BY <2>2, <2>3, <2>4 DEF Settled, Writing
  <2>6. Final' BY <2>1, <2>2, <2>3 DEF Saves, Final
  <2> QED BY <2>2, <2>3, <2>4, <2>5, <2>6 DEF Saves, DirtyRegistered, Writing
<1>3. CASE LoadFails(r)
  <2>1. Final' BY <1>3 DEF LoadFails, store, Saves, Final, Types, Ended
  <2> QED BY <1>3, <2>1, SavesSame DEF LoadFails, store
<1> QED BY <1>1, <1>2, <1>3 DEF Receive

\* A step of a request: a change is registered, and none happens once the shutdown began.
LEMMA HandleSaves == ASSUME Types, Versions, Saves, NEW r \in Reqs, Handle(r) PROVE Saves'
<1>0. UNCHANGED <<disk, flush, saver, proc, atRisk, failed>> BY HandleEffect
<1>1. \A q \in Reqs : req'[q].pc = "held" => req[q].pc = "held" BY HandleRequests
<1>2. CASE Keeps
  <2>1. Final' BY <1>0, <1>1, <1>2 DEF Keeps, store, Saves, Final
  <2> QED BY <1>0, <1>2, <2>1, SavesSame DEF Keeps, store
<1>3. ASSUME req[r].pc = "held", NEW mails \in Data, NewMails(mails) PROVE Saves'
  <2>1. cell'[resident'].dirty /\ registered' /\ resident' # NoCell BY <1>3 DEF NewMails, Update, Types
  <2>2. proc = "up" /\ flush["final"].pc = "idle" BY <1>3 DEF Saves, Final, Types, Versions, OneFlush
  <2>3. Final' BY <1>0, <1>1, <2>2 DEF Saves, Final
  <2> QED BY <1>0, <2>1, <2>3 DEF Saves, DirtyRegistered, Settled, Writing
<1> QED BY <1>2, <1>3, HandleEffect

\* A flush takes up a dirty player, ...
LEMMA FlushSnapshotSaves == ASSUME Types, Versions, Saves, NEW t \in Tasks, FlushSnapshot(t) PROVE Saves'
<1>0. UNCHANGED <<resident, disk, proc, req, failed, registered>> /\ flush[t].pc = "snapshot"
  BY DEF FlushSnapshot, TakeSnapshot, store
<1>1. \A u \in Tasks : u # t => flush[u].pc = "idle" BY <1>0 DEF Versions, OneFlush, Tasks
<1>2. CASE resident # NoCell /\ cell[resident].dirty
  <2>1. \A u \in Tasks : flush'[u] = IF u = t THEN [pc |-> "write", snap |-> Snap(resident)] ELSE flush[u]
    BY <1>2 DEF Types, FlushSnapshot
  <2>2. resident \in Cells /\ cell'[resident].dirty = FALSE /\ Snap(resident)' = Snap(resident)
    <3>1. resident \in Cells /\ cell[resident] \in CellRec BY <1>2 DEF Types
    <3>2. cell'[resident] = [cell[resident] EXCEPT !.dirty = FALSE]
      BY <1>2, <3>1 DEF Types, FlushSnapshot, TakeSnapshot
    <3>3. cell'[resident].dirty = FALSE BY <3>1, <3>2 DEF CellRec
    <3>4. cell'[resident].mails = cell[resident].mails /\ cell'[resident].version = cell[resident].version
      BY <3>1, <3>2 DEF CellRec
    <3> QED BY <1>0, <3>1, <3>3, <3>4 DEF Snap
  <2>3. Settled' BY <1>0, <1>1, <2>1, <2>2 DEF Settled, Writing
  <2>4. Final' BY <1>0, <1>1, <2>1, <2>2 DEF Saves, Final
  <2> QED BY <1>0, <1>2, <2>2, <2>3, <2>4 DEF Saves, DirtyRegistered
<1>3. CASE ~(resident # NoCell /\ cell[resident].dirty)
  <2>1. cell' = cell /\ \A u \in Tasks : flush'[u].pc = IF u = t THEN "cleanup" ELSE flush[u].pc
    BY <1>3 DEF Types, FlushRec, FlushSnapshot, To, store
  <2>2. \A u \in Tasks : ~Writing(u) /\ ~Writing(u)' BY <1>0, <1>1, <2>1 DEF Writing
  <2>3. Settled' BY <1>0, <2>1, <2>2 DEF Saves, Settled, Snap
  <2>4. Final' BY <1>0, <1>1, <1>3, <2>1 DEF Saves, Final
  <2> QED BY <1>0, <2>1, <2>2, <2>3, <2>4 DEF Saves, DirtyRegistered
<1> QED BY <1>2, <1>3

\* ... writes it ...
LEMMA FlushWriteSaves == ASSUME Types, Versions, Saves, NEW t \in Tasks, FlushWrite(t) PROVE Saves'
<1>0. UNCHANGED <<cell, resident, registered, proc, req>> /\ Writing(t) /\ Save(flush[t].snap)
  BY DEF FlushWrite, store, Writing
<1>1. \A u \in Tasks : u # t => flush[u].pc = "idle" BY <1>0 DEF Versions, OneFlush, Tasks, Writing
<1>2. \A u \in Tasks : flush'[u].pc = IF u = t THEN "cleanup" ELSE flush[u].pc BY DEF Types, FlushWrite
<1>3. \A u \in Tasks : ~Writing(u)' BY <1>1, <1>2 DEF Writing
<1>4. Settled'
  <2> SUFFICES ASSUME resident # NoCell, ~cell[resident].dirty
               PROVE  (disk = Snap(resident) \/ failed = cell[resident].version)'
    BY <1>0, <1>3 DEF Settled
  <2>1. flush[t].snap = Snap(resident) BY <1>0 DEF Saves, Settled
  <2>2. Snap(resident).version = cell[resident].version BY SnapType DEF Types
  <2> QED BY <1>0, <2>1, <2>2 DEF Save, Snap
<1>5. Final' BY <1>0, <1>1, <1>2 DEF Saves, Final, Writing, Tasks
<1> QED BY <1>0, <1>3, <1>4, <1>5 DEF Saves, DirtyRegistered

\* ... and takes the gid out of the dirty set if it is still clean.
LEMMA FlushCleanupSaves == ASSUME Types, Versions, Saves, NEW t \in Tasks, FlushCleanup(t) PROVE Saves'
<1>0. UNCHANGED <<cell, resident, disk, req, failed>> /\ flush[t].pc = "cleanup"
  BY DEF FlushCleanup
<1>1. \A u \in Tasks : u # t => flush[u].pc = "idle" BY <1>0 DEF Versions, OneFlush, Tasks
<1>2. \A u \in Tasks : flush'[u].pc = "idle" BY <1>1 DEF Types, FlushRec, FlushCleanup, To
<1>3. \A u \in Tasks : ~Writing(u) /\ ~Writing(u)' BY <1>0, <1>1, <1>2 DEF Writing
<1>4. Settled' BY <1>0, <1>3 DEF Saves, Settled, Snap
<1>5. Final'
  <2>1. CASE t = "final"
    <3>1. proc' = "stopped" /\ proc = "stopping" BY <1>0, <2>1 DEF FlushCleanup, Versions, OneFlush
    <3>2. resident = NoCell \/ ~cell[resident].dirty BY <1>0, <2>1 DEF Saves, Final
    <3> QED BY <1>0, <1>2, <3>1, <3>2 DEF Saves, Final
  <2>2. CASE t # "final"
    <3>1. proc' = proc BY <2>2 DEF FlushCleanup
    <3> QED BY <1>0, <1>2, <2>2, <3>1 DEF Saves, Final, Tasks
  <2> QED BY <2>1, <2>2
<1>6. DirtyRegistered' BY <1>0 DEF Saves, DirtyRegistered, FlushCleanup, RemovesRegistration
<1> QED BY <1>3, <1>4, <1>5, <1>6 DEF Saves

\* The other steps of the two flushes and of the shutdown.
LEMMA ShutdownStepSaves == ASSUME Types, Versions, Saves, FlushCollect \/ BeginShutdown \/ FinalFlush PROVE Saves'
<1>0. UNCHANGED <<cell, resident, registered, disk, req, failed>>
  BY DEF FlushCollect, BeginShutdown, FinalFlush, store
<1>1. CASE FlushCollect
  <2>1. \A u \in Tasks : flush'[u].pc = IF u = "periodic" THEN "snapshot" ELSE flush[u].pc
    BY <1>1 DEF Types, FlushRec, FlushCollect, To
  <2>2. \A u \in Tasks : (Writing(u)' <=> Writing(u)) /\ (Writing(u) => flush'[u] = flush[u])
    BY <1>1, <2>1 DEF Types, FlushRec, FlushCollect, To, Writing, Tasks
  <2>3. Settled' BY <1>0, <2>2 DEF Saves, Settled, Snap
  <2>4. Final' BY <1>0, <1>1, <2>1 DEF Saves, Final, FlushCollect, Tasks
  <2> QED BY <1>0, <2>2, <2>3, <2>4 DEF Saves, DirtyRegistered
<1>2. CASE BeginShutdown
  <2>1. flush' = flush /\ proc' = "stopping" /\ \A r \in Reqs : req[r].pc # "held" BY <1>2 DEF BeginShutdown
  <2>2. Final' BY <1>0, <2>1 DEF Saves, Final
  <2> QED BY <1>0, <2>1, <2>2, SavesSame
<1>3. CASE FinalFlush /\ registered
  <2>1. \A u \in Tasks : ~Writing(u) BY <1>3 DEF FinalFlush, SaveTaskEnded, Writing, Tasks
  <2>2. flush'["final"].pc = "snapshot" /\ flush'["periodic"].pc = "idle" /\ proc' = "stopping"
    BY ZenonT(60), <1>3 DEF FinalFlush, SaveTaskEnded, To, Types, FlushRec, Tasks
  <2>3. \A u \in Tasks : ~Writing(u)' BY <2>2 DEF Writing, Tasks
  <2>4. Settled' BY <1>0, <2>1, <2>3 DEF Saves, Settled, Snap
  <2>5. Final' BY <1>0, <1>3, <2>2 DEF Saves, Final, FinalFlush
  <2> QED BY <1>0, <2>3, <2>4, <2>5 DEF Saves, DirtyRegistered
<1>4. CASE FinalFlush /\ ~registered
  <2>1. flush' = flush /\ proc' = "stopped" /\ \A u \in Tasks : flush[u].pc = "idle"
    BY <1>4 DEF FinalFlush, SaveTaskEnded, Tasks
  <2>2. resident = NoCell \/ ~cell[resident].dirty BY <1>4 DEF Saves, DirtyRegistered
  <2>3. proc = "stopping" BY <1>4 DEF FinalFlush
  <2>4. Final' BY <1>0, <2>1, <2>2, <2>3 DEF Saves, Final
  <2> QED BY <1>0, <2>1, <2>4, SavesSame
<1> QED BY <1>1, <1>2, <1>3, <1>4

\* Every step keeps the dirty set and the saves right.
LEMMA SavesNext == ASSUME ~Evicts, Types, Versions, Saves, [Next]_vars PROVE Saves'
<1>1. ASSUME NEW r \in Reqs, Receive(r) \/ Handle(r) PROVE Saves' BY <1>1, ReceiveSaves, HandleSaves
<1>2. ASSUME NEW m \in MailIds, Expire(m) PROVE Saves'
  BY <1>2, SavesSame DEF Expire, store, Saves, Final
<1>3. ASSUME NEW t \in Tasks, Flush(t) PROVE Saves'
  BY <1>3, FlushSnapshotSaves, FlushWriteSaves, FlushCleanupSaves DEF Flush
<1>4. CASE FlushCollect \/ BeginShutdown \/ FinalFlush BY <1>4, ShutdownStepSaves
<1>5. ASSUME NEW k \in Cells, SaverSnapshot(k) \/ SaverWrite(k) \/ SaverUnregister(k) PROVE FALSE
  BY <1>5, NoSaver DEF SaverSnapshot, SaverWrite, SaverUnregister
<1>6. CASE Crash
  <2>1. resident' = NoCell /\ proc' = "up" /\ \A t \in Tasks : flush'[t].pc = "idle" BY <1>6 DEF Crash
  <2> QED BY <2>1 DEF Saves, DirtyRegistered, Settled, Final, Writing, Tasks
<1>7. CASE UNCHANGED vars BY <1>7, SavesSame DEF vars, store, Saves, Final
<1> QED BY <1>1, <1>2, <1>3, <1>4, <1>5, <1>6, <1>7 DEF Next, Evict

-----------------------------------------------------------------------------
(* Claims *)

\* To changes no snapshot.
LEMMA MovedFlush == ASSUME Types, NEW t \in Tasks, NEW p, To(t, p)
                    PROVE  \A u \in Tasks : flush'[u].snap = flush[u].snap
BY DEF Types, To, FlushRec

\* take_dirty_snapshot changes no mail.
LEMMA TakenCell == ASSUME Types, NEW k \in Cells, TakeSnapshot(k)
                   PROVE  \A j \in Cells : cell'[j].mails = cell[j].mails /\ cell'[j].version = cell[j].version
BY DEF Types, TakeSnapshot, CellRec

\* The mails of the cached player change.
LEMMA FreshIdsUpdate == ASSUME Types, FreshIds, NEW mails \in Data, NewMails(mails), UNCHANGED <<disk, flush, saver>>
                        PROVE  FreshIds'
<1> SUFFICES ASSUME NEW m \in MailIds, m >= nextId'
             PROVE  /\ claims'[m] = 0 /\ disk.mails[m] = "absent"
                    /\ \A k \in Cells : cell'[k].mails[m] = "absent" /\ saver[k].snap.mails[m] = "absent"
                    /\ \A t \in Tasks : flush[t].snap.mails[m] = "absent"
  BY DEF FreshIds
<1>1. m \in Int /\ nextId \in Nat /\ m >= nextId /\ ~(m = nextId /\ nextId' = nextId + 1)
  BY DEF MailIds, Types, NewMails
<1>2. /\ claims[m] = 0 /\ disk.mails[m] = "absent"
      /\ \A k \in Cells : cell[k].mails[m] = "absent" /\ saver[k].snap.mails[m] = "absent"
      /\ \A t \in Tasks : flush[t].snap.mails[m] = "absent"
  BY <1>1 DEF FreshIds
<1>3. resident \in Cells BY DEF NewMails, Types
<1>4. claims'[m] = 0 /\ mails[m] = "absent" BY <1>1, <1>2, <1>3 DEF NewMails, Spent
<1>5. \A k \in Cells : cell'[k].mails = IF k = resident THEN mails ELSE cell[k].mails
  BY <1>3 DEF NewMails, Update, Types
<1> QED BY <1>2, <1>4, <1>5

\* What the steps of flushes, savers and the cache copy.
LEMMA StorageCopies ==
    ASSUME Types, \/ \E t \in Tasks : Flush(t)
                  \/ \E k \in Cells : SaverSnapshot(k) \/ SaverWrite(k) \/ SaverUnregister(k)
                  \/ FlushCollect \/ BeginShutdown \/ FinalFlush \/ Evict \/ Crash
    PROVE  /\ disk'.mails \in {disk.mails} \cup {flush[t].snap.mails : t \in Tasks} \cup {saver[k].snap.mails : k \in Cells}
           /\ \A k \in Cells : cell'[k].mails \in {cell[k].mails, Empty}
           /\ \A k \in Cells : saver'[k].snap.mails \in {saver[k].snap.mails, cell[k].mails, Empty}
           /\ \A t \in Tasks : flush'[t].snap.mails \in {flush[t].snap.mails, Empty} \cup {cell[k].mails : k \in Cells}
           /\ UNCHANGED <<claims, nextId>>
<1> DEFINE Goal == /\ disk'.mails \in {disk.mails} \cup {flush[t].snap.mails : t \in Tasks} \cup {saver[k].snap.mails : k \in Cells}
                   /\ \A k \in Cells : cell'[k].mails \in {cell[k].mails, Empty}
                   /\ \A k \in Cells : saver'[k].snap.mails \in {saver[k].snap.mails, cell[k].mails, Empty}
                   /\ \A t \in Tasks : flush'[t].snap.mails \in {flush[t].snap.mails, Empty} \cup {cell[k].mails : k \in Cells}
                   /\ UNCHANGED <<claims, nextId>>
<1>1. ASSUME NEW t \in Tasks, FlushSnapshot(t) PROVE Goal
  <2>0. UNCHANGED <<disk, saver, claims, nextId>> BY <1>1 DEF FlushSnapshot, ghosts
  <2>1. \A k \in Cells : cell'[k].mails = cell[k].mails
    BY <1>1, TakenCell DEF Types, FlushSnapshot, store
  <2>2. \A u \in Tasks : flush'[u].snap.mails \in {flush[u].snap.mails} \cup {cell[k].mails : k \in Cells}
    <3>1. CASE resident # NoCell /\ cell[resident].dirty
      <4>1. resident \in Cells /\ Snap(resident).mails = cell[resident].mails BY <3>1 DEF Types, Snap
      <4>2. \A u \in Tasks : flush'[u] = IF u = t THEN [pc |-> "write", snap |-> Snap(resident)] ELSE flush[u]
        BY <1>1, <3>1 DEF Types, FlushSnapshot
      <4> QED BY <4>1, <4>2
    <3>2. CASE ~(resident # NoCell /\ cell[resident].dirty) BY <1>1, <3>2, MovedFlush DEF FlushSnapshot
    <3> QED BY <3>1, <3>2
  <2> QED BY <2>0, <2>1, <2>2
<1>2. ASSUME NEW t \in Tasks, FlushWrite(t) PROVE Goal
  <2>0. UNCHANGED <<cell, saver, claims, nextId>> BY <1>2 DEF FlushWrite, ghosts, store
  <2>1. disk' \in {disk, flush[t].snap} BY <1>2 DEF FlushWrite, Save
  <2>2. \A u \in Tasks : flush'[u].snap.mails \in {flush[u].snap.mails, Empty} BY <1>2 DEF FlushWrite, Types, NoSnap
  <2> QED BY <2>0, <2>1, <2>2
<1>3. ASSUME NEW t \in Tasks, FlushCleanup(t) PROVE Goal
  BY <1>3 DEF FlushCleanup, To, Types, FlushRec, ghosts
<1>4. CASE FlushCollect \/ FinalFlush
  <2>0. UNCHANGED <<disk, cell, saver, claims, nextId>> BY <1>4 DEF FlushCollect, FinalFlush, ghosts, store
  <2>1. \A u \in Tasks : flush'[u].snap = flush[u].snap BY <1>4, MovedFlush DEF FlushCollect, FinalFlush, Tasks
  <2> QED BY <2>0, <2>1
<1>5. CASE BeginShutdown BY <1>5 DEF BeginShutdown, ghosts, store
<1>6. CASE Evict
  <2>0. UNCHANGED <<disk, cell, flush, claims, nextId>> BY <1>6 DEF Evict
  <2>1. \A k \in Cells : saver'[k].snap = saver[k].snap BY <1>6 DEF Evict, Types, SaverRec
  <2> QED BY <2>0, <2>1
<1>7. ASSUME NEW k \in Cells, SaverSnapshot(k) PROVE Goal
  <2>0. UNCHANGED <<disk, flush, claims, nextId>> BY <1>7 DEF SaverSnapshot, ghosts
  <2>1. \A j \in Cells : cell'[j].mails = cell[j].mails BY <1>7 DEF Types, CellRec, SaverSnapshot, TakeSnapshot
  <2>2. \A j \in Cells : saver'[j].snap.mails \in {saver[j].snap.mails, cell[j].mails, Empty}
    BY <1>7 DEF SaverSnapshot, Types, SaverRec, Snap, NoSnap
  <2> QED BY <2>0, <2>1, <2>2
<1>8. ASSUME NEW k \in Cells, SaverWrite(k) PROVE Goal
  <2>0. UNCHANGED <<cell, flush, claims, nextId>> BY <1>8 DEF SaverWrite, ghosts, store
  <2>1. disk' \in {disk, saver[k].snap} BY <1>8 DEF SaverWrite, Save
  <2>2. \A j \in Cells : saver'[j].snap.mails \in {saver[j].snap.mails, Empty} BY <1>8 DEF SaverWrite, Types, NoSnap
  <2> QED BY <2>0, <2>1, <2>2
<1>9. ASSUME NEW k \in Cells, SaverUnregister(k) PROVE Goal
  BY <1>9 DEF SaverUnregister, Types, SaverRec, Unused, ghosts
<1>10. CASE Crash
  <2>0. UNCHANGED <<claims, nextId>> /\ disk' \in {disk} \cup {flush[t].snap : t \in Tasks} \cup {saver[k].snap : k \in Cells}
    BY <1>10 DEF Crash
  <2>1. \A k \in Cells : cell'[k].mails = Empty /\ saver'[k].snap.mails = Empty BY <1>10 DEF Crash, Unused, NoSnap
  <2>2. \A t \in Tasks : flush'[t].snap.mails = Empty BY <1>10 DEF Crash, NoSnap
  <2> QED BY <2>0, <2>1, <2>2
<1> QED BY <1>1, <1>2, <1>3, <1>4, <1>5, <1>6, <1>7, <1>8, <1>9, <1>10 DEF Flush

\* Ids that were not handed out stay unused.
LEMMA FreshIdsNext == ASSUME Types, FreshIds, [Next]_vars PROVE FreshIds'
<1>1. ASSUME NEW r \in Reqs, Receive(r) PROVE FreshIds'
  <2>0. UNCHANGED <<disk, flush, saver, claims, nextId>>
    BY <1>1 DEF Receive, GetCached, Load, LoadFails, ghosts
  <2>1. \A k \in Cells : cell'[k].mails \in {cell[k].mails, disk.mails}
    BY <1>1 DEF Types, Receive, GetCached, Load, Loaded, LoadFails, store
  <2> QED BY <2>0, <2>1 DEF FreshIds
<1>2. ASSUME NEW r \in Reqs, Handle(r) PROVE FreshIds'
  <2>1. CASE Keeps BY <1>2, <2>1, HandleEffect DEF Keeps, store, FreshIds
  <2> QED BY <1>2, <2>1, HandleEffect, FreshIdsUpdate
<1>3. ASSUME NEW m \in MailIds, Expire(m) PROVE FreshIds' BY <1>3 DEF Expire, store, ghosts, FreshIds
<1>4. CASE \/ \E t \in Tasks : Flush(t)
           \/ \E k \in Cells : SaverSnapshot(k) \/ SaverWrite(k) \/ SaverUnregister(k)
           \/ FlushCollect \/ BeginShutdown \/ FinalFlush \/ Evict \/ Crash
  <2>1. /\ disk'.mails \in {disk.mails} \cup {flush[t].snap.mails : t \in Tasks} \cup {saver[k].snap.mails : k \in Cells}
        /\ \A k \in Cells : cell'[k].mails \in {cell[k].mails, Empty}
        /\ \A k \in Cells : saver'[k].snap.mails \in {saver[k].snap.mails, cell[k].mails, Empty}
        /\ \A t \in Tasks : flush'[t].snap.mails \in {flush[t].snap.mails, Empty} \cup {cell[k].mails : k \in Cells}
        /\ UNCHANGED <<claims, nextId>>
    BY <1>4, StorageCopies
  <2>2. \A m \in MailIds : Empty[m] = "absent" BY DEF Empty
  <2> SUFFICES ASSUME NEW m \in MailIds, m >= nextId
               PROVE  /\ claims[m] = 0 /\ disk'.mails[m] = "absent"
                      /\ \A k \in Cells : cell'[k].mails[m] = "absent" /\ saver'[k].snap.mails[m] = "absent"
                      /\ \A t \in Tasks : flush'[t].snap.mails[m] = "absent"
    BY <2>1 DEF FreshIds
  <2> QED BY SMTT(30), <2>1, <2>2 DEF FreshIds
<1>5. CASE UNCHANGED vars BY <1>5 DEF vars, store, ghosts, FreshIds
<1> QED BY <1>1, <1>2, <1>3, <1>4, <1>5 DEF Next

\* ClaimsKept for one mail.
ClaimKept(m) ==
    /\ IF resident # NoCell THEN Spent(cell[resident].mails, m) ELSE claims[m] <= disk.version
    /\ claims[m] <= disk.version => Spent(disk.mails, m)
    /\ \A t \in Tasks : Writing(t) /\ claims[m] <= flush[t].snap.version => Spent(flush[t].snap.mails, m)

\* Steps that change neither players nor documents.
LEMMA ClaimsKeptSame == ASSUME ClaimsKept, UNCHANGED <<cell, resident, disk, claims, atRisk>>,
                               \A t \in Tasks : flush'[t].snap = flush[t].snap /\ (Writing(t)' => Writing(t))
                        PROVE  ClaimsKept'
BY DEF ClaimsKept, Spent

\* A change of the cached player keeps the marks of earlier claims and makes new ones.
LEMMA ClaimsKeptUpdate == ASSUME Types, Versions, FreshIds, ClaimsKept, NEW mails \in Data, NewMails(mails),
                                 UNCHANGED <<disk, flush, atRisk>>
                          PROVE  ClaimsKept'
<1> SUFFICES ASSUME NEW m \in MailIds, m \notin atRisk, claims'[m] > 0 PROVE ClaimKept(m)'
  BY DEF ClaimsKept, ClaimKept
<1>1. resident \in Cells /\ resident' = resident /\ cell'[resident].mails = mails
  BY DEF NewMails, Update, Types
<1>2. CASE claims'[m] = claims[m]
  <2>1. ClaimKept(m) BY <1>2 DEF ClaimsKept, ClaimKept
  <2>2. Spent(cell[resident].mails, m) BY <1>1, <2>1 DEF ClaimKept
  <2>3. m # nextId
    <3>1. nextId \in Nat /\ m \in Int BY DEF Types, MailIds
    <3> QED BY <3>1, <1>2 DEF FreshIds
  <2>4. Spent(mails, m) BY <2>2, <2>3 DEF NewMails, Spent
  <2> QED BY <1>1, <1>2, <2>1, <2>4 DEF ClaimKept, Writing
<1>3. CASE claims'[m] = version + 1 /\ mails[m] = "claimed"
  <2>1. version \in Nat /\ disk.version \in Nat /\ \A t \in Tasks : flush[t].snap.version \in Nat
    BY DEF Types, Snapshot, FlushRec
  <2>2. ~(claims'[m] <= disk.version) /\ \A t \in Tasks : ~(claims'[m] <= flush[t].snap.version)
    BY <1>3, <2>1 DEF Versions, Ceiling
  <2> QED BY <1>1, <1>3, <2>2 DEF ClaimKept, Spent
<1> QED BY <1>2, <1>3 DEF NewMails

\* A player is loaded with the marks that the document has.
LEMMA ReceiveClaimsKept == ASSUME Types, ClaimsKept, NEW r \in Reqs, Receive(r) PROVE ClaimsKept'
<1>1. ASSUME NEW ids \in SUBSET MailIds, NEW kind \in Kinds(ids), GetCached(r, kind, ids) PROVE ClaimsKept'
  BY <1>1, ClaimsKeptSame DEF GetCached, store, ghosts, Writing
<1>2. ASSUME NEW ids \in SUBSET MailIds, NEW kind \in Kinds(ids), Load(r, kind, ids) PROVE ClaimsKept'
  <2>1. resident = NoCell /\ resident' = cells + 1 /\ cells + 1 \in Cells /\ cell'[resident'].mails = disk.mails
        /\ UNCHANGED <<disk, flush, claims, atRisk>>
    BY <1>2 DEF Load, Loaded, Types, ghosts
  <2> QED BY <2>1 DEF ClaimsKept, Writing, Spent
<1>3. CASE LoadFails(r) BY <1>3, ClaimsKeptSame DEF LoadFails, store, ghosts, Writing
<1> QED BY <1>1, <1>2, <1>3 DEF Receive

\* A flush takes the marks up and writes them; no write goes back.
LEMMA FlushClaimsKept == ASSUME Types, Versions, ClaimsKept, NEW t \in Tasks, Flush(t) PROVE ClaimsKept'
<1>0. UNCHANGED <<resident, claims, atRisk>>
  BY DEF Flush, FlushSnapshot, FlushWrite, FlushCleanup, TakeSnapshot, store, ghosts
<1>1. CASE FlushSnapshot(t) /\ resident # NoCell /\ cell[resident].dirty
  <2>1. resident \in Cells /\ \A k \in Cells : cell'[k].mails = cell[k].mails
    BY <1>1, TakenCell DEF FlushSnapshot, Types
  <2>2. \A u \in Tasks : flush'[u] = IF u = t THEN [pc |-> "write", snap |-> Snap(resident)] ELSE flush[u]
    BY <1>1 DEF Types, FlushSnapshot
  <2>3. disk' = disk /\ Snap(resident).mails = cell[resident].mails BY <1>1 DEF FlushSnapshot, Snap
  <2> QED BY <1>0, <1>1, <2>1, <2>2, <2>3 DEF ClaimsKept, Writing, Spent
<1>2. CASE FlushSnapshot(t) /\ ~(resident # NoCell /\ cell[resident].dirty)
  <2>1. UNCHANGED <<cell, disk>> /\ To(t, "cleanup") BY <1>2 DEF FlushSnapshot, store
  <2>2. \A u \in Tasks : Writing(u)' => Writing(u) BY <2>1 DEF To, Types, FlushRec, Writing
  <2> QED BY <1>0, <2>1, <2>2, MovedFlush, ClaimsKeptSame
<1>3. CASE FlushWrite(t)
  <2>1. cell' = cell /\ disk' \in {disk, flush[t].snap} /\ Writing(t) BY <1>3 DEF FlushWrite, Save, store, Writing
  <2>2. \A u \in Tasks : Writing(u)' => u # t /\ flush'[u] = flush[u] BY <1>3 DEF FlushWrite, Types, Writing
  <2>3. ASSUME NEW m \in MailIds \ atRisk PROVE disk.version <= disk'.version
    <3>1. Orderly BY <2>3 DEF Orderly
    <3>2. disk.version \in Nat BY DEF Types, Snapshot
    <3> QED BY <2>1, <3>1, <3>2 DEF Versions, Forward
  <2> SUFFICES ASSUME NEW m \in MailIds, m \notin atRisk, claims[m] > 0 PROVE ClaimKept(m)'
    BY <1>0 DEF ClaimsKept, ClaimKept
  <2>4. ClaimKept(m) BY DEF ClaimsKept, ClaimKept
  <2>5. claims[m] \in Nat /\ disk.version \in Nat /\ disk'.version \in Nat /\ disk.version <= disk'.version
    BY <2>1, <2>3 DEF Types, Snapshot, FlushRec
  <2>6. claims[m] <= disk'.version => Spent(disk'.mails, m) BY <2>1, <2>4 DEF ClaimKept
  <2>7. (IF resident # NoCell THEN Spent(cell[resident].mails, m) ELSE claims[m] <= disk.version)'
    BY <1>0, <2>1, <2>4, <2>5 DEF ClaimKept, Spent
  <2>8. \A u \in Tasks : Writing(u)' /\ claims[m] <= flush'[u].snap.version => Spent(flush'[u].snap.mails, m)
    BY <2>2, <2>4 DEF ClaimKept, Writing
  <2> QED BY <1>0, <2>6, <2>7, <2>8 DEF ClaimKept
<1>4. CASE FlushCleanup(t)
  <2>1. UNCHANGED <<cell, disk>> /\ To(t, "idle") BY <1>4 DEF FlushCleanup
  <2>2. \A u \in Tasks : Writing(u)' => Writing(u) BY <2>1 DEF To, Types, FlushRec, Writing
  <2> QED BY <1>0, <2>1, <2>2, MovedFlush, ClaimsKeptSame
<1> QED BY <1>1, <1>2, <1>3, <1>4 DEF Flush

\* The cache drops a player: a claim that is not stored is at risk.
LEMMA EvictClaimsKept == ASSUME Types, ClaimsKept, Evict PROVE ClaimsKept'
<1>1. UNCHANGED <<cell, disk, flush, claims>> /\ resident' = NoCell /\ atRisk \subseteq atRisk'
  BY DEF Evict, Types
<1>2. \A m \in MailIds \ atRisk' : claims[m] <= disk.version
  BY DEF Evict, Forgotten, Types, Snapshot
<1> QED BY <1>1, <1>2 DEF ClaimsKept, Writing, Spent

\* The fallback saver touches neither the cached player nor, while some mail is not at
\* risk, the document.
LEMMA SaverClaimsKept == ASSUME Types, Versions, ClaimsKept, NEW k \in Cells,
                                SaverSnapshot(k) \/ SaverWrite(k) \/ SaverUnregister(k)
                         PROVE  ClaimsKept'
<1>1. UNCHANGED <<resident, flush, claims, atRisk>> /\ k # resident
  BY DEF SaverSnapshot, SaverWrite, SaverUnregister, TakeSnapshot, Versions, Dropped, store, ghosts
<1>2. \A j \in Cells : j # k => cell'[j] = cell[j]
  BY DEF Types, SaverSnapshot, SaverWrite, SaverUnregister, TakeSnapshot, store
<1>3. ASSUME NEW m \in MailIds \ atRisk PROVE disk' = disk
  <2>1. ~SaverWrite(k) BY <1>3 DEF SaverWrite, Versions, Dropped, Orderly
  <2> QED BY <2>1 DEF SaverSnapshot, SaverUnregister
<1>4. resident # NoCell => resident \in Cells BY DEF Types
<1> QED BY <1>1, <1>2, <1>3, <1>4 DEF ClaimsKept, Writing, Spent

\* A crash: the memory is gone, and a save that was under way is no older than the document.
LEMMA CrashClaimsKept == ASSUME Types, Versions, ClaimsKept, Crash PROVE ClaimsKept'
<1>1. UNCHANGED claims /\ resident' = NoCell /\ atRisk' = atRisk \cup Forgotten /\ (\A x \in Tasks : ~Writing(x)')
      /\ disk' \in {disk} \cup {flush[t].snap : t \in {t \in Tasks : flush[t].pc = "write"}}
                          \cup {saver[k].snap : k \in {k \in Cells : saver[k].pc = "write"}}
  BY DEF Crash, Writing
<1> SUFFICES ASSUME NEW m \in MailIds, m \notin atRisk', claims[m] > 0
             PROVE  claims[m] <= disk'.version /\ Spent(disk'.mails, m)
  BY <1>1 DEF ClaimsKept, Spent
<1>2. m \notin atRisk /\ claims[m] <= disk.version /\ claims[m] \in Nat /\ disk.version \in Nat
  BY <1>1 DEF Forgotten, Types, Snapshot
<1>3. Orderly BY <1>2 DEF Orderly
<1>4. CASE disk' = disk BY <1>2, <1>4 DEF ClaimsKept
<1>5. ASSUME NEW t \in Tasks, Writing(t), disk' = flush[t].snap PROVE claims[m] <= disk'.version /\ Spent(disk'.mails, m)
  <2>1. disk.version <= flush[t].snap.version /\ flush[t].snap.version \in Nat
    BY <1>3, <1>5 DEF Versions, Forward, Types, FlushRec, Snapshot
  <2> QED BY <1>2, <1>5, <2>1 DEF ClaimsKept
<1>6. ASSUME NEW k \in Cells, saver[k].pc = "write" PROVE FALSE BY <1>3, <1>6 DEF Versions, Dropped
<1>7. \/ disk' = disk \/ \E t \in Tasks : Writing(t) /\ disk' = flush[t].snap
      \/ \E k \in Cells : saver[k].pc = "write"
  BY DEF Crash, Writing
<1> QED BY <1>4, <1>5, <1>6, <1>7

\* Every step keeps the claims that are not at risk.
LEMMA ClaimsKeptNext == ASSUME Types, Versions, FreshIds, ClaimsKept, [Next]_vars PROVE ClaimsKept'
<1>1. ASSUME NEW r \in Reqs, Receive(r) PROVE ClaimsKept' BY <1>1, ReceiveClaimsKept
<1>2. ASSUME NEW r \in Reqs, Handle(r) PROVE ClaimsKept'
  <2>1. CASE Keeps BY <1>2, <2>1, HandleEffect, ClaimsKeptSame DEF Keeps, store, Writing
  <2> QED BY <1>2, <2>1, HandleEffect, ClaimsKeptUpdate
<1>3. ASSUME NEW m \in MailIds, Expire(m) PROVE ClaimsKept' BY <1>3, ClaimsKeptSame DEF Expire, store, ghosts, Writing
<1>4. ASSUME NEW t \in Tasks, Flush(t) PROVE ClaimsKept' BY <1>4, FlushClaimsKept
<1>5. CASE FlushCollect \/ BeginShutdown \/ FinalFlush
  <2>1. UNCHANGED <<cell, resident, disk, claims, atRisk>> BY <1>5 DEF FlushCollect, BeginShutdown, FinalFlush, store, ghosts
  <2>2. \A t \in Tasks : flush'[t].snap = flush[t].snap
    BY <1>5, MovedFlush DEF FlushCollect, BeginShutdown, FinalFlush, Tasks
  <2>3. \A t \in Tasks : Writing(t)' => Writing(t)
    BY <1>5 DEF FlushCollect, BeginShutdown, FinalFlush, To, Writing, Types, FlushRec
  <2> QED BY <2>1, <2>2, <2>3, ClaimsKeptSame
<1>6. CASE Evict BY <1>6, EvictClaimsKept
<1>7. ASSUME NEW k \in Cells, SaverSnapshot(k) \/ SaverWrite(k) \/ SaverUnregister(k) PROVE ClaimsKept'
  BY <1>7, SaverClaimsKept
<1>8. CASE Crash BY <1>8, CrashClaimsKept
<1>9. CASE UNCHANGED vars BY <1>9, ClaimsKeptSame DEF vars, store, ghosts, Writing
<1> QED BY <1>1, <1>2, <1>3, <1>4, <1>5, <1>6, <1>7, <1>8, <1>9 DEF Next

\* Granting after a step that ends r or moves it on without a new claim.
LEMMA FewerGrants == ASSUME Types, OneGrant, atRisk \subseteq atRisk', UNCHANGED <<granted, claims>>,
                            \A q \in Reqs, m \in MailIds : Granting(q, m)' => Granting(q, m)
                     PROVE  OneGrant'
BY DEF OneGrant

\* Ending or moving on request r leaves nothing more to grant.
LEMMA EndedGrants == ASSUME Types, NEW r \in Reqs,
                            \/ Done(r)
                            \/ req[r].pc \in {"locate", "grant"} /\ \E p \in {"grant", "late"} : req' = [req EXCEPT ![r].pc = p]
                     PROVE  \A q \in Reqs, m \in MailIds : Granting(q, m)' => Granting(q, m)
<1>1. \A q \in Reqs : q # r => req'[q] = req[q] BY DEF Done, Types
<1>2. CASE Done(r) BY <1>1, <1>2 DEF Granting, Done, Ended, Types
<1>3. ASSUME req[r].pc \in {"locate", "grant"}, NEW p \in {"grant", "late"}, req' = [req EXCEPT ![r].pc = p]
      PROVE  \A q \in Reqs, m \in MailIds : Granting(q, m)' => Granting(q, m)
  <2>1. req'[r].ids = req[r].ids BY <1>3 DEF Types, ReqRec
  <2> QED BY <1>1, <1>3, <2>1 DEF Granting
<1> QED BY <1>2, <1>3

\* A claim that marks its mails is the only one of each.
LEMMA ClaimGrants == ASSUME Types, ClaimsKept, OneGrant, NEW r \in Reqs, Claim(r) PROVE OneGrant'
<1>0. UNCHANGED <<granted, atRisk>> BY DEF Claim, grants
<1>1. CASE Keeps /\ Done(r) BY <1>0, <1>1, FewerGrants, EndedGrants DEF Keeps
<1>2. ASSUME NEW mails \in Data, NewMails(mails), req' = [req EXCEPT ![r].pc = "locate"],
             \A m \in req[r].ids : ~Spent(cell[resident].mails, m),
             \A m \in req[r].ids : claims'[m] = version + 1
      PROVE  OneGrant'
  <2>1. req'[r].ids = req[r].ids /\ \A q \in Reqs : q # r => req'[q] = req[q] BY <1>2 DEF Types, ReqRec
  <2>2. req[r].pc = "held" /\ resident # NoCell BY <1>2 DEF Claim, NewMails
  <2>3. version \in Nat /\ claims \in [MailIds -> Nat] /\ claims' \in [MailIds -> Nat] BY <1>2 DEF Types, NewMails
  <2> SUFFICES ASSUME NEW m \in MailIds, m \notin atRisk
               PROVE  /\ granted[m] <= 1
                      /\ claims'[m] = 0 => granted[m] = 0
                      /\ \A q \in Reqs : Granting(q, m)' => claims'[m] > 0 /\ granted[m] = 0
                      /\ \A p, q \in Reqs : Granting(p, m)' /\ Granting(q, m)' => p = q
    BY <1>0 DEF OneGrant
  <2>4. CASE m \in req[r].ids
    <3>1. claims[m] = 0 BY <1>2, <2>2, <2>3, <2>4 DEF ClaimsKept
    <3>2. granted[m] = 0 /\ \A q \in Reqs : ~Granting(q, m) BY <3>1 DEF OneGrant
    <3>3. \A q \in Reqs : Granting(q, m)' => q = r BY <2>1, <3>2 DEF Granting
    <3>4. claims'[m] > 0 BY <1>2, <2>3, <2>4
    <3> QED BY <3>2, <3>3, <3>4
  <2>5. CASE m \notin req[r].ids
    <3>1. \A q \in Reqs : Granting(q, m)' => Granting(q, m) BY <2>1, <2>5 DEF Granting
    <3>2. claims'[m] = claims[m] \/ claims'[m] > 0 BY <1>2, <2>3 DEF NewMails
    <3>3. claims'[m] = 0 => claims[m] = 0 BY <1>2, <2>3 DEF NewMails
    <3> QED BY <3>1, <3>2, <3>3 DEF OneGrant
  <2> QED BY <2>4, <2>5
<1> QED BY <1>1, <1>2, ClaimEffect

\* Logic adds the items of a claim.
LEMMA AddItemsGrants == ASSUME Types, OneGrant, NEW r \in Reqs, req[r].pc \in {"grant", "late"}, AddItems(r), Done(r),
                               UNCHANGED <<claims, atRisk>>
                        PROVE  OneGrant'
<1>1. \A q \in Reqs : q # r => req'[q] = req[q] BY DEF Done, Types
<1>2. req'[r].pc = "done" BY DEF Done, Ended, Types
<1> SUFFICES ASSUME NEW m \in MailIds, m \notin atRisk
             PROVE  /\ granted'[m] <= 1
                    /\ claims[m] = 0 => granted'[m] = 0
                    /\ \A q \in Reqs : Granting(q, m)' => claims[m] > 0 /\ granted'[m] = 0
                    /\ \A p, q \in Reqs : Granting(p, m)' /\ Granting(q, m)' => p = q
  BY DEF OneGrant
<1>3. \A q \in Reqs : Granting(q, m)' => Granting(q, m) /\ q # r BY <1>1, <1>2 DEF Granting
<1>4. CASE m \in req[r].ids
  <2>1. Granting(r, m) BY <1>4 DEF Granting
  <2>2. granted[m] = 0 /\ claims[m] > 0 /\ \A q \in Reqs : Granting(q, m) => q = r BY <2>1 DEF OneGrant
  <2>3. granted'[m] = granted[m] + 1 BY <1>4 DEF AddItems
  <2>4. claims[m] \in Nat BY DEF Types
  <2> QED BY <1>3, <2>2, <2>3, <2>4
<1>5. CASE m \notin req[r].ids
  <2>1. granted'[m] = granted[m] BY <1>5 DEF AddItems
  <2> QED BY <1>3, <2>1 DEF OneGrant
<1> QED BY <1>4, <1>5

\* Every step keeps the grants of a mail that is not at risk to one.
LEMMA OneGrantNext == ASSUME Types, ClaimsKept, OneGrant, [Next]_vars PROVE OneGrant'
<1>1. ASSUME NEW r \in Reqs, Receive(r) PROVE OneGrant'
  <2>1. \A q \in Reqs, m \in MailIds : Granting(q, m)' => Granting(q, m)
    <3>1. \A q \in Reqs : q # r => req'[q] = req[q]
      BY <1>1 DEF Receive, GetCached, Load, LoadFails, Hold, Types
    <3>2. req'[r].pc \in {"held", "done"}
      BY <1>1 DEF Receive, GetCached, Load, LoadFails, Hold, Ended, Types
    <3> QED BY <3>1, <3>2 DEF Granting
  <2>2. UNCHANGED <<granted, claims, atRisk>> BY <1>1 DEF Receive, GetCached, Load, LoadFails, ghosts, grants
  <2> QED BY <2>1, <2>2, FewerGrants
<1>2. ASSUME NEW r \in Reqs, Handle(r) PROVE OneGrant'
  <2>1. CASE Claim(r) BY <2>1, ClaimGrants
  <2>2. CASE List(r) \/ Read(r) \/ Delete(r) \/ SendMail(r) \/ Locate(r) \/ GrantTimesOut(r)
    <3>1. UNCHANGED <<granted, claims, atRisk>>
      BY SMTT(30), <2>2 DEF List, Read, Delete, SendMail, Locate, GrantTimesOut, ghosts, grants
    <3>2. Done(r) \/ (req[r].pc \in {"locate", "grant"} /\ \E p \in {"grant", "late"} : req' = [req EXCEPT ![r].pc = p])
      BY Zenon, <2>2 DEF List, Read, Delete, SendMail, Locate, GrantTimesOut
    <3> QED BY SMTT(30), <3>1, <3>2, EndedGrants, FewerGrants
  <2>3. CASE LateGrant(r) \/ \E status \in {"ok", "unsaved", "refused"} : Grant(r, status)
    <3>1. /\ UNCHANGED <<claims, atRisk>> /\ Done(r) /\ req[r].pc \in {"grant", "late"}
          /\ AddItems(r) \/ UNCHANGED granted
      BY <2>3 DEF LateGrant, Grant, grants
    <3>2. CASE AddItems(r) BY <3>1, <3>2, AddItemsGrants
    <3>3. CASE UNCHANGED granted BY <3>1, <3>3, EndedGrants, FewerGrants
    <3> QED BY <3>1, <3>2, <3>3
  <2> QED BY <1>2, <2>1, <2>2, <2>3 DEF Handle
<1>3. CASE \/ \E m \in MailIds : Expire(m)
           \/ \E t \in Tasks : Flush(t)
           \/ \E k \in Cells : SaverSnapshot(k) \/ SaverWrite(k) \/ SaverUnregister(k)
           \/ FlushCollect \/ BeginShutdown \/ FinalFlush \/ Evict \/ UNCHANGED vars
  <2>1. UNCHANGED <<req, granted, claims>> /\ atRisk \subseteq atRisk'
    BY <1>3 DEF Expire, Flush, FlushSnapshot, FlushWrite, FlushCleanup, SaverSnapshot, SaverWrite, SaverUnregister,
                FlushCollect, BeginShutdown, FinalFlush, Evict, Types, vars, ghosts, grants
  <2> QED BY <2>1, FewerGrants DEF Granting
<1>4. CASE Crash
  <2>1. UNCHANGED <<granted, claims>> /\ atRisk \subseteq atRisk' BY <1>4 DEF Crash, grants
  <2>2. ASSUME NEW q \in Reqs, NEW m \in MailIds, Granting(q, m)' PROVE Granting(q, m)
    <3>1. CASE req[q].pc \in {"held", "locate"} BY <1>4, <2>2, <3>1 DEF Crash, Granting, Ended
    <3>2. CASE req[q].pc = "grant"
      <4>1. req'[q] = [req[q] EXCEPT !.pc = "late"] BY <1>4, <3>2 DEF Crash
      <4> QED BY <2>2, <3>2, <4>1 DEF Granting, Types, ReqRec
    <3>3. CASE req[q].pc \notin {"held", "locate", "grant"} BY <1>4, <2>2, <3>3 DEF Crash, Granting
    <3> QED BY <3>1, <3>2, <3>3
  <2> QED BY <2>1, <2>2, FewerGrants
<1> QED BY <1>1, <1>2, <1>3, <1>4 DEF Next

\* Every step keeps the items of confirmed claims.
LEMMA ConfirmedNext == ASSUME Types, Confirmed, [Next]_vars PROVE Confirmed'
<1>1. ASSUME NEW r \in Reqs, AddItems(r) PROVE \A m \in MailIds : granted'[m] >= granted[m] /\ (m \in req[r].ids => granted'[m] > 0)
  BY <1>1 DEF AddItems, Types
<1>2. ASSUME NEW r \in Reqs, NEW status \in {"ok", "unsaved", "refused"}, Grant(r, status) PROVE Confirmed'
  <2>1. CASE AddItems(r)
    <3>1. confirmed' \subseteq confirmed \cup req[r].ids BY <1>2 DEF Grant
    <3>2. \A m \in MailIds : granted[m] \in Nat /\ granted'[m] \in Nat BY <2>1 DEF Types, AddItems
    <3>3. confirmed \subseteq MailIds /\ req[r].ids \subseteq MailIds BY DEF Types, ReqRec
    <3> QED BY <1>1, <2>1, <3>1, <3>2, <3>3 DEF Confirmed
  <2>2. CASE status = "refused" BY <1>2, <2>2 DEF Grant, Confirms, Confirmed
  <2> QED BY <1>2, <2>1, <2>2 DEF Grant
<1>3. ASSUME NEW r \in Reqs, LateGrant(r) PROVE Confirmed'
  <2>1. CASE AddItems(r)
    <3>1. confirmed' = confirmed /\ confirmed \subseteq MailIds BY <1>3 DEF LateGrant, Types
    <3>2. \A m \in MailIds : granted[m] \in Nat /\ granted'[m] \in Nat BY <2>1 DEF Types, AddItems
    <3> QED BY <1>1, <2>1, <3>1, <3>2 DEF Confirmed
  <2> QED BY <1>3, <2>1 DEF LateGrant, Confirmed
<1>4. CASE UNCHANGED <<granted, confirmed>> BY SMTT(30), <1>4 DEF Confirmed
<1>5. (\E r \in Reqs : LateGrant(r) \/ \E status \in {"ok", "unsaved", "refused"} : Grant(r, status)) \/ UNCHANGED <<granted, confirmed>>
  BY ZenonT(60) DEF Next, Receive, GetCached, Load, LoadFails, Handle, List, Read, Delete, Claim, SendMail, Locate, GrantTimesOut, Expire,
         Flush, FlushSnapshot, FlushWrite, FlushCleanup, SaverSnapshot, SaverWrite, SaverUnregister,
         FlushCollect, BeginShutdown, FinalFlush, Evict, Crash, vars, ghosts, grants
<1> QED BY <1>2, <1>3, <1>4, <1>5

-----------------------------------------------------------------------------
(* Theorems *)

\* The inductive invariant.
MailInv == Types /\ Versions /\ (~Evicts => Saves) /\ Claims

\* MailInv holds in every state.
LEMMA MailInvariant == Spec => []MailInv
<1>1. Init => MailInv
  <2> SUFFICES ASSUME Init PROVE MailInv OBVIOUS
  <2>1. Types
    <3>1. req \in [Reqs -> ReqRec] /\ Held BY DEF Init, ReqRec, Held
    <3>2. flush \in [Tasks -> FlushRec] /\ saver \in [Cells -> SaverRec] /\ cell \in [Cells -> CellRec]
      BY ConstantTypes DEF Init, FlushRec, SaverRec
    <3>3. disk \in Snapshot BY ConstantTypes DEF Init
    <3>4. registered \in BOOLEAN /\ confirmed \subseteq MailIds /\ atRisk \subseteq MailIds BY Zenon DEF Init
    <3>5. /\ cells \in 0..MaxCells /\ resident \in 0..cells /\ version \in Nat /\ failed \in Nat /\ nextId \in Nat
          /\ proc \in {"up", "stopping", "stopped"} /\ claims \in [MailIds -> Nat] /\ granted \in [MailIds -> Nat]
      BY DEF Init
    <3> QED BY <3>1, <3>2, <3>3, <3>4, <3>5 DEF Types
  <2>2. Versions BY DEF Init, Versions, Ceiling, OneFlush, Dropped, Forward, Writing, NoSnap, Unused, Tasks
  <2>3. Saves BY DEF Init, Saves, DirtyRegistered, Settled, Final, Writing, Tasks
  <2>4. Claims BY DEF Init, Claims, FreshIds, ClaimsKept, OneGrant, Confirmed, Granting, NoSnap, Unused, Empty
  <2> QED BY <2>1, <2>2, <2>3, <2>4 DEF MailInv
<1>2. MailInv /\ [Next]_vars => MailInv'
  BY TypesNext, VersionsNext, SavesNext, FreshIdsNext, ClaimsKeptNext, OneGrantNext, ConfirmedNext DEF MailInv, Claims
<1> QED BY <1>1, <1>2, PTL DEF Spec

\* While the cache drops no player, a changed player of the cache is in the dirty set.
THEOREM ChangedIsRegistered == ASSUME ~Evicts PROVE Spec => []DirtyRegistered
<1>1. MailInv => DirtyRegistered BY DEF MailInv, Saves
<1> QED BY <1>1, MailInvariant, PTL

\* While the cache drops no player, the shutdown leaves the cached player in Mongo, or the
\* save of its last version failed.
THEOREM ShutdownFlushes == ASSUME ~Evicts PROVE Spec => []ShutdownSaves
<1>1. MailInv => ShutdownSaves BY DEF MailInv, Saves, Settled, Final, Writing, ShutdownSaves, Types
<1> QED BY <1>1, MailInvariant, PTL

\* While the cache drops no player, Mongo never goes back to an older version, whatever
\* saves fail, are delayed or are cut short by a crash.
THEOREM DocumentForward == ASSUME ~Evicts PROVE Spec => DiskForward
<1>1. ASSUME MailInv, Next PROVE disk'.version >= disk.version
  <2>1. Orderly /\ disk.version \in Nat /\ \A t \in Tasks : flush[t].snap.version \in Nat
    BY <1>1 DEF MailInv, Orderly, Types, Snapshot, FlushRec
  <2>2. \A t \in Tasks : Writing(t) => disk.version <= flush[t].snap.version
    BY <1>1, <2>1 DEF MailInv, Versions, Forward
  <2>3. \A k \in Cells : saver[k].pc = "idle" BY <1>1, NoSaver DEF MailInv
  <2>4. disk' = disk \/ \E t \in Tasks : Writing(t) /\ disk' = flush[t].snap
    <3>1. CASE \E r \in Reqs : Receive(r) BY <3>1 DEF Receive, GetCached, Load, LoadFails
    <3>2. CASE \E r \in Reqs : Handle(r) BY <1>1, <3>2, HandleEffect DEF MailInv
    <3>3. CASE \E t \in Tasks : Flush(t) BY <3>3 DEF Flush, FlushSnapshot, FlushWrite, FlushCleanup, Save, Writing
    <3>4. CASE Crash BY <2>3, <3>4 DEF Crash, Writing
    <3>5. CASE \/ \E m \in MailIds : Expire(m)
               \/ FlushCollect \/ BeginShutdown \/ FinalFlush \/ Evict
      BY <3>5 DEF Expire, FlushCollect, BeginShutdown, FinalFlush, Evict
    <3>6. ~\E k \in Cells : SaverSnapshot(k) \/ SaverWrite(k) \/ SaverUnregister(k)
      BY <2>3 DEF SaverSnapshot, SaverWrite, SaverUnregister
    <3> QED BY <1>1, <3>1, <3>2, <3>3, <3>4, <3>5, <3>6 DEF Next
  <2> QED BY <2>1, <2>2, <2>4
<1>2. MailInv /\ [Next]_vars => [disk'.version >= disk.version]_vars BY <1>1
<1> QED BY <1>2, MailInvariant, PTL DEF Spec, DiskForward

\* For any eviction behaviour of the cache: the items of a mail that is not at risk are
\* added at most once, and those of a confirmed claim were added.
THEOREM ItemsGrantedOnce == Spec => []GrantedOnce
<1>1. MailInv => GrantedOnce
  <2> SUFFICES ASSUME MailInv, NEW m \in MailIds
               PROVE (granted[m] > 1 => m \in atRisk) /\ (m \in confirmed => granted[m] > 0)
    BY DEF GrantedOnce
  <2>1. granted[m] \in Nat BY DEF MailInv, Types
  <2> QED BY <2>1 DEF MailInv, Claims, OneGrant, Confirmed
<1> QED BY <1>1, MailInvariant, PTL
=============================================================================
