----------------------------- MODULE PublicMail -----------------------------
(***************************************************************************)
(* The Mail service of service/public over the write-back cache of         *)
(* persist/src/public_players.rs, for one player: requests get the cached  *)
(* aggregate and then change it under its lock; a periodic task and the    *)
(* shutdown flush what the dirty set names; a claim marks its mails before *)
(* it asks Logic for the items.                                            *)
(*                                                                         *)
(* A cell is one PublicPlayer object (one loaded generation).  The cache   *)
(* (crate xlru), Mongo and Logic are outside the repository.  A crash      *)
(* loses the memory of the process, which restarts at once.                *)
(***************************************************************************)
EXTENDS Integers, FiniteSets, FiniteSetsExt

CONSTANTS
    Reqs,          \* mail requests, each received at most once
    MaxId,         \* bound: mail ids that xfastid makes are 1..MaxId
    MaxMails,      \* MAX_MAILS_PER_PLAYER
    MaxCells,      \* bound: generations loaded
    MaxCrashes,    \* bound: crashes
    Evicts,        \* may the cache drop a player no request is using?
    SaveMayFail    \* may a Mongo save fail?

ASSUME MailConfig ==
    /\ MaxMails \in Nat \ {0} /\ MaxCells \in Nat \ {0} /\ MaxCrashes \in Nat
    /\ {Evicts, SaveMayFail} \subseteq BOOLEAN /\ MaxId \in Nat

MailIds == 1..MaxId
Cells == 1..MaxCells
NoCell == 0
Tasks == {"periodic", "final"}   \* the two callers of flush_dirty

VARIABLES
    cell,        \* the PublicPlayer objects: mails and dirty flag, and the version of the mails
    cells,       \* how many were loaded
    resident,    \* the one the cache holds
    registered,  \* is the gid in PublicPlayersInner.dirty?
    disk,        \* what Mongo holds
    version,     \* of the last change; tells versions of the mails apart
    flush,       \* flush_dirty of a task
    saver,       \* the cache's fallback save of a dropped cell
    req,         \* the requests
    proc,        \* the process: "up", "stopping", "stopped"
    crashes,
    nextId,      \* the next mail id
    expired,     \* mails whose end_time has passed
    \* History, for the properties only:
    claims,      \* the version that the last claim of a mail made
    granted,     \* how often Logic added the items of a mail
    confirmed,   \* mails whose claim was answered with OK
    atRisk,      \* mails that a crash or an eviction may have made claimable again
    failed       \* version of the last save that failed

store == <<cell, cells, resident, registered>>
grants == <<granted, confirmed>>
ghosts == <<claims, grants, atRisk>>
vars == <<store, disk, version, flush, saver, req, proc, crashes, nextId, expired, ghosts, failed>>

MailState == {"absent", "unread", "read", "claimed"}
Data == [MailIds -> MailState]
Snapshot == [mails : Data, version : Nat]
Kept(mails) == {m \in MailIds : mails[m] # "absent"}

TypeOK ==
    /\ cell \in [Cells -> [mails : Data, version : Nat, dirty : BOOLEAN]]
    /\ \A k \in Cells : Cardinality(Kept(cell[k].mails)) <= MaxMails
    /\ cells \in 0..MaxCells /\ resident \in 0..MaxCells /\ registered \in BOOLEAN
    /\ disk \in Snapshot /\ version \in Nat /\ failed \in Nat
    /\ flush \in [Tasks -> [pc : {"idle", "snapshot", "write", "cleanup"}, snap : Snapshot]]
    /\ saver \in [Cells -> [pc : {"idle", "snapshot", "write", "unregister"}, snap : Snapshot]]
    /\ req \in [Reqs -> [pc : {"new", "held", "locate", "grant", "late", "done"}, kind : {"none", "list", "read", "delete", "claim", "send"},
                         ids : SUBSET MailIds, cell : 0..MaxCells]]
    /\ proc \in {"up", "stopping", "stopped"} /\ crashes \in 0..MaxCrashes
    /\ nextId \in Nat /\ expired \subseteq MailIds
    /\ claims \in [MailIds -> Nat] /\ granted \in [MailIds -> Nat]
    /\ confirmed \subseteq MailIds /\ atRisk \subseteq MailIds

Empty == [m \in MailIds |-> "absent"]
NoSnap == [mails |-> Empty, version |-> 0]
Unused == [mails |-> Empty, version |-> 0, dirty |-> FALSE]
Ended == [pc |-> "done", kind |-> "none", ids |-> {}, cell |-> NoCell]

\* A player without a document.
Init ==
    /\ cell = [k \in Cells |-> Unused]
    /\ cells = 0 /\ resident = NoCell /\ registered = FALSE
    /\ disk = NoSnap /\ version = 0 /\ failed = 0
    /\ flush = [t \in Tasks |-> [pc |-> "idle", snap |-> NoSnap]]
    /\ saver = [k \in Cells |-> [pc |-> "idle", snap |-> NoSnap]]
    /\ req = [r \in Reqs |-> [pc |-> "new", kind |-> "none", ids |-> {}, cell |-> NoCell]]
    /\ proc = "up" /\ crashes = 0 /\ nextId = 1 /\ expired = {}
    /\ claims = [m \in MailIds |-> 0] /\ granted = [m \in MailIds |-> 0] /\ confirmed = {} /\ atRisk = {}

-----------------------------------------------------------------------------
(* PublicPlayer and PublicPlayers                                            *)

\* The loader: the document, or a clean empty aggregate.
Loaded == [mails |-> disk.mails, version |-> disk.version, dirty |-> FALSE]

\* take_dirty_snapshot: copy and clear the flag before the save.
TakeSnapshot(k) == /\ cell' = [cell EXCEPT ![k].dirty = FALSE]
                   /\ UNCHANGED <<cells, resident, registered>>

Snap(k) == [mails |-> cell[k].mails, version |-> cell[k].version]

\* A save replaces the document.  A failure is only logged; the write may have
\* reached Mongo all the same.
Save(snap) ==
    \/ disk' = snap /\ UNCHANGED failed
    \/ SaveMayFail /\ disk' \in {disk, snap} /\ failed' = snap.version

\* Mutant: the registration goes although the player changed again.
Deregisters(k) == TRUE

\* The test of remove_registration_if_clean.
RemovesRegistration(k) == ~cell[k].dirty

-----------------------------------------------------------------------------
(* Requests: valid_mail_ids has accepted ids; get_i64 before anything else.  *)

Kinds(ids) == IF ids = {} THEN {"list", "send"} ELSE {"read", "delete", "claim"}

Hold(r, kind, ids, k) == req' = [req EXCEPT ![r] = [pc |-> "held", kind |-> kind, ids |-> ids, cell |-> k]]

GetCached(r, kind, ids) ==
    /\ proc = "up" /\ req[r].pc = "new" /\ resident # NoCell
    /\ Hold(r, kind, ids, resident)
    /\ UNCHANGED <<store, disk, version, flush, saver, proc, crashes, nextId, expired, ghosts, failed>>

Load(r, kind, ids) ==
    /\ proc = "up" /\ req[r].pc = "new" /\ resident = NoCell /\ cells < MaxCells
    /\ cells' = cells + 1 /\ resident' = cells + 1
    /\ cell' = [cell EXCEPT ![cells + 1] = Loaded]
    /\ Hold(r, kind, ids, cells + 1)
    /\ UNCHANGED <<registered, disk, version, flush, saver, proc, crashes, nextId, expired, ghosts, failed>>

LoadFails(r) ==
    /\ proc = "up" /\ req[r].pc = "new" /\ resident = NoCell
    /\ req' = [req EXCEPT ![r] = Ended]
    /\ UNCHANGED <<store, disk, version, flush, saver, proc, crashes, nextId, expired, ghosts, failed>>

\* PublicPlayer::update under its lock: new mails, dirty flag and registration.
Update(k, mails) ==
    /\ cell' = [cell EXCEPT ![k] = [mails |-> mails, version |-> version + 1, dirty |-> TRUE]]
    /\ version' = version + 1
    /\ registered' = TRUE
    /\ UNCHANGED <<cells, resident>>

Untouched == UNCHANGED <<store, version>>

\* Answer r.
Done(r) == req' = [req EXCEPT ![r] = Ended]

\* MailListReq only reads.
List(r) ==
    /\ req[r].pc = "held" /\ req[r].kind = "list"
    /\ Done(r) /\ Untouched
    /\ UNCHANGED <<disk, flush, saver, proc, crashes, nextId, expired, ghosts, failed>>

\* Mutant: a read mail is not reported as a change.
NothingChanged(mails, ids) == {}

\* The mails that MailReadReq marks.
Unread(mails, ids) == {m \in ids : mails[m] = "unread"}

Read(r) ==
    LET k == req[r].cell
        changed == Unread(cell[k].mails, req[r].ids)
        marked == [m \in MailIds |-> IF m \in req[r].ids /\ cell[k].mails[m] = "unread" THEN "read"
                                     ELSE cell[k].mails[m]]
    IN
    /\ req[r].pc = "held" /\ req[r].kind = "read"
    /\ IF changed # {} THEN Update(k, marked)
       ELSE cell' = [cell EXCEPT ![k].mails = marked] /\ UNCHANGED <<cells, resident, registered, version>>
    /\ Done(r)
    /\ UNCHANGED <<disk, flush, saver, proc, crashes, nextId, expired, ghosts, failed>>

Delete(r) ==
    LET k == req[r].cell
        removed == req[r].ids \cap Kept(cell[k].mails)
    IN
    /\ req[r].pc = "held" /\ req[r].kind = "delete"
    /\ IF removed # {} THEN Update(k, [m \in MailIds |-> IF m \in removed THEN "absent" ELSE cell[k].mails[m]])
       ELSE Untouched
    /\ Done(r)
    /\ UNCHANGED <<disk, flush, saver, proc, crashes, nextId, expired, ghosts, failed>>

\* What claim_mails asks of every mail before it marks any.
Claimable(k, m) == cell[k].mails[m] \in {"unread", "read"} /\ m \notin expired

\* claim: mark the mails as claimed; every mail of the model has attachments.
Claim(r) ==
    LET k == req[r].cell
        ids == req[r].ids
    IN
    /\ req[r].pc = "held" /\ req[r].kind = "claim"
    /\ IF \A m \in ids : Claimable(k, m)
       THEN /\ Update(k, [m \in MailIds |-> IF m \in ids THEN "claimed" ELSE cell[k].mails[m]])
            /\ claims' = [m \in MailIds |-> IF m \in ids THEN version + 1 ELSE claims[m]]
            /\ req' = [req EXCEPT ![r].pc = "locate"]
       ELSE Untouched /\ Done(r) /\ UNCHANGED claims
    /\ UNCHANGED <<disk, flush, saver, proc, crashes, nextId, expired, grants, atRisk, failed>>

\* load_online: the owner is asked for the items, or there is none, or Redis fails.
Locate(r) ==
    /\ req[r].pc = "locate" /\ (Done(r) \/ req' = [req EXCEPT ![r].pc = "grant"])
    /\ Untouched
    /\ UNCHANGED <<disk, flush, saver, proc, crashes, nextId, expired, ghosts, failed>>

\* Logic adds the items (PlayerItems!AddItems).
AddItems(r) == granted' = [m \in MailIds |-> IF m \in req[r].ids THEN granted[m] + 1 ELSE granted[m]]

\* Only status OK confirms the claim.
Confirms(status) == status = "ok"

\* Logic answers the AddItems RPC: it added the items, with status OK or with the
\* error of its save, or it refused.
Grant(r, status) ==
    /\ req[r].pc = "grant"
    /\ \/ status \in {"ok", "unsaved"} /\ AddItems(r)
       \/ status = "refused" /\ UNCHANGED granted
    /\ confirmed' = IF Confirms(status) THEN confirmed \cup req[r].ids ELSE confirmed
    /\ Done(r) /\ Untouched
    /\ UNCHANGED <<disk, flush, saver, proc, crashes, nextId, expired, claims, atRisk, failed>>

\* Mutant: a claim whose RPC failed is taken back.
TakeBack(r) ==
    Update(req[r].cell, [m \in MailIds |-> IF m \in req[r].ids THEN "read" ELSE cell[req[r].cell].mails[m]])

\* What the failed RPC changes in the player: nothing, the mails stay claimed.
KeepClaim(r) == Untouched

\* The RPC fails for Public (timeout, lost connection) and may still reach Logic.
GrantTimesOut(r) ==
    /\ req[r].pc = "grant" /\ req' = [req EXCEPT ![r].pc = "late"]
    /\ KeepClaim(r)
    /\ UNCHANGED <<disk, flush, saver, proc, crashes, nextId, expired, ghosts, failed>>

LateGrant(r) ==
    /\ req[r].pc = "late" /\ Done(r)
    /\ AddItems(r) \/ UNCHANGED granted
    /\ UNCHANGED <<store, disk, version, flush, saver, proc, crashes, nextId, expired, claims, confirmed, atRisk, failed>>

Overfull(mails) == Cardinality(Kept(mails)) > MaxMails

\* send_mail: the new mail goes behind all others, at the limit the oldest goes.
\* notify_mail only tells the Gate (ClientStream!PushMail).
\* (A mail sent as already expired changes nothing.)
SendMail(r) ==
    LET k == req[r].cell
        with == [cell[k].mails EXCEPT ![nextId] = "unread"]
    IN
    /\ req[r].pc = "held" /\ req[r].kind = "send" /\ nextId \in MailIds
    /\ Update(k, IF Overfull(with) THEN [with EXCEPT ![Min(Kept(with))] = "absent"] ELSE with)
    /\ nextId' = nextId + 1
    /\ Done(r)
    /\ UNCHANGED <<disk, flush, saver, proc, crashes, expired, ghosts, failed>>

Expire(m) ==
    /\ m < nextId /\ m \notin expired
    /\ expired' = expired \cup {m}
    /\ UNCHANGED <<store, disk, version, flush, saver, req, proc, crashes, nextId, ghosts, failed>>

-----------------------------------------------------------------------------
(* flush_dirty, by the periodic task and by the shutdown                      *)

To(t, pc) == flush' = [flush EXCEPT ![t].pc = pc]

\* Collect the dirty set; nothing to do when it is empty.
FlushCollect ==
    /\ proc = "up" /\ flush["periodic"].pc = "idle" /\ registered
    /\ To("periodic", "snapshot")
    /\ UNCHANGED <<store, disk, version, saver, req, proc, crashes, nextId, expired, ghosts, failed>>

\* flush_keys hands a resident dirty player to the batch saver.
FlushSnapshot(t) ==
    /\ flush[t].pc = "snapshot"
    /\ IF resident # NoCell /\ cell[resident].dirty
       THEN /\ TakeSnapshot(resident)
            /\ flush' = [flush EXCEPT ![t] = [pc |-> "write", snap |-> Snap(resident)]]
       ELSE UNCHANGED store /\ To(t, "cleanup")
    /\ UNCHANGED <<disk, version, saver, req, proc, crashes, nextId, expired, ghosts, failed>>

FlushWrite(t) ==
    /\ flush[t].pc = "write"
    /\ Save(flush[t].snap)
    /\ flush' = [flush EXCEPT ![t] = [pc |-> "cleanup", snap |-> NoSnap]]
    /\ UNCHANGED <<store, version, saver, req, proc, crashes, nextId, expired, ghosts>>

\* A gid leaves the dirty set when its player is clean again or gone.
FlushCleanup(t) ==
    /\ flush[t].pc = "cleanup"
    /\ registered' = (registered /\ resident # NoCell /\ ~RemovesRegistration(resident))
    /\ To(t, "idle")
    /\ proc' = IF t = "final" THEN "stopped" ELSE proc
    /\ UNCHANGED <<cell, cells, resident, disk, version, saver, req, crashes, nextId, expired, ghosts, failed>>

\* xframe drains the handlers before Application::shutdown, which stops the task.
BeginShutdown ==
    /\ proc = "up" /\ \A r \in Reqs : req[r].pc \in {"new", "late", "done"}
    /\ proc' = "stopping"
    /\ UNCHANGED <<store, disk, version, flush, saver, req, crashes, nextId, expired, ghosts, failed>>

\* Mutant: the save task is not awaited.
TaskForgotten == TRUE

\* The task ends between two flushes.
SaveTaskEnded == flush["periodic"].pc = "idle"

FinalFlush ==
    /\ proc = "stopping" /\ flush["final"].pc = "idle" /\ SaveTaskEnded
    /\ IF registered THEN To("final", "snapshot") /\ UNCHANGED proc
       ELSE proc' = "stopped" /\ UNCHANGED flush
    /\ UNCHANGED <<store, disk, version, saver, req, crashes, nextId, expired, ghosts, failed>>

-----------------------------------------------------------------------------
(* The cache drops an idle player; the process crashes                        *)

\* Mails whose claim is not in the document yet.
Forgotten == {m \in MailIds : disk.version < claims[m]}

Evict ==
    /\ Evicts /\ resident # NoCell /\ proc = "up"
    /\ \A r \in Reqs : req[r].pc # "held"
    /\ resident' = NoCell
    /\ saver' = [saver EXCEPT ![resident].pc = "snapshot"]
    /\ atRisk' = IF registered \/ cell[resident].dirty THEN MailIds ELSE atRisk \cup Forgotten
    /\ UNCHANGED <<cell, cells, registered, disk, version, flush, req, proc, crashes, nextId, expired, claims, grants, failed>>

\* The with_saver callback on the dropped cell: save_single ...
SaverSnapshot(k) ==
    /\ saver[k].pc = "snapshot"
    /\ TakeSnapshot(k)
    /\ saver' = [saver EXCEPT ![k] = IF cell[k].dirty THEN [pc |-> "write", snap |-> Snap(k)]
                                     ELSE [pc |-> "unregister", snap |-> NoSnap]]
    /\ UNCHANGED <<disk, version, flush, req, proc, crashes, nextId, expired, ghosts, failed>>

SaverWrite(k) ==
    /\ saver[k].pc = "write"
    /\ Save(saver[k].snap)
    /\ saver' = [saver EXCEPT ![k] = [pc |-> "unregister", snap |-> NoSnap]]
    /\ UNCHANGED <<store, version, flush, req, proc, crashes, nextId, expired, ghosts>>

\* ... then remove_registration_if_clean, which looks at the dropped cell.
SaverUnregister(k) ==
    /\ saver[k].pc = "unregister"
    /\ registered' = (registered /\ ~RemovesRegistration(k))
    /\ saver' = [saver EXCEPT ![k].pc = "idle"]
    /\ cell' = [cell EXCEPT ![k] = Unused]
    /\ UNCHANGED <<cells, resident, disk, version, flush, req, proc, crashes, nextId, expired, ghosts, failed>>

\* A save under way may still reach Mongo; so may the RPC of a claim.
Crash ==
    LET pending == {flush[t].snap : t \in {t \in Tasks : flush[t].pc = "write"}}
                   \cup {saver[k].snap : k \in {k \in Cells : saver[k].pc = "write"}}
    IN
    /\ crashes < MaxCrashes /\ proc # "stopped"
    /\ crashes' = crashes + 1
    /\ disk' \in {disk} \cup pending
    /\ cell' = [k \in Cells |-> Unused] /\ resident' = NoCell /\ registered' = FALSE
    /\ flush' = [t \in Tasks |-> [pc |-> "idle", snap |-> NoSnap]]
    /\ saver' = [k \in Cells |-> [pc |-> "idle", snap |-> NoSnap]]
    /\ req' = [r \in Reqs |-> CASE req[r].pc \in {"held", "locate"} -> Ended
                               [] req[r].pc = "grant" -> [req[r] EXCEPT !.pc = "late"]
                               [] OTHER -> req[r]]
    /\ proc' = "up"
    /\ atRisk' = atRisk \cup Forgotten
    /\ UNCHANGED <<cells, version, nextId, expired, claims, grants, failed>>

-----------------------------------------------------------------------------
Receive(r) ==
    \/ \E ids \in SUBSET MailIds : \E kind \in Kinds(ids) : GetCached(r, kind, ids) \/ Load(r, kind, ids)
    \/ LoadFails(r)

Handle(r) ==
    \/ List(r) \/ Read(r) \/ Delete(r) \/ Claim(r) \/ SendMail(r)
    \/ Locate(r) \/ GrantTimesOut(r) \/ LateGrant(r) \/ \E status \in {"ok", "unsaved", "refused"} : Grant(r, status)

Flush(t) == FlushSnapshot(t) \/ FlushWrite(t) \/ FlushCleanup(t)

Next ==
    \/ \E r \in Reqs : Receive(r) \/ Handle(r)
    \/ \E m \in MailIds : Expire(m)
    \/ FlushCollect \/ (\E t \in Tasks : Flush(t)) \/ BeginShutdown \/ FinalFlush
    \/ Evict \/ (\E k \in Cells : SaverSnapshot(k) \/ SaverWrite(k) \/ SaverUnregister(k)) \/ Crash

Spec == Init /\ [][Next]_vars

-----------------------------------------------------------------------------
(* Properties *)

\* "Public records changed gids in a concurrent dirty set": a cached player that
\* changed is in the set, or the flushes would pass it over, although a flush
\* takes the gid out of the set while requests go on.
DirtyRegistered == resident # NoCell /\ cell[resident].dirty => registered

\* What Mongo holds never goes back to an older version: no write of an earlier
\* flush lands after a later one, the final flush of the shutdown included.
DiskForward == [][disk'.version >= disk.version]_vars

\* A shutdown leaves in Mongo what the players of the cache are, every read mark
\* included, unless the save of that very version failed (saves are not retried).
ShutdownSaves ==
    proc = "stopped" /\ resident # NoCell =>
        /\ ~cell[resident].dirty
        /\ disk = Snap(resident) \/ failed = cell[resident].version

\* The items of a mail are added once, across concurrent and repeated claims,
\* RPCs that failed and arrive late, flushes, reloads and restarts.  Only a crash
\* or an eviction before the claim was stored, or the eviction of a player that is
\* dirty or still in the dirty set, which the deployment has to prevent, can make a
\* mail claimable again.  And a claim that was answered with OK has its items, although
\* the mails are marked long before Logic is asked.  (An error tells nothing: the
\* items may be there, may arrive later, or are gone.)
GrantedOnce ==
    \A m \in MailIds : /\ granted[m] > 1 => m \in atRisk
                       /\ m \in confirmed => granted[m] > 0
=============================================================================
