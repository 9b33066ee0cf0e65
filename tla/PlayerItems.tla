----------------------------- MODULE PlayerItems -----------------------------
(* The items of one player in Logic (service/logic/src/player.rs): UseItem,   *)
(* AddItems, RemoveItems, CheckItems and PlayerInfo, executed one at a time by *)
(* the player's runner (LogicRuntime!OneRunnerPerGid), with the save that      *)
(* follows each call, eviction, reload and process restarts.                  *)
(* i64 is scaled down to -(MaxI64 + 1) .. MaxI64.                              *)
EXTENDS Integers, Sequences, FiniteSets, FiniteSetsExt

CONSTANTS ItemIds,     \* valid item ids, positive numbers
          Counts,      \* valid counts of a requested item, positive numbers
          MaxI64,      \* the largest number of the scaled i64
          MaxEntries,  \* bound: entries of a request
          MaxUnsure,   \* bound: requests that take effect but are answered with an error
          None

ASSUME ItemConfig == /\ ItemIds \subseteq Nat \ {0} /\ Counts \subseteq 1..MaxI64
                     /\ {MaxI64, MaxEntries, MaxUnsure} \subseteq Nat

VARIABLES
    cell,       \* the cached PlayerState: [items, dirty], or None
    doc,        \* the player's items in Mongo, None before the first load
    panicked,   \* the runner died inside the player logic and poisoned its mutex
    answer,     \* status of the last answered request: "ok" or "error"
    \* History, for the properties only:
    acked,      \* per item, the sum of what successful answers said
    unsure,     \* changes made by requests answered with an error
    wrapped,    \* some accepted request had a sum beyond i64
    silent      \* memory holds changes that do not count as dirty

vars == <<cell, doc, panicked, answer, acked, unsure, wrapped, silent>>
history == <<acked, unsure, wrapped, silent>>

I64 == -(MaxI64 + 1) .. MaxI64
Wrap(n) == ((n + MaxI64 + 1) % (2 * (MaxI64 + 1))) - (MaxI64 + 1)
Inventories == UNION {[ids -> I64] : ids \in SUBSET ItemIds}
NoItems == [i \in {} |-> 0]
NoChange == [i \in ItemIds |-> 0]
Cells == [items : Inventories, dirty : BOOLEAN]

ASSUME NoneIsNew == None \notin Inventories \cup Cells

TypeOK ==
    /\ cell \in {None} \cup Cells
    /\ doc \in {None} \cup Inventories
    /\ panicked \in BOOLEAN /\ wrapped \in BOOLEAN /\ silent \in BOOLEAN
    /\ answer \in {"ok", "error"}
    /\ acked \in [ItemIds -> Int]
    /\ Len(unsure) <= MaxUnsure /\ \A k \in DOMAIN unsure : unsure[k] \in [ItemIds -> Int]

Init == /\ cell = None /\ doc = None /\ panicked = FALSE /\ answer = "error"
        /\ acked = NoChange /\ unsure = <<>> /\ wrapped = FALSE /\ silent = FALSE

-----------------------------------------------------------------------------
(* Requests *)

\* One invalid item stands for an item_id or a count that is not positive.
Invalid == [item_id |-> 0, count |-> 0]
Items == {Invalid} \cup [item_id : ItemIds, count : Counts]
Requests == UNION {[1..n -> Items] : n \in 0..MaxEntries}

Valid(request) == request # <<>> /\ \A k \in DOMAIN request : request[k].item_id > 0 /\ request[k].count > 0
Named(request) == {request[k].item_id : k \in DOMAIN request}

\* What the request asks for, as a mathematical sum; aggregate_items computes it
\* in i64, which wraps in a release build.
Requested(request) ==
    [i \in Named(request) |->
        SumFunctionOnSet([k \in DOMAIN request |-> request[k].count],
                         {k \in DOMAIN request : request[k].item_id = i})]
\* Mutant: the last entry of an item replaces the others.
LastEntry(request) ==
    [i \in Named(request) |-> LET k == Max({n \in DOMAIN request : request[n].item_id = i}) IN request[k].count]
AggregateItems(request) == [i \in Named(request) |-> Wrap(Requested(request)[i])]

CountOf(items, i) == IF i \in DOMAIN items THEN items[i] ELSE 0
Insert(items, new) == [i \in DOMAIN items \cup DOMAIN new |-> IF i \in DOMAIN new THEN new[i] ELSE items[i]]
DropZero(items, ids) == [i \in {j \in DOMAIN items : j \notin ids \/ items[j] # 0} |-> items[i]]

-----------------------------------------------------------------------------
(* The end of a call: run_gid saves a dirty player before await_logic answers. *)

Change(c) == [i \in ItemIds |-> CountOf(c, i)]
Negated(c) == [i \in DOMAIN c |-> 0 - c[i]]

\* A save that reports success, and one that fails before or after Mongo stored it.
\* Mutant: dirty is cleared although the document was not written.
ForgetWrite(items) == doc' = doc /\ cell' = [items |-> items, dirty |-> FALSE]
SaveOk(items) == doc' = items /\ cell' = [items |-> items, dirty |-> FALSE]
SaveFails(items) == doc' \in {doc, items} /\ cell' = [items |-> items, dirty |-> TRUE]

\* The books are closed once a sum has wrapped.
Overflows(request) == \E i \in Named(request) : Requested(request)[i] \notin I64
Book(sums, doubts) == /\ acked' = IF wrapped' THEN NoChange ELSE sums
                      /\ unsure' = IF wrapped' THEN <<>> ELSE doubts
Acknowledge(change) == Book([i \in ItemIds |-> acked[i] + change[i]], unsure)
Doubt(change) == IF change = NoChange THEN Book(acked, unsure)
                 ELSE Len(unsure) < MaxUnsure /\ Book(acked, Append(unsure, change))

\* The call computed `status` and changed the inventory to `items` by `change`.
Finish(status, items, dirty, change) ==
    \/ /\ dirty /\ SaveOk(items) /\ silent' = FALSE
       /\ answer' = status
       /\ IF status = "ok" THEN Acknowledge(change) ELSE Doubt(change)
    \/ /\ dirty /\ SaveFails(items) /\ silent' = FALSE
       /\ answer' = "error" /\ Doubt(change)
    \/ /\ ~dirty /\ cell' = [items |-> items, dirty |-> FALSE] /\ UNCHANGED doc
       /\ silent' = (silent \/ items # cell.items)
       /\ answer' = status
       /\ IF status = "ok" THEN Acknowledge(change) ELSE Doubt(change)

Loaded == cell # None /\ ~panicked

\* A call that ends without touching the inventory: invalid arguments, too few
\* items, or a mere read.
Untouched(status) == UNCHANGED <<panicked, wrapped>> /\ Finish(status, cell.items, cell.dirty, NoChange)

-----------------------------------------------------------------------------
(* Operations *)

PlayerInfo == Loaded /\ Untouched("ok")

UseItem(i, count) ==
    /\ Loaded
    /\ IF CountOf(cell.items, i) < count THEN Untouched("error")
       ELSE /\ UNCHANGED <<panicked, wrapped>>
            /\ Finish("ok", DropZero(Insert(cell.items, [j \in {i} |-> cell.items[i] - count]), {i}),
                      TRUE, Change([j \in {i} |-> 0 - count]))

UseInvalid == Loaded /\ Untouched("error")

\* checked_add succeeds.
Fits(n) == n \in I64

\* The loop of add_items visits a HashMap in any order and returns at the first
\* sum that overflows: any of the sums that fit may have been inserted by then.
AddItems(request) ==
    LET changes == AggregateItems(request)
        next == [i \in DOMAIN changes |-> CountOf(cell.items, i) + changes[i]]
        fit == {i \in DOMAIN next : Fits(next[i])}
        added(ids) == [i \in ids |-> next[i]]
    IN /\ Loaded /\ UNCHANGED panicked
       /\ \/ ~Valid(request) /\ Untouched("error")
          \/ /\ Valid(request) /\ fit = DOMAIN next
             /\ wrapped' = (wrapped \/ Overflows(request))
             /\ Finish("ok", Insert(cell.items, added(fit)), TRUE, Change(Requested(request)))
          \/ /\ Valid(request) /\ fit # DOMAIN next
             /\ wrapped' = (wrapped \/ Overflows(request))
             /\ \E ids \in SUBSET fit :
                   Finish("error", Insert(cell.items, added(ids)), cell.dirty,
                          Change([i \in ids |-> changes[i]]))

\* Some item of the request is not there in the amount asked for.
\* Mutant: every entry of the request is tested by itself.
TooFewOfAny(request) == \E k \in DOMAIN request : CountOf(cell.items, request[k].item_id) < request[k].count
Insufficient(request) == \E i \in Named(request) : CountOf(cell.items, i) < AggregateItems(request)[i]

\* data.items[&item_id] panics for an item that is not there, which the test
\* before it lets pass only when the amount has wrapped below zero.  What the loop
\* changed before that is lost with the poisoned state.
RemoveItems(request) ==
    LET changes == AggregateItems(request)
        left == [i \in DOMAIN changes |-> Wrap(CountOf(cell.items, i) - changes[i])]
        missing == DOMAIN changes \ DOMAIN cell.items
    IN /\ Loaded
       /\ \/ (~Valid(request) \/ Insufficient(request)) /\ Untouched("error")
          \/ /\ Valid(request) /\ ~Insufficient(request) /\ missing = {}
             /\ wrapped' = (wrapped \/ Overflows(request)) /\ UNCHANGED panicked
             /\ Finish("ok", DropZero(Insert(cell.items, left), DOMAIN left), TRUE,
                       Change(Negated(Requested(request))))
          \/ /\ Valid(request) /\ ~Insufficient(request) /\ missing # {}
             /\ wrapped' = (wrapped \/ Overflows(request)) /\ panicked' = TRUE
             /\ answer' = "error" /\ Book(acked, unsure) /\ UNCHANGED <<cell, doc, silent>>

CheckItems(request) ==
    Loaded /\ Untouched(IF Valid(request) THEN "ok" ELSE "error")

\* A wrong route, a call the runtime rejects, and a load that fails.
Refused == /\ answer' = "error" /\ UNCHANGED <<cell, doc, panicked, history>>

-----------------------------------------------------------------------------
(* Load, eviction, restart *)

\* The loader of the first call after an eviction creates a missing player.
Load == /\ cell = None
        /\ doc' = IF doc = None THEN NoItems ELSE doc
        /\ cell' = [items |-> doc', dirty |-> FALSE]
        /\ UNCHANGED <<panicked, answer, history>>

\* The create was stored, but the load fails.
LoadCreateFails == /\ cell = None /\ doc = None
                   /\ doc' = NoItems /\ answer' = "error"
                   /\ UNCHANGED <<cell, panicked, history>>

\* The cache drops the player and runs the fallback saver when it is dirty.
Evict == /\ Loaded
         /\ cell' = None /\ silent' = FALSE
         /\ IF cell.dirty THEN doc' \in {doc, cell.items} ELSE UNCHANGED doc
         /\ UNCHANGED <<panicked, answer, acked, unsure, wrapped>>

Restart == /\ cell' = None /\ panicked' = FALSE /\ silent' = FALSE
           /\ UNCHANGED <<doc, answer, acked, unsure, wrapped>>

Next ==
    \/ PlayerInfo \/ UseInvalid \/ Refused \/ Load \/ LoadCreateFails \/ Evict \/ Restart
    \/ \E i \in ItemIds, count \in Counts : UseItem(i, count)
    \/ \E request \in Requests : AddItems(request) \/ RemoveItems(request) \/ CheckItems(request)

Spec == Init /\ [][Next]_vars

-----------------------------------------------------------------------------
(* Properties *)

Stored(i) == IF doc = None THEN 0 ELSE CountOf(doc, i)

\* What the requests `kept`, answered with an error, changed of item i.
Kept(i, kept) == SumFunctionOnSet([k \in DOMAIN unsure |-> unsure[k][i]], kept)

\* Every item in Mongo is accounted for: the stored counts are what successful
\* answers added and removed, plus the changes of some of the requests that were
\* answered with an error.  Nothing else appears, disappears or counts twice, across
\* failed saves, evictions, reloads and restarts.
Accounted ==
    ~wrapped =>
        \E kept \in SUBSET DOMAIN unsure :
            \A i \in ItemIds : Stored(i) = acked[i] + Kept(i, kept)

\* A successful answer reports stored data: after it, memory and Mongo agree.  An
\* earlier call's failed save is made up for before the next call succeeds.
AnswerStored == answer = "ok" /\ cell # None /\ ~silent => cell.items = doc

\* No inventory holds a zero or a negative count and remove_items never panics,
\* as long as the sums of the requests fit an i64.
Solvent == ~wrapped => /\ ~panicked
                       /\ cell # None => \A i \in DOMAIN cell.items : cell.items[i] > 0
                       /\ doc # None => \A i \in DOMAIN doc : doc[i] > 0
=============================================================================
