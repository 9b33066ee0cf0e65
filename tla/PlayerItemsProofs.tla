-------------------------- MODULE PlayerItemsProofs --------------------------
(***************************************************************************)
(* Proof of Accounted, Solvent and AnswerStored, for requests of any       *)
(* length.                                                                 *)
(*                                                                         *)
(* Accounted speaks of the document; it is inductive together with the     *)
(* same statement about the cached player (Books), because a failed save   *)
(* leaves the two apart and a later save or eviction writes the cached     *)
(* one.  Its sums change by one request at a time (KeptAppend).  That a    *)
(* call changes memory by what it answers is shown per operation           *)
(* (UseItemKeeps, AddItemsKeeps, RemoveItemsKeeps), from what              *)
(* aggregate_items computes (ValidRequest): unless a sum overflows, it is  *)
(* the mathematical one and positive.  What happens at the end of every    *)
(* call is one lemma, FinishKeeps.                                         *)
(***************************************************************************)
EXTENDS PlayerItems, SumTheorems

USE ItemConfig

-----------------------------------------------------------------------------
(* Arithmetic of the scaled i64 *)

\* Wrapping always ends in the range of an i64, ...
LEMMA WrapIn == ASSUME NEW n \in Int PROVE Wrap(n) \in I64
<1> DEFINE m == 2 * (MaxI64 + 1)
           r == (n + MaxI64 + 1) % m
<1>1. m \in Int /\ m > 0 /\ n + MaxI64 + 1 \in Int OBVIOUS
<1>2. \A a, b \in Int : b > 0 => a % b \in 0..(b - 1) OBVIOUS
<1>3. r \in 0..(m - 1) BY <1>1, <1>2
<1>4. Wrap(n) = r - (MaxI64 + 1) BY DEF Wrap
<1> HIDE DEF r
<1> QED BY <1>3, <1>4 DEF I64

\* ... and leaves the numbers of the range alone.
LEMMA WrapSame == ASSUME NEW n \in I64 PROVE Wrap(n) = n
<1> DEFINE m == 2 * (MaxI64 + 1)
           a == n + MaxI64 + 1
<1>1. m \in Int /\ m > 0 /\ a \in Int /\ 0 <= a /\ a < m BY DEF I64
<1>2. \A x, y \in Int : 0 <= x /\ x < y => x % y = x OBVIOUS
<1>3. a % m = a BY <1>1, <1>2
<1>4. Wrap(n) = (a % m) - (MaxI64 + 1) BY DEF Wrap
<1> QED BY <1>3, <1>4 DEF I64

-----------------------------------------------------------------------------
(* Inventories *)

\* The functions from some item ids to the i64 are the inventories.
LEMMA ToInventory == ASSUME NEW ids \in SUBSET ItemIds, NEW items \in [ids -> I64] PROVE items \in Inventories
BY DEF Inventories
\* An inventory maps some item ids to counts.
LEMMA OfInventory == ASSUME NEW items \in Inventories
                     PROVE  /\ DOMAIN items \in SUBSET ItemIds
                            /\ items \in [DOMAIN items -> I64]
BY DEF Inventories

\* Zero is a number of the range, and so is every count.
LEMMA CountType == ASSUME NEW items \in Inventories, NEW i PROVE CountOf(items, i) \in I64
BY OfInventory DEF CountOf, I64

\* What HashMap::insert and the removal of a zero entry do to the counts.
LEMMA InsertCounts == ASSUME NEW items \in Inventories, NEW ids \in SUBSET ItemIds, NEW new \in [ids -> I64]
                      PROVE  /\ Insert(items, new) \in Inventories
                             /\ DOMAIN Insert(items, new) = DOMAIN items \cup ids
                             /\ \A i \in ids : CountOf(Insert(items, new), i) = new[i]
                             /\ \A i : i \notin ids => CountOf(Insert(items, new), i) = CountOf(items, i)
<1>1. DOMAIN items \in SUBSET ItemIds /\ items \in [DOMAIN items -> I64] BY OfInventory
<1>2. DOMAIN new = ids OBVIOUS
<1>3. Insert(items, new) \in [DOMAIN items \cup ids -> I64] BY <1>1, <1>2 DEF Insert
<1>4. DOMAIN items \cup ids \in SUBSET ItemIds BY <1>1
<1> QED BY <1>2, <1>3, <1>4, ToInventory DEF Insert, CountOf

\* Dropping the cells of a change that are empty changes no count.
LEMMA DropZeroCounts == ASSUME NEW items \in Inventories, NEW ids
                        PROVE  /\ DropZero(items, ids) \in Inventories
                               /\ \A i : CountOf(DropZero(items, ids), i) = CountOf(items, i)
                               /\ \A i \in DOMAIN DropZero(items, ids) :
                                     i \in DOMAIN items /\ DropZero(items, ids)[i] = items[i] /\ (i \in ids => items[i] # 0)
<1>1. DOMAIN items \in SUBSET ItemIds /\ items \in [DOMAIN items -> I64] BY OfInventory
<1> DEFINE left == {j \in DOMAIN items : j \notin ids \/ items[j] # 0}
<1>2. left \in SUBSET ItemIds BY <1>1
<1>3. DropZero(items, ids) \in [left -> I64] BY <1>1 DEF DropZero
<1>4. DropZero(items, ids) \in Inventories BY <1>2, <1>3, ToInventory
<1>5. \A i : CountOf(DropZero(items, ids), i) = CountOf(items, i)
  BY DEF DropZero, CountOf
<1>6. \A i \in DOMAIN DropZero(items, ids) :
         i \in DOMAIN items /\ DropZero(items, ids)[i] = items[i] /\ (i \in ids => items[i] # 0)
  BY DEF DropZero
<1> QED BY <1>4, <1>5, <1>6

-----------------------------------------------------------------------------
(* Requests *)

\* A valid request names items in positive amounts; the sums of aggregate_items are
\* numbers of the i64, and the right ones unless one of them overflows.
LEMMA ValidRequest == ASSUME NEW request \in Requests, Valid(request)
                      PROVE  /\ Named(request) \in SUBSET ItemIds
                             /\ DOMAIN Requested(request) = Named(request)
                             /\ \A i \in Named(request) : Requested(request)[i] \in Nat \ {0}
                             /\ AggregateItems(request) \in [Named(request) -> I64]
                             /\ ~Overflows(request) => \A i \in Named(request) : AggregateItems(request)[i] = Requested(request)[i]
<1>1. PICK n \in Nat : request \in [1..n -> Items] BY DEF Requests
<1>2. \A k \in 1..n : request[k].item_id \in ItemIds /\ request[k].count \in Counts
  <2> SUFFICES ASSUME NEW k \in 1..n PROVE request[k].item_id \in ItemIds /\ request[k].count \in Counts OBVIOUS
  <2>0. DOMAIN request = 1..n BY <1>1
  <2>1. request[k] \in Items /\ request[k].item_id > 0 BY <1>1, <2>0 DEF Valid
  <2>2. request[k] # Invalid BY <2>1 DEF Invalid
  <2> QED BY <2>1, <2>2 DEF Items
<1>3. Named(request) \in SUBSET ItemIds BY <1>1, <1>2 DEF Named
<1>4. DOMAIN Requested(request) = Named(request) BY DEF Requested
<1>5. ASSUME NEW i \in Named(request) PROVE Requested(request)[i] \in Nat \ {0}
  <2> DEFINE counts == [k \in DOMAIN request |-> request[k].count]
             entries == {k \in DOMAIN request : request[k].item_id = i}
  <2>1. Requested(request)[i] = SumFunctionOnSet(counts, entries) BY DEF Requested
  <2>2. IsFiniteSet(1..n) BY FS_Interval
  <2>3. entries \subseteq 1..n BY <1>1
  <2>4. IsFiniteSet(entries) BY <2>2, <2>3, FS_Subset
  <2>5. \A k \in entries : counts[k] \in Nat /\ counts[k] > 0
    <3>1. \A k \in entries : k \in 1..n /\ counts[k] = request[k].count BY <2>3
    <3>2. \A c \in Counts : c \in Nat /\ c > 0 OBVIOUS
    <3> QED BY <1>2, <3>1, <3>2
  <2>6. PICK k \in entries : TRUE BY DEF Named
  <2> HIDE DEF counts, entries
  <2>7. SumFunctionOnSet(counts, entries) \in Nat /\ counts[k] <= SumFunctionOnSet(counts, entries) BY <2>4, <2>5, SumNat
  <2> QED BY <2>1, <2>5, <2>7
<1>6. AggregateItems(request) \in [Named(request) -> I64]
  <2>1. \A i \in Named(request) : Wrap(Requested(request)[i]) \in I64 BY <1>5, WrapIn
  <2> QED BY <2>1 DEF AggregateItems
<1>7. ASSUME ~Overflows(request), NEW i \in Named(request) PROVE AggregateItems(request)[i] = Requested(request)[i]
  <2>1. Requested(request)[i] \in I64 BY <1>7 DEF Overflows
  <2> QED BY <2>1, WrapSame DEF AggregateItems
<1> QED BY <1>3, <1>4, <1>5, <1>6, <1>7

-----------------------------------------------------------------------------
(* The books *)

ItemTypes ==
    /\ cell \in {None} \cup Cells
    /\ doc \in {None} \cup Inventories
    /\ acked \in [ItemIds -> Int]
    /\ unsure \in Seq([ItemIds -> Int])
    /\ silent \in BOOLEAN /\ wrapped \in BOOLEAN

\* The requests of `kept` and the acknowledged ones explain an inventory.
Explains(kept, items) == \A i \in ItemIds : CountOf(items, i) = acked[i] + Kept(i, kept)
Explained(items) == \E kept \in SUBSET DOMAIN unsure : Explains(kept, items)

\* A request changes `old` by `change` to `new`.
Moves(old, change, new) == \A i \in ItemIds : CountOf(new, i) = CountOf(old, i) + change[i]

\* The sums over requests answered with an error.
LEMMA KeptType == ASSUME ItemTypes, NEW kept \in SUBSET DOMAIN unsure, NEW i \in ItemIds
                  PROVE  /\ IsFiniteSet(kept) /\ Kept(i, kept) \in Int
                         /\ \A k \in DOMAIN unsure : unsure[k][i] \in Int
<1>1. DOMAIN unsure = 1..Len(unsure) /\ Len(unsure) \in Nat /\ \A k \in DOMAIN unsure : unsure[k] \in [ItemIds -> Int]
  BY DEF ItemTypes
<1>2. IsFiniteSet(kept)
  <2>1. IsFiniteSet(1..Len(unsure)) BY <1>1, FS_Interval
  <2>2. kept \in SUBSET (1..Len(unsure)) BY <1>1
  <2> QED BY <2>1, <2>2, FS_Subset
<1> DEFINE f == [k \in DOMAIN unsure |-> unsure[k][i]]
<1>3. \A k \in kept : f[k] \in Int BY <1>1
<1> HIDE DEF f
<1>4. SumFunctionOnSet(f, kept) \in Int BY <1>2, <1>3, SumType
<1> QED BY <1>1, <1>2, <1>4 DEF Kept, f

\* Appending a request leaves the sums over the earlier ones alone and adds its own.
LEMMA KeptAppend == ASSUME ItemTypes, NEW change \in [ItemIds -> Int], NEW n, n \notin DOMAIN unsure,
                           DOMAIN unsure' = DOMAIN unsure \cup {n}, unsure'[n] = change,
                           \A k \in DOMAIN unsure : unsure'[k] = unsure[k],
                           NEW kept \in SUBSET DOMAIN unsure, NEW more, more = kept \cup {n}, NEW i \in ItemIds
                    PROVE  Kept(i, kept)' = Kept(i, kept) /\ Kept(i, more)' = Kept(i, kept) + change[i]
<1>1. \A k \in DOMAIN unsure : unsure'[k] = unsure[k] OBVIOUS
<1>2. n \notin kept /\ n \in DOMAIN unsure' /\ kept \subseteq DOMAIN unsure' OBVIOUS
<1>3. IsFiniteSet(kept) /\ \A k \in DOMAIN unsure : unsure[k][i] \in Int BY KeptType
<1> DEFINE f == [k \in DOMAIN unsure |-> unsure[k][i]]
           g == [k \in DOMAIN unsure' |-> unsure'[k][i]]
<1>4. \A k \in kept : g[k] = f[k] BY <1>1, <1>2
<1>5. \A k \in kept \cup {n} : g[k] \in Int BY <1>1, <1>2, <1>3
<1>6. g[n] = change[i] BY <1>1, <1>2
<1>7. Kept(i, kept) = SumFunctionOnSet(f, kept) /\ Kept(i, kept)' = SumFunctionOnSet(g, kept)
      /\ Kept(i, more)' = SumFunctionOnSet(g, more)
  BY DEF Kept
<1> HIDE DEF f, g
<1>8. SumFunctionOnSet(g, kept) = SumFunctionOnSet(f, kept) BY <1>3, <1>4, SumSame
<1>9. SumFunctionOnSet(g, kept \cup {n}) = SumFunctionOnSet(g, kept) + g[n] BY <1>2, <1>3, <1>5, SumAdd
<1> QED BY <1>2, <1>6, <1>7, <1>8, <1>9

\* A successful answer enters its change in the books.
LEMMA AcknowledgeExplains ==
  ASSUME ItemTypes, ~wrapped', NEW change \in [ItemIds -> Int], Acknowledge(change),
         NEW old \in Inventories, NEW new \in Inventories, Explained(old), Moves(old, change, new)
  PROVE  Explained(new)'
<1>1. acked' = [i \in ItemIds |-> acked[i] + change[i]] /\ unsure' = unsure BY DEF Acknowledge, Book
<1>2. PICK kept \in SUBSET DOMAIN unsure : Explains(kept, old) BY DEF Explained
<1>3. ASSUME NEW i \in ItemIds PROVE CountOf(new, i) = acked'[i] + Kept(i, kept)'
  <2>1. Kept(i, kept)' = Kept(i, kept) /\ acked'[i] = acked[i] + change[i] BY <1>1 DEF Kept
  <2>2. CountOf(old, i) = acked[i] + Kept(i, kept) BY <1>2 DEF Explains
  <2>3. Kept(i, kept) \in Int /\ acked[i] \in Int /\ change[i] \in Int BY KeptType DEF ItemTypes
  <2> QED BY <2>1, <2>2, <2>3 DEF Moves
<1>4. Explains(kept, new)' BY <1>3 DEF Explains
<1> QED BY <1>1, <1>4 DEF Explained

\* An error leaves it open whether the change happened: both are explained.
LEMMA DoubtExplains ==
  ASSUME ItemTypes, ~wrapped', NEW change \in [ItemIds -> Int], Doubt(change),
         NEW old \in Inventories, Explained(old)
  PROVE  /\ Explained(old)'
         /\ \A new \in Inventories : Moves(old, change, new) => Explained(new)'
<1>1. PICK kept \in SUBSET DOMAIN unsure : Explains(kept, old) BY DEF Explained
<1>2. \A i \in ItemIds : CountOf(old, i) = acked[i] + Kept(i, kept) /\ acked[i] \in Int /\ Kept(i, kept) \in Int
  BY <1>1, KeptType DEF Explains, ItemTypes
<1>3. CASE change = NoChange
  <2>1. acked' = acked /\ unsure' = unsure BY <1>3 DEF Doubt, Book
  <2>2. \A i \in ItemIds : Kept(i, kept)' = Kept(i, kept) BY <2>1 DEF Kept
  <2>3. Explains(kept, old)' BY <1>2, <2>1, <2>2 DEF Explains
  <2>4. ASSUME NEW new \in Inventories, Moves(old, change, new) PROVE Explains(kept, new)'
    <3>1. \A i \in ItemIds : CountOf(new, i) = CountOf(old, i) + 0 BY <1>3, <2>4 DEF Moves, NoChange
    <3>2. \A i \in ItemIds : CountOf(new, i) = acked'[i] + Kept(i, kept)' BY <1>2, <2>1, <2>2, <3>1
    <3> QED BY <3>2 DEF Explains
  <2> QED BY <2>1, <2>3, <2>4 DEF Explained
<1>4. CASE change # NoChange
  <2>1. acked' = acked /\ unsure' = Append(unsure, change) BY <1>4 DEF Doubt, Book
  <2>2. PICK n : n = Len(unsure) + 1 OBVIOUS
  <2>n. /\ n \notin DOMAIN unsure /\ DOMAIN unsure' = DOMAIN unsure \cup {n} /\ unsure'[n] = change
        /\ \A k \in DOMAIN unsure : unsure'[k] = unsure[k]
    BY <2>1, <2>2 DEF ItemTypes
  <2>3. PICK more : more = kept \cup {n} OBVIOUS
  <2>4. kept \in SUBSET DOMAIN unsure' /\ more \in SUBSET DOMAIN unsure' BY <2>1, <2>2, <2>3 DEF ItemTypes
  <2>5. ASSUME NEW i \in ItemIds PROVE Kept(i, kept)' = Kept(i, kept) /\ Kept(i, more)' = Kept(i, kept) + change[i]
    BY <2>n, <2>3, KeptAppend
  <2>6. Explains(kept, old)' BY <1>2, <2>1, <2>5 DEF Explains
  <2>7. ASSUME NEW new \in Inventories, Moves(old, change, new) PROVE Explains(more, new)'
    <3>1. \A i \in ItemIds : CountOf(new, i) = CountOf(old, i) + change[i] /\ change[i] \in Int BY <2>7 DEF Moves
    <3>2. \A i \in ItemIds : CountOf(new, i) = acked'[i] + Kept(i, more)' BY <1>2, <2>1, <2>5, <3>1
    <3> QED BY <3>2 DEF Explains
  <2> QED BY <2>4, <2>6, <2>7 DEF Explained
<1> QED BY <1>3, <1>4

-----------------------------------------------------------------------------
(* The inductive invariant *)

DocItems == IF doc = None THEN NoItems ELSE doc

\* The books explain the document and the cached player.
Books == ~wrapped => /\ Explained(DocItems)
                     /\ cell # None => Explained(cell.items)

\* A clean cell agrees with the document, unless a failed add_items changed it in
\* passing, and a player whose last answer was a success is clean.
Clean == /\ cell # None /\ cell.dirty = FALSE /\ silent = FALSE => cell.items = doc
         /\ cell # None /\ answer = "ok" => cell.dirty = FALSE

ItemInv == ItemTypes /\ Solvent /\ Books /\ Clean

Positive(items) == \A i \in DOMAIN items : items[i] > 0

\* The inventory of a new player.
LEMMA NoItemsType == NoItems \in Inventories /\ Positive(NoItems) /\ \A i : CountOf(NoItems, i) = 0
<1>1. {} \in SUBSET ItemIds /\ NoItems \in [{} -> I64] /\ DOMAIN NoItems = {} BY DEF NoItems
<1>2. NoItems \in Inventories BY <1>1, ToInventory
<1> QED BY <1>1, <1>2 DEF Positive, CountOf

\* None is neither an inventory nor a cell.
LEMMA Names == /\ None \notin Inventories /\ None \notin Cells
               /\ NoChange \in [ItemIds -> Int] /\ \A i \in ItemIds : NoChange[i] = 0
BY NoneIsNew DEF NoChange

\* The end of a call.
LEMMA FinishKeeps ==
  ASSUME ItemInv, Loaded, NEW status \in {"ok", "error"}, NEW old \in Inventories, old = cell.items,
         NEW items \in Inventories, NEW d \in BOOLEAN, NEW change \in [ItemIds -> Int],
         Finish(status, items, d, change), panicked' = panicked, wrapped' \in BOOLEAN, wrapped => wrapped',
         d = FALSE => cell.dirty = FALSE, status = "ok" /\ d = FALSE => change = NoChange,
         ~wrapped' => Positive(items) /\ Moves(old, change, items)
  PROVE  ItemInv'
<1>0. ItemTypes /\ cell \in Cells /\ cell # None BY DEF ItemInv, ItemTypes, Loaded
<1>1. /\ cell' \in {[items |-> items, dirty |-> FALSE], [items |-> items, dirty |-> TRUE]}
      /\ doc' = doc \/ doc' = items
      /\ \/ status = "ok" /\ Acknowledge(change) /\ doc' = items
         \/ status = "ok" /\ Acknowledge(change) /\ doc' = doc /\ change = NoChange
         \/ Doubt(change)
  BY DEF Finish, SaveOk, SaveFails
<1>2. cell' \in Cells /\ cell'.items = items /\ cell' # None
  <2>1. PICK b \in BOOLEAN : cell' = [items |-> items, dirty |-> b] BY <1>1
  <2>2. cell' \in Cells /\ cell'.items = items BY <2>1 DEF Cells
  <2> QED BY <2>2, Names
<1>3. ItemTypes'
  <2>1. /\ acked \in [ItemIds -> Int] /\ NoChange \in [ItemIds -> Int] /\ unsure \in Seq([ItemIds -> Int])
        /\ doc \in {None} \cup Inventories
    BY <1>0, Names DEF ItemTypes
  <2>2. CASE Acknowledge(change)
    <3>1. acked' \in [ItemIds -> Int] /\ unsure' \in Seq([ItemIds -> Int]) BY <2>1, <2>2 DEF Acknowledge, Book
    <3>2. silent' \in BOOLEAN BY DEF Finish
    <3> QED BY <1>1, <1>2, <2>1, <3>1, <3>2 DEF ItemTypes
  <2>3. CASE Doubt(change)
    <3>0. Append(unsure, change) \in Seq([ItemIds -> Int]) BY <2>1
    <3>1. acked' \in [ItemIds -> Int] /\ unsure' \in Seq([ItemIds -> Int]) 
      <4>1. \/ (acked' = NoChange /\ unsure' = <<>>) \/ (acked' = acked /\ unsure' = unsure)
            \/ (acked' = acked /\ unsure' = Append(unsure, change))
        BY <2>3 DEF Doubt, Book
      <4>2. <<>> \in Seq([ItemIds -> Int]) OBVIOUS
      <4> QED BY <2>1, <3>0, <4>1, <4>2
    <3>2. silent' \in BOOLEAN BY DEF Finish
    <3> QED BY <1>1, <1>2, <2>1, <3>1, <3>2 DEF ItemTypes
  <2> QED BY <1>1, <2>2, <2>3
<1>4. Solvent'
  <2>1. ASSUME ~wrapped' PROVE ~panicked' /\ Positive(items) /\ (doc' # None => Positive(doc'))
    BY <1>1, <2>1 DEF ItemInv, Solvent, Positive
  <2> QED BY <1>2, <2>1 DEF Solvent, Positive
<1>5. Books'
  <2> SUFFICES ASSUME ~wrapped' PROVE Explained(DocItems)' /\ Explained(cell.items)' BY DEF Books
  <2>1. PICK e \in Inventories : e = DocItems BY <1>0, NoItemsType DEF ItemTypes, DocItems
  <2>2. Explained(e) /\ Explained(old) /\ Moves(old, change, items)
    BY <1>0, <2>1 DEF ItemInv, Books
  <2>3. DocItems' = e \/ DocItems' = items BY <1>1, <2>1, Names DEF DocItems
  <2>4. Explained(items)' /\ (doc' = items \/ Explained(e)')
    <3>1. CASE Acknowledge(change)
      <4>1. Explained(items)' BY <1>0, <2>2, <3>1, AcknowledgeExplains
      <4>2. ASSUME change = NoChange PROVE Explained(e)'
        <5>1. \A i \in ItemIds : CountOf(e, i) = CountOf(e, i) + 0 BY CountType DEF I64
        <5>2. Moves(e, change, e) BY <4>2, <5>1, Names DEF Moves
        <5> QED BY <1>0, <2>2, <3>1, <5>2, AcknowledgeExplains
      <4>3. CASE Doubt(change) BY <1>0, <2>2, <4>3, DoubtExplains
      <4> QED BY <1>1, <4>1, <4>2, <4>3
    <3>2. CASE Doubt(change) BY <1>0, <2>2, <3>2, DoubtExplains
    <3> QED BY <1>1, <3>1, <3>2
  <2>5. doc' = items => DocItems' = items BY Names DEF DocItems
  <2>6. CASE DocItems' = items BY <1>2, <2>4, <2>6 DEF Explained, Explains
  <2>7. CASE DocItems' = e /\ Explained(e)' BY <1>2, <2>4, <2>7 DEF Explained, Explains
  <2> QED BY <2>3, <2>4, <2>5, <2>6, <2>7
<1>6. Clean'
  <2>1. CASE d /\ SaveOk(items) BY <2>1, <1>2 DEF SaveOk, Clean
  <2>2. CASE d /\ SaveFails(items) /\ answer' = "error" BY <1>2, <2>2 DEF SaveFails, Clean
  <2>3. CASE ~d /\ cell' = [items |-> items, dirty |-> FALSE] /\ UNCHANGED doc /\ silent' = (silent \/ items # cell.items)
    <3>1. ASSUME silent' = FALSE PROVE items = doc
      <4>1. silent = FALSE /\ items = cell.items BY <1>0, <2>3, <3>1 DEF ItemTypes
      <4> QED BY <1>0, <2>3, <4>1 DEF ItemInv, Clean
    <3>2. cell'.dirty = FALSE /\ cell'.items = items /\ doc' = doc BY <2>3
    <3> QED BY <3>1, <3>2 DEF Clean
  <2> QED BY <2>1, <2>2, <2>3 DEF Finish
<1> QED BY <1>3, <1>4, <1>5, <1>6 DEF ItemInv

-----------------------------------------------------------------------------
(* The operations *)

\* The cached player of a call.
LEMMA InHand == ASSUME ItemInv, Loaded
                PROVE  /\ cell.items \in Inventories /\ cell.dirty \in BOOLEAN
                       /\ wrapped \in BOOLEAN /\ (~wrapped => Positive(cell.items))
                       /\ Moves(cell.items, NoChange, cell.items)
<1>1. cell \in Cells /\ cell # None /\ wrapped \in BOOLEAN BY DEF ItemInv, ItemTypes, Loaded
<1>2. cell.items \in Inventories /\ cell.dirty \in BOOLEAN BY <1>1 DEF Cells
<1>3. ~wrapped => Positive(cell.items) BY <1>1 DEF ItemInv, Solvent, Positive
<1>4. \A i \in ItemIds : CountOf(cell.items, i) = CountOf(cell.items, i) + 0 BY <1>2, CountType DEF I64
<1>5. Moves(cell.items, NoChange, cell.items) BY <1>4, Names DEF Moves
<1> QED BY <1>1, <1>2, <1>3, <1>5

\* A call that changes nothing.
LEMMA UntouchedKeeps == ASSUME ItemInv, Loaded, NEW status \in {"ok", "error"}, Untouched(status) PROVE ItemInv'
<1>1. PICK old \in Inventories : old = cell.items BY InHand
<1>2. PICK d \in BOOLEAN : d = cell.dirty BY InHand
<1>3. Finish(status, old, d, NoChange) /\ panicked' = panicked /\ wrapped' = wrapped BY <1>1, <1>2 DEF Untouched
<1>4. ~wrapped' => Positive(old) /\ Moves(old, NoChange, old) BY <1>1, <1>3, InHand
<1>5. wrapped' \in BOOLEAN /\ (wrapped => wrapped') BY <1>3, InHand
<1>6. d = FALSE => cell.dirty = FALSE BY <1>2
<1> QED BY <1>1, <1>3, <1>4, <1>5, <1>6, Names, FinishKeeps

\* UseItem takes its count from an item that is there.
LEMMA UseItemKeeps == ASSUME ItemInv, NEW i \in ItemIds, NEW count \in Counts, UseItem(i, count) PROVE ItemInv'
<1>0. Loaded BY DEF UseItem
<1>1. PICK old \in Inventories : old = cell.items BY <1>0, InHand
<1>2. CASE CountOf(old, i) < count BY <1>0, <1>1, <1>2, UntouchedKeeps DEF UseItem
<1>3. CASE ~(CountOf(old, i) < count)
  <2>1. PICK left : left = [j \in {i} |-> old[i] - count] OBVIOUS
  <2>2. PICK items : items = DropZero(Insert(old, left), {i}) OBVIOUS
  <2>3. PICK change : change = Change([j \in {i} |-> 0 - count]) OBVIOUS
  <2>4. Finish("ok", items, TRUE, change) /\ panicked' = panicked /\ wrapped' = wrapped
    BY <1>1, <1>3, <2>1, <2>2, <2>3 DEF UseItem
  <2>5. CountOf(old, i) \in I64 BY CountType
  <2>6. count \in Int /\ count > 0 /\ MaxI64 \in Nat OBVIOUS
  <2>7. i \in DOMAIN old /\ CountOf(old, i) = old[i] BY <1>3, <2>6 DEF CountOf
  <2>8. old[i] - count \in I64 /\ old[i] - count >= 0 BY <1>3, <2>5, <2>6, <2>7 DEF I64
  <2>9. {i} \in SUBSET ItemIds /\ left \in [{i} -> I64] /\ left[i] = old[i] - count BY <2>1, <2>8
  <2> DEFINE mid == Insert(old, left)
  <2>10. /\ mid \in Inventories /\ DOMAIN mid = DOMAIN old \cup {i}
         /\ CountOf(mid, i) = left[i] /\ \A j : j # i => CountOf(mid, j) = CountOf(old, j)
    BY <2>9, InsertCounts
  <2> HIDE DEF mid
  <2>11. /\ items \in Inventories /\ \A j : CountOf(items, j) = CountOf(mid, j)
         /\ \A j \in DOMAIN items : j \in DOMAIN mid /\ items[j] = mid[j] /\ (j \in {i} => mid[j] # 0)
    BY <2>2, <2>10, DropZeroCounts DEF mid
  <2>12. change \in [ItemIds -> Int] /\ \A j \in ItemIds : change[j] = IF j = i THEN 0 - count ELSE 0
    BY <2>3, <2>6 DEF Change, CountOf
  <2>13. Moves(old, change, items)
    <3> SUFFICES ASSUME NEW j \in ItemIds PROVE CountOf(items, j) = CountOf(old, j) + change[j] BY DEF Moves
    <3>1. CountOf(items, j) = IF j = i THEN old[i] - count ELSE CountOf(old, j) BY <2>9, <2>10, <2>11
    <3>2. CountOf(old, j) \in Int BY CountType DEF I64
    <3> QED BY <2>6, <2>7, <2>12, <3>1, <3>2
  <2>14. ASSUME Positive(old) PROVE Positive(items)
    <3> SUFFICES ASSUME NEW j \in DOMAIN items PROVE items[j] > 0 BY DEF Positive
    <3>1. items[j] = CountOf(mid, j) BY <2>11 DEF CountOf
    <3>2. CASE j = i
      <4>1. items[j] = old[i] - count /\ items[j] # 0 BY <2>9, <2>10, <2>11, <3>1, <3>2
      <4> QED BY <2>8, <4>1 DEF I64
    <3>3. CASE j # i
      <4>1. j \in DOMAIN old /\ items[j] = old[j] BY <2>10, <2>11, <3>1, <3>3 DEF CountOf
      <4> QED BY <2>14, <4>1 DEF Positive
    <3> QED BY <3>2, <3>3
  <2>15. ~wrapped' => Positive(items) /\ Moves(old, change, items) BY <1>0, <1>1, <2>4, <2>13, <2>14, InHand
  <2>16. wrapped' \in BOOLEAN /\ (wrapped => wrapped') BY <1>0, <2>4, InHand
  <2> QED BY <1>0, <1>1, <2>4, <2>11, <2>12, <2>15, <2>16, FinishKeeps
<1> QED BY <1>2, <1>3

\* Adding positive amounts to some of the items, as far as add_items came.
LEMMA Added == ASSUME NEW old \in Inventories, NEW named \in SUBSET ItemIds, NEW changes \in [named -> I64],
                      NEW ids \in SUBSET named, NEW new \in [ids -> I64], NEW items, items = Insert(old, new),
                      \A i \in ids : new[i] = CountOf(old, i) + changes[i],
                      NEW change, change = Change([i \in ids |-> changes[i]])
               PROVE  /\ items \in Inventories /\ change \in [ItemIds -> Int] /\ Moves(old, change, items)
                      /\ Positive(old) /\ (\A i \in named : changes[i] > 0) => Positive(items)
<1>1. ids \in SUBSET ItemIds OBVIOUS
<1>2. /\ items \in Inventories /\ DOMAIN items = DOMAIN old \cup ids
      /\ \A i \in ids : CountOf(items, i) = new[i]
      /\ \A i : i \notin ids => CountOf(items, i) = CountOf(old, i)
  BY <1>1, InsertCounts
<1>3. \A i \in ids : changes[i] \in Int BY DEF I64
<1>4. change = [i \in ItemIds |-> IF i \in ids THEN changes[i] ELSE 0]
  <2> DEFINE c == [i \in ids |-> changes[i]]
  <2>1. DOMAIN c = ids /\ \A i \in ids : c[i] = changes[i] OBVIOUS
  <2>2. change = [i \in ItemIds |-> CountOf(c, i)] BY DEF Change
  <2> HIDE DEF c
  <2> QED BY <2>1, <2>2 DEF CountOf
<1>5. change \in [ItemIds -> Int] BY <1>3, <1>4
<1>6. Moves(old, change, items)
  <2> SUFFICES ASSUME NEW j \in ItemIds PROVE CountOf(items, j) = CountOf(old, j) + change[j] BY DEF Moves
  <2>1. CountOf(old, j) \in Int BY CountType DEF I64
  <2>2. CASE j \in ids BY <1>2, <1>4, <2>2
  <2>3. CASE j \notin ids
    <3>1. CountOf(items, j) = CountOf(old, j) /\ change[j] = 0 BY <1>2, <1>4, <2>3
    <3> QED BY <2>1, <3>1
  <2> QED BY <2>2, <2>3
<1>7. ASSUME Positive(old), \A i \in named : changes[i] > 0, NEW j \in DOMAIN items PROVE items[j] > 0
  <2>1. items[j] = CountOf(items, j) BY DEF CountOf
  <2>2. CASE j \in ids
    <3>1. items[j] = CountOf(old, j) + changes[j] BY <1>2, <2>1, <2>2
    <3>2. CountOf(old, j) \in Int BY CountType DEF I64
    <3>3. CountOf(old, j) >= 0 BY <1>7, <3>2 DEF Positive, CountOf
    <3>4. changes[j] \in Int /\ changes[j] > 0 BY <1>3, <1>7, <2>2
    <3> QED BY <3>1, <3>2, <3>3, <3>4
  <2>3. CASE j \notin ids
    <3>1. j \in DOMAIN old /\ items[j] = old[j] BY <1>2, <2>1, <2>3 DEF CountOf
    <3> QED BY <1>7, <3>1 DEF Positive
  <2> QED BY <2>2, <2>3
<1> QED BY <1>2, <1>5, <1>6, <1>7 DEF Positive

\* AddItems, complete or cut short by a sum that does not fit.
LEMMA AddItemsKeeps == ASSUME ItemInv, NEW request \in Requests, AddItems(request) PROVE ItemInv'
<1>0. Loaded /\ panicked' = panicked BY DEF AddItems
<1>1. PICK old \in Inventories : old = cell.items BY <1>0, InHand
<1>2. CASE Untouched("error") BY <1>0, <1>2, UntouchedKeeps
<1>3. CASE Valid(request) /\ ~Untouched("error")
  <2>1. PICK named \in SUBSET ItemIds : named = Named(request) BY <1>3, ValidRequest
  <2>2. PICK changes \in [named -> I64] : changes = AggregateItems(request) BY <1>3, <2>1, ValidRequest
  <2>3. DOMAIN changes = named BY <2>2
  <2> DEFINE next == [i \in named |-> CountOf(old, i) + changes[i]]
             fit == {i \in named : Fits(next[i])}
  <2>4. ASSUME NEW ids \in SUBSET fit PROVE /\ [i \in ids |-> next[i]] \in [ids -> I64] /\ ids \in SUBSET named
                                            /\ \A i \in ids : next[i] = CountOf(old, i) + changes[i]
    BY DEF Fits
  <2>5. wrapped' = (wrapped \/ Overflows(request)) BY <1>3 DEF AddItems
  <2>6. /\ wrapped' \in BOOLEAN /\ (wrapped => wrapped')
        /\ ~wrapped' => ~wrapped /\ ~Overflows(request)
    BY <2>5
  <2>7. ~wrapped' => Positive(old) BY <1>0, <1>1, <2>6, InHand
  <2>8. ~wrapped' => \A i \in named : changes[i] > 0
    <3>1. ASSUME ~wrapped', NEW i \in named PROVE changes[i] > 0
      <4>1. changes[i] = Requested(request)[i] /\ Requested(request)[i] \in Nat \ {0}
        BY <1>3, <2>1, <2>2, <2>6, <3>1, ValidRequest
      <4> QED BY <4>1
    <3> QED BY <3>1
  <2>9. ASSUME NEW ids \in SUBSET fit, NEW status \in {"ok", "error"}, NEW d \in BOOLEAN, NEW change,
               change = Change([i \in ids |-> changes[i]]),
               ~wrapped' => Finish(status, Insert(old, [i \in ids |-> next[i]]), d, change),
               wrapped' => \E other \in [ItemIds -> Int] : Finish(status, Insert(old, [i \in ids |-> next[i]]), d, other),
               d = FALSE => cell.dirty = FALSE, status = "ok" => d
        PROVE  ItemInv'
    <3>1. PICK new \in [ids -> I64] : new = [i \in ids |-> next[i]] BY <2>4
    <3>2. PICK items : items = Insert(old, new) OBVIOUS
    <3>3. \A i \in ids : new[i] = CountOf(old, i) + changes[i] BY <2>4, <3>1
    <3>4. ids \in SUBSET named BY <2>4
    <3> HIDE DEF next, fit
    <3>5. /\ items \in Inventories /\ change \in [ItemIds -> Int] /\ Moves(old, change, items)
          /\ Positive(old) /\ (\A i \in named : changes[i] > 0) => Positive(items)
      BY <2>9, <3>2, <3>3, <3>4, Added
    <3>6. ~wrapped' => Positive(items) /\ Moves(old, change, items) BY <2>7, <2>8, <3>5
    <3>7. CASE ~wrapped' BY ZenonT(60), <1>0, <1>1, <2>6, <2>9, <3>1, <3>2, <3>5, <3>6, <3>7, FinishKeeps
    <3>8. CASE wrapped'
      <4>1. PICK other \in [ItemIds -> Int] : Finish(status, items, d, other) BY <2>9, <3>1, <3>2, <3>8
      <4> QED BY <1>0, <1>1, <2>6, <2>9, <3>5, <3>8, <4>1, FinishKeeps
    <3> QED BY <3>7, <3>8
  <2>10. CASE fit = DOMAIN next
    <3>1. Finish("ok", Insert(old, [i \in fit |-> next[i]]), TRUE, Change(Requested(request)))
      BY <1>1, <1>3, <2>2, <2>3, <2>10 DEF AddItems
    <3>2. fit = named BY <2>10
    <3>3. Change(Requested(request)) \in [ItemIds -> Int]
      BY <1>3, ValidRequest DEF Change, CountOf
    <3>4. ASSUME ~wrapped' PROVE Change(Requested(request)) = Change([i \in fit |-> changes[i]])
      <4>1. \A i \in named : changes[i] = Requested(request)[i] BY <1>3, <2>1, <2>2, <2>6, <3>4, ValidRequest
      <4>2. DOMAIN Requested(request) = named BY <1>3, <2>1, ValidRequest
      <4> QED BY <3>2, <4>1, <4>2 DEF Change, CountOf
    <3>5. fit \in SUBSET fit OBVIOUS
    <3> QED BY <2>9, <3>1, <3>3, <3>4, <3>5
  <2>11. CASE fit # DOMAIN next
    <3>1. PICK ids \in SUBSET fit : Finish("error", Insert(old, [i \in ids |-> next[i]]), cell.dirty,
                                           Change([i \in ids |-> changes[i]]))
      BY <1>1, <1>3, <2>2, <2>3, <2>11 DEF AddItems
    <3>2. Change([i \in ids |-> changes[i]]) \in [ItemIds -> Int] BY <2>4 DEF Change, CountOf, I64
    <3>3. cell.dirty \in BOOLEAN BY <1>0, InHand
    <3> QED BY <2>9, <3>1, <3>2, <3>3
  <2> QED BY <2>10, <2>11
<1> QED BY <1>2, <1>3 DEF AddItems

\* RemoveItems takes what the request names, if all of it is there.
LEMMA RemoveItemsKeeps == ASSUME ItemInv, NEW request \in Requests, RemoveItems(request) PROVE ItemInv'
<1>0. Loaded BY DEF RemoveItems
<1>1. PICK old \in Inventories : old = cell.items BY <1>0, InHand
<1>2. CASE Untouched("error") BY <1>0, <1>2, UntouchedKeeps
<1>3. CASE Valid(request) /\ ~Insufficient(request) /\ ~Untouched("error")
  <2>1. PICK named \in SUBSET ItemIds : named = Named(request) BY <1>3, ValidRequest
  <2>2. PICK changes \in [named -> I64] : changes = AggregateItems(request) BY <1>3, <2>1, ValidRequest
  <2>3. DOMAIN changes = named /\ \A i \in named : changes[i] \in Int /\ CountOf(old, i) \in I64 /\ CountOf(old, i) \in Int
    BY <2>2, CountType DEF I64
  <2>4. wrapped' = (wrapped \/ Overflows(request)) BY <1>3 DEF RemoveItems
  <2>5. /\ wrapped' \in BOOLEAN /\ (wrapped => wrapped')
        /\ ~wrapped' => ~wrapped /\ ~Overflows(request)
    BY <2>4
  <2>6. ~wrapped' => Positive(old) BY <1>0, <1>1, <2>5, InHand
  <2>7. ASSUME ~wrapped', NEW i \in named
        PROVE  /\ changes[i] = Requested(request)[i] /\ changes[i] > 0 /\ changes[i] <= CountOf(old, i)
               /\ i \in DOMAIN old
    <3>1. changes[i] = Requested(request)[i] /\ Requested(request)[i] \in Nat \ {0}
      BY <1>3, <2>1, <2>2, <2>5, <2>7, ValidRequest
    <3>2. ~(CountOf(old, i) < changes[i]) BY <1>1, <1>3, <2>1, <2>2 DEF Insufficient
    <3>3. changes[i] <= CountOf(old, i) BY <2>3, <3>2
    <3> QED BY <3>1, <3>3 DEF CountOf
  <2>8. CASE named \ DOMAIN old = {}
    <3>1. PICK left : left = [i \in named |-> Wrap(CountOf(old, i) - changes[i])] OBVIOUS
    <3>2. DOMAIN left = named BY <3>1
    <3>3. PICK items : items = DropZero(Insert(old, left), named) OBVIOUS
    <3>4. PICK change : change = Change(Negated(Requested(request))) OBVIOUS
    <3>5. panicked' = panicked /\ Finish("ok", items, TRUE, change)
      BY <1>1, <1>3, <2>2, <2>3, <2>8, <3>1, <3>2, <3>3, <3>4 DEF RemoveItems
    <3>6. left \in [named -> I64]
      <4>1. \A i \in named : CountOf(old, i) - changes[i] \in Int BY <2>3
      <4> QED BY <3>1, <4>1, WrapIn
    <3> DEFINE mid == Insert(old, left)
    <3>7. /\ mid \in Inventories /\ DOMAIN mid = DOMAIN old \cup named
          /\ \A i \in named : CountOf(mid, i) = left[i]
          /\ \A i : i \notin named => CountOf(mid, i) = CountOf(old, i)
      BY ZenonT(60), <3>6, InsertCounts
    <3> HIDE DEF mid
    <3>8. /\ items \in Inventories /\ \A j : CountOf(items, j) = CountOf(mid, j)
          /\ \A j \in DOMAIN items : j \in DOMAIN mid /\ items[j] = mid[j] /\ (j \in named => mid[j] # 0)
      BY <3>3, <3>7, DropZeroCounts DEF mid
    <3>9. /\ change \in [ItemIds -> Int]
          /\ \A i \in named : change[i] = 0 - Requested(request)[i]
          /\ \A i \in ItemIds : i \notin named => change[i] = 0
      <4>1. DOMAIN Requested(request) = named /\ \A i \in named : Requested(request)[i] \in Nat
        BY <1>3, <2>1, ValidRequest
      <4> QED BY <3>4, <4>1 DEF Change, Negated, CountOf
    <3>10. ASSUME ~wrapped', NEW i \in named PROVE left[i] = CountOf(old, i) - changes[i] /\ left[i] >= 0
      <4>1. CountOf(old, i) - changes[i] \in I64 /\ CountOf(old, i) - changes[i] >= 0 BY <2>3, <2>7, <3>10 DEF I64
      <4> QED BY <3>1, <4>1, WrapSame
    <3>11. ASSUME ~wrapped' PROVE Moves(old, change, items)
      <4> SUFFICES ASSUME NEW j \in ItemIds PROVE CountOf(items, j) = CountOf(old, j) + change[j] BY DEF Moves
      <4>1. CASE j \in named
        <5>1. CountOf(items, j) = CountOf(old, j) - changes[j] BY <3>7, <3>8, <3>10, <3>11, <4>1
        <5>2. change[j] = 0 - changes[j] BY <2>7, <3>9, <3>11, <4>1
        <5> QED BY <2>3, <4>1, <5>1, <5>2
      <4>2. CASE j \notin named
        <5>1. CountOf(items, j) = CountOf(old, j) /\ change[j] = 0 BY <3>7, <3>8, <3>9, <4>2
        <5>2. CountOf(old, j) \in Int BY CountType DEF I64
        <5> QED BY <5>1, <5>2
      <4> QED BY <4>1, <4>2
    <3>12. ASSUME ~wrapped' PROVE Positive(items)
      <4> SUFFICES ASSUME NEW j \in DOMAIN items PROVE items[j] > 0 BY DEF Positive
      <4>1. items[j] = CountOf(mid, j) /\ j \in DOMAIN mid BY <3>8 DEF CountOf
      <4>2. CASE j \in named
        <5>1. items[j] = left[j] /\ items[j] # 0 BY <3>7, <3>8, <4>1, <4>2
        <5>2. left[j] \in Int /\ left[j] >= 0 BY <2>3, <3>10, <3>12, <4>2
        <5> QED BY <5>1, <5>2
      <4>3. CASE j \notin named
        <5>1. j \in DOMAIN old /\ items[j] = old[j] BY <3>7, <4>1, <4>3 DEF CountOf
        <5> QED BY <2>6, <3>12, <5>1 DEF Positive
      <4> QED BY <4>2, <4>3
    <3> QED BY <1>0, <1>1, <2>5, <3>5, <3>8, <3>9, <3>11, <3>12, FinishKeeps
  <2>9. CASE named \ DOMAIN old # {}
    <3>1. wrapped' = TRUE BY <2>5, <2>7, <2>9
    <3>2. /\ answer' = "error" /\ Book(acked, unsure) /\ UNCHANGED <<cell, doc, silent>>
      BY <1>1, <1>3, <2>2, <2>3, <2>9 DEF RemoveItems
    <3>3. acked' = NoChange /\ unsure' = <<>> BY <3>1, <3>2 DEF Book
    <3>4. ItemTypes' BY <3>1, <3>2, <3>3, Names DEF ItemInv, ItemTypes
    <3>5. Clean' BY <3>2 DEF ItemInv, Clean
    <3> QED BY <3>1, <3>4, <3>5 DEF ItemInv, Solvent, Books
  <2> QED BY <2>8, <2>9
<1> QED BY <1>2, <1>3 DEF RemoveItems

-----------------------------------------------------------------------------
(* Loading, eviction, restart *)

\* The steps that end no call leave the books alone.
LEMMA CacheKeeps == ASSUME ItemInv, Load \/ LoadCreateFails \/ Evict \/ Restart \/ Refused \/ UNCHANGED vars PROVE ItemInv'
<1>0. ItemTypes /\ Solvent /\ Books /\ Clean BY DEF ItemInv
<1>1. UNCHANGED <<acked, unsure, wrapped>>
  BY DEF Load, LoadCreateFails, Evict, Restart, Refused, vars, history
<1>2. DocItems \in Inventories /\ (doc # None => DocItems = doc) /\ (doc = None => DocItems = NoItems)
  BY <1>0, NoItemsType DEF ItemTypes, DocItems
<1>3. CASE Load
  <2>1. doc' = DocItems /\ cell' = [items |-> doc', dirty |-> FALSE] /\ UNCHANGED <<panicked, answer, silent>>
    BY <1>3 DEF Load, DocItems, history
  <2>2. cell' \in Cells /\ cell'.items = DocItems /\ cell'.dirty = FALSE BY <1>2, <2>1 DEF Cells
  <2>3. DocItems' = DocItems BY <1>2, <2>1, Names DEF DocItems
  <2>4. ItemTypes' BY <1>0, <1>1, <1>2, <2>1, <2>2 DEF ItemTypes
  <2>5. Solvent'
    <3>1. ~wrapped => ~panicked /\ Positive(DocItems) BY <1>0, <1>2, NoItemsType DEF Solvent, Positive
    <3> QED BY <1>1, <2>1, <2>2, <3>1 DEF Solvent, Positive
  <2>6. Books'
    <3>1. ~wrapped => Explained(DocItems) BY <1>0 DEF Books
    <3>2. \A i, kept : Kept(i, kept)' = Kept(i, kept) BY <1>1 DEF Kept
    <3>3. ~wrapped => Explained(DocItems)' /\ Explained(cell.items)' BY <1>1, <2>2, <2>3, <3>1, <3>2 DEF Explained, Explains
    <3> QED BY <1>1, <3>3 DEF Books
  <2>7. Clean' BY <2>1, <2>2 DEF Clean
  <2> QED BY <2>4, <2>5, <2>6, <2>7 DEF ItemInv
<1>4. CASE LoadCreateFails
  <2>1. cell = None /\ cell' = None /\ doc' = NoItems /\ answer' = "error" /\ UNCHANGED <<panicked, silent>>
    BY <1>4 DEF LoadCreateFails, history
  <2>2. DocItems' = DocItems BY <1>4, <2>1, Names, NoItemsType DEF DocItems, LoadCreateFails
  <2>3. ItemTypes' BY <1>0, <1>1, <2>1, NoItemsType DEF ItemTypes
  <2>4. Solvent' BY <1>0, <1>1, <2>1, NoItemsType DEF Solvent, Positive
  <2>5. Books'
    <3>1. ~wrapped => Explained(DocItems) BY <1>0 DEF Books
    <3>2. \A i, kept : Kept(i, kept)' = Kept(i, kept) BY <1>1 DEF Kept
    <3>3. ~wrapped => Explained(DocItems)' BY <1>1, <2>2, <3>1, <3>2 DEF Explained, Explains
    <3> QED BY <1>1, <2>1, <3>3 DEF Books
  <2>6. Clean' BY <2>1 DEF Clean
  <2> QED BY <2>3, <2>4, <2>5, <2>6 DEF ItemInv
<1>5. CASE Evict \/ Restart
  <2>1. cell' = None /\ silent' = FALSE /\ (panicked' = panicked \/ panicked' = FALSE) /\ UNCHANGED answer
    BY <1>5 DEF Evict, Restart
  <2>2. doc' = doc \/ (cell \in Cells /\ cell # None /\ doc' = cell.items)
    BY <1>0, <1>5 DEF Evict, Restart, Loaded, ItemTypes
  <2>3. cell \in Cells => cell.items \in Inventories BY DEF Cells
  <2>4. ItemTypes' BY <1>0, <1>1, <2>1, <2>2, <2>3 DEF ItemTypes
  <2>5. Solvent' BY <1>0, <1>1, <2>1, <2>2 DEF Solvent
  <2>6. Books'
    <3>1. ~wrapped => Explained(DocItems) /\ (cell # None => Explained(cell.items)) BY <1>0 DEF Books
    <3>2. \A i, kept : Kept(i, kept)' = Kept(i, kept) BY <1>1 DEF Kept
    <3>3. DocItems' = DocItems \/ (cell # None /\ DocItems' = cell.items) BY <2>2, <2>3, Names DEF DocItems
    <3>4. ~wrapped => Explained(DocItems)' BY <1>1, <3>1, <3>2, <3>3 DEF Explained, Explains
    <3> QED BY <1>1, <2>1, <3>4 DEF Books
  <2>7. Clean' BY <2>1 DEF Clean
  <2> QED BY <2>4, <2>5, <2>6, <2>7 DEF ItemInv
<1>6. CASE Refused \/ UNCHANGED vars
  <2>1. UNCHANGED <<cell, doc, panicked, silent>> /\ answer' \in {answer, "error"} BY <1>6 DEF Refused, vars, history
  <2>2. \A i, kept : Kept(i, kept)' = Kept(i, kept) BY <1>1 DEF Kept
  <2>3. Books' BY <1>0, <1>1, <2>1, <2>2 DEF Books, DocItems, Explained, Explains
  <2>4. Clean' BY <1>0, <2>1 DEF Clean
  <2> QED BY <1>0, <1>1, <2>1, <2>3, <2>4 DEF ItemInv, ItemTypes, Solvent
<1> QED BY <1>3, <1>4, <1>5, <1>6

\* ItemInv is an invariant.
LEMMA ItemInvariant == Spec => []ItemInv
<1>1. ASSUME Init PROVE ItemInv
  <2>1. ItemTypes
    <3>1. <<>> \in Seq([ItemIds -> Int]) OBVIOUS
    <3>2. cell = None /\ doc = None /\ acked = NoChange /\ unsure = <<>> BY <1>1 DEF Init
    <3>3. silent \in BOOLEAN /\ wrapped \in BOOLEAN BY <1>1, Zenon DEF Init
    <3> QED BY <3>1, <3>2, <3>3, Names DEF ItemTypes
  <2>2. Explained(DocItems)
    <3>1. DocItems = NoItems /\ \A i \in ItemIds : acked[i] = 0 BY <1>1 DEF Init, DocItems, NoChange
    <3>2. \A i \in ItemIds : Kept(i, {}) = 0 BY SumEmpty DEF Kept
    <3>3. Explains({}, DocItems) BY <3>1, <3>2, NoItemsType DEF Explains
    <3>4. {} \in SUBSET DOMAIN unsure OBVIOUS
    <3> QED BY <3>3, <3>4 DEF Explained
  <2> QED BY <1>1, <2>1, <2>2 DEF Init, ItemInv, Solvent, Books, Clean
<1>2. ASSUME ItemInv, [Next]_vars PROVE ItemInv'
  <2>1. CASE PlayerInfo \/ UseInvalid BY <1>2, <2>1, UntouchedKeeps DEF PlayerInfo, UseInvalid
  <2>2. ASSUME NEW request \in Requests, CheckItems(request) PROVE ItemInv'
    BY <1>2, <2>2, UntouchedKeeps DEF CheckItems
  <2>3. CASE Load \/ LoadCreateFails \/ Evict \/ Restart \/ Refused \/ UNCHANGED vars BY <1>2, <2>3, CacheKeeps
  <2> QED BY <1>2, <2>1, <2>2, <2>3, UseItemKeeps, AddItemsKeeps, RemoveItemsKeeps DEF Next
<1> QED BY <1>1, <1>2, PTL DEF Spec

\* Every item in Mongo comes from successful answers and from changes of requests
\* that were answered with an error: for any item ids, any counts and requests of any
\* length, across failed saves, evictions, reloads and restarts.
THEOREM ItemsAccounted == Spec => []Accounted
<1>1. ASSUME ItemInv PROVE Accounted
  <2>1. \A i \in ItemIds : Stored(i) = CountOf(DocItems, i) BY NoItemsType DEF Stored, DocItems
  <2> QED BY <1>1, <2>1 DEF ItemInv, Books, Explained, Explains, Accounted
<1> QED BY <1>1, ItemInvariant, PTL

\* As long as the sums of the requests fit an i64 no inventory holds a zero or a
\* negative count, and the runner does not die in remove_items.
THEOREM ItemsSolvent == Spec => []Solvent
<1>1. ItemInv => Solvent BY DEF ItemInv
<1> QED BY <1>1, ItemInvariant, PTL

\* After a successful answer the cached player is what Mongo holds.
THEOREM AnswersStored == Spec => []AnswerStored
<1>1. ASSUME ItemInv PROVE AnswerStored
  <2>1. silent \in BOOLEAN BY <1>1 DEF ItemInv, ItemTypes
  <2> QED BY <1>1, <2>1 DEF ItemInv, Clean, AnswerStored
<1> QED BY <1>1, ItemInvariant, PTL
==============================================================================
