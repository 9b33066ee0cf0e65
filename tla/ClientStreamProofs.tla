------------------------- MODULE ClientStreamProofs -------------------------
(***************************************************************************)
(* Proofs about ClientStream, for any capacities, windows and limits.      *)
(*                                                                         *)
(* Types: the methods of ClientSession are described field by field        *)
(* (the lemmas ...Fx), then every action (...Types).  Bounds adds the      *)
(* capacities of the outbox and of the deques.                             *)
(*                                                                         *)
(* Connections: Wired says which connections may be open, carry messages   *)
(* or own the stream in every step of a reconnect.                         *)
(*                                                                         *)
(* Requests: the stream's wire sequence stands for a number that bounds    *)
(* every request let through (SeenSome), hence AcceptedOnce.  A deque of   *)
(* times is what its window still counts of the whole history (Forgotten), *)
(* hence the limits for windows that start anywhere.                       *)
(*                                                                         *)
(* Messages: Stocked ties the outbox and dropped_through to the absolute   *)
(* numbers: what is beyond the number that dropped_through stands for and  *)
(* not received is in the outbox.  It needs fewer than SeqMod \div 2       *)
(* messages in the stream, or seq_after is not the order of their numbers. *)
(* StillThere follows.  Ordered (without pushes) and Whole describe what   *)
(* is on the wire and in a captured replay; InOrder and NoSilentLoss       *)
(* follow.                                                                 *)
(***************************************************************************)
EXTENDS ClientStream, FiniteSetTheorems, SequenceTheorems, WellFoundedInduction, TLAPS

-----------------------------------------------------------------------------
(* Numbers *)

\* A remainder is below the modulus ...
LEMMA ModRange == ASSUME NEW M \in Nat, M > 0, NEW a \in Int PROVE a % M \in 0..(M - 1)
BY SMTT(30)

\* ... and differs from its number by a multiple of it.
LEMMA ModSplit == ASSUME NEW M \in Nat, M > 0, NEW a \in Int PROVE \E q \in Int : a = M * q + (a % M)
BY SMTT(30)

\* The remainder of a multiple and a remainder.
LEMMA ModUnique == ASSUME NEW M \in Nat, M > 0, NEW q \in Int, NEW r \in 0..(M-1) PROVE (M * q + r) % M = r
BY SMTT(20)

\* A multiple of the modulus does not change the remainder.
LEMMA ModPlus == ASSUME NEW M \in Nat, M > 0, NEW q \in Int, NEW x \in Int PROVE (M * q + x) % M = x % M
<1>1. PICK p \in Int : x = M * p + (x % M) BY ModSplit
<1>2. PICK r \in 0..(M-1) : r = x % M BY ModRange
<1>3. M * q + x = M * (q + p) + r BY ONLY M \in Nat, q \in Int, p \in Int, <1>1, <1>2
<1> QED BY <1>2, <1>3, ModUnique

\* Wrapping subtraction.
LEMMA ModSub == ASSUME NEW M \in Nat, M > 0, NEW a \in Int, NEW b \in Int PROVE ((a % M) - (b % M)) % M = (a - b) % M
<1>1. PICK p \in Int : a = M * p + (a % M) BY ModSplit
<1>2. PICK q \in Int : b = M * q + (b % M) BY ModSplit
<1>3. PICK x \in Int : x = (a % M) - (b % M) BY ModRange
<1>4. a - b = M * (p - q) + x
   <2>1. PICK r \in 0..(M-1) : r = a % M BY ModRange
   <2>2. PICK s \in 0..(M-1) : s = b % M BY ModRange
   <2> QED BY ONLY M \in Nat, q \in Int, p \in Int, <1>1, <1>2, <1>3, <2>1, <2>2
<1>5. p - q \in Int OBVIOUS
<1>6. (M * (p - q) + x) % M = x % M BY ONLY M \in Nat, M > 0, <1>5, x \in Int, ModPlus
<1> QED BY ONLY <1>3, <1>4, <1>6

\* Wrapping increment.
LEMMA ModSucc == ASSUME NEW M \in Nat, M > 0, NEW a \in Int PROVE ((a % M) + 1) % M = (a + 1) % M
<1>1. PICK p \in Int : a = M * p + (a % M) BY ModSplit
<1>2. PICK r \in 0..(M-1) : r = a % M BY ModRange
<1>3. a + 1 = M * p + (r + 1)
  <2>1. PICK m \in Int : m = M * p OBVIOUS
  <2>2. a = m + r BY ONLY <1>1, <1>2, <2>1
  <2>3. a + 1 = m + (r + 1) BY ONLY a \in Int, m \in Int, r \in 0..(M - 1), M \in Nat, <2>2
  <2> QED BY ONLY <2>1, <2>3
<1>4. r + 1 \in Int OBVIOUS
<1>6. (M * p + (r + 1)) % M = (r + 1) % M BY ONLY M \in Nat, M > 0, p \in Int, <1>4, ModPlus
<1> QED BY ONLY <1>2, <1>3, <1>6

\* A number below the modulus is its own remainder.
LEMMA ModSmall == ASSUME NEW M \in Nat, M > 0, NEW x \in 0..(M-1) PROVE x % M = x
BY SMTT(20)

\* A negative number wraps.
LEMMA ModNeg == ASSUME NEW M \in Nat, M > 0, NEW x \in 1..(M-1) PROVE (0-x) % M = M - x
BY SMTT(20)

\* A set of numbers has a least one.
LEMMA Least == ASSUME NEW T, T \subseteq Nat, T # {} PROVE \E x \in T : \A y \in T : x <= y
<1> DEFINE R == {ss \in Nat \X Nat : ss[1] < ss[2]}
<1>1. IsWellFoundedOn(R, Nat) BY NatLessThanWellFounded DEF OpToRel
<1>2. PICK x \in T : \A y \in T : ~ (<<y, x>> \in R)
  <2> HIDE DEF R
  <2> QED BY <1>1, WFMin
<1>3. \A y \in T : <<y, x>> \in R <=> y < x OBVIOUS
<1>4. \A y \in T : ~(y < x) BY <1>2, <1>3
<1> HIDE DEF R
<1> QED BY <1>4

\* Where the elements of T at the front of a sequence end.
LEMMA Cut == ASSUME NEW q, Len(q) \in Nat, NEW T
             PROVE  \E k \in 0..Len(q) : (\A i \in 1..k : q[i] \in T) /\ (k < Len(q) => q[k + 1] \notin T)
<1> DEFINE B == {i \in 1..Len(q) : q[i] \notin T}
<1>1. CASE B = {}
  <2>1. Len(q) \in 0..Len(q) /\ \A i \in 1..Len(q) : q[i] \in T BY <1>1
  <2> QED BY <2>1
<1>2. CASE B # {}
  <2>1. PICK b \in B : \A y \in B : b <= y
    <3> B \subseteq Nat OBVIOUS
    <3> HIDE DEF B
    <3> QED BY <1>2, Least
  <2>2. b - 1 \in 0..Len(q) /\ (\A i \in 1..(b-1) : q[i] \in T) /\ (b - 1 + 1 = b) BY <2>1
  <2> QED BY <2>1, <2>2
<1> QED BY <1>1, <1>2

\* seq_after is the order of the numbers of a stream with fewer than SeqMod \div 2 messages.
LEMMA SeqAfterIsAfter == ASSUME MaxSends < SeqMod \div 2, NEW a \in StartSeq..(StartSeq + MaxSends),
                                NEW b \in StartSeq..(StartSeq + MaxSends)
                         PROVE  SeqAfter(a % SeqMod, b % SeqMod) <=> a > b
<1>1. SeqMod \in Nat /\ SeqMod > 0 /\ StartSeq \in Nat /\ MaxSends \in Nat BY StreamConfig DEF StreamConfig
<1>2. PICK h \in Nat : h = SeqMod \div 2 /\ SeqMod = 2 * h BY StreamConfig DEF StreamConfig
<1>3. a \in Int /\ b \in Int BY <1>1
<1>4. ((a % SeqMod) - (b % SeqMod)) % SeqMod = (a - b) % SeqMod BY ONLY <1>1, <1>3, ModSub
<1>5. CASE a > b
  <2>1. a - b \in 0..(SeqMod - 1) /\ a - b # 0 /\ a - b < h BY <1>1, <1>2, <1>5
  <2>2. (a - b) % SeqMod = a - b BY ONLY <1>1, <2>1, ModSmall
  <2> QED BY <1>2, <1>4, <1>5, <2>1, <2>2 DEF SeqAfter
<1>6. CASE a = b
  <2>1. (a - b) % SeqMod = 0
    <3>1. a - b = 0 /\ 0 \in 0..(SeqMod - 1) BY <1>1, <1>6
    <3> QED BY ONLY <1>1, <3>1, ModSmall
  <2> QED BY <1>1, <1>4, <1>6, <2>1 DEF SeqAfter
<1>7. CASE a < b
  <2>1. PICK x \in 1..(SeqMod - 1) : a - b = 0 - x /\ SeqMod - x >= h BY <1>1, <1>2, <1>7
  <2>2. (a - b) % SeqMod = SeqMod - x BY ONLY <1>1, <2>1, ModNeg
  <2> QED BY <1>1, <1>2, <1>4, <1>7, <2>1, <2>2 DEF SeqAfter
<1> QED BY <1>1, <1>5, <1>6, <1>7

\* A number is not after itself, whatever the numbers are.
LEMMA NotAfterItself == ASSUME NEW a \in Nat, NEW b \in Nat, SeqAfter(a % SeqMod, b % SeqMod) PROVE a # b
<1>1. SeqMod \in Nat /\ SeqMod > 0 BY StreamConfig DEF StreamConfig
<1>2. ((a % SeqMod) - (b % SeqMod)) % SeqMod = (a - b) % SeqMod
  <2>1. a \in Int /\ b \in Int OBVIOUS
  <2> QED BY ONLY <1>1, <2>1, ModSub
<1>3. 0 % SeqMod = 0 BY ONLY <1>1, ModSmall
<1> QED BY <1>2, <1>3 DEF SeqAfter

-----------------------------------------------------------------------------
(* The methods of ClientSession, field by field *)

Seqs == 0..(SeqMod - 1)
StreamRec == [sid : Conns, active : BOOLEAN, serverSeq : Seqs, clientSeq : Seqs, outbox : Seq(OutboxMsg),
              dropped : {NoSeq} \cup Seqs, offAt : {Online} \cup Nat, reconnectCount : Nat,
              reconnectTimes : Seq(Nat), requestTimes : Seq(Nat)]

\* The fields that have nothing to do with sending.
Rest(s, t) == /\ t.sid = s.sid /\ t.active = s.active /\ t.clientSeq = s.clientSeq /\ t.offAt = s.offAt
              /\ t.reconnectCount = s.reconnectCount /\ t.reconnectTimes = s.reconnectTimes
              /\ t.requestTimes = s.requestTimes

\* The first k messages of the outbox expire or are evicted, or are acknowledged.
Drops(s, t, k) == /\ k \in 0..Len(s.outbox) /\ t.outbox = From(s.outbox, k)
                  /\ k = 0 => t.dropped = s.dropped
                  /\ k > 0 => t.dropped = s.outbox[k].seq
Forgets(s, t, k, ack) == /\ k \in 0..Len(s.outbox) /\ t.outbox = From(s.outbox, k) /\ t.dropped = s.dropped
                         /\ \A i \in 1..k : ~SeqAfter(s.outbox[i].seq, ack)
                         /\ k < Len(s.outbox) => SeqAfter(s.outbox[k + 1].seq, ack)

\* The rest of a sequence.
LEMMA FromSeq == ASSUME NEW S, NEW q \in Seq(S), NEW k \in 0..Len(q)
                 PROVE  /\ From(q, k) \in Seq(S) /\ Len(From(q, k)) = Len(q) - k
                        /\ \A i \in 1..(Len(q) - k) : From(q, k)[i] = q[i + k]
<1>1. Len(q) \in Nat /\ k + 1 \in 1..(Len(q) + 1) OBVIOUS
<1>2. \A i \in (k + 1)..Len(q) : q[i] \in S OBVIOUS
<1> QED BY <1>1, <1>2 DEF From

\* The messages that have expired.
LEMMA LeadingOld == ASSUME NEW q \in Seq(OutboxMsg), NEW k, k = Leading(q, LAMBDA m : now - m.at > ResumeTtl)
                    PROVE  k \in 0..Len(q)
<1> DEFINE T == {m \in OutboxMsg : now - m.at > ResumeTtl}
<1>1. \E j \in 0..Len(q) : (\A i \in 1..j : q[i] \in T) /\ (j < Len(q) => q[j + 1] \notin T)
  <2> HIDE DEF T
  <2> Len(q) \in Nat OBVIOUS
  <2> QED BY Cut
<1>2. \A i \in 1..Len(q) : q[i] \in OutboxMsg OBVIOUS
<1>3. PICK j \in 0..Len(q) : /\ \A i \in 1..j : now - q[i].at > ResumeTtl
                             /\ j < Len(q) => ~(now - q[j + 1].at > ResumeTtl)
  BY <1>1, <1>2
<1> HIDE DEF T
<1> QED BY <1>3 DEF Leading

\* The messages that an acknowledgement covers.
LEMMA LeadingAcked == ASSUME NEW q \in Seq(OutboxMsg), NEW ack
                      PROVE  \E k \in 0..Len(q) : /\ \A i \in 1..k : ~SeqAfter(q[i].seq, ack)
                                                  /\ k < Len(q) => SeqAfter(q[k + 1].seq, ack)
<1> DEFINE T == {m \in OutboxMsg : ~SeqAfter(m.seq, ack)}
<1>1. \E j \in 0..Len(q) : (\A i \in 1..j : q[i] \in T) /\ (j < Len(q) => q[j + 1] \notin T)
  <2> HIDE DEF T
  <2> Len(q) \in Nat OBVIOUS
  <2> QED BY Cut
<1>2. \A i \in 1..Len(q) : q[i] \in OutboxMsg OBVIOUS
<1>3. PICK j \in 0..Len(q) : (\A i \in 1..j : ~SeqAfter(q[i].seq, ack)) /\ (j < Len(q) => SeqAfter(q[j + 1].seq, ack))
  BY <1>1, <1>2
<1> QED BY <1>3

\* The times that a window does not count any more.
LEMMA RecentTimes == ASSUME NEW q \in Seq(Nat), NEW window \in Nat
                     PROVE  \E k \in 0..Len(q) : /\ Recent(q, window) = From(q, k)
                                                 /\ \A i \in 1..k : now - q[i] >= window
                                                 /\ k < Len(q) => ~(now - q[k + 1] >= window)
<1> DEFINE T == {at \in Nat : now - at >= window}
<1>1. \E j \in 0..Len(q) : (\A i \in 1..j : q[i] \in T) /\ (j < Len(q) => q[j + 1] \notin T)
  <2> HIDE DEF T
  <2> Len(q) \in Nat OBVIOUS
  <2> QED BY Cut
<1>2. \A i \in 1..Len(q) : q[i] \in Nat OBVIOUS
<1>3. PICK j \in 0..Len(q) : /\ \A i \in 1..j : now - q[i] >= window
                             /\ j < Len(q) => ~(now - q[j + 1] >= window)
  BY <1>1, <1>2
<1> HIDE DEF T
<1>4. PICK k : k = Leading(q, LAMBDA at : now - at >= window) OBVIOUS
<1>5. k \in 0..Len(q) /\ (\A i \in 1..k : now - q[i] >= window) /\ (k < Len(q) => ~(now - q[k + 1] >= window))
  BY <1>3, <1>4 DEF Leading
<1>6. Recent(q, window) = From(q, k) BY <1>4 DEF Recent
<1> QED BY <1>5, <1>6

\* prune_outbox.
LEMMA PruneFx == ASSUME NEW s \in StreamRec
                 PROVE  LET t == PruneOutbox(s) IN /\ t \in StreamRec /\ Rest(s, t) /\ t.serverSeq = s.serverSeq
                                                   /\ \E k \in Nat : Drops(s, t, k)
<1>1. s.outbox \in Seq(OutboxMsg) BY DEF StreamRec
<1>2. PICK k : k = Leading(s.outbox, LAMBDA m : now - m.at > ResumeTtl) OBVIOUS
<1>3. k \in 0..Len(s.outbox) BY <1>1, <1>2, LeadingOld
<1>4. PICK f \in Seq(OutboxMsg) : f = From(s.outbox, k) BY <1>1, <1>3, FromSeq
<1>5. CASE k = 0
  <2>1. PruneOutbox(s) = s BY <1>2, <1>5 DEF PruneOutbox
  <2>2. From(s.outbox, 0) = s.outbox BY <1>1 DEF From
  <2> QED BY <1>1, <1>5, <2>1, <2>2 DEF Drops, Rest
<1>6. CASE k # 0
  <2>1. PruneOutbox(s) = [s EXCEPT !.outbox = f, !.dropped = s.outbox[k].seq] BY <1>2, <1>4, <1>6 DEF PruneOutbox
  <2>2. s.outbox[k].seq \in Seqs
    <3>1. s.outbox[k] \in OutboxMsg BY <1>1, <1>3, <1>6
    <3> QED BY <3>1 DEF OutboxMsg, Seqs
  <2>3. PICK d \in Seqs : d = s.outbox[k].seq BY <2>2
  <2>4. PICK t : t = [s EXCEPT !.outbox = f, !.dropped = d] OBVIOUS
  <2>5. t \in StreamRec /\ t.serverSeq = s.serverSeq /\ t.outbox = f /\ t.dropped = d BY <2>4 DEF StreamRec
  <2>6. Rest(s, t) BY <2>4 DEF StreamRec, Rest
  <2>7. Drops(s, t, k) BY <1>3, <1>4, <1>6, <2>3, <2>5 DEF Drops
  <2> QED BY <1>3, <2>1, <2>3, <2>4, <2>5, <2>6, <2>7
<1> QED BY <1>5, <1>6

\* acknowledge_outbox.
LEMMA AcknowledgeFx == ASSUME NEW s \in StreamRec, NEW ack
                       PROVE  LET t == AcknowledgeOutbox(s, ack) IN
                              /\ t \in StreamRec /\ Rest(s, t) /\ t.serverSeq = s.serverSeq
                              /\ \E k \in Nat : Forgets(s, t, k, ack)
<1>1. s.outbox \in Seq(OutboxMsg) BY DEF StreamRec
<1>2. PICK k : k = Leading(s.outbox, LAMBDA m : ~SeqAfter(m.seq, ack)) OBVIOUS
<1>3. /\ k \in 0..Len(s.outbox) /\ \A i \in 1..k : ~SeqAfter(s.outbox[i].seq, ack)
      /\ k < Len(s.outbox) => SeqAfter(s.outbox[k + 1].seq, ack)
  <2>1. PICK j \in 0..Len(s.outbox) : /\ \A i \in 1..j : ~SeqAfter(s.outbox[i].seq, ack)
                                      /\ j < Len(s.outbox) => SeqAfter(s.outbox[j + 1].seq, ack)
    BY <1>1, LeadingAcked
  <2> QED BY <1>2, <2>1 DEF Leading
<1>4. PICK f \in Seq(OutboxMsg) : f = From(s.outbox, k) BY <1>1, <1>3, FromSeq
<1>5. AcknowledgeOutbox(s, ack) = [s EXCEPT !.outbox = f] BY <1>2, <1>4 DEF AcknowledgeOutbox
<1>6. PICK t : t = [s EXCEPT !.outbox = f] OBVIOUS
<1>7. t \in StreamRec /\ t.serverSeq = s.serverSeq /\ t.outbox = f /\ t.dropped = s.dropped BY <1>6 DEF StreamRec
<1>8. Rest(s, t) BY <1>6 DEF StreamRec, Rest
<1>9. Forgets(s, t, k, ack) BY <1>3, <1>4, <1>7 DEF Forgets
<1> QED BY <1>3, <1>5, <1>6, <1>7, <1>8, <1>9

\* The outbox gets a message, and loses its first k.
Gains(s, t, k, m) == /\ k \in 0..Len(s.outbox) /\ t.outbox = Append(From(s.outbox, k), m)
                     /\ k = 0 => t.dropped = s.dropped
                     /\ k > 0 => t.dropped = s.outbox[k].seq
                     /\ Len(s.outbox) <= OutboxCap => Len(t.outbox) <= OutboxCap

\* The next sequence of the server.
LEMMA NextSeq == ASSUME NEW s \in StreamRec, NEW t, t = [s EXCEPT !.serverSeq = (s.serverSeq + 1) % SeqMod]
                 PROVE  /\ t \in StreamRec /\ Rest(s, t) /\ t.serverSeq = (s.serverSeq + 1) % SeqMod
                        /\ t.outbox = s.outbox /\ t.dropped = s.dropped
<1>1. SeqMod \in Nat /\ SeqMod > 0 BY StreamConfig DEF StreamConfig
<1>2. s.serverSeq + 1 \in Int BY <1>1 DEF StreamRec, Seqs
<1>3. PICK n \in Seqs : n = (s.serverSeq + 1) % SeqMod
  <2>1. (s.serverSeq + 1) % SeqMod \in 0..(SeqMod - 1) BY ONLY <1>1, <1>2, ModRange
  <2> QED BY <2>1 DEF Seqs
<1>4. t = [s EXCEPT !.serverSeq = n] BY <1>3
<1>5. t \in StreamRec /\ t.serverSeq = n /\ t.outbox = s.outbox /\ t.dropped = s.dropped
  BY ONLY <1>4, s \in StreamRec, n \in Seqs DEF StreamRec
<1>6. Rest(s, t) BY ONLY <1>4, s \in StreamRec, n \in Seqs DEF StreamRec, Rest
<1> QED BY <1>3, <1>5, <1>6

\* encode of a message that is not kept.
LEMMA EncodeControlFx == ASSUME NEW s \in StreamRec, NEW num, NEW kind, kind # "reliable"
                         PROVE  LET t == Encode(s, num, kind) IN
                                /\ t \in StreamRec /\ Rest(s, t) /\ t.serverSeq = (s.serverSeq + 1) % SeqMod
                                /\ t.outbox = s.outbox /\ t.dropped = s.dropped
<1>1. Encode(s, num, kind) = [s EXCEPT !.serverSeq = (s.serverSeq + 1) % SeqMod] BY DEF Encode
<1> QED BY <1>1, NextSeq

\* encode of a reliable message.
LEMMA EncodeFx == ASSUME NEW s \in StreamRec, NEW num \in Nat, now \in Nat
                  PROVE  LET t == Encode(s, num, "reliable") IN
                         /\ t \in StreamRec /\ Rest(s, t) /\ t.serverSeq = (s.serverSeq + 1) % SeqMod
                         /\ \E k \in Nat : Gains(s, t, k, [seq |-> (s.serverSeq + 1) % SeqMod, num |-> num, at |-> now])
<1>1. PICK u : u = [s EXCEPT !.serverSeq = (s.serverSeq + 1) % SeqMod] OBVIOUS
<1>2. /\ u \in StreamRec /\ Rest(s, u) /\ u.serverSeq = (s.serverSeq + 1) % SeqMod
      /\ u.outbox = s.outbox /\ u.dropped = s.dropped
  BY <1>1, NextSeq
<1>3. PICK v : v = PruneOutbox(u) OBVIOUS
<1>4. v \in StreamRec /\ Rest(u, v) /\ v.serverSeq = u.serverSeq BY <1>2, <1>3, PruneFx
<1>5. PICK k \in Nat : Drops(u, v, k) BY <1>2, <1>3, PruneFx
<1>6. PICK m : m = [seq |-> (s.serverSeq + 1) % SeqMod, num |-> num, at |-> now] OBVIOUS
<1>7. m \in OutboxMsg
  <2>1. (s.serverSeq + 1) % SeqMod \in Seqs BY <1>2 DEF StreamRec
  <2> QED BY <1>6, <2>1 DEF OutboxMsg, Seqs
<1>8. /\ s.outbox \in Seq(OutboxMsg) /\ v.outbox \in Seq(OutboxMsg) /\ k \in 0..Len(s.outbox) /\ v.outbox = From(s.outbox, k)
      /\ Len(v.outbox) = Len(s.outbox) - k /\ \A i \in 1..(Len(s.outbox) - k) : v.outbox[i] = s.outbox[i + k]
      /\ k = 0 => v.dropped = s.dropped
      /\ k > 0 => v.dropped = s.outbox[k].seq
  <2>1. s.outbox \in Seq(OutboxMsg) /\ v.outbox \in Seq(OutboxMsg) BY <1>4 DEF StreamRec
  <2>2. k \in 0..Len(s.outbox) /\ v.outbox = From(s.outbox, k) BY <1>2, <1>5 DEF Drops
  <2>3. (k = 0 => v.dropped = s.dropped) /\ (k > 0 => v.dropped = s.outbox[k].seq) BY <1>2, <1>5 DEF Drops
  <2> QED BY <2>1, <2>2, <2>3, FromSeq
<1>9. PICK t : t = Encode(s, num, "reliable") OBVIOUS
<1>10. Rest(s, v) BY <1>2, <1>4 DEF Rest
<1>11. OutboxCap \in Nat \ {0} BY StreamConfig DEF StreamConfig
<1>12. CASE Len(v.outbox) = OutboxCap
  <2>1. PICK q : q = Append(Tail(v.outbox), m) OBVIOUS
  <2>2. PICK d : d = v.outbox[1].seq OBVIOUS
  <2>3. q \in Seq(OutboxMsg) BY <1>7, <1>8, <1>11, <1>12, <2>1
  <2>4. d \in Seqs
    <3>1. v.outbox[1] \in OutboxMsg BY <1>8, <1>11, <1>12
    <3> QED BY <2>2, <3>1 DEF OutboxMsg, Seqs
  <2>5. t = [v EXCEPT !.outbox = q, !.dropped = d] BY <1>1, <1>3, <1>6, <1>9, <1>12, <2>1, <2>2 DEF Encode, OutboxFull
  <2>6. t \in StreamRec /\ t.serverSeq = v.serverSeq /\ t.outbox = q /\ t.dropped = d BY ONLY <1>4, <2>3, <2>4, <2>5 DEF StreamRec
  <2>7. Rest(v, t) BY ONLY <1>4, <2>3, <2>4, <2>5 DEF StreamRec, Rest
  <2>8. k + 1 \in 0..Len(s.outbox) BY <1>8, <1>11, <1>12
  <2>9. Tail(v.outbox) = From(s.outbox, k + 1)
    <3>1. Tail(v.outbox) \in Seq(OutboxMsg) /\ Len(Tail(v.outbox)) = Len(s.outbox) - (k + 1) BY <1>8, <1>11, <1>12
    <3>2. \A i \in 1..(Len(s.outbox) - (k + 1)) : Tail(v.outbox)[i] = s.outbox[i + (k + 1)]
      <4> TAKE i \in 1..(Len(s.outbox) - (k + 1))
      <4>1. Tail(v.outbox)[i] = v.outbox[i + 1] BY <1>8, <1>11, <1>12
      <4>2. v.outbox[i + 1] = s.outbox[(i + 1) + k] BY <1>8
      <4>3. (i + 1) + k = i + (k + 1) BY <1>8
      <4> QED BY <4>1, <4>2, <4>3
    <3>3. /\ From(s.outbox, k + 1) \in Seq(OutboxMsg) /\ Len(From(s.outbox, k + 1)) = Len(s.outbox) - (k + 1)
          /\ \A i \in 1..(Len(s.outbox) - (k + 1)) : From(s.outbox, k + 1)[i] = s.outbox[i + (k + 1)]
      BY <1>8, <2>8, FromSeq
    <3> QED BY <3>1, <3>2, <3>3, SeqEqual
  <2>10. d = s.outbox[k + 1].seq BY <1>8, <1>11, <1>12, <2>2
  <2>11. Len(q) = OutboxCap BY <1>8, <1>11, <1>12, <2>1
  <2>12. Gains(s, t, k + 1, m)
    <3>1. t.outbox = Append(From(s.outbox, k + 1), m) BY ONLY <2>1, <2>6, <2>9
    <3>2. t.dropped = s.outbox[k + 1].seq BY ONLY <2>6, <2>10
    <3>3. k + 1 # 0 BY ONLY k \in Nat
    <3>4. Len(t.outbox) <= OutboxCap BY ONLY <1>11, <2>6, <2>11
    <3> QED BY ONLY <2>8, <3>1, <3>2, <3>3, <3>4 DEF Gains
  <2>13. Rest(s, t) BY <1>10, <2>7 DEF Rest
  <2> QED BY <1>2, <1>4, <1>6, <1>9, <2>6, <2>12, <2>13
<1>13. CASE Len(v.outbox) # OutboxCap
  <2>1. PICK q : q = Append(v.outbox, m) OBVIOUS
  <2>2. q \in Seq(OutboxMsg) /\ Len(q) = Len(v.outbox) + 1
    <3>1. PICK b \in Seq(OutboxMsg) : b = v.outbox BY <1>8
    <3>2. Append(b, m) \in Seq(OutboxMsg) /\ Len(Append(b, m)) = Len(b) + 1 BY ONLY b \in Seq(OutboxMsg), <1>7, AppendProperties
    <3> QED BY ONLY <2>1, <3>1, <3>2
  <2>3. t = [v EXCEPT !.outbox = q, !.dropped = v.dropped] BY <1>1, <1>3, <1>6, <1>9, <1>13, <2>1 DEF Encode, OutboxFull
  <2>4. t \in StreamRec /\ t.serverSeq = v.serverSeq /\ t.outbox = q /\ t.dropped = v.dropped
    BY ONLY <1>4, <2>2, <2>3 DEF StreamRec
  <2>5. Rest(v, t) BY ONLY <1>4, <2>2, <2>3 DEF StreamRec, Rest
  <2>6. Gains(s, t, k, m) BY <1>8, <1>11, <1>13, <2>1, <2>2, <2>4 DEF Gains
  <2>7. Rest(s, t) BY <1>10, <2>5 DEF Rest
  <2> QED BY <1>2, <1>4, <1>6, <1>9, <2>4, <2>6, <2>7
<1> QED BY <1>12, <1>13

\* Counting the members of a set of indexes in order, each number is that of a member.
LEMMA NthExists == ASSUME NEW n \in Nat, NEW L \in SUBSET (1..n), NEW j \in 1..Cardinality(L)
                   PROVE  \E i \in L : Cardinality({h \in L : h <= i}) = j
<1> DEFINE Upto(i) == {h \in L : h <= i}
<1> DEFINE F == {i \in 0..n : Cardinality(Upto(i)) >= j}
<1>1. IsFiniteSet(1..n) BY FS_Interval
<1>2. IsFiniteSet(L) BY <1>1, FS_Subset
<1>3. Cardinality(L) \in Nat /\ j \in Nat /\ j > 0 BY <1>2, FS_CardinalityType
<1>4. ASSUME NEW i \in Nat PROVE IsFiniteSet(Upto(i)) /\ Cardinality(Upto(i)) \in Nat
  <2>1. Upto(i) \in SUBSET L OBVIOUS
  <2> QED BY <1>2, <2>1, FS_Subset, FS_CardinalityType
<1>0. \A h \in L : h \in Nat /\ 1 <= h /\ h <= n OBVIOUS
<1>5. Upto(n) = L BY ONLY <1>0
<1>6. n \in F BY <1>3, <1>5
<1>7. F \subseteq Nat OBVIOUS
<1>8. PICK i \in F : \A y \in F : i <= y
  <2> HIDE DEF F
  <2> QED BY <1>6, <1>7, Least
<1>9. i \in Nat /\ i \in 0..n OBVIOUS
<1>10. i # 0
  <2>3. \A h \in L : ~(h <= 0) BY <1>0
  <2>1. Upto(0) = {} BY ONLY <2>3
  <2>2. Cardinality(Upto(0)) = 0 BY <2>1, FS_EmptySet
  <2> QED BY <1>3, <2>2
<1>11. i - 1 \in Nat /\ i - 1 \in 0..n BY <1>9, <1>10
<1>12. i - 1 \notin F
  <2>1. ~(i <= i - 1) BY ONLY <1>9
  <2> HIDE DEF F
  <2> QED BY ONLY <1>8, <2>1
<1>13. Cardinality(Upto(i - 1)) < j
  <2>1. PICK x \in Nat : x = Cardinality(Upto(i - 1)) BY <1>4, <1>11
  <2>2. ~(x >= j) BY <1>11, <1>12, <2>1
  <2> QED BY ONLY <1>3, <2>1, <2>2
<1>14. i \in L
  <2> SUFFICES ASSUME i \notin L PROVE FALSE OBVIOUS
  <2>1. \A h \in L : h <= i <=> h <= i - 1
    <3> TAKE h \in L
    <3>1. h \in Nat /\ h # i BY <1>0
    <3> QED BY ONLY <3>1, <1>9
  <2>4. Upto(i) = Upto(i - 1) BY ONLY <2>1
  <2> QED BY <1>3, <1>4, <1>11, <1>13, <2>4
<1>15. Upto(i) = Upto(i - 1) \cup {i} /\ i \notin Upto(i - 1)
  <2>1. \A h \in L : h <= i <=> (h <= i - 1 \/ h = i)
    <3> TAKE h \in L
    <3>1. h \in Nat BY <1>0
    <3> QED BY ONLY <3>1, <1>9
  <2>2. ~(i <= i - 1) /\ i <= i BY ONLY <1>9
  <2> QED BY ONLY <1>14, <2>1, <2>2
<1>16. Cardinality(Upto(i)) = Cardinality(Upto(i - 1)) + 1
  <2>1. PICK U : U = Upto(i - 1) OBVIOUS
  <2>2. IsFiniteSet(U) BY <1>4, <1>11, <2>1
  <2>3. Cardinality(U \cup {i}) = Cardinality(U) + 1 BY ONLY <1>15, <2>1, <2>2, FS_AddElement
  <2> QED BY <1>15, <2>1, <2>3
<1>17. Cardinality(Upto(i)) = j
  <2>1. Cardinality(Upto(i)) >= j OBVIOUS
  <2>2. Cardinality(Upto(i - 1)) \in Nat BY <1>4, <1>11
  <2> QED BY <1>3, <1>13, <1>16, <2>1, <2>2
<1> QED BY <1>14, <1>17

\* What complete_reconnect replays are messages of the outbox.
LEMMA ReplayType == ASSUME NEW q \in Seq(OutboxMsg), NEW ack PROVE ReplayOf(q, ack) \in Seq(OutboxMsg)
<1> DEFINE later == {i \in DOMAIN q : SeqAfter(q[i].seq, ack % SeqMod)}
           Nth(j) == CHOOSE i \in later : Cardinality({h \in later : h <= i}) = j
<1>1. Len(q) \in Nat /\ DOMAIN q = 1..Len(q) OBVIOUS
<1>2. PICK L \in SUBSET (1..Len(q)) : L = later BY <1>1
<1>3. IsFiniteSet(1..Len(q)) BY <1>1, FS_Interval
<1>4. IsFiniteSet(L) BY <1>3, FS_Subset
<1>5. Cardinality(L) \in Nat BY <1>4, FS_CardinalityType
<1>6. ASSUME NEW j \in 1..Cardinality(L) PROVE q[Nth(j)] \in OutboxMsg
  <2>1. \E i \in L : Cardinality({h \in L : h <= i}) = j BY <1>1, NthExists
  <2>2. Nth(j) \in L
    <3>1. Nth(j) = CHOOSE i \in L : Cardinality({h \in L : h <= i}) = j BY <1>2
    <3> HIDE DEF Nth
    <3> QED BY <2>1, <3>1
  <2>3. PICK i \in 1..Len(q) : i = Nth(j) BY <1>2, <2>2
  <2> QED BY <2>3
<1>7. PICK f : f = [j \in 1..Cardinality(L) |-> q[Nth(j)]] OBVIOUS
<1>8. f \in [1..Cardinality(L) -> OutboxMsg]
  <2> HIDE DEF Nth
  <2> QED BY <1>6, <1>7
<1>9. f = ReplayOf(q, ack) BY <1>2, <1>7 DEF ReplayOf
<1>10. f \in Seq(OutboxMsg) BY <1>5, <1>8, SeqDef
<1> QED BY <1>9, <1>10

\* When the acknowledged messages are gone, the replay is the outbox.
LEMMA ReplayAll == ASSUME NEW q \in Seq(OutboxMsg), NEW ack, \A i \in 1..Len(q) : SeqAfter(q[i].seq, ack % SeqMod)
                   PROVE  ReplayOf(q, ack) = q
<1> DEFINE later == {i \in DOMAIN q : SeqAfter(q[i].seq, ack % SeqMod)}
           Nth(j) == CHOOSE i \in later : Cardinality({h \in later : h <= i}) = j
<1>1. Len(q) \in Nat /\ DOMAIN q = 1..Len(q) OBVIOUS
<1>2. later = 1..Len(q) BY <1>1
<1>3. Cardinality(later) = Len(q)
  <2>1. PICK n \in Nat : n = Len(q) BY <1>1
  <2>2. Cardinality(1..n) = n BY ONLY n \in Nat, FS_Interval
  <2> QED BY <1>2, <2>1, <2>2
<1>4. ASSUME NEW i \in 1..Len(q) PROVE Cardinality({h \in later : h <= i}) = i
  <2>1. {h \in later : h <= i} = 1..i BY <1>1, <1>2
  <2>2. Cardinality(1..i) = i BY ONLY <1>1, i \in 1..Len(q), FS_Interval
  <2> QED BY <2>1, <2>2
<1>5. ASSUME NEW j \in 1..Len(q) PROVE Nth(j) = j
  <2>1. j \in later /\ Cardinality({h \in later : h <= j}) = j BY <1>2, <1>4
  <2>2. ASSUME NEW i \in later, Cardinality({h \in later : h <= i}) = j PROVE i = j BY <1>2, <1>4, <2>2
  <2>3. PICK P : P = {i \in later : Cardinality({h \in later : h <= i}) = j} OBVIOUS
  <2>4. \E i \in later : Cardinality({h \in later : h <= i}) = j BY <2>1
  <2>5. Nth(j) \in later /\ Cardinality({h \in later : h <= Nth(j)}) = j BY ONLY <2>4
  <2> QED BY <2>2, <2>5
<1>6. PICK f : f = [j \in 1..Len(q) |-> q[Nth(j)]] OBVIOUS
<1>7. f = ReplayOf(q, ack) BY <1>3, <1>6 DEF ReplayOf
<1>8. \A j \in 1..Len(q) : f[j] = q[j]
  <2> HIDE DEF Nth
  <2> QED BY <1>5, <1>6
<1>9. q \in [1..Len(q) -> OutboxMsg] BY LenProperties
<1>10. f \in [1..Len(q) -> OutboxMsg]
  <2> HIDE DEF Nth
  <2> QED BY <1>5, <1>6, <1>9
<1>11. f = q BY <1>8, <1>9, <1>10
<1> QED BY <1>7, <1>11

-----------------------------------------------------------------------------
(* Types *)

Pcs == {"none", "idle", "responding", "authorized", "replaying", "closed"}
WorkerRec == [pc : Pcs, prev : Conns, num : Nat, ack : Nat, replay : Seq(OutboxMsg)]
WireMsg == [num : Nat, kind : {"reliable", "control", "resumed"}]
ClientRec == [conn : Conns, session : Conns, got : Nat, num : Nat]
AcceptedRec == [num : Nat, at : Nat]

\* The deques and counters of a stream are within their limits.
Limits(s) == /\ Len(s.outbox) <= OutboxCap /\ s.reconnectCount <= ReconnectTotal
             /\ Len(s.reconnectTimes) <= ReconnectWindowCount /\ Len(s.requestTimes) <= RequestWindowCount

Types ==
    /\ now \in Nat /\ retained \in BOOLEAN
    /\ stream \in StreamRec
    /\ worker \in [Conns -> WorkerRec]
    /\ open \subseteq Conns /\ wire \in [Conns -> Seq(WireMsg)]
    /\ sent \in Nat /\ reliable \subseteq Nat /\ refused \subseteq reliable /\ received \subseteq Nat
    /\ client \in ClientRec
    /\ accepted \in Seq(AcceptedRec) /\ resumes \in Seq(Nat)

\* Fresh is a worker without a reconnect.
LEMMA FreshType == ASSUME NEW p \in Pcs PROVE Fresh(p) \in WorkerRec /\ Fresh(p).pc = p /\ Fresh(p).replay = <<>>
<1>1. 0 \in Conns BY StreamConfig DEF StreamConfig, Conns
<1>2. <<>> \in Seq(OutboxMsg) OBVIOUS
<1> QED BY <1>1, <1>2 DEF Fresh, WorkerRec

\* The connections include the one of the login.
LEMMA ConnsType == Conns \subseteq Nat /\ 0 \in Conns /\ \A c \in Conns : c + 1 \in Nat
BY StreamConfig DEF StreamConfig, Conns

\* Closing a connection.
LEMMA CloseFx == ASSUME Types, NEW c \in Conns, Close(c)
                 PROVE  /\ open' = open \ {c} /\ open' \subseteq Conns
                        /\ wire' \in [Conns -> Seq(WireMsg)] /\ wire'[c] = <<>> /\ \A d \in Conns \ {c} : wire'[d] = wire[d]
                        /\ worker' \in [Conns -> WorkerRec] /\ worker'[c] = Fresh("closed")
                        /\ \A d \in Conns \ {c} : worker'[d] = worker[d]
<1>1. Fresh("closed") \in WorkerRec BY FreshType DEF Pcs
<1>2. PICK f \in WorkerRec : f = Fresh("closed") BY <1>1
<1>3. worker' = [worker EXCEPT ![c] = f] BY <1>2 DEF Close
<1>4. wire' = [wire EXCEPT ![c] = <<>>] /\ open' = open \ {c} BY DEF Close
<1>5. <<>> \in Seq(WireMsg) OBVIOUS
<1>6. worker \in [Conns -> WorkerRec] /\ wire \in [Conns -> Seq(WireMsg)] /\ open \subseteq Conns BY DEF Types
<1>7. /\ worker' \in [Conns -> WorkerRec] /\ worker'[c] = f
      /\ \A d \in Conns \ {c} : worker'[d] = worker[d]
  BY ONLY <1>3, <1>6, f \in WorkerRec, c \in Conns
<1>8. wire' \in [Conns -> Seq(WireMsg)] /\ wire'[c] = <<>> /\ \A d \in Conns \ {c} : wire'[d] = wire[d]
  <2>1. PICK e \in Seq(WireMsg) : e = <<>> BY <1>5
  <2>2. wire' = [wire EXCEPT ![c] = e] BY <1>4, <2>1
  <2>3. wire' \in [Conns -> Seq(WireMsg)] /\ wire'[c] = e /\ \A d \in Conns \ {c} : wire'[d] = wire[d]
    BY ONLY <1>6, <2>2, e \in Seq(WireMsg), c \in Conns
  <2> QED BY <2>1, <2>3
<1> QED BY <1>2, <1>4, <1>6, <1>7, <1>8

\* The step of a sender: the next number; on the wire of an open connection, or refused, or lost.
Sends(s, c, kind) ==
    /\ sent < StartSeq + MaxSends /\ sent' = sent + 1
    /\ stream' = Encode(s, sent + 1, kind)
    /\ reliable' = IF kind = "reliable" THEN reliable \cup {sent + 1} ELSE reliable
    /\ wire' \in [Conns -> Seq(WireMsg)]
    /\ \/ /\ c \in open /\ refused' = refused
          /\ wire'[c] = Append(wire[c], [num |-> sent + 1, kind |-> kind]) /\ \A d \in Conns \ {c} : wire'[d] = wire[d]
       \/ c \notin open /\ wire' = wire /\ refused' = refused
       \/ c \in open /\ wire' = wire /\ refused' = refused \cup ({sent + 1} \cap reliable')

\* SendFrom is such a step, and keeps the types.
LEMMA SendFromFx == ASSUME Types, NEW s, NEW c \in Conns, NEW kind \in {"reliable", "control"}, SendFrom(s, c, kind)
                    PROVE  Sends(s, c, kind) /\ reliable' \subseteq Nat /\ refused' \subseteq reliable' /\ sent' \in Nat
<1>1. sent < StartSeq + MaxSends /\ sent' = sent + 1 /\ stream' = Encode(s, sent + 1, kind) BY DEF SendFrom
<1>2. reliable' = IF kind = "reliable" THEN reliable \cup {sent + 1} ELSE reliable BY DEF SendFrom
<1>3. wire \in [Conns -> Seq(WireMsg)] /\ sent \in Nat /\ reliable \subseteq Nat /\ refused \subseteq reliable BY DEF Types
<1>4. PICK m \in WireMsg : m = [num |-> sent + 1, kind |-> kind]
  <2>1. sent + 1 \in Nat /\ kind \in {"reliable", "control", "resumed"} BY <1>3
  <2>2. [num |-> sent + 1, kind |-> kind] \in WireMsg BY ONLY <2>1 DEF WireMsg
  <2> QED BY <2>2
<1>5. \/ c \in open /\ wire' = [wire EXCEPT ![c] = Append(@, m)] /\ refused' = refused
      \/ c \notin open /\ wire' = wire /\ refused' = refused
      \/ c \in open /\ wire' = wire /\ refused' = refused \cup ({sent + 1} \cap reliable')
  BY <1>4 DEF SendFrom
<1>6. ASSUME wire' = [wire EXCEPT ![c] = Append(@, m)]
      PROVE  wire' \in [Conns -> Seq(WireMsg)] /\ wire'[c] = Append(wire[c], m) /\ \A d \in Conns \ {c} : wire'[d] = wire[d]
  <2>1. PICK e \in Seq(WireMsg) : e = Append(wire[c], m)
    <3>1. PICK w \in Seq(WireMsg) : w = wire[c] BY <1>3
    <3>2. Append(w, m) \in Seq(WireMsg) BY ONLY w \in Seq(WireMsg), m \in WireMsg, AppendProperties
    <3> QED BY <3>1, <3>2
  <2>2. wire' = [wire EXCEPT ![c] = e] BY <1>6, <2>1
  <2>3. wire' \in [Conns -> Seq(WireMsg)] /\ wire'[c] = e /\ \A d \in Conns \ {c} : wire'[d] = wire[d]
    BY ONLY <1>3, <2>2, e \in Seq(WireMsg), c \in Conns
  <2> QED BY <2>1, <2>3
<1>7. wire' \in [Conns -> Seq(WireMsg)] BY <1>3, <1>5, <1>6
<1>8. \/ c \in open /\ refused' = refused /\ wire'[c] = Append(wire[c], m) /\ \A d \in Conns \ {c} : wire'[d] = wire[d]
      \/ c \notin open /\ wire' = wire /\ refused' = refused
      \/ c \in open /\ wire' = wire /\ refused' = refused \cup ({sent + 1} \cap reliable')
  BY <1>5, <1>6
<1>9. Sends(s, c, kind) BY <1>1, <1>2, <1>4, <1>7, <1>8 DEF Sends
<1>10. reliable' \subseteq Nat /\ reliable \subseteq reliable' /\ sent' \in Nat BY <1>1, <1>2, <1>3
<1>11. refused' \subseteq reliable' BY <1>3, <1>8, <1>10
<1> QED BY <1>9, <1>10, <1>11

\* The stream after a message is sent.
LEMMA EncodeType == ASSUME NEW s \in StreamRec, NEW num \in Nat, NEW kind \in {"reliable", "control"}, now \in Nat
                    PROVE  LET t == Encode(s, num, kind) IN
                           t \in StreamRec /\ Rest(s, t) /\ (Len(s.outbox) <= OutboxCap => Len(t.outbox) <= OutboxCap)
<1>1. CASE kind = "reliable"
  <2>1. PICK t : t = Encode(s, num, "reliable") OBVIOUS
  <2>2. t \in StreamRec /\ Rest(s, t) /\ \E k \in Nat : \E m : Gains(s, t, k, m) BY <2>1, EncodeFx
  <2>3. Len(s.outbox) <= OutboxCap => Len(t.outbox) <= OutboxCap BY <2>2 DEF Gains
  <2> QED BY <1>1, <2>1, <2>2, <2>3
<1>2. CASE kind # "reliable" BY <1>2, EncodeControlFx
<1> QED BY <1>1, <1>2

\* A shorter deque stays within its limit.
LEMMA FromShorter == ASSUME NEW S, NEW q \in Seq(S), NEW k \in 0..Len(q), NEW n \in Nat, Len(q) <= n
                     PROVE  Len(From(q, k)) <= n
<1>1. Len(From(q, k)) = Len(q) - k BY FromSeq
<1>2. Len(q) \in Nat OBVIOUS
<1> QED BY ONLY <1>1, <1>2, k \in 0..Len(q), n \in Nat, Len(q) <= n

\* The stream after prune_outbox, ...
LEMMA PruneType == ASSUME NEW s \in StreamRec
                   PROVE  LET t == PruneOutbox(s) IN
                          t \in StreamRec /\ Rest(s, t) /\ (Len(s.outbox) <= OutboxCap => Len(t.outbox) <= OutboxCap)
<1>1. PICK t : t = PruneOutbox(s) OBVIOUS
<1>2. t \in StreamRec /\ Rest(s, t) /\ \E k \in Nat : Drops(s, t, k) BY <1>1, PruneFx
<1>3. s.outbox \in Seq(OutboxMsg) BY DEF StreamRec
<1>4. OutboxCap \in Nat BY StreamConfig DEF StreamConfig
<1>5. Len(s.outbox) <= OutboxCap => Len(t.outbox) <= OutboxCap BY <1>2, <1>3, <1>4, FromShorter DEF Drops
<1> QED BY <1>1, <1>2, <1>5

\* ... after acknowledge_outbox, ...
LEMMA AckType == ASSUME NEW s \in StreamRec, NEW ack
                 PROVE  LET t == AcknowledgeOutbox(s, ack) IN
                        t \in StreamRec /\ Rest(s, t) /\ (Len(s.outbox) <= OutboxCap => Len(t.outbox) <= OutboxCap)
<1>1. PICK t : t = AcknowledgeOutbox(s, ack) OBVIOUS
<1>2. t \in StreamRec /\ Rest(s, t) /\ \E k \in Nat : Forgets(s, t, k, ack) BY <1>1, AcknowledgeFx
<1>3. s.outbox \in Seq(OutboxMsg) BY DEF StreamRec
<1>4. OutboxCap \in Nat BY StreamConfig DEF StreamConfig
<1>5. Len(s.outbox) <= OutboxCap => Len(t.outbox) <= OutboxCap BY <1>2, <1>3, <1>4, FromShorter DEF Forgets
<1> QED BY <1>1, <1>2, <1>5

\* ... and after accept_sequence.
LEMMA AcceptType == ASSUME NEW s \in StreamRec, NEW seq \in Seqs, NEW ack
                    PROVE  LET t == AcceptSequence(s, seq, ack) IN
                           /\ t \in StreamRec /\ (Len(s.outbox) <= OutboxCap => Len(t.outbox) <= OutboxCap)
                           /\ t.clientSeq = seq
                           /\ t.sid = s.sid /\ t.active = s.active /\ t.offAt = s.offAt /\ t.reconnectCount = s.reconnectCount
                           /\ t.reconnectTimes = s.reconnectTimes /\ t.requestTimes = s.requestTimes
<1>1. PICK u : u = [s EXCEPT !.clientSeq = seq] OBVIOUS
<1>2. u \in StreamRec /\ u.clientSeq = seq /\ u.outbox = s.outbox
  BY ONLY <1>1, s \in StreamRec, seq \in Seqs DEF StreamRec
<1>3. /\ u.sid = s.sid /\ u.active = s.active /\ u.offAt = s.offAt /\ u.reconnectCount = s.reconnectCount
      /\ u.reconnectTimes = s.reconnectTimes /\ u.requestTimes = s.requestTimes
  BY ONLY <1>1, s \in StreamRec, seq \in Seqs DEF StreamRec
<1>4. PICK v : v = PruneOutbox(u) OBVIOUS
<1>5. v \in StreamRec /\ Rest(u, v) /\ (Len(u.outbox) <= OutboxCap => Len(v.outbox) <= OutboxCap) BY <1>2, <1>4, PruneType
<1>6. PICK t : t = AcknowledgeOutbox(v, ack) OBVIOUS
<1>7. t \in StreamRec /\ Rest(v, t) /\ (Len(v.outbox) <= OutboxCap => Len(t.outbox) <= OutboxCap) BY <1>5, <1>6, AckType
<1>8. t = AcceptSequence(s, seq, ack) BY <1>1, <1>4, <1>6 DEF AcceptSequence
<1>9. /\ t.clientSeq = seq
      /\ t.sid = s.sid /\ t.active = s.active /\ t.offAt = s.offAt /\ t.reconnectCount = s.reconnectCount
      /\ t.reconnectTimes = s.reconnectTimes /\ t.requestTimes = s.requestTimes
  BY ONLY <1>2, <1>3, <1>5, <1>7 DEF Rest
<1>10. Len(s.outbox) <= OutboxCap => Len(t.outbox) <= OutboxCap BY ONLY <1>2, <1>5, <1>7
<1> QED BY ONLY <1>7, <1>8, <1>9, <1>10

\* The variables of Types, one by one.
LEMMA TypesEasy == ASSUME Types
                   PROVE  /\ now \in Nat /\ retained \in BOOLEAN /\ stream \in StreamRec
                          /\ worker \in [Conns -> WorkerRec] /\ open \subseteq Conns /\ wire \in [Conns -> Seq(WireMsg)]
                          /\ sent \in Nat /\ reliable \subseteq Nat /\ refused \subseteq reliable /\ received \subseteq Nat
                          /\ client \in ClientRec /\ accepted \in Seq(AcceptedRec) /\ resumes \in Seq(Nat)
                          /\ stream.sid \in Conns /\ client.conn \in Conns /\ client.session \in Conns
                          /\ client.got \in Nat /\ client.num \in Nat
BY DEF Types, StreamRec, ClientRec

\* A worker that goes to another step.
LEMMA WorkerPcFx == ASSUME NEW W \in [Conns -> WorkerRec], NEW c \in Conns, NEW p \in Pcs, NEW V, V = [W EXCEPT ![c].pc = p]
                    PROVE  /\ V \in [Conns -> WorkerRec] /\ V[c].pc = p /\ V[c].replay = W[c].replay
                           /\ \A d \in Conns \ {c} : V[d] = W[d]
<1>1. PICK w \in WorkerRec : w = W[c] OBVIOUS
<1>2. PICK f : f = [w EXCEPT !.pc = p] OBVIOUS
<1>3. f \in WorkerRec /\ f.pc = p /\ f.replay = w.replay BY ONLY <1>2, w \in WorkerRec, p \in Pcs DEF WorkerRec
<1>4. V = [W EXCEPT ![c] = f] BY <1>1, <1>2
<1>5. V \in [Conns -> WorkerRec] /\ V[c] = f /\ \A d \in Conns \ {c} : V[d] = W[d]
  BY ONLY <1>3, <1>4, W \in [Conns -> WorkerRec], c \in Conns
<1> QED BY ONLY <1>1, <1>3, <1>5

\* In a step of the system.
LEMMA WorkerGoes == ASSUME Types, NEW c \in Conns, NEW p \in Pcs, worker' = [worker EXCEPT ![c].pc = p]
                    PROVE  /\ worker' \in [Conns -> WorkerRec] /\ worker'[c].pc = p /\ worker'[c].replay = worker[c].replay
                           /\ \A d \in Conns \ {c} : worker'[d] = worker[d]
<1>1. PICK W \in [Conns -> WorkerRec] : W = worker BY TypesEasy
<1>2. PICK V : V = worker' OBVIOUS
<1>3. V = [W EXCEPT ![c].pc = p] BY <1>1, <1>2
<1>4. /\ V \in [Conns -> WorkerRec] /\ V[c].pc = p /\ V[c].replay = W[c].replay
      /\ \A d \in Conns \ {c} : V[d] = W[d]
  BY <1>1, <1>3, WorkerPcFx
<1> QED BY ONLY <1>1, <1>2, <1>4

\* The client has used number num.
LEMMA ClientNumFx == ASSUME NEW r \in ClientRec, NEW num \in Nat, NEW u, u = [r EXCEPT !.num = num]
                     PROVE  u \in ClientRec /\ u.num = num /\ u.conn = r.conn /\ u.session = r.session /\ u.got = r.got
BY DEF ClientRec

\* The numbers and acknowledgements of the client.
LEMMA NumType == ASSUME Types, NEW num \in ClientNums PROVE num \in Nat /\ num >= client.num /\ num % SeqMod \in Seqs
<1>1. client.num \in Nat BY TypesEasy
<1>2. num \in Nat /\ num >= client.num BY <1>1 DEF ClientNums
<1>3. SeqMod \in Nat /\ SeqMod > 0 BY StreamConfig DEF StreamConfig
<1>4. num % SeqMod \in 0..(SeqMod - 1) BY ONLY <1>2, <1>3, ModRange
<1> QED BY <1>2, <1>4 DEF Seqs

\* Tick: the types, and what the step does.
LEMMA TickTypes == ASSUME Types, Tick PROVE Types' /\ now' = now + 1
BY TypesEasy DEF Types, Tick, server

\* PruneExpired: the types, and what the step does.
LEMMA PruneExpiredTypes == ASSUME Types, PruneExpired PROVE Types' /\ retained' = FALSE
BY TypesEasy DEF Types, PruneExpired

\* PushMail: the types, and what the step does.
LEMMA PushMailTypes == ASSUME Types, PushMail PROVE Types' /\ Sends(stream, stream.sid, "reliable") /\ Rest(stream, stream')
<1>1. Sends(stream, stream.sid, "reliable") /\ reliable' \subseteq Nat /\ refused' \subseteq reliable' /\ sent' \in Nat
  BY TypesEasy, SendFromFx DEF PushMail
<1>2. stream' = Encode(stream, sent + 1, "reliable") /\ wire' \in [Conns -> Seq(WireMsg)] BY <1>1 DEF Sends
<1>3. sent + 1 \in Nat BY TypesEasy
<1>4. stream' \in StreamRec /\ Rest(stream, stream') BY <1>2, <1>3, TypesEasy, EncodeType
<1>5. UNCHANGED <<now, retained, worker, open, client, received, accepted, resumes>> BY DEF PushMail
<1> QED BY ONLY <1>1, <1>2, <1>4, <1>5, Types DEF Types

\* RejectFrame: the types, and what the step does.
LEMMA RejectFrameTypes == ASSUME Types, NEW c \in Conns, NEW num, RejectFrame(c, num) PROVE Types'
<1>1. /\ open' \subseteq Conns /\ wire' \in [Conns -> Seq(WireMsg)] /\ worker' \in [Conns -> WorkerRec]
  BY CloseFx DEF RejectFrame
<1>2. UNCHANGED <<now, server, client, received, accepted, resumes>> BY DEF RejectFrame
<1> QED BY ONLY <1>1, <1>2, Types DEF Types, server

\* Acknowledge: the types, and what the step does.
LEMMA AcknowledgeTypes ==
    ASSUME Types, NEW c \in Conns, NEW num \in ClientNums, NEW ack, NEW ping, Acknowledge(c, num, ack, ping)
    PROVE  /\ Types' /\ client'.num = num
           /\ client'.conn = client.conn /\ client'.session = client.session /\ client'.got = client.got
           /\ \E s \in StreamRec :
                 /\ s = AcceptSequence(stream, num % SeqMod, ack % SeqMod)
                 /\ Rest(s, stream')
                 /\ Sends(s, c, "control") \/ (stream' = s /\ UNCHANGED <<sent, reliable, refused, wire>>)
<1>1. num \in Nat /\ num % SeqMod \in Seqs BY NumType
<1>2. PICK s : s = AcceptSequence(stream, num % SeqMod, ack % SeqMod) OBVIOUS
<1>3. s \in StreamRec BY <1>1, <1>2, TypesEasy, AcceptType
<1>4. /\ client' \in ClientRec /\ client'.num = num
      /\ client'.conn = client.conn /\ client'.session = client.session /\ client'.got = client.got
  <2>1. client' = [client EXCEPT !.num = num] BY DEF Acknowledge
  <2> QED BY <1>1, <2>1, TypesEasy, ClientNumFx
<1>5. UNCHANGED <<now, retained, worker, open, received, accepted, resumes>> BY DEF Acknowledge
<1>6. CASE ping
  <2>1. SendFrom(s, c, "control") BY <1>2, <1>6 DEF Acknowledge
  <2>2. Sends(s, c, "control") /\ reliable' \subseteq Nat /\ refused' \subseteq reliable' /\ sent' \in Nat BY <2>1, SendFromFx
  <2>3. stream' = Encode(s, sent + 1, "control") /\ wire' \in [Conns -> Seq(WireMsg)] BY <2>2 DEF Sends
  <2>4. sent + 1 \in Nat BY TypesEasy
  <2>5. stream' \in StreamRec /\ Rest(s, stream') BY <1>3, <2>3, <2>4, TypesEasy, EncodeType
  <2>6. Types' BY ONLY <1>4, <1>5, <2>2, <2>3, <2>5, Types DEF Types
  <2> QED BY <1>2, <1>3, <1>4, <2>2, <2>5, <2>6
<1>7. CASE ~ping
  <2>1. stream' = s /\ UNCHANGED <<sent, reliable, refused, wire>> BY <1>2, <1>7 DEF Acknowledge
  <2>2. Rest(s, stream') BY <2>1 DEF Rest
  <2>3. Types' BY ONLY <1>3, <1>4, <1>5, <2>1, Types DEF Types
  <2> QED BY <1>2, <1>3, <1>4, <2>1, <2>2, <2>3
<1> QED BY <1>6, <1>7

\* Respond: the types, and what the step does.
LEMMA RespondTypes ==
    ASSUME Types, NEW c \in Conns, Respond(c)
    PROVE  /\ Types' /\ worker'[c].pc = "idle" /\ worker'[c].replay = worker[c].replay
           /\ \A d \in Conns \ {c} : worker'[d] = worker[d]
           /\ Rest(stream, stream')
           /\ \/ Bound(c) /\ Sends(stream, c, "reliable")
              \/ UNCHANGED <<stream, sent, reliable, refused, wire>>
<1>1. /\ worker' \in [Conns -> WorkerRec] /\ worker'[c].pc = "idle" /\ worker'[c].replay = worker[c].replay
      /\ \A d \in Conns \ {c} : worker'[d] = worker[d]
  BY WorkerGoes DEF Respond, Pcs
<1>2. UNCHANGED <<now, retained, open, client, received, accepted, resumes>> BY DEF Respond
<1>3. CASE Bound(c)
  <2>1. SendFrom(stream, c, "reliable") BY <1>3 DEF Respond
  <2>2. Sends(stream, c, "reliable") /\ reliable' \subseteq Nat /\ refused' \subseteq reliable' /\ sent' \in Nat
    BY <2>1, SendFromFx
  <2>3. stream' = Encode(stream, sent + 1, "reliable") /\ wire' \in [Conns -> Seq(WireMsg)] BY <2>2 DEF Sends
  <2>4. sent + 1 \in Nat BY TypesEasy
  <2>5. stream' \in StreamRec /\ Rest(stream, stream') BY <2>3, <2>4, TypesEasy, EncodeType
  <2>6. Types' BY ONLY <1>1, <1>2, <2>2, <2>3, <2>5, Types DEF Types
  <2> QED BY <1>1, <1>3, <2>2, <2>5, <2>6
<1>4. CASE ~Bound(c)
  <2>1. UNCHANGED <<stream, sent, reliable, refused, wire>> BY <1>4 DEF Respond
  <2>2. Types' BY ONLY <1>1, <1>2, <2>1, Types DEF Types
  <2>3. Rest(stream, stream') BY <2>1 DEF Rest
  <2> QED BY <1>1, <2>1, <2>2, <2>3
<1> QED BY <1>3, <1>4

\* The rate limit changes the times of the requests only.
LEMMA TimesFx == ASSUME NEW a \in StreamRec, NEW q \in Seq(Nat), NEW s, s = [a EXCEPT !.requestTimes = q]
                 PROVE  /\ s \in StreamRec /\ s.requestTimes = q /\ s.sid = a.sid /\ s.active = a.active
                        /\ s.clientSeq = a.clientSeq /\ s.offAt = a.offAt /\ s.reconnectCount = a.reconnectCount
                        /\ s.reconnectTimes = a.reconnectTimes
                        /\ s.serverSeq = a.serverSeq /\ s.outbox = a.outbox /\ s.dropped = a.dropped
BY DEF StreamRec

\* The times that still count.
LEMMA RecentType == ASSUME NEW q \in Seq(Nat), NEW window \in Nat PROVE Recent(q, window) \in Seq(Nat)
BY RecentTimes, FromSeq

Passed(c, num, s, times) ==
    /\ RatePasses(times) /\ s.requestTimes = Append(times, now) /\ stream' = s
    /\ accepted' = Append(accepted, [num |-> num, at |-> now])
    /\ UNCHANGED <<sent, reliable, refused, wire>>
    /\ worker'[c].pc = "responding" /\ worker'[c].replay = worker[c].replay /\ \A d \in Conns \ {c} : worker'[d] = worker[d]
RateLimited(c, s, times) == s.requestTimes = times /\ Sends(s, c, "reliable") /\ UNCHANGED <<accepted, worker>>

\* Request: the types, and what the step does.
LEMMA RequestTypes ==
    ASSUME Types, NEW c \in Conns, NEW num \in ClientNums, NEW ack, Request(c, num, ack)
    PROVE  /\ Types' /\ client'.num = num
           /\ client'.conn = client.conn /\ client'.session = client.session /\ client'.got = client.got
           /\ \E a, s \in StreamRec : \E times \in Seq(Nat) :
                 /\ a = AcceptSequence(stream, num % SeqMod, ack % SeqMod)
                 /\ times = Recent(stream.requestTimes, RequestWindow)
                 /\ s = [a EXCEPT !.requestTimes = s.requestTimes]
                 /\ Rest(s, stream')
                 /\ Passed(c, num, s, times) \/ RateLimited(c, s, times)
<1>1. num \in Nat /\ num % SeqMod \in Seqs BY NumType
<1>2. PICK a : a = AcceptSequence(stream, num % SeqMod, ack % SeqMod) OBVIOUS
<1>3. a \in StreamRec /\ a.requestTimes = stream.requestTimes BY <1>1, <1>2, TypesEasy, AcceptType
<1>4. PICK times \in Seq(Nat) : times = Recent(stream.requestTimes, RequestWindow)
  <2>1. stream.requestTimes \in Seq(Nat) BY TypesEasy DEF StreamRec
  <2>2. RequestWindow \in Nat BY StreamConfig DEF StreamConfig
  <2> QED BY <2>1, <2>2, RecentType
<1>5. PICK q : q = IF RatePasses(times) THEN Append(times, now) ELSE times OBVIOUS
<1>6. q \in Seq(Nat)
  <2>1. now \in Nat BY TypesEasy
  <2>2. Append(times, now) \in Seq(Nat) BY ONLY <2>1, times \in Seq(Nat), AppendProperties
  <2> QED BY <1>5, <2>2
<1>7. PICK s : s = [a EXCEPT !.requestTimes = q] OBVIOUS
<1>8. s \in StreamRec /\ s.requestTimes = q /\ s = [a EXCEPT !.requestTimes = s.requestTimes]
  <2>1. s \in StreamRec /\ s.requestTimes = q BY ONLY <1>3, <1>6, <1>7, TimesFx
  <2> QED BY ONLY <1>7, <2>1
<1>9. /\ client' \in ClientRec /\ client'.num = num
      /\ client'.conn = client.conn /\ client'.session = client.session /\ client'.got = client.got
  <2>1. client' = [client EXCEPT !.num = num] BY DEF Request
  <2> QED BY <1>1, <2>1, TypesEasy, ClientNumFx
<1>10. UNCHANGED <<now, retained, open, received, resumes>> BY DEF Request
<1>11. CASE RatePasses(times)
  <2>1. /\ stream' = s /\ accepted' = Append(accepted, [num |-> num, at |-> now])
        /\ worker' = [worker EXCEPT ![c].pc = "responding"] /\ UNCHANGED <<sent, reliable, refused, wire>>
    BY <1>2, <1>3, <1>4, <1>5, <1>7, <1>11 DEF Request
  <2>2. /\ worker' \in [Conns -> WorkerRec] /\ worker'[c].pc = "responding" /\ worker'[c].replay = worker[c].replay
        /\ \A d \in Conns \ {c} : worker'[d] = worker[d]
    BY <2>1, WorkerGoes DEF Pcs
  <2>3. accepted' \in Seq(AcceptedRec)
    <3>1. PICK r \in AcceptedRec : r = [num |-> num, at |-> now] BY <1>1, TypesEasy DEF AcceptedRec
    <3>2. accepted \in Seq(AcceptedRec) BY TypesEasy
    <3>3. Append(accepted, r) \in Seq(AcceptedRec) BY ONLY <3>2, r \in AcceptedRec, AppendProperties
    <3> QED BY <2>1, <3>1, <3>3
  <2>4. Types' BY ONLY <1>8, <1>9, <1>10, <2>1, <2>2, <2>3, Types DEF Types
  <2>5. Rest(s, stream') BY <2>1 DEF Rest
  <2>6. Passed(c, num, s, times) BY ONLY <1>5, <1>8, <1>11, <2>1, <2>2 DEF Passed
  <2> QED BY <1>2, <1>3, <1>4, <1>8, <1>9, <2>4, <2>5, <2>6
<1>12. CASE ~RatePasses(times)
  <2>1. SendFrom(s, c, "reliable") /\ UNCHANGED <<accepted, worker>>
    BY <1>2, <1>3, <1>4, <1>5, <1>7, <1>12 DEF Request
  <2>2. Sends(s, c, "reliable") /\ reliable' \subseteq Nat /\ refused' \subseteq reliable' /\ sent' \in Nat BY <2>1, SendFromFx
  <2>3. stream' = Encode(s, sent + 1, "reliable") /\ wire' \in [Conns -> Seq(WireMsg)] BY <2>2 DEF Sends
  <2>4. sent + 1 \in Nat BY TypesEasy
  <2>5. stream' \in StreamRec /\ Rest(s, stream') BY <1>8, <2>3, <2>4, TypesEasy, EncodeType
  <2>6. Types' BY ONLY <1>9, <1>10, <2>1, <2>2, <2>3, <2>5, Types DEF Types
  <2>7. RateLimited(c, s, times) BY ONLY <1>5, <1>8, <1>12, <2>1, <2>2 DEF RateLimited
  <2> QED BY <1>2, <1>3, <1>4, <1>8, <1>9, <2>5, <2>6, <2>7
<1> QED BY <1>11, <1>12

\* ReconnectFails: the types, and what the step does.
LEMMA ReconnectFailsTypes == ASSUME Types, NEW c \in Conns, ReconnectFails(c) PROVE Types'
<1>1. /\ open' \subseteq Conns /\ wire' \in [Conns -> Seq(WireMsg)] /\ worker' \in [Conns -> WorkerRec]
  BY CloseFx DEF ReconnectFails
<1>2. UNCHANGED <<now, server, client, received, accepted, resumes>> BY DEF ReconnectFails
<1> QED BY ONLY <1>1, <1>2, Types DEF Types, server

\* Break: the types, and what the step does.
LEMMA BreakTypes == ASSUME Types, NEW c \in Conns, Break(c)
                    PROVE  Types' /\ wire'[c] = <<>> /\ \A d \in Conns \ {c} : wire'[d] = wire[d]
<1>1. wire' = [wire EXCEPT ![c] = <<>>] /\ open' = open \ {c} BY DEF Break
<1>2. PICK e \in Seq(WireMsg) : e = <<>> BY EmptySeq
<1>3. wire' = [wire EXCEPT ![c] = e] BY <1>1, <1>2
<1>4. wire \in [Conns -> Seq(WireMsg)] BY TypesEasy
<1>5. wire' \in [Conns -> Seq(WireMsg)] /\ wire'[c] = e /\ \A d \in Conns \ {c} : wire'[d] = wire[d]
  BY ONLY <1>3, <1>4, e \in Seq(WireMsg), c \in Conns
<1>6. UNCHANGED <<now, server, worker, client, received, accepted, resumes>> BY DEF Break
<1>7. open' \subseteq Conns BY <1>1, TypesEasy
<1>8. Types' BY ONLY <1>5, <1>6, <1>7, Types DEF Types, server
<1> QED BY <1>2, <1>5, <1>8

\* What a step leaves alone in a stream: what is sent, and the deques of the limits.
SameBox(s, t) == t.serverSeq = s.serverSeq /\ t.outbox = s.outbox /\ t.dropped = s.dropped
SameTimes(s, t) == /\ t.reconnectCount = s.reconnectCount /\ t.reconnectTimes = s.reconnectTimes
                   /\ t.requestTimes = s.requestTimes

\* Disconnected: the types, and what the step does.
LEMMA DisconnectedTypes ==
    ASSUME Types, NEW c \in Conns, Disconnected(c)
    PROVE  /\ Types' /\ worker'[c] = Fresh("closed") /\ \A d \in Conns \ {c} : worker'[d] = worker[d]
           /\ SameBox(stream, stream') /\ SameTimes(stream, stream') /\ stream'.sid = stream.sid
           /\ stream'.clientSeq = stream.clientSeq
           /\ stream'.offAt = stream.offAt \/ stream'.offAt = now
<1>1. PICK f \in WorkerRec : f = Fresh("closed") BY FreshType DEF Pcs
<1>2. worker' \in [Conns -> WorkerRec] /\ worker'[c] = f /\ \A d \in Conns \ {c} : worker'[d] = worker[d]
  <2>1. worker' = [worker EXCEPT ![c] = f] BY <1>1 DEF Disconnected
  <2>2. worker \in [Conns -> WorkerRec] BY TypesEasy
  <2> QED BY ONLY <2>1, <2>2, f \in WorkerRec, c \in Conns
<1>3. UNCHANGED <<now, retained, open, wire, sent, reliable, refused, client, received, accepted, resumes>> BY DEF Disconnected
<1>4. CASE Bound(c)
  <2>1. stream' = [stream EXCEPT !.active = FALSE, !.offAt = now] BY <1>4 DEF Disconnected
  <2>2. PICK s \in StreamRec : s = stream BY TypesEasy
  <2>3. PICK t : t = stream' OBVIOUS
  <2>7. PICK n \in Nat : n = now BY TypesEasy
  <2>4. t = [s EXCEPT !.active = FALSE, !.offAt = n] BY <2>1, <2>2, <2>3, <2>7
  <2>5. /\ t \in StreamRec /\ t.offAt = n /\ t.sid = s.sid
        /\ t.serverSeq = s.serverSeq /\ t.clientSeq = s.clientSeq /\ t.outbox = s.outbox /\ t.dropped = s.dropped
        /\ t.reconnectCount = s.reconnectCount /\ t.reconnectTimes = s.reconnectTimes
        /\ t.requestTimes = s.requestTimes
    <3>1. n \in {Online} \cup Nat /\ FALSE \in BOOLEAN OBVIOUS
    <3> QED BY ONLY <2>4, <3>1, s \in StreamRec DEF StreamRec
  <2>6. Types' BY ONLY <1>2, <1>3, <2>3, <2>5, Types DEF Types
  <2> QED BY ONLY <1>1, <1>2, <2>2, <2>3, <2>5, <2>6, <2>7 DEF SameBox, SameTimes
<1>5. CASE ~Bound(c)
  <2>1. stream' = stream BY <1>5 DEF Disconnected
  <2>2. Types' BY ONLY <1>2, <1>3, <2>1, Types DEF Types
  <2> QED BY ONLY <1>1, <1>2, <2>1, <2>2 DEF SameBox, SameTimes
<1> QED BY <1>4, <1>5

\* Deliver: the types, and what the step does.
LEMMA DeliverTypes ==
    ASSUME Types, NEW c \in Conns, Deliver(c)
    PROVE  /\ Types' /\ \A d \in Conns \ {c} : wire'[d] = wire[d]
           /\ \E m \in WireMsg :
                 /\ wire[c] # <<>> /\ m = wire[c][1] /\ wire'[c] = Tail(wire[c])
                 /\ received' = (IF m.kind = "reliable" THEN received \cup {m.num} ELSE received)
                 /\ client'.conn = client.conn /\ client'.num = client.num
                 /\ client'.got = (IF m.num > client.got THEN m.num ELSE client.got)
                 /\ client'.session = (IF m.kind = "resumed" THEN c ELSE client.session)
<1>1. PICK w \in Seq(WireMsg) : w = wire[c] BY TypesEasy
<1>2. w # <<>> BY <1>1 DEF Deliver
<1>3. PICK m \in WireMsg : m = Head(w) BY <1>2, HeadTailProperties
<1>4. m = w[1] BY <1>2, <1>3
<1>5. PICK r \in Seq(WireMsg) : r = Tail(w) BY <1>2, HeadTailProperties
<1>6. wire' \in [Conns -> Seq(WireMsg)] /\ wire'[c] = r /\ \A d \in Conns \ {c} : wire'[d] = wire[d]
  <2>1. wire' = [wire EXCEPT ![c] = r] BY <1>1, <1>5 DEF Deliver
  <2>2. wire \in [Conns -> Seq(WireMsg)] BY TypesEasy
  <2> QED BY ONLY <2>1, <2>2, r \in Seq(WireMsg), c \in Conns
<1>7. received' = (IF m.kind = "reliable" THEN received \cup {m.num} ELSE received) BY <1>1, <1>3 DEF Deliver
<1>8. m.num \in Nat BY DEF WireMsg
<1>9. PICK k : k = client OBVIOUS
<1>10. k \in ClientRec BY <1>9, TypesEasy
<1>11. PICK g : g = (IF m.num > k.got THEN m.num ELSE k.got) OBVIOUS
<1>12. PICK e : e = (IF m.kind = "resumed" THEN c ELSE k.session) OBVIOUS
<1>13. g \in Nat /\ e \in Conns BY <1>8, <1>10, <1>11, <1>12 DEF ClientRec
<1>14. client' = [k EXCEPT !.got = g, !.session = e] BY <1>1, <1>3, <1>9, <1>11, <1>12 DEF Deliver
<1>15. client' \in ClientRec /\ client'.conn = k.conn /\ client'.num = k.num /\ client'.got = g /\ client'.session = e
  BY ONLY <1>10, <1>13, <1>14 DEF ClientRec
<1>16. UNCHANGED <<now, server, worker, open, accepted, resumes>> BY DEF Deliver
<1>17. received' \subseteq Nat BY <1>7, <1>8, TypesEasy
<1>18. Types' BY ONLY <1>6, <1>15, <1>16, <1>17, Types DEF Types, server
<1> QED BY ONLY <1>1, <1>2, <1>4, <1>5, <1>6, <1>7, <1>9, <1>11, <1>12, <1>15, <1>18, m \in WireMsg

\* kick_local.
LEMMA KickFx == ASSUME NEW s \in StreamRec, NEW t, t = [s EXCEPT !.active = FALSE]
                PROVE  /\ t \in StreamRec /\ t.active = FALSE /\ t.offAt = s.offAt /\ t.sid = s.sid
                       /\ t.clientSeq = s.clientSeq /\ SameBox(s, t) /\ SameTimes(s, t)
<1>1. FALSE \in BOOLEAN OBVIOUS
<1> QED BY <1>1 DEF StreamRec, SameBox, SameTimes

\* KickLocal: the types, and what the step does.
LEMMA KickLocalTypes ==
    ASSUME Types, NEW c \in Conns, KickLocal(c)
    PROVE  /\ Types' /\ SameBox(stream, stream') /\ SameTimes(stream, stream') /\ stream'.sid = stream.sid
           /\ stream'.clientSeq = stream.clientSeq /\ stream'.offAt = stream.offAt
           /\ \/ retained' = FALSE /\ Close(c)
              \/ /\ ~(retained /\ stream.sid = c) /\ worker'[c] = Fresh("idle") /\ \A d \in Conns \ {c} : worker'[d] = worker[d]
                 /\ UNCHANGED <<retained, stream, open, wire>>
<1>1. UNCHANGED <<now, sent, reliable, refused, client, received, accepted, resumes>> BY DEF KickLocal
<1>2. CASE retained /\ stream.sid = c
  <2>1. retained' = FALSE /\ stream' = [stream EXCEPT !.active = FALSE] /\ Close(c) BY <1>2 DEF KickLocal
  <2>2. PICK s \in StreamRec : s = stream BY TypesEasy
  <2>3. PICK t : t = stream' OBVIOUS
  <2>4. t = [s EXCEPT !.active = FALSE] BY <2>1, <2>2, <2>3
  <2>5. t \in StreamRec /\ t.offAt = s.offAt /\ t.sid = s.sid /\ t.clientSeq = s.clientSeq /\ SameBox(s, t) /\ SameTimes(s, t)
    BY ONLY <2>4, s \in StreamRec, KickFx
  <2>6. /\ open' \subseteq Conns /\ wire' \in [Conns -> Seq(WireMsg)] /\ worker' \in [Conns -> WorkerRec] BY <2>1, CloseFx
  <2>7. Types' BY ONLY <1>1, <2>1, <2>3, <2>5, <2>6, Types DEF Types
  <2> QED BY ONLY <2>1, <2>2, <2>3, <2>5, <2>7
<1>3. CASE ~(retained /\ stream.sid = c)
  <2>1. worker' = [worker EXCEPT ![c] = Fresh("idle")] /\ UNCHANGED <<retained, stream, open, wire>> BY <1>3 DEF KickLocal
  <2>2. PICK f \in WorkerRec : f = Fresh("idle") BY FreshType DEF Pcs
  <2>3. worker' \in [Conns -> WorkerRec] /\ worker'[c] = f /\ \A d \in Conns \ {c} : worker'[d] = worker[d]
    <3>1. worker' = [worker EXCEPT ![c] = f] BY <2>1, <2>2
    <3>2. worker \in [Conns -> WorkerRec] BY TypesEasy
    <3> QED BY ONLY <3>1, <3>2, f \in WorkerRec, c \in Conns
  <2>4. Types' BY ONLY <1>1, <2>1, <2>3, Types DEF Types
  <2> QED BY ONLY <1>3, <2>1, <2>2, <2>3, <2>4 DEF SameBox, SameTimes
<1> QED BY <1>2, <1>3

\* The replayed messages, then ReconnectRsp if the stream is still there.
Copies(w) == [i \in DOMAIN w.replay |-> [num |-> w.replay[i].num, kind |-> "reliable"]]
Replays(c, tail) ==
    /\ wire'[c] = wire[c] \o Copies(worker[c]) \o tail
    /\ \A d \in Conns \ {c} : wire'[d] = wire[d]
    /\ worker'[c] = Fresh("idle") /\ \A d \in Conns \ {c} : worker'[d] = worker[d]

\* The copies are reliable messages with the numbers of the replay.
LEMMA CopiesType == ASSUME NEW w \in WorkerRec
                    PROVE  /\ w.replay \in Seq(OutboxMsg) /\ Copies(w) \in Seq(WireMsg) /\ Len(Copies(w)) = Len(w.replay)
                           /\ \A i \in 1..Len(w.replay) : Copies(w)[i] = [num |-> w.replay[i].num, kind |-> "reliable"]
<1>1. PICK q \in Seq(OutboxMsg) : q = w.replay BY DEF WorkerRec
<1>2. \A i \in 1..Len(q) : q[i].num \in Nat
  <2> TAKE i \in 1..Len(q)
  <2>1. q[i] \in OutboxMsg BY ElementOfSeq
  <2> QED BY <2>1 DEF OutboxMsg
<1>3. PICK f : f = [i \in 1..Len(q) |-> [num |-> q[i].num, kind |-> "reliable"]] OBVIOUS
<1>4. f \in [1..Len(q) -> WireMsg] BY <1>2, <1>3 DEF WireMsg
<1>5. Len(q) \in Nat /\ DOMAIN q = 1..Len(q) OBVIOUS
<1>6. f \in Seq(WireMsg) /\ Len(f) = Len(q) BY <1>4, <1>5, SeqDef
<1>7. f = Copies(w) BY <1>1, <1>3, <1>5 DEF Copies
<1>8. \A i \in 1..Len(q) : f[i] = [num |-> q[i].num, kind |-> "reliable"] BY <1>3
<1> QED BY ONLY <1>1, <1>6, <1>7, <1>8

\* Replay: the types, and what the step does.
LEMMA ReplayTypes ==
    ASSUME Types, NEW c \in Conns, Replay(c)
    PROVE  /\ Types' /\ Rest(stream, stream')
           /\ \/ /\ Bound(c) /\ stream' = Encode(stream, sent + 1, "control") /\ sent' = sent + 1
                 /\ Replays(c, <<[num |-> sent + 1, kind |-> "resumed"]>>)
              \/ ~Bound(c) /\ UNCHANGED <<stream, sent>> /\ Replays(c, <<>>)
<1>1. PICK w \in WorkerRec : w = worker[c] BY TypesEasy
<1>2. PICK copies \in Seq(WireMsg) : copies = Copies(w) BY CopiesType
<1>3. sent \in Nat /\ sent + 1 \in Nat BY TypesEasy
<1>4. PICK rsp \in Seq(WireMsg) : rsp = <<[num |-> sent + 1, kind |-> "resumed"]>>
  <2>1. PICK m \in WireMsg : m = [num |-> sent + 1, kind |-> "resumed"] BY <1>3 DEF WireMsg
  <2>2. <<m>> \in Seq(WireMsg) OBVIOUS
  <2> QED BY <2>1, <2>2
<1>5. PICK e \in Seq(WireMsg) : e = <<>> BY EmptySeq
<1>6. PICK tail \in Seq(WireMsg) : tail = IF Bound(c) THEN rsp ELSE e OBVIOUS
<1>7. PICK v \in Seq(WireMsg) : v = wire[c] BY TypesEasy
<1>8. PICK r \in Seq(WireMsg) : r = v \o copies \o tail
  <2>1. PICK x \in Seq(WireMsg) : x = v \o copies BY ConcatProperties
  <2>2. x \o tail \in Seq(WireMsg) BY ConcatProperties
  <2> QED BY <2>1, <2>2
<1>9. wire' \in [Conns -> Seq(WireMsg)] /\ wire'[c] = r /\ \A d \in Conns \ {c} : wire'[d] = wire[d]
  <2>1. wire' = [wire EXCEPT ![c] = r] BY <1>1, <1>2, <1>4, <1>5, <1>6, <1>7, <1>8 DEF Replay, Copies
  <2>2. wire \in [Conns -> Seq(WireMsg)] BY TypesEasy
  <2> QED BY ONLY <2>1, <2>2, r \in Seq(WireMsg), c \in Conns, SMTT(30)
<1>10. PICK f \in WorkerRec : f = Fresh("idle") BY FreshType DEF Pcs
<1>11. worker' \in [Conns -> WorkerRec] /\ worker'[c] = f /\ \A d \in Conns \ {c} : worker'[d] = worker[d]
  <2>1. worker' = [worker EXCEPT ![c] = f] BY <1>10 DEF Replay
  <2>2. worker \in [Conns -> WorkerRec] BY TypesEasy
  <2> QED BY ONLY <2>1, <2>2, f \in WorkerRec, c \in Conns
<1>12. UNCHANGED <<now, retained, open, reliable, refused, client, received, accepted, resumes>> BY DEF Replay
<1>13. Replays(c, tail) BY ONLY <1>1, <1>2, <1>7, <1>8, <1>9, <1>10, <1>11 DEF Replays
<1>14. CASE Bound(c)
  <2>1. stream' = Encode(stream, sent + 1, "control") /\ sent' = sent + 1 BY <1>14 DEF Replay
  <2>2. stream' \in StreamRec /\ Rest(stream, stream') BY <1>3, <2>1, TypesEasy, EncodeType
  <2>3. Types' BY ONLY <1>3, <1>9, <1>11, <1>12, <2>1, <2>2, Types DEF Types
  <2> QED BY <1>4, <1>6, <1>13, <1>14, <2>1, <2>2, <2>3
<1>15. CASE ~Bound(c)
  <2>1. stream' = stream /\ sent' = sent BY <1>15 DEF Replay
  <2>2. Types' BY ONLY <1>9, <1>11, <1>12, <2>1, Types DEF Types
  <2>3. Rest(stream, stream') BY <2>1 DEF Rest
  <2> QED BY <1>5, <1>6, <1>13, <1>15, <2>1, <2>2, <2>3
<1> QED BY <1>14, <1>15

\* A worker's remainder of a number.
LEMMA ModSeqs == ASSUME NEW n \in Nat PROVE n % SeqMod \in Seqs
<1>1. SeqMod \in Nat /\ SeqMod > 0 BY StreamConfig DEF StreamConfig
<1>2. n % SeqMod \in 0..(SeqMod - 1) BY ONLY <1>1, n \in Nat, ModRange
<1> QED BY <1>2 DEF Seqs

Completes(c, w, p, a) ==
    /\ c \in open /\ MayComplete(p, w)
    /\ SameBox(a, stream') /\ SameTimes(a, stream')
    /\ stream'.active = TRUE /\ stream'.sid = c /\ stream'.clientSeq = w.num % SeqMod /\ stream'.offAt = Online
    /\ worker'[c].pc = "replaying" /\ worker'[c].replay = ReplayOf(a.outbox, w.ack)
    /\ \A d \in Conns \ {c} : worker'[d] = worker[d]
    /\ UNCHANGED <<open, wire>>
GivesUp(c, p) == (stream' = stream \/ stream' = p) /\ Close(c)

\* CompleteReconnect: the types, and what the step does.
LEMMA CompleteReconnectTypes ==
    ASSUME Types, NEW c \in Conns, CompleteReconnect(c)
    PROVE  /\ Types'
           /\ \E w \in WorkerRec : \E p, a \in StreamRec :
                 /\ w = worker[c] /\ w.pc = "authorized"
                 /\ p = PruneOutbox(stream) /\ a = AcknowledgeOutbox(p, w.ack % SeqMod)
                 /\ Rest(stream, p) /\ Rest(stream, a)
                 /\ Completes(c, w, p, a) \/ GivesUp(c, p)
<1>1. PICK w \in WorkerRec : w = worker[c] BY TypesEasy
<1>2. PICK p : p = PruneOutbox(stream) OBVIOUS
<1>3. p \in StreamRec /\ Rest(stream, p) BY <1>2, TypesEasy, PruneType
<1>4. PICK a : a = AcknowledgeOutbox(p, w.ack % SeqMod) OBVIOUS
<1>5. a \in StreamRec /\ Rest(p, a) BY <1>3, <1>4, AckType
<1>6. Rest(stream, a) BY ONLY <1>3, <1>5 DEF Rest
<1>7. w.pc = "authorized" BY <1>1 DEF CompleteReconnect
<1>8. UNCHANGED <<now, retained, sent, reliable, refused, client, received, accepted, resumes>> BY DEF CompleteReconnect
<1>9. CASE c \in open /\ MayComplete(p, w)
  <2>1. stream' = [a EXCEPT !.active = TRUE, !.sid = c, !.clientSeq = w.num % SeqMod, !.offAt = Online]
    BY <1>1, <1>2, <1>4, <1>9 DEF CompleteReconnect
  <2>2. worker' = [worker EXCEPT ![c].pc = "replaying", ![c].replay = ReplayOf(a.outbox, w.ack)]
    BY <1>1, <1>2, <1>4, <1>9 DEF CompleteReconnect
  <2>3. UNCHANGED <<open, wire>> BY <1>1, <1>2, <1>4, <1>9 DEF CompleteReconnect
  <2>4. PICK seq \in Seqs : seq = w.num % SeqMod BY ModSeqs DEF WorkerRec
  <2>5. PICK t : t = stream' OBVIOUS
  <2>6. t = [a EXCEPT !.active = TRUE, !.sid = c, !.clientSeq = seq, !.offAt = Online] BY <2>1, <2>4, <2>5
  <2>7. /\ t \in StreamRec /\ t.active = TRUE /\ t.sid = c /\ t.clientSeq = seq /\ t.offAt = Online
        /\ SameBox(a, t) /\ SameTimes(a, t)
    <3>1. Online \in {Online} \cup Nat /\ TRUE \in BOOLEAN OBVIOUS
    <3>2. t \in StreamRec /\ t.active = TRUE /\ t.sid = c /\ t.clientSeq = seq /\ t.offAt = Online
      BY ONLY <1>5, <2>6, <3>1, c \in Conns, seq \in Seqs DEF StreamRec
    <3>3. SameBox(a, t) /\ SameTimes(a, t)
      BY ONLY <1>5, <2>6, <3>1, c \in Conns, seq \in Seqs DEF StreamRec, SameBox, SameTimes
    <3> QED BY <3>2, <3>3
  <2>8. PICK q \in Seq(OutboxMsg) : q = ReplayOf(a.outbox, w.ack) BY <1>5, ReplayType DEF StreamRec
  <2>9. PICK f : f = [[w EXCEPT !.pc = "replaying"] EXCEPT !.replay = q] OBVIOUS
  <2>10. f \in WorkerRec /\ f.pc = "replaying" /\ f.replay = q
    <3>1. "replaying" \in Pcs BY DEF Pcs
    <3> QED BY ONLY <2>9, <3>1, w \in WorkerRec, q \in Seq(OutboxMsg) DEF WorkerRec
  <2>11. worker \in [Conns -> WorkerRec] BY TypesEasy
  <2>12. worker' = [worker EXCEPT ![c] = f] BY <1>1, <2>2, <2>8, <2>9, <2>11
  <2>13. worker' \in [Conns -> WorkerRec] /\ worker'[c] = f /\ \A d \in Conns \ {c} : worker'[d] = worker[d]
    BY ONLY <2>10, <2>11, <2>12, c \in Conns
  <2>14. Types' BY ONLY <1>8, <2>3, <2>5, <2>7, <2>13, Types DEF Types
  <2>15. Completes(c, w, p, a) BY ONLY <1>9, <2>3, <2>4, <2>5, <2>7, <2>8, <2>10, <2>13 DEF Completes
  <2> QED BY <1>1, <1>2, <1>3, <1>4, <1>5, <1>6, <1>7, <2>14, <2>15
<1>10. CASE ~(c \in open /\ MayComplete(p, w))
  <2>1. (stream' = stream \/ stream' = p) /\ Close(c) BY <1>1, <1>2, <1>4, <1>10 DEF CompleteReconnect
  <2>2. stream' \in StreamRec BY <1>3, <2>1, TypesEasy
  <2>3. /\ open' \subseteq Conns /\ wire' \in [Conns -> Seq(WireMsg)] /\ worker' \in [Conns -> WorkerRec] BY <2>1, CloseFx
  <2>4. Types' BY ONLY <1>8, <2>2, <2>3, Types DEF Types
  <2>5. GivesUp(c, p) BY <2>1 DEF GivesUp
  <2> QED BY <1>1, <1>2, <1>3, <1>4, <1>5, <1>6, <1>7, <2>4, <2>5
<1> QED BY <1>9, <1>10

Authorizes(c, num, p, times) ==
    /\ ~Refused(client.session, num) /\ ~OutboxGap(p, client.got % SeqMod)
    /\ p.reconnectCount < ReconnectTotal /\ Len(times) < ReconnectWindowCount
    /\ stream'.reconnectCount = p.reconnectCount + 1 /\ stream'.reconnectTimes = Append(times, now)
    /\ resumes' = Append(resumes, now) /\ open' = open \cup {c}
    /\ worker'[c] = [pc |-> "authorized", prev |-> client.session, num |-> num, ack |-> client.got, replay |-> <<>>]
Refuses(c, p, times) ==
    /\ stream'.reconnectCount = p.reconnectCount
    /\ stream'.reconnectTimes = p.reconnectTimes \/ stream'.reconnectTimes = times
    /\ resumes' = resumes /\ open' = open /\ worker'[c] = Fresh("closed")

\* AuthorizeReconnect: the types, and what the step does.
LEMMA AuthorizeReconnectTypes ==
    ASSUME Types, NEW c \in Conns, NEW num \in ClientNums, AuthorizeReconnect(c, num)
    PROVE  /\ Types' /\ client'.num = num /\ client'.conn = c /\ client'.session = client.session /\ client'.got = client.got
           /\ \A d \in Conns \ {c} : worker'[d] = worker[d]
           /\ \E p \in StreamRec : \E times \in Seq(Nat) :
                 /\ p = PruneOutbox(stream) /\ Rest(stream, p) /\ times = Recent(stream.reconnectTimes, ReconnectWindow)
                 /\ SameBox(p, stream') \/ SameBox(stream, stream')
                 /\ stream'.sid = p.sid /\ stream'.active = p.active /\ stream'.clientSeq = p.clientSeq /\ stream'.offAt = p.offAt
                 /\ stream'.requestTimes = p.requestTimes
                 /\ Authorizes(c, num, p, times) \/ Refuses(c, p, times)
<1>1. PICK p : p = PruneOutbox(stream) OBVIOUS
<1>2. p \in StreamRec /\ Rest(stream, p) BY <1>1, TypesEasy, PruneType
<1>3. p.reconnectTimes = stream.reconnectTimes BY <1>2 DEF Rest
<1>4. PICK times \in Seq(Nat) : times = Recent(stream.reconnectTimes, ReconnectWindow)
  <2>1. stream.reconnectTimes \in Seq(Nat) BY TypesEasy DEF StreamRec
  <2>2. ReconnectWindow \in Nat BY StreamConfig DEF StreamConfig
  <2> QED BY <2>1, <2>2, RecentType
<1>5. PICK ok \in BOOLEAN : ok = (/\ ~Refused(client.session, num) /\ ~OutboxGap(p, client.got % SeqMod)
                                  /\ ~(p.reconnectCount >= ReconnectTotal) /\ Len(times) < ReconnectWindowCount)
  OBVIOUS
<1>6. num \in Nat BY NumType
<1>7. /\ client' \in ClientRec /\ client'.num = num
      /\ client'.conn = c /\ client'.session = client.session /\ client'.got = client.got
  <2>1. client' = [client EXCEPT !.conn = c, !.num = num] BY DEF AuthorizeReconnect
  <2>2. client \in ClientRec BY TypesEasy
  <2> QED BY ONLY <1>6, <2>1, <2>2, c \in Conns DEF ClientRec
<1>8. UNCHANGED <<now, retained, wire, sent, reliable, refused, received, accepted>> BY DEF AuthorizeReconnect
<1>9. p.reconnectCount \in Nat /\ ReconnectTotal \in Nat BY <1>2, StreamConfig DEF StreamRec, StreamConfig
<1>10. CASE ok = TRUE
  <2>1. /\ ~Refused(client.session, num) /\ ~OutboxGap(p, client.got % SeqMod)
        /\ p.reconnectCount < ReconnectTotal /\ Len(times) < ReconnectWindowCount
    BY <1>5, <1>9, <1>10
  <2>2. stream' = [p EXCEPT !.reconnectCount = @ + 1, !.reconnectTimes = Append(times, now)]
    BY <1>1, <1>3, <1>4, <1>5, <1>10 DEF AuthorizeReconnect
  <2>3. resumes' = Append(resumes, now) /\ open' = open \cup {c}
    BY <1>1, <1>3, <1>4, <1>5, <1>10 DEF AuthorizeReconnect
  <2>4. worker' = [worker EXCEPT ![c] = [pc |-> "authorized", prev |-> client.session, num |-> num,
                                         ack |-> client.got, replay |-> <<>>]]
    BY <1>1, <1>3, <1>4, <1>5, <1>10 DEF AuthorizeReconnect
  <2>5. PICK n \in Nat : n = p.reconnectCount + 1 BY <1>9
  <2>6. now \in Nat BY TypesEasy
  <2>7. PICK q \in Seq(Nat) : q = Append(times, now) BY <2>6, AppendProperties
  <2>8. PICK t : t = stream' OBVIOUS
  <2>9. t = [p EXCEPT !.reconnectCount = n, !.reconnectTimes = q] BY <2>2, <2>5, <2>7, <2>8
  <2>10. /\ t \in StreamRec /\ t.reconnectCount = n /\ t.reconnectTimes = q /\ SameBox(p, t)
         /\ t.sid = p.sid /\ t.active = p.active /\ t.clientSeq = p.clientSeq /\ t.offAt = p.offAt
         /\ t.requestTimes = p.requestTimes
    BY ONLY <1>2, <2>9, n \in Nat, q \in Seq(Nat) DEF StreamRec, SameBox
  <2>11. resumes' \in Seq(Nat)
    <3>1. resumes \in Seq(Nat) BY TypesEasy
    <3>2. Append(resumes, now) \in Seq(Nat) BY ONLY <2>6, <3>1, AppendProperties
    <3> QED BY <2>3, <3>2
  <2>12. PICK f : f = [pc |-> "authorized", prev |-> client.session, num |-> num, ack |-> client.got, replay |-> <<>>] OBVIOUS
  <2>13. f \in WorkerRec
    <3>1. "authorized" \in Pcs /\ <<>> \in Seq(OutboxMsg) /\ client.session \in Conns /\ client.got \in Nat BY TypesEasy DEF Pcs
    <3> QED BY ONLY <1>6, <2>12, <3>1 DEF WorkerRec
  <2>14. worker' \in [Conns -> WorkerRec] /\ worker'[c] = f /\ \A d \in Conns \ {c} : worker'[d] = worker[d]
    <3>1. worker' = [worker EXCEPT ![c] = f] BY <2>4, <2>12
    <3>2. worker \in [Conns -> WorkerRec] BY TypesEasy
    <3> QED BY ONLY <3>1, <3>2, <2>13, c \in Conns
  <2>15. open' \subseteq Conns BY <2>3, TypesEasy
  <2>16. Types' BY ONLY <1>7, <1>8, <2>8, <2>10, <2>11, <2>14, <2>15, Types DEF Types
  <2>17. Authorizes(c, num, p, times) BY ONLY <2>1, <2>3, <2>5, <2>7, <2>8, <2>10, <2>12, <2>14 DEF Authorizes
  <2>18. \A d \in Conns \ {c} : worker'[d] = worker[d] BY ONLY <2>14
  <2>19. /\ SameBox(p, stream') \/ SameBox(stream, stream')
         /\ stream'.sid = p.sid /\ stream'.active = p.active /\ stream'.clientSeq = p.clientSeq /\ stream'.offAt = p.offAt
         /\ stream'.requestTimes = p.requestTimes
    BY ONLY <2>8, <2>10
  <2> QED BY ONLY <1>1, <1>2, <1>4, <1>7, <2>16, <2>17, <2>18, <2>19
<1>11. CASE ok = FALSE
  <2>1. stream' = stream \/ stream' = p \/ stream' = [p EXCEPT !.reconnectTimes = times]
    BY <1>1, <1>3, <1>4, <1>5, <1>11 DEF AuthorizeReconnect
  <2>2. resumes' = resumes /\ open' = open
    BY <1>1, <1>3, <1>4, <1>5, <1>11 DEF AuthorizeReconnect
  <2>3. worker' = [worker EXCEPT ![c] = Fresh("closed")]
    BY <1>1, <1>3, <1>4, <1>5, <1>11 DEF AuthorizeReconnect
  <2>4. PICK t : t = stream' OBVIOUS
  <2>5. /\ t \in StreamRec /\ t.reconnectCount = p.reconnectCount
        /\ t.reconnectTimes = p.reconnectTimes \/ t.reconnectTimes = times
        /\ SameBox(p, t) \/ SameBox(stream, t)
        /\ t.sid = p.sid /\ t.active = p.active /\ t.clientSeq = p.clientSeq /\ t.offAt = p.offAt
        /\ t.requestTimes = p.requestTimes
    <3>1. CASE t = stream BY <1>2, <3>1, TypesEasy DEF Rest, SameBox
    <3>2. CASE t = p BY <1>2, <3>2 DEF SameBox
    <3>3. CASE t = [p EXCEPT !.reconnectTimes = times] BY ONLY <1>2, <3>3, times \in Seq(Nat) DEF StreamRec, SameBox
    <3> QED BY <2>1, <2>4, <3>1, <3>2, <3>3
  <2>6. PICK f \in WorkerRec : f = Fresh("closed") BY FreshType DEF Pcs
  <2>7. worker' \in [Conns -> WorkerRec] /\ worker'[c] = f /\ \A d \in Conns \ {c} : worker'[d] = worker[d]
    <3>1. worker' = [worker EXCEPT ![c] = f] BY <2>3, <2>6
    <3>2. worker \in [Conns -> WorkerRec] BY TypesEasy
    <3> QED BY ONLY <3>1, <3>2, f \in WorkerRec, c \in Conns
  <2>8. Types' BY ONLY <1>7, <1>8, <2>2, <2>4, <2>5, <2>7, Types DEF Types
  <2>9. Refuses(c, p, times) BY ONLY <2>2, <2>4, <2>5, <2>6, <2>7 DEF Refuses
  <2>10. \A d \in Conns \ {c} : worker'[d] = worker[d] BY ONLY <2>7
  <2>11. /\ SameBox(p, stream') \/ SameBox(stream, stream')
         /\ stream'.sid = p.sid /\ stream'.active = p.active /\ stream'.clientSeq = p.clientSeq /\ stream'.offAt = p.offAt
         /\ stream'.requestTimes = p.requestTimes
    BY ONLY <2>4, <2>5
  <2> QED BY ONLY <1>1, <1>2, <1>4, <1>7, <2>8, <2>9, <2>10, <2>11
<1> QED BY <1>10, <1>11

\* The login has succeeded.
LEMMA InitTypes == ASSUME Init PROVE Types
<1>1. StartSeq \in Nat /\ StartSeq % SeqMod \in Seqs BY StreamConfig, ModSeqs DEF StreamConfig
<1>2. 0 \in Conns BY ConnsType
<1>3. stream \in StreamRec
  <2>1. PICK z \in Seqs : z = StartSeq % SeqMod BY <1>1
  <2>2. stream = [sid |-> 0, active |-> TRUE, serverSeq |-> z, clientSeq |-> z, outbox |-> <<>>, dropped |-> NoSeq,
                  offAt |-> Online, reconnectCount |-> 0, reconnectTimes |-> <<>>, requestTimes |-> <<>>]
    BY <2>1 DEF Init
  <2>3. /\ TRUE \in BOOLEAN /\ <<>> \in Seq(OutboxMsg) /\ <<>> \in Seq(Nat) /\ NoSeq \in {NoSeq} \cup Seqs
        /\ Online \in {Online} \cup Nat /\ 0 \in Nat
    OBVIOUS
  <2> QED BY ONLY <1>2, <2>2, <2>3, z \in Seqs DEF StreamRec
<1>4. worker \in [Conns -> WorkerRec]
  <2>1. Fresh("idle") \in WorkerRec /\ Fresh("none") \in WorkerRec BY FreshType DEF Pcs
  <2>2. PICK f, g \in WorkerRec : f = Fresh("idle") /\ g = Fresh("none") BY <2>1
  <2>3. worker = [c \in Conns |-> IF c = 0 THEN f ELSE g]
    <3>1. \A c \in Conns : Fresh(IF c = 0 THEN "idle" ELSE "none") = IF c = 0 THEN f ELSE g BY <2>2
    <3>2. worker = [c \in Conns |-> Fresh(IF c = 0 THEN "idle" ELSE "none")] BY DEF Init
    <3> QED BY ONLY <3>1, <3>2
  <2> QED BY <2>3
<1>5. wire \in [Conns -> Seq(WireMsg)]
  <2>1. <<>> \in Seq(WireMsg) OBVIOUS
  <2> QED BY <2>1 DEF Init
<1>6. client \in ClientRec
  <2>1. client = [conn |-> 0, session |-> 0, got |-> StartSeq, num |-> StartSeq] BY DEF Init
  <2> QED BY <1>1, <1>2, <2>1 DEF ClientRec
<1>7. accepted \in Seq(AcceptedRec) /\ resumes \in Seq(Nat) BY DEF Init
<1>8. open \subseteq Conns /\ now \in Nat /\ retained \in BOOLEAN BY <1>2 DEF Init
<1>9. sent \in Nat /\ reliable \subseteq Nat /\ refused \subseteq reliable /\ received \subseteq Nat BY <1>1 DEF Init
<1> QED BY ONLY <1>3, <1>4, <1>5, <1>6, <1>7, <1>8, <1>9 DEF Types

\* Every step.
LEMMA NextTypes == ASSUME Types, [Next]_vars PROVE Types'
<1>1. CASE Tick BY <1>1, TickTypes
<1>2. CASE PruneExpired BY <1>2, PruneExpiredTypes
<1>3. CASE PushMail BY <1>3, PushMailTypes
<1>4. ASSUME NEW c \in Conns, Break(c) PROVE Types' BY <1>4, BreakTypes
<1>5. ASSUME NEW c \in Conns, Disconnected(c) PROVE Types' BY <1>5, DisconnectedTypes
<1>6. ASSUME NEW c \in Conns, Deliver(c) PROVE Types' BY <1>6, DeliverTypes
<1>7. ASSUME NEW c \in Conns, Respond(c) PROVE Types' BY <1>7, RespondTypes
<1>8. ASSUME NEW c \in Conns, CompleteReconnect(c) PROVE Types' BY <1>8, CompleteReconnectTypes
<1>9. ASSUME NEW c \in Conns, ReconnectFails(c) PROVE Types' BY <1>9, ReconnectFailsTypes
<1>10. ASSUME NEW c \in Conns, Replay(c) PROVE Types' BY <1>10, ReplayTypes
<1>11. ASSUME NEW c \in Conns, KickLocal(c) PROVE Types' BY <1>11, KickLocalTypes
<1>12. ASSUME NEW c \in Conns, NEW num \in ClientNums, RejectFrame(c, num) PROVE Types' BY <1>12, RejectFrameTypes
<1>13. ASSUME NEW c \in Conns, NEW num \in ClientNums, AuthorizeReconnect(c, num) PROVE Types' BY <1>13, AuthorizeReconnectTypes
<1>14. ASSUME NEW c \in Conns, NEW num \in ClientNums, NEW ack \in Acks, Request(c, num, ack) PROVE Types' BY <1>14, RequestTypes
<1>15. ASSUME NEW c \in Conns, NEW num \in ClientNums, NEW ack \in Acks, NEW ping \in BOOLEAN, Acknowledge(c, num, ack, ping)
       PROVE  Types'
  BY <1>15, AcknowledgeTypes
<1>16. CASE UNCHANGED vars BY <1>16 DEF vars, Types
<1> QED BY <1>1, <1>2, <1>3, <1>4, <1>5, <1>6, <1>7, <1>8, <1>9, <1>10, <1>11, <1>12, <1>13, <1>14, <1>15, <1>16 DEF Next

\* The deques of the stream stay within their limits, and the clock within its bound.
Bounds == /\ now <= MaxTime /\ Limits(stream)
          /\ stream.offAt = Online \/ stream.offAt <= MaxTime

\* The bounds hold again when the limited fields do.
LEMMA BoundsKept == ASSUME Bounds, now' = now, SameTimes(stream, stream'), Len(stream'.outbox) <= OutboxCap,
                           stream'.offAt = stream.offAt \/ stream'.offAt = Online \/ stream'.offAt = now
                    PROVE  Bounds'
BY DEF Bounds, Limits, SameTimes

\* A step that sends.
LEMMA BoundsSent == ASSUME Types, NEW s \in StreamRec, NEW c, NEW kind \in {"reliable", "control"}, Sends(s, c, kind),
                           Len(s.outbox) <= OutboxCap
                    PROVE  Len(stream'.outbox) <= OutboxCap
<1>1. stream' = Encode(s, sent + 1, kind) BY DEF Sends
<1>2. sent + 1 \in Nat BY TypesEasy
<1> QED BY <1>1, <1>2, TypesEasy, EncodeType

\* A deque with the times forgotten that have left the window.
LEMMA RecentShorter == ASSUME NEW q \in Seq(Nat), NEW window \in Nat, NEW n \in Nat, Len(q) <= n PROVE Len(Recent(q, window)) <= n
BY RecentTimes, FromShorter

\* Every step keeps the bounds.
LEMMA NextBounds == ASSUME Types, Bounds, [Next]_vars PROVE Bounds'
<1>1. /\ stream \in StreamRec /\ now \in Nat /\ now <= MaxTime /\ MaxTime \in Nat /\ Len(stream.outbox) <= OutboxCap
      /\ stream.reconnectCount <= ReconnectTotal /\ Len(stream.reconnectTimes) <= ReconnectWindowCount
      /\ Len(stream.requestTimes) <= RequestWindowCount
  BY TypesEasy, StreamConfig DEF Bounds, Limits, StreamConfig
<1>2. CASE Tick
  <2>1. now' = now + 1 /\ now < MaxTime /\ stream' = stream BY <1>2 DEF Tick, server
  <2> QED BY <1>1, <2>1 DEF Bounds
<1>3. ASSUME stream' = stream, now' = now PROVE Bounds' BY <1>3 DEF Bounds
<1>4. CASE PushMail
  <2>1. Sends(stream, stream.sid, "reliable") /\ Rest(stream, stream') /\ now' = now BY <1>4, PushMailTypes DEF PushMail
  <2>2. Len(stream'.outbox) <= OutboxCap BY <1>1, <2>1, BoundsSent
  <2>3. SameTimes(stream, stream') /\ stream'.offAt = stream.offAt BY <2>1 DEF Rest, SameTimes
  <2> QED BY <2>1, <2>2, <2>3, BoundsKept
<1>5. ASSUME NEW c \in Conns, Disconnected(c) PROVE Bounds'
  <2>1. /\ SameBox(stream, stream') /\ SameTimes(stream, stream') /\ now' = now
        /\ stream'.offAt = stream.offAt \/ stream'.offAt = now
    BY <1>5, DisconnectedTypes DEF Disconnected
  <2>2. Len(stream'.outbox) <= OutboxCap BY <1>1, <2>1 DEF SameBox
  <2> QED BY <2>1, <2>2, BoundsKept
<1>6. ASSUME NEW c \in Conns, KickLocal(c) PROVE Bounds'
  <2>1. /\ SameBox(stream, stream') /\ SameTimes(stream, stream') /\ now' = now
        /\ stream'.offAt = stream.offAt
    BY <1>6, KickLocalTypes DEF KickLocal
  <2>2. Len(stream'.outbox) <= OutboxCap BY <1>1, <2>1 DEF SameBox
  <2> QED BY <2>1, <2>2, BoundsKept
<1>7. ASSUME NEW c \in Conns, Respond(c) PROVE Bounds'
  <2>1. Rest(stream, stream') /\ now' = now /\ (Sends(stream, c, "reliable") \/ stream' = stream)
    BY <1>7, RespondTypes DEF Respond
  <2>2. Len(stream'.outbox) <= OutboxCap BY <1>1, <2>1, BoundsSent
  <2>3. SameTimes(stream, stream') /\ stream'.offAt = stream.offAt BY <2>1 DEF Rest, SameTimes
  <2> QED BY <2>1, <2>2, <2>3, BoundsKept
<1>8. ASSUME NEW c \in Conns, Replay(c) PROVE Bounds'
  <2>1. Rest(stream, stream') /\ now' = now /\ (stream' = Encode(stream, sent + 1, "control") \/ stream' = stream)
    BY <1>8, ReplayTypes DEF Replay
  <2>2. Len(stream'.outbox) <= OutboxCap
    <3>1. sent + 1 \in Nat BY TypesEasy
    <3> QED BY <1>1, <2>1, <3>1, EncodeType
  <2>3. SameTimes(stream, stream') /\ stream'.offAt = stream.offAt BY <2>1 DEF Rest, SameTimes
  <2> QED BY <2>1, <2>2, <2>3, BoundsKept
<1>9. ASSUME NEW c \in Conns, CompleteReconnect(c) PROVE Bounds'
  <2>1. PICK w \in WorkerRec, p \in StreamRec, a \in StreamRec :
            /\ p = PruneOutbox(stream) /\ a = AcknowledgeOutbox(p, w.ack % SeqMod)
            /\ Rest(stream, p) /\ Rest(stream, a)
            /\ Completes(c, w, p, a) \/ GivesUp(c, p)
    BY <1>9, CompleteReconnectTypes
  <2>2. now' = now BY <1>9 DEF CompleteReconnect
  <2>3. Len(p.outbox) <= OutboxCap BY <1>1, <2>1, PruneType
  <2>4. Len(a.outbox) <= OutboxCap BY <2>1, <2>3, AckType
  <2>5. CASE Completes(c, w, p, a)
    <3>1. SameBox(a, stream') /\ SameTimes(a, stream') /\ stream'.offAt = Online BY <2>5 DEF Completes
    <3>2. SameTimes(stream, stream') BY <2>1, <3>1 DEF Rest, SameTimes
    <3>3. Len(stream'.outbox) <= OutboxCap BY <2>4, <3>1 DEF SameBox
    <3> QED BY <2>2, <3>1, <3>2, <3>3, BoundsKept
  <2>6. CASE GivesUp(c, p)
    <3>1. stream' = stream \/ stream' = p BY <2>6 DEF GivesUp
    <3>2. SameTimes(stream, stream') /\ stream'.offAt = stream.offAt BY <2>1, <3>1 DEF Rest, SameTimes
    <3>3. Len(stream'.outbox) <= OutboxCap BY <1>1, <2>3, <3>1
    <3> QED BY <2>2, <3>2, <3>3, BoundsKept
  <2> QED BY <2>1, <2>5, <2>6
<1>10. ASSUME NEW c \in Conns, NEW num \in ClientNums, NEW ack, NEW ping, Acknowledge(c, num, ack, ping) PROVE Bounds'
  <2>1. PICK s \in StreamRec :
            /\ s = AcceptSequence(stream, num % SeqMod, ack % SeqMod) /\ Rest(s, stream')
            /\ Sends(s, c, "control") \/ stream' = s
    BY <1>10, AcknowledgeTypes
  <2>2. now' = now /\ num % SeqMod \in Seqs BY <1>10, NumType DEF Acknowledge
  <2>3. /\ Len(s.outbox) <= OutboxCap /\ s.offAt = stream.offAt /\ s.reconnectCount = stream.reconnectCount
        /\ s.reconnectTimes = stream.reconnectTimes /\ s.requestTimes = stream.requestTimes
    BY <1>1, <2>1, <2>2, AcceptType
  <2>4. Len(stream'.outbox) <= OutboxCap BY <2>1, <2>3, BoundsSent
  <2>5. SameTimes(stream, stream') /\ stream'.offAt = stream.offAt BY <2>1, <2>3 DEF Rest, SameTimes
  <2> QED BY <2>2, <2>4, <2>5, BoundsKept
<1>11. ASSUME NEW c \in Conns, NEW num \in ClientNums, NEW ack, Request(c, num, ack) PROVE Bounds'
  <2>1. PICK a \in StreamRec, s \in StreamRec, times \in Seq(Nat) :
            /\ a = AcceptSequence(stream, num % SeqMod, ack % SeqMod) /\ times = Recent(stream.requestTimes, RequestWindow)
            /\ s = [a EXCEPT !.requestTimes = s.requestTimes] /\ Rest(s, stream')
            /\ Passed(c, num, s, times) \/ RateLimited(c, s, times)
    BY <1>11, RequestTypes
  <2>2. now' = now /\ num % SeqMod \in Seqs BY <1>11, NumType DEF Request
  <2>3. /\ Len(a.outbox) <= OutboxCap /\ a.offAt = stream.offAt /\ a.reconnectCount = stream.reconnectCount
        /\ a.reconnectTimes = stream.reconnectTimes
    BY <1>1, <2>1, <2>2, AcceptType
  <2>4. /\ s.outbox = a.outbox /\ s.offAt = a.offAt /\ s.reconnectCount = a.reconnectCount /\ s.reconnectTimes = a.reconnectTimes
    <3>1. PICK q \in Seq(Nat) : q = s.requestTimes BY DEF StreamRec
    <3>2. s = [a EXCEPT !.requestTimes = q] BY <2>1, <3>1
    <3> QED BY ONLY <3>2, a \in StreamRec DEF StreamRec
  <2>5. Len(stream'.outbox) <= OutboxCap
    <3>1. stream' = s \/ Sends(s, c, "reliable") BY <2>1 DEF Passed, RateLimited
    <3>2. Len(s.outbox) <= OutboxCap BY <2>3, <2>4
    <3> QED BY <3>1, <3>2, BoundsSent
  <2>6. RequestWindow \in Nat /\ RequestWindowCount \in Nat /\ stream.requestTimes \in Seq(Nat)
    BY <1>1, StreamConfig DEF StreamConfig, StreamRec
  <2>7. Len(times) <= RequestWindowCount BY <1>1, <2>1, <2>6, RecentShorter
  <2>8. Len(s.requestTimes) <= RequestWindowCount
    <3>1. CASE Passed(c, num, s, times)
      <4>1. s.requestTimes = Append(times, now) /\ Len(times) < RequestWindowCount BY <3>1 DEF Passed, RatePasses
      <4>2. Len(Append(times, now)) = Len(times) + 1 /\ Len(times) \in Nat BY <1>1, AppendProperties
      <4> QED BY ONLY <2>6, <4>1, <4>2
    <3>2. CASE RateLimited(c, s, times) BY <2>7, <3>2 DEF RateLimited
    <3> QED BY <2>1, <3>1, <3>2
  <2>9. /\ stream'.requestTimes = s.requestTimes /\ stream'.offAt = stream.offAt /\ stream'.reconnectCount = stream.reconnectCount
        /\ stream'.reconnectTimes = stream.reconnectTimes
    BY <2>1, <2>3, <2>4 DEF Rest
  <2> QED BY ONLY Bounds, <1>1, <2>2, <2>5, <2>8, <2>9 DEF Bounds, Limits
<1>12. ASSUME NEW c \in Conns, NEW num \in ClientNums, AuthorizeReconnect(c, num) PROVE Bounds'
  <2>1. PICK p \in StreamRec, times \in Seq(Nat) :
            /\ p = PruneOutbox(stream) /\ Rest(stream, p) /\ times = Recent(stream.reconnectTimes, ReconnectWindow)
            /\ SameBox(p, stream') \/ SameBox(stream, stream')
            /\ stream'.sid = p.sid /\ stream'.active = p.active /\ stream'.clientSeq = p.clientSeq /\ stream'.offAt = p.offAt
            /\ stream'.requestTimes = p.requestTimes
            /\ Authorizes(c, num, p, times) \/ Refuses(c, p, times)
    BY <1>12, AuthorizeReconnectTypes
  <2>2. now' = now BY <1>12 DEF AuthorizeReconnect
  <2>3. Len(p.outbox) <= OutboxCap BY <1>1, <2>1, PruneType
  <2>4. Len(stream'.outbox) <= OutboxCap BY <1>1, <2>1, <2>3 DEF SameBox
  <2>5. p.offAt = stream.offAt /\ p.requestTimes = stream.requestTimes /\ p.reconnectCount = stream.reconnectCount
        /\ p.reconnectTimes = stream.reconnectTimes
    BY <2>1 DEF Rest
  <2>6. /\ ReconnectWindow \in Nat /\ ReconnectWindowCount \in Nat /\ ReconnectTotal \in Nat
        /\ stream.reconnectTimes \in Seq(Nat) /\ stream.reconnectCount \in Nat
    BY <1>1, StreamConfig DEF StreamConfig, StreamRec
  <2>7. Len(times) <= ReconnectWindowCount BY <1>1, <2>1, <2>6, RecentShorter
  <2>8. stream'.reconnectCount <= ReconnectTotal /\ Len(stream'.reconnectTimes) <= ReconnectWindowCount
    <3>1. CASE Authorizes(c, num, p, times)
      <4>1. /\ stream'.reconnectTimes = Append(times, now) /\ Len(times) < ReconnectWindowCount
            /\ stream'.reconnectCount = p.reconnectCount + 1 /\ p.reconnectCount < ReconnectTotal
        BY <3>1 DEF Authorizes
      <4>2. Len(Append(times, now)) = Len(times) + 1 /\ Len(times) \in Nat BY <1>1, AppendProperties
      <4> QED BY ONLY <2>5, <2>6, <4>1, <4>2
    <3>2. CASE Refuses(c, p, times)
      <4>1. /\ stream'.reconnectTimes = p.reconnectTimes \/ stream'.reconnectTimes = times
            /\ stream'.reconnectCount = p.reconnectCount
        BY <3>2 DEF Refuses
      <4> QED BY ONLY <1>1, <2>5, <2>7, <4>1
    <3> QED BY <2>1, <3>1, <3>2
  <2> QED BY ONLY Bounds, <1>1, <2>1, <2>2, <2>4, <2>5, <2>8 DEF Bounds, Limits
<1>13. CASE PruneExpired BY <1>3, <1>13 DEF PruneExpired
<1>14. ASSUME NEW c \in Conns, Break(c) \/ Deliver(c) \/ ReconnectFails(c) \/ \E num \in ClientNums : RejectFrame(c, num)
       PROVE  Bounds'
  BY <1>3, <1>14 DEF Break, Deliver, ReconnectFails, RejectFrame, server
<1>15. CASE UNCHANGED vars BY <1>3, <1>15 DEF vars
<1> QED BY <1>2, <1>4, <1>5, <1>6, <1>7, <1>8, <1>9, <1>10, <1>11, <1>12, <1>13, <1>14, <1>15 DEF Next

\* The bounds hold at the start.
LEMMA InitBounds == ASSUME Init PROVE Bounds
<1>1. MaxTime \in Nat /\ {OutboxCap, ReconnectTotal, ReconnectWindowCount, RequestWindowCount} \subseteq Nat
  BY StreamConfig DEF StreamConfig
<1>2. Len(<<>>) = 0 OBVIOUS
<1>3. /\ now = 0 /\ stream.outbox = <<>> /\ stream.reconnectCount = 0 /\ stream.reconnectTimes = <<>>
      /\ stream.requestTimes = <<>> /\ stream.offAt = Online
  BY DEF Init
<1> QED BY <1>1, <1>2, <1>3 DEF Bounds, Limits

\* Every variable of the stream, of the connections and of the client keeps its type, and
\* the outbox and the deques of the limits stay within their capacities.
THEOREM TypeCorrect == Spec => []TypeOK
<1>1. Init => Types BY InitTypes
<1>2. Init => Bounds BY InitBounds
<1>3. Types /\ Bounds /\ [Next]_vars => Types' /\ Bounds' BY NextTypes, NextBounds
<1>4. Types /\ Bounds => TypeOK
  <2> SUFFICES ASSUME Types, Bounds PROVE TypeOK OBVIOUS
  <2>1. MaxTime \in Nat /\ ReconnectTotal \in Nat BY StreamConfig DEF StreamConfig
  <2>2. now \in 0..MaxTime /\ retained \in BOOLEAN BY <2>1, TypesEasy DEF Bounds
  <2>3. stream \in StreamRec BY TypesEasy
  <2>4. /\ stream.sid \in Conns /\ stream.active \in BOOLEAN /\ stream.serverSeq \in Seqs /\ stream.clientSeq \in Seqs
        /\ stream.outbox \in Seq(OutboxMsg) /\ stream.dropped \in {NoSeq} \cup Seqs /\ stream.offAt \in {Online} \cup Nat
        /\ stream.reconnectCount \in Nat
    BY <2>3 DEF StreamRec
  <2>5. stream.offAt \in {Online} \cup 0..MaxTime BY <2>1, <2>4 DEF Bounds
  <2>6. stream.reconnectCount \in 0..ReconnectTotal BY <2>1, <2>4 DEF Bounds, Limits
  <2>7. \A c \in Conns : worker[c].pc \in {"none", "idle", "responding", "authorized", "replaying", "closed"}
    BY TypesEasy DEF WorkerRec, Pcs
  <2>8. \A c \in Conns : wire[c] \in Seq([num : Nat, kind : {"reliable", "control", "resumed"}]) BY TypesEasy DEF WireMsg
  <2>9. Len(stream.outbox) <= OutboxCap /\ Len(stream.reconnectTimes) <= ReconnectWindowCount
        /\ Len(stream.requestTimes) <= RequestWindowCount
    BY DEF Bounds, Limits
  <2> QED BY <2>2, <2>4, <2>5, <2>6, <2>7, <2>8, <2>9, TypesEasy DEF TypeOK, Seqs
<1> QED BY <1>1, <1>2, <1>3, <1>4, PTL DEF Spec

-----------------------------------------------------------------------------
(* Connections *)

\* Only the connection of the client is open.  Until its reconnect completes a connection has
\* no part in the stream, and the request it holds is the client's last; an open connection
\* that is past that carries the stream.
OneOpen == open \subseteq {client.conn}
Unbound == \A c \in Conns : worker[c].pc \in {"none", "authorized"} =>
                               stream.sid # c /\ client.session # c /\ wire[c] = <<>>
Asked == \A c \in open : worker[c].pc = "authorized" =>
                            /\ worker[c].num = client.num /\ worker[c].ack = client.got
                            /\ worker[c].prev = client.session
Carries == \A c \in open : worker[c].pc # "authorized" => stream.sid = c
Dead == \A c \in Conns \ open : wire[c] = <<>>

\* No message of q is the answer to a reconnect.
NoAnswer(q) == \A i \in 1..Len(q) : q[i].kind # "resumed"
Replaying == \A c \in Conns : /\ worker[c].pc # "replaying" => worker[c].replay = <<>>
                              /\ worker[c].pc = "replaying" => client.session # c /\ NoAnswer(wire[c])

Wired == OneOpen /\ Unbound /\ Asked /\ Carries /\ Dead /\ Replaying

\* A step of the worker of c, or a message to c.
LEMMA WiredLocal ==
    ASSUME Types, Wired, NEW c \in Conns, worker[c].pc \notin {"none", "authorized"},
           open' = open, stream'.sid = stream.sid,
           client'.conn = client.conn, client'.session = client.session, client'.got = client.got,
           client'.num = client.num \/ c \in open,
           \A d \in Conns \ {c} : worker'[d] = worker[d],
           \/ worker'[c] = worker[c]
           \/ /\ worker[c].pc # "replaying" /\ worker'[c].pc \notin {"none", "authorized", "replaying"}
              /\ worker'[c].replay = worker[c].replay,
           \A d \in Conns \ {c} : wire'[d] = wire[d],
           c \notin open => wire'[c] = wire[c],
           NoAnswer(wire[c]) => NoAnswer(wire'[c])
    PROVE  Wired'
<1>1. OneOpen' BY DEF Wired, OneOpen
<1>2. worker'[c].pc \notin {"none", "authorized"} OBVIOUS
<1>3. Unbound' BY <1>2 DEF Wired, Unbound
<1>4. open \subseteq Conns BY TypesEasy
<1>5. Asked'
  <2> SUFFICES ASSUME NEW d \in open, worker'[d].pc = "authorized"
               PROVE  worker'[d].num = client'.num /\ worker'[d].ack = client'.got /\ worker'[d].prev = client'.session
    BY DEF Asked
  <2>1. d # c /\ d \in Conns BY <1>2, <1>4
  <2>2. c \notin open BY <2>1 DEF Wired, OneOpen
  <2> QED BY <2>1, <2>2 DEF Wired, Asked
<1>6. Carries' BY <1>2, <1>4 DEF Wired, Carries
<1>7. Dead' BY DEF Wired, Dead
<1>8. Replaying' BY DEF Wired, Replaying
<1> QED BY <1>1, <1>3, <1>5, <1>6, <1>7, <1>8 DEF Wired

\* A connection closes or breaks.
LEMMA WiredClosed ==
    ASSUME Types, Wired, NEW c \in Conns, open' = open \ {c}, wire'[c] = <<>>,
           stream'.sid = stream.sid, client' = client,
           \A d \in Conns \ {c} : wire'[d] = wire[d] /\ worker'[d] = worker[d],
           worker'[c] = worker[c] \/ worker'[c] = Fresh("closed")
    PROVE  Wired'
<1>1. Fresh("closed").pc = "closed" /\ Fresh("closed").replay = <<>> BY FreshType DEF Pcs
<1>2. open \subseteq Conns BY TypesEasy
<1>3. OneOpen' /\ Asked' /\ Carries' BY <1>2 DEF Wired, OneOpen, Asked, Carries
<1>4. Unbound' BY <1>1 DEF Wired, Unbound
<1>5. Dead' BY DEF Wired, Dead
<1>6. NoAnswer(wire'[c])
  <2>1. Len(<<>>) = 0 OBVIOUS
  <2>2. 1..0 = {} OBVIOUS
  <2> QED BY <2>1, <2>2 DEF NoAnswer
<1>7. Replaying' BY <1>1, <1>6 DEF Wired, Replaying
<1> QED BY <1>3, <1>4, <1>5, <1>7 DEF Wired

\* Sending changes the wire of c only, if it is open, and answers no reconnect.
LEMMA SendsWire == ASSUME Types, NEW s, NEW c \in Conns, NEW kind \in {"reliable", "control"}, Sends(s, c, kind)
                   PROVE  /\ \A d \in Conns \ {c} : wire'[d] = wire[d]
                          /\ c \notin open => wire'[c] = wire[c]
                          /\ NoAnswer(wire[c]) => NoAnswer(wire'[c])
<1>1. (\A d \in Conns \ {c} : wire'[d] = wire[d]) /\ (c \notin open => wire'[c] = wire[c]) BY DEF Sends
<1>2. wire'[c] = wire[c] \/ wire'[c] = Append(wire[c], [num |-> sent + 1, kind |-> kind]) BY DEF Sends
<1>3. ASSUME wire'[c] = Append(wire[c], [num |-> sent + 1, kind |-> kind]), NoAnswer(wire[c]) PROVE NoAnswer(wire'[c])
  <2>1. PICK q \in Seq(WireMsg) : q = wire[c] BY TypesEasy
  <2>2. PICK m \in WireMsg : m = [num |-> sent + 1, kind |-> kind]
    <3>1. sent + 1 \in Nat /\ kind \in {"reliable", "control", "resumed"} BY TypesEasy
    <3>2. [num |-> sent + 1, kind |-> kind] \in WireMsg BY ONLY <3>1 DEF WireMsg
    <3> QED BY <3>2
  <2>3. PICK r : r = Append(q, m) OBVIOUS
  <2>4. Len(q) \in Nat /\ Len(r) = Len(q) + 1 /\ r[Len(q) + 1] = m /\ \A i \in 1..Len(q) : r[i] = q[i]
    BY <2>3, AppendProperties
  <2>5. m.kind # "resumed" BY <2>2
  <2>6. \A i \in 1..Len(r) : r[i].kind # "resumed"
    <3> TAKE i \in 1..Len(r)
    <3>1. i \in 1..Len(q) \/ i = Len(q) + 1 BY <2>4
    <3> QED BY <1>3, <2>1, <2>4, <2>5, <3>1 DEF NoAnswer
  <2> QED BY <1>3, <2>1, <2>2, <2>3, <2>6 DEF NoAnswer
<1> QED BY <1>1, <1>2, <1>3

\* The connection of the stream has completed its reconnect.
LEMMA StreamPast == ASSUME Types, Wired PROVE worker[stream.sid].pc \notin {"none", "authorized"}
BY TypesEasy DEF Wired, Unbound

\* PushMail keeps the connections as they are described.
LEMMA PushMailWired == ASSUME Types, Wired, PushMail PROVE Wired'
<1>1. Sends(stream, stream.sid, "reliable") /\ Rest(stream, stream') BY PushMailTypes
<1>2. stream.sid \in Conns BY TypesEasy
<1>3. UNCHANGED <<worker, open, client>> BY DEF PushMail
<1>4. PICK c \in Conns : c = stream.sid BY <1>2
<1>5. /\ \A d \in Conns \ {c} : wire'[d] = wire[d] /\ worker'[d] = worker[d]
      /\ c \notin open => wire'[c] = wire[c]
      /\ NoAnswer(wire[c]) => NoAnswer(wire'[c])
  BY <1>1, <1>3, <1>4, SendsWire
<1>6. stream'.sid = stream.sid BY <1>1 DEF Rest
<1>7. worker[c].pc \notin {"none", "authorized"} BY <1>4, StreamPast
<1> QED BY <1>3, <1>5, <1>6, <1>7, WiredLocal

\* Acknowledge keeps the connections as they are described.
LEMMA AcknowledgeWired ==
    ASSUME Types, Wired, NEW c \in Conns, NEW num \in ClientNums, NEW ack, NEW ping, Acknowledge(c, num, ack, ping) PROVE Wired'
<1>1. worker[c].pc = "idle" /\ c \in open BY DEF Acknowledge, CanSend
<1>2. UNCHANGED <<worker, open>> BY DEF Acknowledge
<1>3. PICK s \in StreamRec :
          /\ s = AcceptSequence(stream, num % SeqMod, ack % SeqMod) /\ Rest(s, stream')
          /\ Sends(s, c, "control") \/ (stream' = s /\ UNCHANGED <<sent, reliable, refused, wire>>)
  BY AcknowledgeTypes
<1>4. client'.conn = client.conn /\ client'.session = client.session /\ client'.got = client.got BY AcknowledgeTypes
<1>5. /\ \A d \in Conns \ {c} : wire'[d] = wire[d] /\ worker'[d] = worker[d]
      /\ c \notin open => wire'[c] = wire[c]
      /\ NoAnswer(wire[c]) => NoAnswer(wire'[c])
  BY <1>2, <1>3, SendsWire
<1>6. stream'.sid = stream.sid
  <2>1. s.sid = stream.sid BY <1>3, NumType, TypesEasy, AcceptType
  <2> QED BY <1>3, <2>1 DEF Rest
<1> QED BY <1>1, <1>2, <1>4, <1>5, <1>6, WiredLocal

\* Request keeps the connections as they are described.
LEMMA RequestWired ==
    ASSUME Types, Wired, NEW c \in Conns, NEW num \in ClientNums, NEW ack, Request(c, num, ack) PROVE Wired'
<1>1. worker[c].pc = "idle" /\ c \in open BY DEF Request, CanSend
<1>2. open' = open BY DEF Request
<1>3. PICK a \in StreamRec, s \in StreamRec, times \in Seq(Nat) :
          /\ a = AcceptSequence(stream, num % SeqMod, ack % SeqMod)
          /\ s = [a EXCEPT !.requestTimes = s.requestTimes] /\ Rest(s, stream')
          /\ Passed(c, num, s, times) \/ RateLimited(c, s, times)
  BY RequestTypes
<1>4. client'.conn = client.conn /\ client'.session = client.session /\ client'.got = client.got BY RequestTypes
<1>5. stream'.sid = stream.sid
  <2>1. a.sid = stream.sid BY <1>3, NumType, TypesEasy, AcceptType
  <2>2. s.sid = a.sid
    <3>1. PICK q : q = s.requestTimes OBVIOUS
    <3>2. s = [a EXCEPT !.requestTimes = q] BY <1>3, <3>1
    <3> QED BY ONLY <3>2, a \in StreamRec DEF StreamRec
  <2> QED BY <1>3, <2>1, <2>2 DEF Rest
<1>6. CASE Passed(c, num, s, times)
  <2>1. /\ UNCHANGED wire /\ worker'[c].pc = "responding" /\ worker'[c].replay = worker[c].replay
        /\ \A d \in Conns \ {c} : worker'[d] = worker[d]
    BY <1>6 DEF Passed
  <2> QED BY ONLY Types, Wired, c \in Conns, <1>1, <1>2, <1>4, <1>5, <2>1, WiredLocal
<1>7. CASE RateLimited(c, s, times)
  <2>1. Sends(s, c, "reliable") /\ UNCHANGED worker BY <1>7 DEF RateLimited
  <2>2. /\ \A d \in Conns \ {c} : wire'[d] = wire[d] /\ worker'[d] = worker[d]
        /\ c \notin open => wire'[c] = wire[c]
        /\ NoAnswer(wire[c]) => NoAnswer(wire'[c])
    BY <2>1, SendsWire
  <2> QED BY ONLY Types, Wired, c \in Conns, <1>1, <1>2, <1>4, <1>5, <2>1, <2>2, WiredLocal
<1> QED BY <1>3, <1>6, <1>7

\* Respond keeps the connections as they are described.
LEMMA RespondWired == ASSUME Types, Wired, NEW c \in Conns, Respond(c) PROVE Wired'
<1>1. worker[c].pc = "responding" /\ UNCHANGED <<open, client>> BY DEF Respond
<1>2. /\ worker'[c].pc = "idle" /\ worker'[c].replay = worker[c].replay /\ \A d \in Conns \ {c} : worker'[d] = worker[d]
      /\ Rest(stream, stream')
      /\ Sends(stream, c, "reliable") \/ UNCHANGED wire
  BY RespondTypes
<1>3. /\ \A d \in Conns \ {c} : wire'[d] = wire[d]
      /\ c \notin open => wire'[c] = wire[c]
      /\ NoAnswer(wire[c]) => NoAnswer(wire'[c])
  BY <1>2, SendsWire
<1>4. stream'.sid = stream.sid BY <1>2 DEF Rest
<1> QED BY <1>1, <1>2, <1>3, <1>4, WiredLocal

\* Close is a closing.
LEMMA CloseWired == ASSUME Types, Wired, NEW c \in Conns, Close(c), stream'.sid = stream.sid, client' = client PROVE Wired'
<1>1. /\ open' = open \ {c} /\ wire'[c] = <<>> /\ worker'[c] = Fresh("closed")
      /\ \A d \in Conns \ {c} : wire'[d] = wire[d] /\ worker'[d] = worker[d]
  BY CloseFx
<1> QED BY <1>1, WiredClosed

\* Break keeps the connections as they are described.
LEMMA BreakWired == ASSUME Types, Wired, NEW c \in Conns, Break(c) PROVE Wired'
<1>1. wire'[c] = <<>> /\ \A d \in Conns \ {c} : wire'[d] = wire[d] BY BreakTypes
<1>2. open' = open \ {c} /\ UNCHANGED <<stream, worker, client>> BY DEF Break, server
<1> QED BY <1>1, <1>2, WiredClosed

\* Disconnected keeps the connections as they are described.
LEMMA DisconnectedWired == ASSUME Types, Wired, NEW c \in Conns, Disconnected(c) PROVE Wired'
<1>1. /\ worker'[c] = Fresh("closed") /\ \A d \in Conns \ {c} : worker'[d] = worker[d]
      /\ stream'.sid = stream.sid
  BY DisconnectedTypes
<1>2. c \notin open /\ UNCHANGED <<open, wire, client>> BY DEF Disconnected
<1>3. open' = open \ {c} /\ wire'[c] = <<>> BY <1>2 DEF Wired, Dead
<1> QED BY <1>1, <1>2, <1>3, WiredClosed

\* KickLocal keeps the connections as they are described.
LEMMA KickLocalWired == ASSUME Types, Wired, NEW c \in Conns, KickLocal(c) PROVE Wired'
<1>1. /\ stream'.sid = stream.sid
      /\ \/ Close(c)
         \/ worker'[c] = Fresh("idle") /\ (\A d \in Conns \ {c} : worker'[d] = worker[d]) /\ UNCHANGED <<stream, open, wire>>
  BY KickLocalTypes
<1>2. worker[c].pc = "replaying" /\ client' = client BY DEF KickLocal
<1>3. CASE Close(c) BY <1>1, <1>2, <1>3, CloseWired
<1>4. CASE worker'[c] = Fresh("idle") /\ (\A d \in Conns \ {c} : worker'[d] = worker[d]) /\ UNCHANGED <<stream, open, wire>>
  <2>1. Fresh("idle").pc = "idle" /\ Fresh("idle").replay = <<>> BY FreshType DEF Pcs
  <2>2. open \subseteq Conns BY TypesEasy
  <2>3. OneOpen' /\ Dead' BY <1>2, <1>4 DEF Wired, OneOpen, Dead
  <2>4. Unbound' BY <1>2, <1>4, <2>1 DEF Wired, Unbound
  <2>5. Asked' BY <1>2, <1>4, <2>1, <2>2 DEF Wired, Asked
  <2>6. Carries' BY <1>2, <1>4, <2>1, <2>2 DEF Wired, Carries
  <2>7. Replaying' BY <1>2, <1>4, <2>1 DEF Wired, Replaying
  <2> QED BY <2>3, <2>4, <2>5, <2>6, <2>7 DEF Wired
<1> QED BY <1>1, <1>3, <1>4

\* CompleteReconnect keeps the connections as they are described.
LEMMA CompleteReconnectWired == ASSUME Types, Wired, NEW c \in Conns, CompleteReconnect(c) PROVE Wired'
<1>1. PICK w \in WorkerRec, p \in StreamRec, a \in StreamRec :
          /\ w = worker[c] /\ w.pc = "authorized" /\ Rest(stream, p)
          /\ Completes(c, w, p, a) \/ GivesUp(c, p)
  BY CompleteReconnectTypes
<1>2. client' = client BY DEF CompleteReconnect
<1>3. CASE GivesUp(c, p)
  <2>1. Close(c) /\ stream'.sid = stream.sid BY <1>1, <1>3 DEF GivesUp, Rest
  <2> QED BY <1>2, <2>1, CloseWired
<1>4. CASE Completes(c, w, p, a)
  <2>1. /\ c \in open /\ stream'.sid = c /\ worker'[c].pc = "replaying"
        /\ \A d \in Conns \ {c} : worker'[d] = worker[d]
        /\ UNCHANGED <<open, wire>>
    BY <1>4 DEF Completes
  <2>2. open \subseteq Conns BY TypesEasy
  <2>3. client.session # c /\ wire[c] = <<>> BY <1>1 DEF Wired, Unbound
  <2>4. OneOpen' /\ Dead' BY <1>2, <2>1 DEF Wired, OneOpen, Dead
  <2>5. Unbound' BY <1>2, <2>1 DEF Wired, Unbound
  <2>6. Asked' BY <1>2, <2>1, <2>2 DEF Wired, Asked
  <2>7. Carries' BY <1>2, <2>1 DEF Wired, OneOpen, Carries
  <2>8. NoAnswer(wire[c])
    <3>1. Len(<<>>) = 0 OBVIOUS
    <3>2. 1..0 = {} OBVIOUS
    <3> QED BY <2>3, <3>1, <3>2 DEF NoAnswer
  <2>9. Replaying' BY <1>2, <2>1, <2>3, <2>8 DEF Wired, Replaying
  <2> QED BY <2>4, <2>5, <2>6, <2>7, <2>9 DEF Wired
<1> QED BY <1>1, <1>3, <1>4

\* AuthorizeReconnect keeps the connections as they are described.
LEMMA AuthorizeReconnectWired ==
    ASSUME Types, Wired, NEW c \in Conns, NEW num \in ClientNums, AuthorizeReconnect(c, num) PROVE Wired'
<1>1. /\ client'.num = num /\ client'.conn = c /\ client'.session = client.session /\ client'.got = client.got
      /\ \A d \in Conns \ {c} : worker'[d] = worker[d]
  BY AuthorizeReconnectTypes
<1>2. PICK p \in StreamRec, times \in Seq(Nat) :
          /\ Rest(stream, p) /\ stream'.sid = p.sid
          /\ Authorizes(c, num, p, times) \/ Refuses(c, p, times)
  BY AuthorizeReconnectTypes
<1>3. stream'.sid = stream.sid BY <1>2 DEF Rest
<1>4. worker[c].pc = "none" /\ client.conn \notin open /\ wire' = wire BY DEF AuthorizeReconnect
<1>5. open = {} BY <1>4 DEF Wired, OneOpen
<1>6. stream.sid # c /\ client.session # c /\ wire[c] = <<>> BY <1>4 DEF Wired, Unbound
<1>7. \/ /\ open' = {c}
         /\ worker'[c] = [pc |-> "authorized", prev |-> client.session, num |-> num, ack |-> client.got, replay |-> <<>>]
      \/ open' = {} /\ worker'[c] = Fresh("closed")
  BY <1>2, <1>5 DEF Authorizes, Refuses
<1>8. Fresh("closed").pc = "closed" /\ Fresh("closed").replay = <<>> BY FreshType DEF Pcs
<1>9. /\ worker'[c].pc \in {"authorized", "closed"} /\ worker'[c].replay = <<>>
      /\ c \in open' => /\ worker'[c].num = num /\ worker'[c].ack = client.got /\ worker'[c].prev = client.session
                        /\ worker'[c].pc = "authorized"
      /\ open' \subseteq {c}
  BY <1>7, <1>8
<1>10. OneOpen' BY <1>1, <1>9 DEF OneOpen
<1>11. Dead' BY <1>4, <1>5 DEF Wired, Dead
<1>12. Unbound' BY <1>1, <1>3, <1>4, <1>6 DEF Wired, Unbound
<1>13. Asked' /\ Carries' BY <1>1, <1>9 DEF Asked, Carries
<1>14. Replaying' BY <1>1, <1>4, <1>9 DEF Wired, Replaying
<1> QED BY <1>10, <1>11, <1>12, <1>13, <1>14 DEF Wired

\* Replay keeps the connections as they are described.
LEMMA ReplayWired == ASSUME Types, Wired, NEW c \in Conns, Replay(c) PROVE Wired'
<1>1. worker[c].pc = "replaying" /\ c \in open /\ UNCHANGED <<open, client>> BY DEF Replay
<1>2. stream'.sid = stream.sid /\ \E tail : Replays(c, tail) BY ReplayTypes DEF Rest
<1>3. /\ \A d \in Conns \ {c} : wire'[d] = wire[d] /\ worker'[d] = worker[d]
      /\ worker'[c] = Fresh("idle")
  BY <1>2 DEF Replays
<1>4. Fresh("idle").pc = "idle" /\ Fresh("idle").replay = <<>> BY FreshType DEF Pcs
<1>5. open \subseteq Conns BY TypesEasy
<1>6. OneOpen' BY <1>1 DEF Wired, OneOpen
<1>7. Dead' BY <1>1, <1>3 DEF Wired, Dead
<1>8. Unbound' BY <1>1, <1>2, <1>3, <1>4 DEF Wired, Unbound
<1>9. Asked' BY <1>1, <1>3, <1>4, <1>5 DEF Wired, Asked
<1>10. Carries' BY <1>1, <1>2, <1>3, <1>4, <1>5 DEF Wired, Carries
<1>11. Replaying' BY <1>1, <1>3, <1>4 DEF Wired, Replaying
<1> QED BY <1>6, <1>7, <1>8, <1>9, <1>10, <1>11 DEF Wired

\* A connection with messages is the client's, is open and carries the stream.
LEMMA CarriesMessages == ASSUME Types, Wired, NEW c \in Conns, wire[c] # <<>>
                         PROVE  /\ c \in open /\ c = client.conn /\ stream.sid = c
                                /\ worker[c].pc \notin {"none", "authorized"}
<1>1. c \in open BY DEF Wired, Dead
<1>2. worker[c].pc \notin {"none", "authorized"} BY DEF Wired, Unbound
<1> QED BY <1>1, <1>2 DEF Wired, OneOpen, Carries

\* Deliver keeps the connections as they are described.
LEMMA DeliverWired == ASSUME Types, Wired, NEW c \in Conns, Deliver(c) PROVE Wired'
<1>1. PICK m \in WireMsg :
          /\ wire[c] # <<>> /\ m = wire[c][1] /\ wire'[c] = Tail(wire[c])
          /\ client'.conn = client.conn /\ client'.num = client.num
          /\ client'.session = (IF m.kind = "resumed" THEN c ELSE client.session)
  BY DeliverTypes, SMTT(30)
<1>2. (\A d \in Conns \ {c} : wire'[d] = wire[d]) /\ UNCHANGED <<stream, worker, open>> BY DeliverTypes DEF Deliver, server
<1>3. c \in open /\ c = client.conn /\ worker[c].pc \notin {"none", "authorized"} BY <1>1, CarriesMessages
<1>4. open = {c} BY <1>3 DEF Wired, OneOpen
<1>5. OneOpen' BY <1>1, <1>2 DEF Wired, OneOpen
<1>6. Dead' BY <1>2, <1>3 DEF Wired, Dead
<1>7. Unbound' BY <1>1, <1>2, <1>3 DEF Wired, Unbound
<1>8. Asked' BY <1>2, <1>3, <1>4 DEF Asked
<1>9. Carries' BY <1>2 DEF Wired, Carries
<1>10. PICK q \in Seq(WireMsg) : q = wire[c] BY TypesEasy
<1>11. q # <<>> BY <1>1, <1>10
<1>12. Len(q) \in Nat /\ Len(q) > 0 /\ Len(Tail(q)) = Len(q) - 1 /\ \A i \in 1..(Len(q) - 1) : Tail(q)[i] = q[i + 1]
  BY <1>11, HeadTailProperties
<1>13. ASSUME NoAnswer(q) PROVE NoAnswer(Tail(q)) /\ m.kind # "resumed"
  <2>1. m = q[1] BY <1>1, <1>10
  <2>2. m.kind # "resumed" BY <1>12, <1>13, <2>1 DEF NoAnswer
  <2>3. \A i \in 1..(Len(q) - 1) : Tail(q)[i].kind # "resumed"
    <3> TAKE i \in 1..(Len(q) - 1)
    <3>1. i + 1 \in 1..Len(q) BY <1>12
    <3>2. q[i + 1].kind # "resumed" BY <1>13, <3>1 DEF NoAnswer
    <3> QED BY <1>12, <3>2
  <2> QED BY <1>12, <2>2, <2>3 DEF NoAnswer
<1>14. Replaying'
  <2>1. worker[c].pc = "replaying" => NoAnswer(wire'[c]) /\ client'.session = client.session
    BY <1>1, <1>10, <1>13 DEF Wired, Replaying
  <2>2. \A d \in Conns \ {c} : client.session # d => client'.session # d BY <1>1
  <2> QED BY <1>2, <2>1, <2>2 DEF Wired, Replaying
<1> QED BY <1>5, <1>6, <1>7, <1>8, <1>9, <1>14 DEF Wired

\* At the start.
LEMMA InitWired == ASSUME Init PROVE Wired
<1>1. /\ worker = [c \in Conns |-> Fresh(IF c = 0 THEN "idle" ELSE "none")] /\ open = {0}
      /\ wire = [c \in Conns |-> <<>>] /\ client = [conn |-> 0, session |-> 0, got |-> StartSeq, num |-> StartSeq]
      /\ stream.sid = 0
  BY DEF Init
<1>2. 0 \in Conns BY ConnsType
<1>3. \A c \in Conns : worker[c].pc = (IF c = 0 THEN "idle" ELSE "none") /\ worker[c].replay = <<>>
  <2> TAKE c \in Conns
  <2>1. worker[c] = Fresh(IF c = 0 THEN "idle" ELSE "none") BY <1>1
  <2> QED BY <2>1 DEF Fresh
<1>4. OneOpen /\ Dead BY <1>1 DEF OneOpen, Dead
<1>5. Unbound BY <1>1, <1>3 DEF Unbound
<1>6. Asked /\ Carries BY <1>1, <1>2, <1>3 DEF Asked, Carries
<1>7. Replaying BY <1>3 DEF Replaying
<1> QED BY <1>4, <1>5, <1>6, <1>7 DEF Wired

\* Every step.
LEMMA NextWired == ASSUME Types, Wired, [Next]_vars PROVE Wired'
<1>1. ASSUME UNCHANGED <<stream, worker, open, wire, client>> PROVE Wired'
  BY <1>1 DEF Wired, OneOpen, Unbound, Asked, Carries, Dead, Replaying
<1>2. CASE Tick \/ PruneExpired \/ UNCHANGED vars BY <1>1, <1>2 DEF Tick, PruneExpired, server, vars
<1>3. CASE PushMail BY <1>3, PushMailWired
<1>4. ASSUME NEW c \in Conns, Break(c) PROVE Wired' BY <1>4, BreakWired
<1>5. ASSUME NEW c \in Conns, Disconnected(c) PROVE Wired' BY <1>5, DisconnectedWired
<1>6. ASSUME NEW c \in Conns, Deliver(c) PROVE Wired' BY <1>6, DeliverWired
<1>7. ASSUME NEW c \in Conns, Respond(c) PROVE Wired' BY <1>7, RespondWired
<1>8. ASSUME NEW c \in Conns, CompleteReconnect(c) PROVE Wired' BY <1>8, CompleteReconnectWired
<1>9. ASSUME NEW c \in Conns, ReconnectFails(c) \/ \E num \in ClientNums : RejectFrame(c, num) PROVE Wired'
  BY <1>9, CloseWired DEF ReconnectFails, RejectFrame, server
<1>10. ASSUME NEW c \in Conns, Replay(c) PROVE Wired' BY <1>10, ReplayWired
<1>11. ASSUME NEW c \in Conns, KickLocal(c) PROVE Wired' BY <1>11, KickLocalWired
<1>12. ASSUME NEW c \in Conns, NEW num \in ClientNums, AuthorizeReconnect(c, num) PROVE Wired' BY <1>12, AuthorizeReconnectWired
<1>13. ASSUME NEW c \in Conns, NEW num \in ClientNums, NEW ack \in Acks, Request(c, num, ack) PROVE Wired' BY <1>13, RequestWired
<1>14. ASSUME NEW c \in Conns, NEW num \in ClientNums, NEW ack \in Acks, NEW ping \in BOOLEAN, Acknowledge(c, num, ack, ping)
       PROVE  Wired'
  BY <1>14, AcknowledgeWired
<1> QED BY <1>2, <1>3, <1>4, <1>5, <1>6, <1>7, <1>8, <1>9, <1>10, <1>11, <1>12, <1>13, <1>14 DEF Next

-----------------------------------------------------------------------------
(* Requests are let through at most once *)

\* The stream has seen the client's numbers up to n, and so have the requests let through.
Seen(n) == /\ n <= client.num /\ stream.clientSeq = n % SeqMod
           /\ \A i \in 1..Len(accepted) : accepted[i].num <= n
SeenSome == \E n \in Nat : Seen(n)

\* A number that the stream takes for newer is newer.
LEMMA NewerNum == ASSUME Types, SeenSome, NEW num \in ClientNums, SeqAfter(num % SeqMod, stream.clientSeq)
                  PROVE  \E n \in Nat : Seen(n) /\ n < num
<1>1. PICK n \in Nat : Seen(n) BY DEF SeenSome
<1>2. num \in Nat /\ num >= client.num /\ client.num \in Nat BY NumType, TypesEasy
<1>3. n <= client.num /\ stream.clientSeq = n % SeqMod BY <1>1 DEF Seen
<1>4. num # n BY <1>2, <1>3, NotAfterItself
<1>5. n < num BY ONLY <1>2, <1>3, <1>4, n \in Nat
<1> QED BY <1>1, <1>5

\* A step that leaves the numbers alone, or moves the client's on.
LEMMA SeenKept == ASSUME SeenSome, Types, accepted' = accepted, stream'.clientSeq = stream.clientSeq,
                         client'.num \in Nat, client'.num >= client.num
                  PROVE  SeenSome'
<1>1. PICK n \in Nat : Seen(n) BY DEF SeenSome
<1>2. client.num \in Nat BY TypesEasy
<1>3. n <= client'.num BY <1>1, <1>2 DEF Seen
<1>4. Seen(n)' BY <1>1, <1>3 DEF Seen
<1> QED BY <1>4 DEF SeenSome

\* A step that takes the client's number.
LEMMA SeenTaken == ASSUME SeenSome, Types, accepted' = accepted, NEW num \in Nat, stream'.clientSeq = num % SeqMod,
                          client'.num = num, num >= client.num
                   PROVE  SeenSome'
<1>1. PICK n \in Nat : Seen(n) BY DEF SeenSome
<1>2. client.num \in Nat BY TypesEasy
<1>3. n <= num BY <1>1, <1>2 DEF Seen
<1>4. \A i \in 1..Len(accepted) : accepted[i].num <= num
  <2> TAKE i \in 1..Len(accepted)
  <2>1. accepted[i].num <= n BY <1>1 DEF Seen
  <2>2. accepted[i] \in AcceptedRec BY TypesEasy, ElementOfSeq
  <2>3. accepted[i].num \in Nat BY <2>2 DEF AcceptedRec
  <2> QED BY ONLY <1>3, <2>1, <2>3, n \in Nat, num \in Nat
<1>5. Seen(num)' BY <1>4 DEF Seen
<1> QED BY <1>5 DEF SeenSome

\* A request that the rate limit lets through.
LEMMA SeenRequest ==
    ASSUME Types, SeenSome, AcceptedOnce, NEW num \in ClientNums, SeqAfter(num % SeqMod, stream.clientSeq),
           accepted' = Append(accepted, [num |-> num, at |-> now]), stream'.clientSeq = num % SeqMod, client'.num = num
    PROVE  SeenSome' /\ AcceptedOnce'
<1>1. PICK n \in Nat : Seen(n) /\ n < num BY NewerNum
<1>2. PICK q \in Seq(AcceptedRec) : q = accepted BY TypesEasy
<1>3. num \in Nat BY NumType
<1>4. PICK r \in AcceptedRec : r = [num |-> num, at |-> now] BY <1>3, TypesEasy DEF AcceptedRec
<1>5. PICK s : s = Append(q, r) OBVIOUS
<1>6. /\ Len(q) \in Nat /\ Len(s) = Len(q) + 1 /\ s[Len(q) + 1] = r /\ \A i \in 1..Len(q) : s[i] = q[i]
      /\ s \in Seq(AcceptedRec)
  BY <1>5, AppendProperties
<1>7. accepted' = s BY <1>2, <1>4, <1>5
<1>8. r.num = num BY <1>4
<1>9. \A i \in 1..Len(q) : q[i].num < num /\ q[i].num \in Nat
  <2> TAKE i \in 1..Len(q)
  <2>1. q[i].num <= n BY <1>1, <1>2 DEF Seen
  <2>2. q[i] \in AcceptedRec BY ElementOfSeq
  <2>3. q[i].num \in Nat BY <2>2 DEF AcceptedRec
  <2> QED BY ONLY <1>1, <1>3, <2>1, <2>3, n \in Nat
<1>10. \A i \in 1..Len(s) : s[i].num <= num
  <2> TAKE i \in 1..Len(s)
  <2>1. CASE i \in 1..Len(q) BY <1>3, <1>6, <1>9, <2>1
  <2>2. CASE i = Len(q) + 1 BY <1>3, <1>6, <1>8, <2>2
  <2> QED BY <1>6, <2>1, <2>2
<1>11. Seen(num)' BY <1>3, <1>7, <1>10 DEF Seen
<1>12. AcceptedOnce'
  <2> SUFFICES ASSUME NEW i \in DOMAIN s, NEW j \in DOMAIN s, i < j PROVE s[i].num < s[j].num
    BY <1>7 DEF AcceptedOnce
  <2>1. DOMAIN s = 1..(Len(q) + 1) /\ DOMAIN q = 1..Len(q) BY <1>6
  <2>2. i \in 1..Len(q) BY <1>6, <2>1
  <2>3. CASE j \in 1..Len(q)
    <3>1. q[i].num < q[j].num BY <1>2, <2>1, <2>2, <2>3 DEF AcceptedOnce
    <3> QED BY <1>6, <2>2, <2>3, <3>1
  <2>4. CASE j = Len(q) + 1 BY <1>6, <1>8, <1>9, <2>2, <2>4
  <2> QED BY <1>6, <2>1, <2>3, <2>4
<1> QED BY <1>3, <1>11, <1>12 DEF SeenSome

\* Every step keeps the numbers that were seen in order.
LEMMA NextSeen == ASSUME Types, Wired, SeenSome, AcceptedOnce, [Next]_vars PROVE SeenSome' /\ AcceptedOnce'
<1>1. ASSUME accepted' = accepted PROVE AcceptedOnce' BY <1>1 DEF AcceptedOnce
<1>2. client.num \in Nat BY TypesEasy
<1>3. ASSUME accepted' = accepted, stream'.clientSeq = stream.clientSeq, client'.num = client.num PROVE SeenSome' /\ AcceptedOnce'
  BY <1>1, <1>2, <1>3, SeenKept
<1>4. CASE Tick \/ PruneExpired \/ UNCHANGED vars BY <1>3, <1>4 DEF Tick, PruneExpired, server, vars
<1>5. CASE PushMail
  <2>1. Rest(stream, stream') BY <1>5, PushMailTypes
  <2> QED BY <1>3, <1>5, <2>1 DEF PushMail, Rest
<1>6. ASSUME NEW c \in Conns, Break(c) \/ ReconnectFails(c) \/ \E num \in ClientNums : RejectFrame(c, num)
      PROVE  SeenSome' /\ AcceptedOnce'
  BY <1>3, <1>6 DEF Break, ReconnectFails, RejectFrame, server
<1>7. ASSUME NEW c \in Conns, Disconnected(c) PROVE SeenSome' /\ AcceptedOnce'
  BY <1>3, <1>7, DisconnectedTypes DEF Disconnected
<1>8. ASSUME NEW c \in Conns, KickLocal(c) PROVE SeenSome' /\ AcceptedOnce'
  BY <1>3, <1>8, KickLocalTypes DEF KickLocal
<1>9. ASSUME NEW c \in Conns, Deliver(c) PROVE SeenSome' /\ AcceptedOnce'
  <2>1. client'.num = client.num BY <1>9, DeliverTypes
  <2> QED BY <1>3, <1>9, <2>1 DEF Deliver, server
<1>10. ASSUME NEW c \in Conns, Respond(c) PROVE SeenSome' /\ AcceptedOnce'
  <2>1. Rest(stream, stream') BY <1>10, RespondTypes
  <2> QED BY <1>3, <1>10, <2>1 DEF Respond, Rest
<1>11. ASSUME NEW c \in Conns, Replay(c) PROVE SeenSome' /\ AcceptedOnce'
  <2>1. Rest(stream, stream') BY <1>11, ReplayTypes
  <2> QED BY <1>3, <1>11, <2>1 DEF Replay, Rest
<1>12. ASSUME NEW c \in Conns, CompleteReconnect(c) PROVE SeenSome' /\ AcceptedOnce'
  <2>1. PICK w \in WorkerRec, p \in StreamRec, a \in StreamRec :
            /\ w = worker[c] /\ w.pc = "authorized" /\ Rest(stream, p)
            /\ Completes(c, w, p, a) \/ GivesUp(c, p)
    BY <1>12, CompleteReconnectTypes
  <2>2. client' = client /\ accepted' = accepted BY <1>12 DEF CompleteReconnect
  <2>3. CASE GivesUp(c, p)
    <3>1. stream'.clientSeq = stream.clientSeq BY <2>1, <2>3 DEF GivesUp, Rest
    <3> QED BY <1>3, <2>2, <3>1
  <2>4. CASE Completes(c, w, p, a)
    <3>1. c \in open /\ stream'.clientSeq = w.num % SeqMod BY <2>4 DEF Completes
    <3>2. w.num = client.num BY <2>1, <3>1 DEF Wired, Asked
    <3>3. client.num >= client.num BY <1>2
    <3>4. SeenSome' BY <1>2, <2>2, <3>1, <3>2, <3>3, SeenTaken
    <3> QED BY <1>1, <2>2, <3>4
  <2> QED BY <2>1, <2>3, <2>4
<1>13. ASSUME NEW c \in Conns, NEW num \in ClientNums, AuthorizeReconnect(c, num) PROVE SeenSome' /\ AcceptedOnce'
  <2>1. client'.num = num /\ accepted' = accepted BY <1>13, AuthorizeReconnectTypes DEF AuthorizeReconnect
  <2>2. stream'.clientSeq = stream.clientSeq
    <3>1. PICK p \in StreamRec : Rest(stream, p) /\ stream'.clientSeq = p.clientSeq BY <1>13, AuthorizeReconnectTypes
    <3> QED BY <3>1 DEF Rest
  <2>3. num \in Nat /\ num >= client.num BY NumType
  <2> QED BY <1>1, <2>1, <2>2, <2>3, SeenKept, SMTT(30)
<1>14. ASSUME NEW c \in Conns, NEW num \in ClientNums, NEW ack \in Acks, NEW ping \in BOOLEAN, Acknowledge(c, num, ack, ping)
       PROVE  SeenSome' /\ AcceptedOnce'
  <2>1. client'.num = num /\ accepted' = accepted BY <1>14, AcknowledgeTypes DEF Acknowledge
  <2>2. num \in Nat /\ num >= client.num /\ num % SeqMod \in Seqs BY NumType
  <2>3. stream'.clientSeq = num % SeqMod
    <3>1. PICK s \in StreamRec : s = AcceptSequence(stream, num % SeqMod, ack % SeqMod) /\ Rest(s, stream')
      BY <1>14, AcknowledgeTypes
    <3>2. s.clientSeq = num % SeqMod BY <2>2, <3>1, TypesEasy, AcceptType
    <3> QED BY <3>1, <3>2 DEF Rest
  <2> QED BY <1>1, <2>1, <2>2, <2>3, SeenTaken
<1>15. ASSUME NEW c \in Conns, NEW num \in ClientNums, NEW ack \in Acks, Request(c, num, ack)
       PROVE  SeenSome' /\ AcceptedOnce'
  <2>1. PICK a \in StreamRec, s \in StreamRec, times \in Seq(Nat) :
            /\ a = AcceptSequence(stream, num % SeqMod, ack % SeqMod)
            /\ s = [a EXCEPT !.requestTimes = s.requestTimes] /\ Rest(s, stream')
            /\ Passed(c, num, s, times) \/ RateLimited(c, s, times)
    BY <1>15, RequestTypes
  <2>2. num \in Nat /\ num >= client.num /\ num % SeqMod \in Seqs BY NumType
  <2>3. stream'.clientSeq = num % SeqMod
    <3>1. a.clientSeq = num % SeqMod BY <2>1, <2>2, TypesEasy, AcceptType
    <3>2. s.clientSeq = a.clientSeq
      <4>1. PICK q : q = s.requestTimes OBVIOUS
      <4>2. s = [a EXCEPT !.requestTimes = q] BY <2>1, <4>1
      <4> QED BY ONLY <4>2, a \in StreamRec DEF StreamRec
    <3> QED BY <2>1, <3>1, <3>2 DEF Rest
  <2>4. client'.num = num BY <1>15, RequestTypes
  <2>5. SeqAfter(num % SeqMod, stream.clientSeq) BY <1>15 DEF Request
  <2>6. CASE Passed(c, num, s, times)
    <3>1. accepted' = Append(accepted, [num |-> num, at |-> now]) BY <2>6 DEF Passed
    <3> QED BY <2>3, <2>4, <2>5, <3>1, SeenRequest
  <2>7. CASE RateLimited(c, s, times)
    <3>1. accepted' = accepted BY <2>7 DEF RateLimited
    <3> QED BY <1>1, <2>2, <2>3, <2>4, <3>1, SeenTaken
  <2> QED BY <2>1, <2>6, <2>7
<1> QED BY <1>4, <1>5, <1>6, <1>7, <1>8, <1>9, <1>10, <1>11, <1>12, <1>13, <1>14, <1>15 DEF Next

\* A request of the client is let through at most once and in the client's order, across
\* duplicates, reconnects and the wrap of the sequence number, for any modulus and any limits.
THEOREM AcceptedAtMostOnce == Spec => []AcceptedOnce
<1>1. Init => Types /\ Wired BY InitTypes, InitWired
<1>2. Init => SeenSome /\ AcceptedOnce
  <2> SUFFICES ASSUME Init PROVE SeenSome /\ AcceptedOnce OBVIOUS
  <2>1. StartSeq \in Nat BY StreamConfig DEF StreamConfig
  <2>2. client.num = StartSeq /\ stream.clientSeq = StartSeq % SeqMod /\ accepted = <<>> BY DEF Init
  <2>3. Len(<<>>) = 0 /\ 1..0 = {} /\ DOMAIN <<>> = {} OBVIOUS
  <2>4. Seen(StartSeq) BY <2>1, <2>2, <2>3 DEF Seen
  <2> QED BY <2>1, <2>2, <2>3, <2>4 DEF SeenSome, AcceptedOnce
<1>3. Types /\ Wired /\ SeenSome /\ AcceptedOnce /\ [Next]_vars => Types' /\ Wired' /\ SeenSome' /\ AcceptedOnce'
  BY NextTypes, NextWired, NextSeen
<1> QED BY <1>1, <1>2, <1>3, PTL DEF Spec

-----------------------------------------------------------------------------
(* Limits *)

\* The deque q holds the times all of the events but for those that have left the window by
\* time t, and no window of that length, wherever it starts, holds more than limit events.
Forgotten(all, q, window, t) == \E p \in 0..Len(all) : q = From(all, p) /\ \A i \in 1..p : t - all[i] >= window
Within(all, window, limit) == \A at \in Nat : Cardinality(InWindow(all, at, window)) <= limit

\* The rest of the rest.
LEMMA FromFrom == ASSUME NEW S, NEW s \in Seq(S), NEW p \in 0..Len(s), NEW k \in 0..(Len(s) - p)
                  PROVE  From(From(s, p), k) = From(s, p + k)
<1>1. Len(s) \in Nat /\ p + k \in 0..Len(s) OBVIOUS
<1>2. PICK q \in Seq(S) : q = From(s, p) BY FromSeq
<1>3. Len(q) = Len(s) - p /\ \A i \in 1..(Len(s) - p) : q[i] = s[i + p] BY <1>2, FromSeq
<1>4. PICK r \in Seq(S) : r = From(q, k)
  <2>1. k \in 0..Len(q) BY <1>3
  <2> QED BY <2>1, FromSeq
<1>5. Len(r) = Len(q) - k /\ \A i \in 1..(Len(q) - k) : r[i] = q[i + k]
  <2>1. k \in 0..Len(q) BY <1>3
  <2> QED BY <1>4, <2>1, FromSeq
<1>6. PICK u \in Seq(S) : u = From(s, p + k) BY <1>1, FromSeq
<1>7. Len(u) = Len(s) - (p + k) /\ \A i \in 1..(Len(s) - (p + k)) : u[i] = s[i + (p + k)] BY <1>1, <1>6, FromSeq
<1>8. Len(r) = Len(u) BY <1>1, <1>3, <1>5, <1>7
<1>9. \A i \in 1..Len(r) : r[i] = u[i]
  <2> TAKE i \in 1..Len(r)
  <2>1. r[i] = q[i + k] BY <1>5
  <2>2. i + k \in 1..(Len(s) - p) BY <1>1, <1>3, <1>5
  <2>3. q[i + k] = s[(i + k) + p] BY <1>3, <2>2
  <2>4. (i + k) + p = i + (p + k) BY <1>1, <1>5
  <2>5. u[i] = s[i + (p + k)] BY <1>7, <1>8
  <2> QED BY <2>1, <2>3, <2>4, <2>5
<1>10. r = u BY <1>8, <1>9, SeqEqual
<1> QED BY <1>2, <1>4, <1>6, <1>10

\* The clock moves on.
LEMMA ForgottenLater == ASSUME NEW all \in Seq(Nat), NEW q, NEW window \in Nat, NEW t \in Nat, Forgotten(all, q, window, t)
                        PROVE  Forgotten(all, q, window, t + 1)
<1>1. PICK p \in 0..Len(all) : q = From(all, p) /\ \A i \in 1..p : t - all[i] >= window BY DEF Forgotten
<1>2. \A i \in 1..p : (t + 1) - all[i] >= window
  <2> TAKE i \in 1..p
  <2>1. all[i] \in Nat OBVIOUS
  <2>2. t - all[i] >= window BY <1>1
  <2> QED BY ONLY <2>1, <2>2, t \in Nat, window \in Nat
<1> QED BY <1>1, <1>2 DEF Forgotten

\* The deque forgets the times that have left the window.
LEMMA ForgottenRecent == ASSUME NEW all \in Seq(Nat), NEW q \in Seq(Nat), NEW window \in Nat, Forgotten(all, q, window, now)
                         PROVE  Forgotten(all, Recent(q, window), window, now)
<1>1. PICK p \in 0..Len(all) : q = From(all, p) /\ \A i \in 1..p : now - all[i] >= window BY DEF Forgotten
<1>2. PICK k \in 0..Len(q) : Recent(q, window) = From(q, k) /\ \A i \in 1..k : now - q[i] >= window BY RecentTimes
<1>3. Len(all) \in Nat /\ Len(q) = Len(all) - p /\ \A i \in 1..(Len(all) - p) : q[i] = all[i + p]
  <2>1. Len(all) \in Nat OBVIOUS
  <2>2. q = From(all, p) BY <1>1
  <2> QED BY ONLY <2>1, <2>2, all \in Seq(Nat), p \in 0..Len(all), FromSeq
<1>4. k \in 0..(Len(all) - p) BY <1>3
<1>5. From(q, k) = From(all, p + k) BY <1>1, <1>4, FromFrom
<1>6. p + k \in 0..Len(all) BY <1>3, <1>4
<1>7. \A i \in 1..(p + k) : now - all[i] >= window
  <2> TAKE i \in 1..(p + k)
  <2>1. CASE i \in 1..p BY <1>1, <2>1
  <2>2. CASE i \notin 1..p
    <3>1. PICK j \in 1..k : i = j + p
      <4>1. i - p \in 1..k /\ i = (i - p) + p BY <1>3, <1>4, <2>2
      <4> QED BY <4>1
    <3>2. now - q[j] >= window BY <1>2
    <3>3. j \in 1..(Len(all) - p) BY <1>3, <1>4
    <3>4. q[j] = all[i] BY <1>3, <3>1, <3>3
    <3> QED BY <3>2, <3>4
  <2> QED BY <2>1, <2>2
<1> QED BY <1>2, <1>5, <1>6, <1>7 DEF Forgotten

\* An event at time t.
LEMMA ForgottenAppend == ASSUME NEW all \in Seq(Nat), NEW q \in Seq(Nat), NEW window, NEW t \in Nat, Forgotten(all, q, window, t)
                         PROVE  Forgotten(Append(all, t), Append(q, t), window, t)
<1>1. PICK p \in 0..Len(all) : q = From(all, p) /\ \A i \in 1..p : t - all[i] >= window BY DEF Forgotten
<1>2. PICK a \in Seq(Nat) : a = Append(all, t) BY AppendProperties
<1>3. Len(all) \in Nat /\ Len(a) = Len(all) + 1 /\ a[Len(all) + 1] = t /\ \A i \in 1..Len(all) : a[i] = all[i]
  BY <1>2, AppendProperties
<1>4. Len(q) = Len(all) - p /\ \A i \in 1..(Len(all) - p) : q[i] = all[i + p] BY <1>1, FromSeq
<1>5. PICK r \in Seq(Nat) : r = Append(q, t) BY AppendProperties
<1>6. Len(r) = Len(q) + 1 /\ r[Len(q) + 1] = t /\ \A i \in 1..Len(q) : r[i] = q[i] BY <1>5, AppendProperties
<1>7. p \in 0..Len(a) BY <1>3
<1>8. PICK u \in Seq(Nat) : u = From(a, p) BY <1>7, FromSeq
<1>9. Len(u) = Len(a) - p /\ \A i \in 1..(Len(a) - p) : u[i] = a[i + p] BY <1>7, <1>8, FromSeq
<1>10. Len(r) = Len(u) BY <1>3, <1>4, <1>6, <1>9
<1>11. \A i \in 1..Len(r) : r[i] = u[i]
  <2> TAKE i \in 1..Len(r)
  <2>1. u[i] = a[i + p] BY <1>9, <1>10
  <2>2. CASE i \in 1..Len(q)
    <3>1. i + p \in 1..Len(all) BY <1>3, <1>4, <2>2
    <3>2. r[i] = all[i + p] BY <1>4, <1>6, <2>2
    <3> QED BY <1>3, <2>1, <3>1, <3>2
  <2>3. CASE i = Len(q) + 1
    <3>1. i + p = Len(all) + 1 BY <1>3, <1>4, <2>3
    <3> QED BY <1>3, <1>6, <2>1, <2>3, <3>1
  <2> QED BY <1>3, <1>4, <1>6, <2>2, <2>3, SMTT(30)
<1>12. r = u BY <1>10, <1>11, SeqEqual
<1>13. \A i \in 1..p : t - a[i] >= window
  <2> TAKE i \in 1..p
  <2>1. i \in 1..Len(all) BY <1>3
  <2>2. a[i] = all[i] BY <1>3, <2>1
  <2>3. t - all[i] >= window BY <1>1
  <2> QED BY ONLY <2>2, <2>3
<1> QED BY <1>2, <1>5, <1>7, <1>8, <1>12, <1>13 DEF Forgotten

\* The windows that do not hold t do not change; ...
LEMMA WindowElsewhere == ASSUME NEW all \in Seq(Nat), NEW t \in Nat, NEW at \in Nat, NEW window \in Nat,
                                ~(t >= at /\ t < at + window)
                         PROVE  InWindow(Append(all, t), at, window) = InWindow(all, at, window)
<1>1. PICK a \in Seq(Nat) : a = Append(all, t) BY AppendProperties
<1>2. Len(all) \in Nat /\ Len(a) = Len(all) + 1 /\ a[Len(all) + 1] = t /\ \A i \in 1..Len(all) : a[i] = all[i]
  BY <1>1, AppendProperties
<1>3. DOMAIN a = 1..(Len(all) + 1) /\ DOMAIN all = 1..Len(all) BY <1>2
<1>4. \A i \in DOMAIN a : i \in DOMAIN all \/ i = Len(all) + 1 BY <1>2, <1>3
<1>5. DOMAIN all \subseteq DOMAIN a BY <1>2, <1>3
<1> QED BY ONLY <1>1, <1>2, <1>3, <1>4, <1>5, ~(t >= at /\ t < at + window) DEF InWindow

\* ... those that do hold t only what is late enough.
LEMMA WindowHere == ASSUME NEW all \in Seq(Nat), NEW t \in Nat, NEW at \in Nat, NEW window \in Nat, t < at + window,
                           NEW i \in InWindow(Append(all, t), at, window)
                    PROVE  i = Len(all) + 1 \/ (i \in 1..Len(all) /\ t - all[i] < window)
<1>1. PICK a \in Seq(Nat) : a = Append(all, t) BY AppendProperties
<1>2. Len(all) \in Nat /\ Len(a) = Len(all) + 1 /\ a[Len(all) + 1] = t /\ \A j \in 1..Len(all) : a[j] = all[j]
  BY <1>1, AppendProperties
<1>3. DOMAIN a = 1..(Len(all) + 1) BY <1>2
<1>4. i \in DOMAIN a /\ a[i] >= at BY <1>1 DEF InWindow
<1>5. CASE i \in 1..Len(all)
  <2>1. all[i] >= at /\ all[i] \in Nat BY <1>2, <1>4, <1>5
  <2>2. t - all[i] < window BY ONLY <2>1, t \in Nat, at \in Nat, window \in Nat, t < at + window
  <2> QED BY <1>5, <2>2
<1> QED BY <1>2, <1>3, <1>4, <1>5

\* A limit that counts the deque holds for every window.
LEMMA WithinAppend == ASSUME NEW all \in Seq(Nat), NEW q \in Seq(Nat), NEW window \in Nat, NEW limit \in Nat, NEW t \in Nat,
                             Forgotten(all, q, window, t), Within(all, window, limit), Len(q) < limit
                      PROVE  Within(Append(all, t), window, limit)
<1> SUFFICES ASSUME NEW at \in Nat PROVE Cardinality(InWindow(Append(all, t), at, window)) <= limit BY DEF Within
<1>1. CASE ~(t >= at /\ t < at + window)
  <2>1. InWindow(Append(all, t), at, window) = InWindow(all, at, window) BY <1>1, WindowElsewhere
  <2> QED BY <2>1 DEF Within
<1>2. CASE t >= at /\ t < at + window
  <2>1. PICK p \in 0..Len(all) : q = From(all, p) /\ \A i \in 1..p : t - all[i] >= window BY DEF Forgotten
  <2>2. Len(all) \in Nat /\ Len(q) = Len(all) - p BY <2>1, FromSeq
  <2>3. PICK n \in Nat : n = Len(all) BY <2>2
  <2>4. PICK W : W = InWindow(Append(all, t), at, window) OBVIOUS
  <2>5. W \in SUBSET ((p + 1)..(n + 1))
    <3> SUFFICES ASSUME NEW i \in W PROVE i \in (p + 1)..(n + 1) OBVIOUS
    <3>1. i = n + 1 \/ (i \in 1..n /\ t - all[i] < window) BY <1>2, <2>3, <2>4, WindowHere
    <3>2. CASE i = n + 1 BY <2>3, <3>2
    <3>3. CASE i \in 1..n /\ t - all[i] < window
      <4>1. all[i] \in Nat BY <2>3, <3>3
      <4>2. ~(t - all[i] >= window) BY ONLY <3>3, <4>1, t \in Nat, window \in Nat
      <4>3. i \notin 1..p BY <2>1, <4>2
      <4> QED BY <2>3, <3>3, <4>3
    <3> QED BY <3>1, <3>2, <3>3
  <2>6. IsFiniteSet((p + 1)..(n + 1)) /\ Cardinality((p + 1)..(n + 1)) = n + 1 - p
    <3>1. p + 1 \in Int /\ n + 1 \in Int /\ ~(p + 1 > n + 1) BY <2>3
    <3>2. IsFiniteSet((p + 1)..(n + 1)) /\ Cardinality((p + 1)..(n + 1)) = (n + 1) - (p + 1) + 1 BY ONLY <3>1, FS_Interval
    <3>3. (n + 1) - (p + 1) + 1 = n + 1 - p BY <2>3
    <3> QED BY <3>2, <3>3
  <2>7. IsFiniteSet(W) /\ Cardinality(W) <= Cardinality((p + 1)..(n + 1)) BY ONLY <2>5, <2>6, FS_Subset
  <2>8. Cardinality(W) \in Nat BY <2>7, FS_CardinalityType
  <2>9. Len(q) < limit /\ p \in Nat OBVIOUS
  <2>10. Cardinality(W) <= limit BY ONLY <2>2, <2>3, <2>6, <2>7, <2>8, <2>9, n \in Nat, limit \in Nat
  <2> QED BY <2>4, <2>10
<1> QED BY <1>1, <1>2

\* A limit that counts the part of the deque in a shorter window holds for every such window.
LEMMA WithinShort == ASSUME NEW all \in Seq(Nat), NEW q \in Seq(Nat), NEW window \in Nat, NEW burst \in Nat, burst <= window,
                            NEW limit \in Nat, NEW t \in Nat, Forgotten(all, q, window, t), Within(all, burst, limit),
                            Cardinality({i \in DOMAIN q : t - q[i] < burst}) < limit
                     PROVE  Within(Append(all, t), burst, limit)
<1> SUFFICES ASSUME NEW at \in Nat PROVE Cardinality(InWindow(Append(all, t), at, burst)) <= limit BY DEF Within
<1>1. CASE ~(t >= at /\ t < at + burst)
  <2>1. InWindow(Append(all, t), at, burst) = InWindow(all, at, burst) BY <1>1, WindowElsewhere
  <2> QED BY <2>1 DEF Within
<1>2. CASE t >= at /\ t < at + burst
  <2>1. PICK p \in 0..Len(all) : q = From(all, p) /\ \A i \in 1..p : t - all[i] >= window BY DEF Forgotten
  <2>2. Len(all) \in Nat /\ Len(q) = Len(all) - p /\ \A i \in 1..(Len(all) - p) : q[i] = all[i + p]
    <3>1. Len(all) \in Nat OBVIOUS
    <3>2. q = From(all, p) BY <2>1
    <3> QED BY ONLY <3>1, <3>2, all \in Seq(Nat), p \in 0..Len(all), FromSeq
  <2>3. PICK n \in Nat : n = Len(all) BY <2>2
  <2>4. PICK W : W = InWindow(Append(all, t), at, burst) OBVIOUS
  <2>5. PICK D : D = {i \in 1..n : t - all[i] < burst} OBVIOUS
  <2>6. PICK E : E = {i \in DOMAIN q : t - q[i] < burst} OBVIOUS
  <2>7. W \in SUBSET (D \cup {n + 1}) BY <1>2, <2>3, <2>4, <2>5, WindowHere
  <2>8. ASSUME NEW i \in D PROVE i - p \in E
    <3>1. i \in 1..n /\ t - all[i] < burst BY <2>5
    <3>2. all[i] \in Nat BY <2>3, <3>1
    <3>3. ~(t - all[i] >= window) BY ONLY <3>1, <3>2, t \in Nat, window \in Nat, burst \in Nat, burst <= window
    <3>4. i \notin 1..p BY <2>1, <3>3
    <3>5. i - p \in 1..(Len(all) - p) /\ (i - p) + p = i BY <2>3, <3>1, <3>4
    <3>6. q[i - p] = all[i] BY <2>2, <3>5
    <3>7. DOMAIN q = 1..(Len(all) - p) BY <2>2
    <3> QED BY <2>6, <3>1, <3>5, <3>6, <3>7
  <2>9. IsFiniteSet(E)
    <3>1. E \in SUBSET (1..Len(q)) BY <2>6
    <3>2. IsFiniteSet(1..Len(q)) BY <2>2, FS_Interval
    <3> QED BY <3>1, <3>2, FS_Subset
  <2>10. PICK f : f = [i \in D |-> i - p] OBVIOUS
  <2>11. f \in Injection(D, E)
    <3>1. f \in [D -> E] BY <2>8, <2>10
    <3>2. ASSUME NEW i \in D, NEW j \in D, f[i] = f[j] PROVE i = j
      <4>1. i - p = j - p BY <2>10, <3>2
      <4>2. i \in Int /\ j \in Int /\ p \in Int BY <2>5
      <4> QED BY ONLY <4>1, <4>2
    <3> QED BY <3>1, <3>2 DEF Injection, IsInjective
  <2>12. IsFiniteSet(D) /\ Cardinality(D) <= Cardinality(E) BY ONLY <2>9, <2>11, FS_Injection
  <2>13. PICK X : X = D \cup {n + 1} OBVIOUS
  <2>14. IsFiniteSet(X) /\ Cardinality(X) <= Cardinality(D) + 1
    <3>1. IsFiniteSet(D \cup {n + 1}) /\ Cardinality(D \cup {n + 1}) = IF n + 1 \in D THEN Cardinality(D) ELSE Cardinality(D) + 1
      BY ONLY <2>12, FS_AddElement
    <3>2. Cardinality(D) \in Nat BY <2>12, FS_CardinalityType
    <3> QED BY ONLY <2>13, <3>1, <3>2
  <2>15. IsFiniteSet(W) /\ Cardinality(W) <= Cardinality(X)
    <3>1. W \in SUBSET X BY <2>7, <2>13
    <3> QED BY ONLY <2>14, <3>1, FS_Subset
  <2>16. Cardinality(W) \in Nat /\ Cardinality(X) \in Nat /\ Cardinality(D) \in Nat /\ Cardinality(E) \in Nat
    BY <2>9, <2>12, <2>14, <2>15, FS_CardinalityType
  <2>17. Cardinality(E) < limit BY <2>6
  <2>18. Cardinality(W) <= limit BY ONLY <2>12, <2>14, <2>15, <2>16, <2>17, limit \in Nat
  <2> QED BY <2>4, <2>18
<1> QED BY <1>1, <1>2

\* What a step does to the times: nothing, the clock, a request or a reconnect.
TimesSame == now' = now /\ SameTimes(stream, stream') /\ accepted' = accepted /\ resumes' = resumes
ClockStep == now' = now + 1 /\ stream' = stream /\ accepted' = accepted /\ resumes' = resumes
RequestStep ==
    /\ now' = now /\ resumes' = resumes
    /\ stream'.reconnectCount = stream.reconnectCount /\ stream'.reconnectTimes = stream.reconnectTimes
    /\ \E times \in Seq(Nat) :
          /\ times = Recent(stream.requestTimes, RequestWindow)
          /\ \/ /\ RatePasses(times) /\ stream'.requestTimes = Append(times, now)
                /\ \E num \in Nat : accepted' = Append(accepted, [num |-> num, at |-> now])
             \/ stream'.requestTimes = times /\ accepted' = accepted
ReconnectStep ==
    /\ now' = now /\ accepted' = accepted /\ stream'.requestTimes = stream.requestTimes
    /\ \E times \in Seq(Nat) :
          /\ times = Recent(stream.reconnectTimes, ReconnectWindow)
          /\ \/ /\ Len(times) < ReconnectWindowCount /\ stream'.reconnectTimes = Append(times, now)
                /\ stream'.reconnectCount = stream.reconnectCount + 1 /\ resumes' = Append(resumes, now)
             \/ /\ stream'.reconnectTimes = stream.reconnectTimes \/ stream'.reconnectTimes = times
                /\ stream'.reconnectCount = stream.reconnectCount /\ resumes' = resumes

\* Every step does one of these.
LEMMA NextTimes == ASSUME Types, [Next]_vars PROVE TimesSame \/ ClockStep \/ RequestStep \/ ReconnectStep
<1>1. ASSUME now' = now, Rest(stream, stream'), accepted' = accepted, resumes' = resumes PROVE TimesSame
  BY <1>1 DEF TimesSame, Rest, SameTimes
<1>2. ASSUME now' = now, stream' = stream, accepted' = accepted, resumes' = resumes PROVE TimesSame
  BY <1>2 DEF TimesSame, SameTimes
<1>3. CASE Tick BY <1>3 DEF Tick, ClockStep, server
<1>4. CASE PruneExpired \/ UNCHANGED vars BY <1>2, <1>4 DEF PruneExpired, vars
<1>5. CASE PushMail BY <1>1, <1>5, PushMailTypes DEF PushMail
<1>6. ASSUME NEW c \in Conns, Break(c) \/ Deliver(c) \/ ReconnectFails(c) \/ \E num \in ClientNums : RejectFrame(c, num)
      PROVE  TimesSame
  BY <1>2, <1>6 DEF Break, Deliver, ReconnectFails, RejectFrame, server
<1>7. ASSUME NEW c \in Conns, Disconnected(c) PROVE TimesSame BY <1>7, DisconnectedTypes DEF Disconnected, TimesSame
<1>8. ASSUME NEW c \in Conns, KickLocal(c) PROVE TimesSame BY <1>8, KickLocalTypes DEF KickLocal, TimesSame
<1>9. ASSUME NEW c \in Conns, Respond(c) PROVE TimesSame BY <1>1, <1>9, RespondTypes DEF Respond
<1>10. ASSUME NEW c \in Conns, Replay(c) PROVE TimesSame BY <1>1, <1>10, ReplayTypes DEF Replay
<1>11. ASSUME NEW c \in Conns, CompleteReconnect(c) PROVE TimesSame
  <2>1. PICK w \in WorkerRec, p \in StreamRec, a \in StreamRec :
            Rest(stream, p) /\ Rest(stream, a) /\ (Completes(c, w, p, a) \/ GivesUp(c, p))
    BY <1>11, CompleteReconnectTypes
  <2>2. SameTimes(stream, stream') BY <2>1 DEF Completes, GivesUp, Rest, SameTimes
  <2> QED BY <1>11, <2>2 DEF CompleteReconnect, TimesSame
<1>12. ASSUME NEW c \in Conns, NEW num \in ClientNums, NEW ack \in Acks, NEW ping \in BOOLEAN, Acknowledge(c, num, ack, ping)
       PROVE  TimesSame
  <2>1. PICK s \in StreamRec : s = AcceptSequence(stream, num % SeqMod, ack % SeqMod) /\ Rest(s, stream')
    BY <1>12, AcknowledgeTypes
  <2>2. /\ s.reconnectCount = stream.reconnectCount /\ s.reconnectTimes = stream.reconnectTimes
        /\ s.requestTimes = stream.requestTimes
    BY <2>1, NumType, TypesEasy, AcceptType
  <2>3. SameTimes(stream, stream') BY <2>1, <2>2 DEF Rest, SameTimes
  <2> QED BY <1>12, <2>3 DEF Acknowledge, TimesSame
<1>13. ASSUME NEW c \in Conns, NEW num \in ClientNums, NEW ack \in Acks, Request(c, num, ack) PROVE RequestStep
  <2>1. PICK a \in StreamRec, s \in StreamRec, times \in Seq(Nat) :
            /\ a = AcceptSequence(stream, num % SeqMod, ack % SeqMod) /\ times = Recent(stream.requestTimes, RequestWindow)
            /\ s = [a EXCEPT !.requestTimes = s.requestTimes] /\ Rest(s, stream')
            /\ Passed(c, num, s, times) \/ RateLimited(c, s, times)
    BY <1>13, RequestTypes
  <2>2. a.reconnectCount = stream.reconnectCount /\ a.reconnectTimes = stream.reconnectTimes
    BY <2>1, NumType, TypesEasy, AcceptType
  <2>3. s.reconnectCount = a.reconnectCount /\ s.reconnectTimes = a.reconnectTimes
    <3>1. PICK q : q = s.requestTimes OBVIOUS
    <3>2. s = [a EXCEPT !.requestTimes = q] BY <2>1, <3>1
    <3> QED BY ONLY <3>2, a \in StreamRec DEF StreamRec
  <2>4. /\ stream'.reconnectCount = stream.reconnectCount /\ stream'.reconnectTimes = stream.reconnectTimes
        /\ stream'.requestTimes = s.requestTimes
    BY <2>1, <2>2, <2>3 DEF Rest
  <2>5. num \in Nat BY NumType
  <2>6. \/ /\ RatePasses(times) /\ s.requestTimes = Append(times, now) /\ accepted' = Append(accepted, [num |-> num, at |-> now])
        \/ s.requestTimes = times /\ accepted' = accepted
    BY <2>1 DEF Passed, RateLimited
  <2>7. now' = now /\ resumes' = resumes BY <1>13 DEF Request
  <2> QED BY <2>1, <2>4, <2>5, <2>6, <2>7 DEF RequestStep
<1>14. ASSUME NEW c \in Conns, NEW num \in ClientNums, AuthorizeReconnect(c, num) PROVE ReconnectStep
  <2>1. PICK p \in StreamRec, times \in Seq(Nat) :
            /\ Rest(stream, p) /\ times = Recent(stream.reconnectTimes, ReconnectWindow)
            /\ stream'.requestTimes = p.requestTimes
            /\ Authorizes(c, num, p, times) \/ Refuses(c, p, times)
    BY <1>14, AuthorizeReconnectTypes
  <2>2. now' = now /\ accepted' = accepted BY <1>14 DEF AuthorizeReconnect
  <2>3. /\ p.requestTimes = stream.requestTimes /\ p.reconnectTimes = stream.reconnectTimes
        /\ p.reconnectCount = stream.reconnectCount
    BY <2>1 DEF Rest
  <2>4. \/ /\ Len(times) < ReconnectWindowCount /\ stream'.reconnectTimes = Append(times, now)
           /\ stream'.reconnectCount = p.reconnectCount + 1 /\ resumes' = Append(resumes, now)
        \/ /\ stream'.reconnectTimes = p.reconnectTimes \/ stream'.reconnectTimes = times
           /\ stream'.reconnectCount = p.reconnectCount /\ resumes' = resumes
    BY <2>1 DEF Authorizes, Refuses
  <2> QED BY <2>1, <2>2, <2>3, <2>4 DEF ReconnectStep
<1> QED BY <1>3, <1>4, <1>5, <1>6, <1>7, <1>8, <1>9, <1>10, <1>11, <1>12, <1>13, <1>14 DEF Next

\* The reconnects authorized, and what the stream remembers of them.
Resumed == /\ stream.reconnectCount = Len(resumes)
           /\ Forgotten(resumes, stream.reconnectTimes, ReconnectWindow, now)
           /\ Within(resumes, ReconnectWindow, ReconnectWindowCount)

\* Every step keeps the deque of reconnects to the history.
LEMMA NextResumed == ASSUME Types, Resumed, [Next]_vars PROVE Resumed'
<1>1. now \in Nat /\ resumes \in Seq(Nat) /\ stream.reconnectTimes \in Seq(Nat) BY TypesEasy DEF StreamRec
<1>2. ReconnectWindow \in Nat /\ ReconnectWindowCount \in Nat BY StreamConfig DEF StreamConfig
<1>3. CASE TimesSame BY <1>3 DEF Resumed, TimesSame, SameTimes
<1>4. CASE RequestStep BY <1>4 DEF Resumed, RequestStep
<1>5. CASE ClockStep
  <2>1. Forgotten(resumes, stream.reconnectTimes, ReconnectWindow, now + 1) BY <1>1, <1>2, ForgottenLater DEF Resumed
  <2> QED BY <1>5, <2>1 DEF Resumed, ClockStep
<1>6. CASE ReconnectStep
  <2>1. PICK times \in Seq(Nat) :
            /\ times = Recent(stream.reconnectTimes, ReconnectWindow)
            /\ \/ /\ Len(times) < ReconnectWindowCount /\ stream'.reconnectTimes = Append(times, now)
                  /\ stream'.reconnectCount = stream.reconnectCount + 1 /\ resumes' = Append(resumes, now)
               \/ /\ stream'.reconnectTimes = stream.reconnectTimes \/ stream'.reconnectTimes = times
                  /\ stream'.reconnectCount = stream.reconnectCount /\ resumes' = resumes
    BY <1>6 DEF ReconnectStep
  <2>2. now' = now BY <1>6 DEF ReconnectStep
  <2>3. Forgotten(resumes, times, ReconnectWindow, now) BY <1>1, <1>2, <2>1, ForgottenRecent DEF Resumed
  <2>4. CASE /\ Len(times) < ReconnectWindowCount /\ stream'.reconnectTimes = Append(times, now)
             /\ stream'.reconnectCount = stream.reconnectCount + 1 /\ resumes' = Append(resumes, now)
    <3>1. Forgotten(Append(resumes, now), Append(times, now), ReconnectWindow, now) BY <1>1, <2>3, ForgottenAppend
    <3>2. Within(Append(resumes, now), ReconnectWindow, ReconnectWindowCount)
      BY <1>1, <1>2, <2>3, <2>4, WithinAppend DEF Resumed
    <3>3. Len(Append(resumes, now)) = Len(resumes) + 1 BY <1>1, AppendProperties
    <3> QED BY <2>2, <2>4, <3>1, <3>2, <3>3 DEF Resumed
  <2>5. CASE /\ stream'.reconnectTimes = stream.reconnectTimes \/ stream'.reconnectTimes = times
             /\ stream'.reconnectCount = stream.reconnectCount /\ resumes' = resumes
    BY <2>2, <2>3, <2>5 DEF Resumed
  <2> QED BY <2>1, <2>4, <2>5
<1> QED BY <1>3, <1>4, <1>5, <1>6, NextTimes

\* No event, no window.
LEMMA WithinNone == ASSUME NEW window, NEW limit \in Nat PROVE Within(<<>>, window, limit) /\ Forgotten(<<>>, <<>>, window, 0)
<1>1. DOMAIN <<>> = {} /\ Len(<<>>) = 0 OBVIOUS
<1>2. \A at \in Nat : InWindow(<<>>, at, window) = {} BY <1>1 DEF InWindow
<1>3. Within(<<>>, window, limit) BY <1>2, FS_EmptySet DEF Within
<1>4. From(<<>>, 0) = <<>> BY <1>1 DEF From
<1>5. 0 \in 0..Len(<<>>) /\ 1..0 = {} BY <1>1
<1>6. Forgotten(<<>>, <<>>, window, 0) BY <1>4, <1>5 DEF Forgotten
<1> QED BY <1>3, <1>6

\* However a stream is resumed, it is resumed at most ReconnectTotal times, and at most
\* ReconnectWindowCount times in any window of ReconnectWindow, wherever it starts.
THEOREM ReconnectsLimited == Spec => []ReconnectLimits
<1>1. Init => Types /\ Bounds BY InitTypes, InitBounds
<1>2. Init => Resumed
  <2> SUFFICES ASSUME Init PROVE Resumed OBVIOUS
  <2>1. now = 0 /\ resumes = <<>> /\ stream.reconnectTimes = <<>> /\ stream.reconnectCount = 0 BY DEF Init
  <2>2. ReconnectWindowCount \in Nat BY StreamConfig DEF StreamConfig
  <2>3. Within(<<>>, ReconnectWindow, ReconnectWindowCount) /\ Forgotten(<<>>, <<>>, ReconnectWindow, 0) BY <2>2, WithinNone
  <2>4. Len(<<>>) = 0 OBVIOUS
  <2> QED BY <2>1, <2>3, <2>4 DEF Resumed
<1>3. Types /\ Bounds /\ Resumed /\ [Next]_vars => Types' /\ Bounds' /\ Resumed' BY NextTypes, NextBounds, NextResumed
<1>4. Types /\ Bounds /\ Resumed => ReconnectLimits
  <2> SUFFICES ASSUME Types, Bounds, Resumed PROVE ReconnectLimits OBVIOUS
  <2>1. Len(resumes) <= ReconnectTotal BY DEF Resumed, Bounds, Limits
  <2>2. \A at \in 0..now : at \in Nat BY TypesEasy
  <2> QED BY <2>1, <2>2 DEF ReconnectLimits, Resumed, Within
<1> QED BY <1>1, <1>2, <1>3, <1>4, PTL DEF Spec

\* The requests let through, and what the stream remembers of them.
AtTimes == [i \in DOMAIN accepted |-> accepted[i].at]
Requested == /\ Forgotten(AtTimes, stream.requestTimes, RequestWindow, now)
             /\ Within(AtTimes, RequestWindow, RequestWindowCount)
             /\ Within(AtTimes, BurstWindow, BurstCount)

\* The times of the requests let through ...
LEMMA AtTimesType == ASSUME Types PROVE AtTimes \in Seq(Nat) /\ Len(AtTimes) = Len(accepted)
<1>1. PICK q \in Seq(AcceptedRec) : q = accepted BY TypesEasy
<1>2. DOMAIN q = 1..Len(q) /\ Len(q) \in Nat OBVIOUS
<1>3. \A i \in 1..Len(q) : q[i].at \in Nat
  <2> TAKE i \in 1..Len(q)
  <2>1. q[i] \in AcceptedRec BY ElementOfSeq
  <2> QED BY <2>1 DEF AcceptedRec
<1>4. PICK f : f = [i \in 1..Len(q) |-> q[i].at] OBVIOUS
<1>5. f \in [1..Len(q) -> Nat] BY <1>3, <1>4
<1>6. f \in Seq(Nat) /\ Len(f) = Len(q) BY <1>2, <1>5, SeqDef
<1>7. f = AtTimes BY <1>1, <1>2, <1>4 DEF AtTimes
<1> QED BY <1>1, <1>6, <1>7

\* ... when one more is.
LEMMA AtTimesAppend == ASSUME Types, NEW num \in Nat, accepted' = Append(accepted, [num |-> num, at |-> now])
                       PROVE  AtTimes' = Append(AtTimes, now)
<1>1. PICK q \in Seq(AcceptedRec) : q = accepted BY TypesEasy
<1>2. DOMAIN q = 1..Len(q) /\ Len(q) \in Nat OBVIOUS
<1>3. PICK r \in AcceptedRec : r = [num |-> num, at |-> now] BY TypesEasy DEF AcceptedRec
<1>4. PICK s \in Seq(AcceptedRec) : s = Append(q, r) BY AppendProperties
<1>5. Len(s) = Len(q) + 1 /\ s[Len(q) + 1] = r /\ \A i \in 1..Len(q) : s[i] = q[i] BY <1>4, AppendProperties
<1>6. DOMAIN s = 1..(Len(q) + 1) BY <1>5
<1>7. PICK f : f = AtTimes OBVIOUS
<1>8. f = [i \in 1..Len(q) |-> q[i].at] BY <1>1, <1>2, <1>7 DEF AtTimes
<1>9. f \in Seq(Nat) /\ Len(f) = Len(q) BY <1>1, <1>7, AtTimesType
<1>10. now \in Nat BY TypesEasy
<1>11. PICK n \in Nat : n = now BY <1>10
<1>12. PICK h \in Seq(Nat) : h = Append(f, n) BY <1>9, AppendProperties
<1>13. Len(h) = Len(q) + 1 /\ h[Len(q) + 1] = n /\ \A i \in 1..Len(q) : h[i] = f[i] BY <1>9, <1>12, AppendProperties
<1>14. AtTimes' = [i \in 1..(Len(q) + 1) |-> s[i].at]
  <2>1. accepted' = s BY <1>1, <1>3, <1>4
  <2> QED BY <1>6, <2>1 DEF AtTimes
<1>15. PICK g : g = [i \in 1..(Len(q) + 1) |-> s[i].at] OBVIOUS
<1>16. \A i \in 1..(Len(q) + 1) : g[i] = h[i]
  <2> TAKE i \in 1..(Len(q) + 1)
  <2>1. CASE i \in 1..Len(q) BY <1>5, <1>8, <1>13, <1>15, <2>1
  <2>2. CASE i = Len(q) + 1
    <3>1. r.at = n BY <1>3, <1>11
    <3> QED BY <1>5, <1>13, <1>15, <2>2, <3>1
  <2> QED BY <1>2, <2>1, <2>2
<1>17. h \in [1..(Len(q) + 1) -> Nat] BY <1>13, LenProperties
<1>18. g = h BY <1>15, <1>16, <1>17
<1> QED BY <1>7, <1>11, <1>12, <1>14, <1>15, <1>18

\* Every step keeps the deque of requests to the history.
LEMMA NextRequested == ASSUME BurstWindow <= RequestWindow, Types, Requested, [Next]_vars PROVE Requested'
<1>1. now \in Nat /\ AtTimes \in Seq(Nat) /\ stream.requestTimes \in Seq(Nat) BY TypesEasy, AtTimesType DEF StreamRec
<1>2. {RequestWindow, RequestWindowCount, BurstWindow, BurstCount} \subseteq Nat BY StreamConfig DEF StreamConfig
<1>3. accepted' = accepted => AtTimes' = AtTimes BY DEF AtTimes
<1>4. CASE TimesSame BY <1>3, <1>4 DEF Requested, TimesSame, SameTimes
<1>5. CASE ReconnectStep BY <1>3, <1>5 DEF Requested, ReconnectStep
<1>6. CASE ClockStep
  <2>1. Forgotten(AtTimes, stream.requestTimes, RequestWindow, now + 1) BY <1>1, <1>2, ForgottenLater DEF Requested
  <2> QED BY <1>3, <1>6, <2>1 DEF Requested, ClockStep
<1>7. CASE RequestStep
  <2>1. PICK times \in Seq(Nat) :
            /\ times = Recent(stream.requestTimes, RequestWindow)
            /\ \/ /\ RatePasses(times) /\ stream'.requestTimes = Append(times, now)
                  /\ \E num \in Nat : accepted' = Append(accepted, [num |-> num, at |-> now])
               \/ stream'.requestTimes = times /\ accepted' = accepted
    BY <1>7 DEF RequestStep
  <2>2. now' = now BY <1>7 DEF RequestStep
  <2>3. Forgotten(AtTimes, times, RequestWindow, now) BY <1>1, <1>2, <2>1, ForgottenRecent DEF Requested
  <2>4. CASE /\ RatePasses(times) /\ stream'.requestTimes = Append(times, now)
             /\ \E num \in Nat : accepted' = Append(accepted, [num |-> num, at |-> now])
    <3>1. AtTimes' = Append(AtTimes, now) BY <2>4, AtTimesAppend
    <3>2. Len(times) < RequestWindowCount /\ Cardinality({i \in DOMAIN times : now - times[i] < BurstWindow}) < BurstCount
      BY <2>4 DEF RatePasses
    <3>3. Forgotten(Append(AtTimes, now), Append(times, now), RequestWindow, now) BY <1>1, <2>3, ForgottenAppend
    <3>4. Within(Append(AtTimes, now), RequestWindow, RequestWindowCount)
      BY <1>1, <1>2, <2>3, <3>2, WithinAppend DEF Requested
    <3>5. Within(Append(AtTimes, now), BurstWindow, BurstCount)
      BY <1>1, <1>2, <2>3, <3>2, WithinShort DEF Requested
    <3> QED BY <2>2, <2>4, <3>1, <3>3, <3>4, <3>5 DEF Requested
  <2>5. CASE stream'.requestTimes = times /\ accepted' = accepted BY <1>3, <2>2, <2>3, <2>5 DEF Requested
  <2> QED BY <2>1, <2>4, <2>5
<1> QED BY <1>4, <1>5, <1>6, <1>7, NextTimes

\* At most RequestWindowCount requests are let through in any window of RequestWindow and at
\* most BurstCount in any of BurstWindow, wherever the windows start, although the deque
\* forgets: when the burst window is not the longer one, as in HARD_LIMITS.
THEOREM RequestsLimited == ASSUME BurstWindow <= RequestWindow PROVE Spec => []RequestLimits
<1>1. Init => Types BY InitTypes
<1>2. Init => Requested
  <2> SUFFICES ASSUME Init PROVE Requested OBVIOUS
  <2>1. now = 0 /\ accepted = <<>> /\ stream.requestTimes = <<>> BY DEF Init
  <2>2. RequestWindowCount \in Nat /\ BurstCount \in Nat BY StreamConfig DEF StreamConfig
  <2>3. AtTimes = <<>>
    <3>1. Types BY InitTypes
    <3>2. AtTimes \in Seq(Nat) /\ Len(AtTimes) = Len(<<>>) BY <2>1, <3>1, AtTimesType
    <3>3. Len(<<>>) = 0 /\ <<>> \in Seq(Nat) OBVIOUS
    <3> QED BY <3>2, <3>3, EmptySeq
  <2>4. Within(<<>>, RequestWindow, RequestWindowCount) /\ Within(<<>>, BurstWindow, BurstCount)
        /\ Forgotten(<<>>, <<>>, RequestWindow, 0)
    BY <2>2, WithinNone
  <2> QED BY <2>1, <2>3, <2>4 DEF Requested
<1>3. Types /\ Requested /\ [Next]_vars => Types' /\ Requested' BY NextTypes, NextRequested
<1>4. Types /\ Requested => RequestLimits
  <2> SUFFICES ASSUME Types, Requested PROVE RequestLimits OBVIOUS
  <2>1. \A at \in 0..now : at \in Nat BY TypesEasy
  <2> QED BY <2>1 DEF RequestLimits, Requested, Within, AtTimes
<1> QED BY <1>1, <1>2, <1>3, <1>4, PTL DEF Spec

-----------------------------------------------------------------------------
(* The outbox *)

\* The outbox holds reliable messages in the order of their numbers, with their sequences.
Filed(q, R) == /\ \A i \in 1..Len(q) : q[i].num \in R /\ q[i].seq = q[i].num % SeqMod
               /\ \A i, j \in 1..Len(q) : i < j => q[i].num < q[j].num
Keeps(q, n) == \E i \in 1..Len(q) : q[i].num = n

\* dropped_through stands for the number d: what is beyond it and not received is in the outbox.
Dropped(s, d, R, G) == /\ (s.dropped = NoSeq /\ d = StartSeq) \/ s.dropped = d % SeqMod
                       /\ \A i \in 1..Len(s.outbox) : s.outbox[i].num > d
                       /\ \A n \in R : n > d /\ n > G => Keeps(s.outbox, n)

\* The stream s has sent messages up to number S, those of R through the outbox, to a client
\* that has received up to G.
Sent(S, R, G) == /\ S \in StartSeq..(StartSeq + MaxSends) /\ G \in StartSeq..S
                 /\ R \subseteq (StartSeq + 1)..S
Boxed(s, S, R, G) == /\ Sent(S, R, G) /\ s.serverSeq = S % SeqMod /\ Filed(s.outbox, R)
                     /\ \E d \in StartSeq..S : Dropped(s, d, R, G)

\* The numbers are natural numbers.
LEMMA SentType == ASSUME NEW S, NEW R, NEW G, Sent(S, R, G)
                  PROVE  S \in Nat /\ G \in Nat /\ R \subseteq Nat /\ StartSeq \in Nat /\ MaxSends \in Nat
                         /\ \A n \in R : n \in StartSeq..(StartSeq + MaxSends) /\ n > StartSeq /\ n <= S
<1>1. StartSeq \in Nat /\ MaxSends \in Nat BY StreamConfig DEF StreamConfig
<1>2. S \in StartSeq..(StartSeq + MaxSends) /\ G \in StartSeq..S /\ R \subseteq (StartSeq + 1)..S BY DEF Sent
<1>3. S \in Nat /\ G \in Nat BY <1>1, <1>2
<1> QED BY <1>1, <1>2, <1>3

\* The rest of an outbox is filed.
LEMMA FiledFrom == ASSUME NEW q \in Seq(OutboxMsg), NEW R, Filed(q, R), NEW k \in 0..Len(q)
                   PROVE  Filed(From(q, k), R)
<1>1. PICK f \in Seq(OutboxMsg) : f = From(q, k) BY FromSeq
<1>2. Len(q) \in Nat /\ Len(f) = Len(q) - k /\ \A i \in 1..(Len(q) - k) : f[i] = q[i + k]
  <2>1. Len(q) \in Nat OBVIOUS
  <2> QED BY <1>1, <2>1, FromSeq
<1>3. \A i \in 1..Len(f) : i + k \in 1..Len(q) /\ f[i] = q[i + k] BY <1>2
<1>4. \A i \in 1..Len(f) : f[i].num \in R /\ f[i].seq = f[i].num % SeqMod BY <1>3 DEF Filed
<1>5. \A i, j \in 1..Len(f) : i < j => f[i].num < f[j].num
  <2> SUFFICES ASSUME NEW i \in 1..Len(f), NEW j \in 1..Len(f), i < j PROVE f[i].num < f[j].num OBVIOUS
  <2>1. i + k < j + k BY <1>2
  <2>2. q[i + k].num < q[j + k].num BY <1>3, <2>1 DEF Filed
  <2> QED BY <1>3, <2>2
<1> QED BY <1>1, <1>4, <1>5 DEF Filed

\* What is after the first k is in the rest.
LEMMA KeepsFrom == ASSUME NEW q \in Seq(OutboxMsg), NEW R, R \subseteq Nat, Filed(q, R), NEW k \in 0..Len(q), NEW n, Keeps(q, n),
                          \A i \in 1..k : q[i].num # n
                   PROVE  Keeps(From(q, k), n)
<1>1. PICK f \in Seq(OutboxMsg) : f = From(q, k) BY FromSeq
<1>2. Len(q) \in Nat /\ Len(f) = Len(q) - k /\ \A i \in 1..(Len(q) - k) : f[i] = q[i + k]
  <2>1. Len(q) \in Nat OBVIOUS
  <2> QED BY <1>1, <2>1, FromSeq
<1>3. PICK i \in 1..Len(q) : q[i].num = n BY DEF Keeps
<1>4. i \notin 1..k BY <1>3
<1>5. i - k \in 1..(Len(q) - k) /\ (i - k) + k = i BY <1>2, <1>4
<1>6. f[i - k] = q[i] BY <1>2, <1>5
<1>7. i - k \in 1..Len(f) BY <1>2, <1>5
<1> QED BY <1>1, <1>3, <1>6, <1>7 DEF Keeps

\* The messages at the front are older than the rest.
LEMMA FrontOlder == ASSUME NEW q \in Seq(OutboxMsg), NEW R, R \subseteq Nat, Filed(q, R), NEW k \in 0..Len(q),
                           NEW i \in 1..Len(From(q, k)), NEW j \in 1..k
                    PROVE  q[j].num < From(q, k)[i].num
<1>1. PICK f \in Seq(OutboxMsg) : f = From(q, k) BY FromSeq
<1>2. Len(q) \in Nat /\ Len(f) = Len(q) - k /\ \A h \in 1..(Len(q) - k) : f[h] = q[h + k]
  <2>1. Len(q) \in Nat OBVIOUS
  <2> QED BY <1>1, <2>1, FromSeq
<1>3. i \in 1..Len(f) BY <1>1
<1>4. i + k \in 1..Len(q) /\ j \in 1..Len(q) /\ j < i + k /\ f[i] = q[i + k] BY <1>2, <1>3
<1>5. q[j].num < q[i + k].num BY <1>4 DEF Filed
<1> QED BY <1>1, <1>4, <1>5

\* Dropping the first k messages moves dropped_through to the last of them.
LEMMA DropsDropped == ASSUME NEW s \in StreamRec, NEW t, NEW k, NEW S, NEW R, NEW G, Sent(S, R, G), Filed(s.outbox, R),
                             NEW d \in StartSeq..S, Dropped(s, d, R, G), Drops(s, t, k)
                      PROVE  \E e \in StartSeq..S : Dropped(t, e, R, G)
<1>1. PICK q \in Seq(OutboxMsg) : q = s.outbox BY DEF StreamRec
<1>0. /\ k \in 0..Len(s.outbox) /\ t.outbox = From(s.outbox, k) /\ (k = 0 => t.dropped = s.dropped)
      /\ k > 0 => t.dropped = s.outbox[k].seq
  BY DEF Drops
<1>2. S \in Nat /\ G \in Nat /\ R \subseteq Nat /\ \A n \in R : n \in StartSeq..(StartSeq + MaxSends) /\ n > StartSeq /\ n <= S
  BY SentType
<1>3. Len(q) \in Nat /\ k \in 0..Len(q) /\ Filed(q, R) BY <1>0, <1>1
<1>4. CASE k = 0
  <2>1. From(q, 0) = q
    <3>1. From(q, 0) = SubSeq(q, 1, Len(q)) BY DEF From
    <3> QED BY <3>1, SubSeqFull
  <2>2. Dropped(t, d, R, G) BY <1>0, <1>1, <1>4, <2>1 DEF Dropped
  <2> QED BY <2>2
<1>5. CASE k > 0
  <2>1. k \in 1..Len(q) BY <1>3, <1>5
  <2>2. PICK e : e = q[k].num OBVIOUS
  <2>3. e \in R /\ q[k].seq = e % SeqMod /\ e > d BY <1>1, <1>3, <2>1, <2>2 DEF Filed, Dropped
  <2>4. e \in StartSeq..S /\ e \in Nat BY <1>2, <2>3
  <2>5. t.dropped = e % SeqMod BY <1>0, <1>1, <1>5, <2>3
  <2>6. \A i \in 1..Len(t.outbox) : t.outbox[i].num > e
    <3> TAKE i \in 1..Len(t.outbox)
    <3>1. i \in 1..Len(From(q, k)) /\ k \in 1..k BY <1>0, <1>1, <2>1
    <3>2. e < From(q, k)[i].num BY <1>2, <1>3, <2>2, <3>1, FrontOlder
    <3>3. From(q, k)[i].num \in R
      <4>1. Filed(From(q, k), R) BY <1>3, FiledFrom
      <4> QED BY <3>1, <4>1 DEF Filed
    <3>4. From(q, k)[i].num \in Nat BY <1>2, <3>3
    <3>5. From(q, k)[i].num > e BY ONLY <2>4, <3>2, <3>4
    <3> QED BY <1>0, <1>1, <3>5
  <2>7. \A n \in R : n > e /\ n > G => Keeps(t.outbox, n)
    <3> SUFFICES ASSUME NEW n \in R, n > e, n > G PROVE Keeps(t.outbox, n) OBVIOUS
    <3>1. n > d
      <4>1. n \in Nat /\ d \in Nat BY <1>2, StreamConfig DEF StreamConfig
      <4> QED BY ONLY <2>3, <2>4, <4>1, n > e
    <3>2. Keeps(q, n) BY <1>1, <3>1 DEF Dropped
    <3>3. \A i \in 1..k : q[i].num # n
      <4> TAKE i \in 1..k
      <4>1. i \in 1..Len(q) BY <2>1
      <4>2. q[i].num \in R /\ (i < k => q[i].num < e) BY <1>3, <2>1, <2>2, <4>1 DEF Filed
      <4>3. q[i].num \in Nat /\ n \in Nat BY <1>2, <4>2
      <4>4. CASE i = k BY ONLY <2>2, <2>4, <4>3, <4>4, n > e
      <4>5. CASE i < k BY ONLY <2>4, <4>2, <4>3, <4>5, n > e
      <4> QED BY <2>1, <4>4, <4>5
    <3>4. Keeps(From(q, k), n) BY <1>2, <1>3, <3>2, <3>3, KeepsFrom
    <3> QED BY <1>0, <1>1, <3>4
  <2>8. Dropped(t, e, R, G) BY <2>5, <2>6, <2>7 DEF Dropped
  <2> QED BY <2>4, <2>8
<1> QED BY <1>3, <1>4, <1>5

\* prune_outbox.
LEMMA PruneBoxed == ASSUME NEW s \in StreamRec, NEW S, NEW R, NEW G, Boxed(s, S, R, G)
                    PROVE  Boxed(PruneOutbox(s), S, R, G)
<1>1. PICK t : t = PruneOutbox(s) OBVIOUS
<1>2. t \in StreamRec /\ t.serverSeq = s.serverSeq BY <1>1, PruneFx
<1>3. PICK k \in Nat : Drops(s, t, k) BY <1>1, PruneFx
<1>4. /\ k \in 0..Len(s.outbox) /\ t.outbox = From(s.outbox, k) /\ (k = 0 => t.dropped = s.dropped)
      /\ k > 0 => t.dropped = s.outbox[k].seq
  BY <1>3 DEF Drops
<1>5. Sent(S, R, G) /\ s.serverSeq = S % SeqMod /\ Filed(s.outbox, R) BY DEF Boxed
<1>6. PICK d \in StartSeq..S : Dropped(s, d, R, G) BY DEF Boxed
<1>7. \E e \in StartSeq..S : Dropped(t, e, R, G) BY <1>3, <1>5, <1>6, DropsDropped
<1>8. s.outbox \in Seq(OutboxMsg) BY DEF StreamRec
<1>9. Filed(t.outbox, R) BY <1>4, <1>5, <1>8, FiledFrom
<1> QED BY <1>1, <1>2, <1>5, <1>7, <1>9 DEF Boxed

\* acknowledge_outbox with a number the client has received.
LEMMA AckBoxed == ASSUME MaxSends < SeqMod \div 2, NEW s \in StreamRec, NEW S, NEW R, NEW G, Boxed(s, S, R, G),
                         NEW a \in StartSeq..G, NEW t, t = AcknowledgeOutbox(s, a % SeqMod)
                  PROVE  Boxed(t, S, R, G) /\ \A i \in 1..Len(t.outbox) : t.outbox[i].num > a
<1>1. t \in StreamRec /\ t.serverSeq = s.serverSeq BY AcknowledgeFx
<1>2. PICK k \in Nat : Forgets(s, t, k, a % SeqMod) BY AcknowledgeFx
<1>3. PICK q \in Seq(OutboxMsg) : q = s.outbox BY DEF StreamRec
<1>4. /\ k \in 0..Len(q) /\ t.outbox = From(q, k) /\ t.dropped = s.dropped
      /\ \A i \in 1..k : ~SeqAfter(q[i].seq, a % SeqMod)
      /\ k < Len(q) => SeqAfter(q[k + 1].seq, a % SeqMod)
  BY <1>2, <1>3 DEF Forgets
<1>5. Sent(S, R, G) /\ s.serverSeq = S % SeqMod /\ Filed(q, R) BY <1>3 DEF Boxed
<1>6. PICK d \in StartSeq..S : Dropped(s, d, R, G) BY DEF Boxed
<1>7. /\ S \in Nat /\ G \in Nat /\ R \subseteq Nat /\ StartSeq \in Nat /\ MaxSends \in Nat
      /\ \A n \in R : n \in StartSeq..(StartSeq + MaxSends) /\ n > StartSeq /\ n <= S
  BY <1>5, SentType
<1>8. S \in StartSeq..(StartSeq + MaxSends) /\ G \in StartSeq..S BY <1>5 DEF Sent
<1>9. a \in StartSeq..(StartSeq + MaxSends) /\ a \in Nat /\ a <= G BY <1>7, <1>8
<1>10. Len(q) \in Nat OBVIOUS
<1>11. ASSUME NEW i \in 1..Len(q) PROVE SeqAfter(q[i].seq, a % SeqMod) <=> q[i].num > a
  <2>1. q[i].num \in R /\ q[i].seq = q[i].num % SeqMod BY <1>5 DEF Filed
  <2>2. PICK n \in StartSeq..(StartSeq + MaxSends) : n = q[i].num BY <1>7, <2>1
  <2>3. SeqAfter(n % SeqMod, a % SeqMod) <=> n > a BY <1>9, SeqAfterIsAfter
  <2> QED BY <2>1, <2>2, <2>3
<1>12. \A i \in 1..k : q[i].num <= a
  <2> TAKE i \in 1..k
  <2>1. i \in 1..Len(q) BY <1>4, <1>10
  <2>2. ~(q[i].num > a) BY <1>4, <1>11, <2>1
  <2>3. q[i].num \in Nat BY <1>5, <1>7, <2>1 DEF Filed
  <2> QED BY ONLY <1>9, <2>2, <2>3
<1>13. Filed(t.outbox, R) BY <1>4, <1>5, FiledFrom
<1>17. Len(t.outbox) = Len(q) - k /\ \A h \in 1..(Len(q) - k) : t.outbox[h] = q[h + k]
  <2>1. k \in 0..Len(q) /\ t.outbox = From(q, k) BY <1>4
  <2>2. Len(From(q, k)) = Len(q) - k /\ \A h \in 1..(Len(q) - k) : From(q, k)[h] = q[h + k]
    BY ONLY <2>1, q \in Seq(OutboxMsg), FromSeq
  <2> QED BY ONLY <2>1, <2>2
<1>14. Dropped(t, d, R, G)
  <2>1. (t.dropped = NoSeq /\ d = StartSeq) \/ t.dropped = d % SeqMod BY <1>4, <1>6 DEF Dropped
  <2>2. \A i \in 1..Len(t.outbox) : t.outbox[i].num > d
    <3> TAKE i \in 1..Len(t.outbox)
    <3>2. i + k \in 1..Len(q) /\ t.outbox[i] = q[i + k] BY <1>4, <1>10, <1>17, SMTT(30)
    <3> QED BY <1>3, <1>6, <3>2 DEF Dropped
  <2>3. \A n \in R : n > d /\ n > G => Keeps(t.outbox, n)
    <3> SUFFICES ASSUME NEW n \in R, n > d, n > G PROVE Keeps(t.outbox, n) OBVIOUS
    <3>1. Keeps(q, n) BY <1>3, <1>6 DEF Dropped
    <3>2. \A i \in 1..k : q[i].num # n
      <4> TAKE i \in 1..k
      <4>1. q[i].num <= a /\ i \in 1..Len(q) BY <1>4, <1>10, <1>12
      <4>2. q[i].num \in Nat /\ n \in Nat BY <1>5, <1>7, <4>1 DEF Filed
      <4> QED BY ONLY <1>7, <1>9, <4>1, <4>2, n > G
    <3>3. Keeps(From(q, k), n) BY <1>4, <1>5, <1>7, <3>1, <3>2, KeepsFrom
    <3> QED BY <1>4, <3>3
  <2> QED BY <2>1, <2>2, <2>3 DEF Dropped
<1>15. Boxed(t, S, R, G) BY <1>1, <1>5, <1>13, <1>14 DEF Boxed
<1>16. \A i \in 1..Len(t.outbox) : t.outbox[i].num > a
  <2> TAKE i \in 1..Len(t.outbox)
  <2>2. i + k \in 1..Len(q) /\ t.outbox[i] = q[i + k] /\ k + 1 \in 1..Len(q) /\ k < Len(q)
    BY <1>4, <1>10, <1>17, SMTT(30)
  <2>3. q[k + 1].num > a BY <1>4, <1>11, <2>2
  <2>4. k + 1 < i + k => q[k + 1].num < q[i + k].num BY <1>5, <2>2 DEF Filed
  <2>5. q[k + 1].num \in Nat /\ q[i + k].num \in Nat BY <1>5, <1>7, <2>2 DEF Filed
  <2>6. CASE i = 1
    <3>1. i + k = k + 1 BY <1>4, <2>6
    <3> QED BY <2>2, <2>3, <3>1
  <2>7. CASE i # 1
    <3>1. k + 1 < i + k BY <1>4, <2>2, <2>7, SMTT(30)
    <3>2. q[i + k].num > a BY ONLY <1>9, <2>3, <2>4, <2>5, <3>1, SMTT(30)
    <3> QED BY <2>2, <3>2
  <2> QED BY <2>6, <2>7
<1> QED BY <1>15, <1>16

\* Steps that leave the outbox alone, ...
LEMMA SameBoxed == ASSUME NEW s, NEW t, NEW S, NEW R, NEW G, Boxed(s, S, R, G), SameBox(s, t) PROVE Boxed(t, S, R, G)
BY DEF Boxed, SameBox, Dropped

\* ... and the client receiving more.
LEMMA GotBoxed == ASSUME NEW s, NEW S, NEW R, NEW G, Boxed(s, S, R, G), NEW H \in G..S PROVE Boxed(s, S, R, H)
<1>1. Sent(S, R, G) BY DEF Boxed
<1>2. S \in Nat /\ G \in Nat /\ StartSeq \in Nat /\ \A n \in R : n \in Nat BY <1>1, SentType
<1>3. Sent(S, R, H) BY <1>1, <1>2 DEF Sent
<1>4. PICK d \in StartSeq..S : Dropped(s, d, R, G) BY DEF Boxed
<1>5. \A n \in R : n > H => n > G BY <1>2
<1>6. Dropped(s, d, R, H) BY <1>4, <1>5 DEF Dropped
<1> QED BY <1>3, <1>4, <1>6 DEF Boxed

\* The next number.
LEMMA NextSent == ASSUME NEW S, NEW R, NEW G, Sent(S, R, G), S < StartSeq + MaxSends
                  PROVE  /\ Sent(S + 1, R, G) /\ Sent(S + 1, R \cup {S + 1}, G)
                         /\ \A s : s.serverSeq = S % SeqMod => (s.serverSeq + 1) % SeqMod = (S + 1) % SeqMod
<1>1. S \in Nat /\ G \in Nat /\ StartSeq \in Nat /\ MaxSends \in Nat /\ \A n \in R : n \in Nat BY SentType
<1>2. S \in StartSeq..(StartSeq + MaxSends) /\ G \in StartSeq..S /\ R \subseteq (StartSeq + 1)..S BY DEF Sent
<1>3. S + 1 \in StartSeq..(StartSeq + MaxSends) /\ G \in StartSeq..(S + 1) /\ S + 1 \in (StartSeq + 1)..(S + 1) BY <1>1, <1>2
<1>4. R \subseteq (StartSeq + 1)..(S + 1) BY <1>1, <1>2
<1>5. Sent(S + 1, R, G) /\ Sent(S + 1, R \cup {S + 1}, G) BY <1>3, <1>4 DEF Sent
<1>6. SeqMod \in Nat /\ SeqMod > 0 /\ S \in Int BY <1>1, StreamConfig DEF StreamConfig
<1>7. ((S % SeqMod) + 1) % SeqMod = (S + 1) % SeqMod BY ONLY <1>6, ModSucc
<1> QED BY <1>5, <1>7

\* encode of a message that is not kept.
LEMMA ControlBoxed ==
    ASSUME NEW s, NEW t, NEW S, NEW R, NEW G, Boxed(s, S, R, G), S < StartSeq + MaxSends,
           t.serverSeq = (s.serverSeq + 1) % SeqMod, t.outbox = s.outbox, t.dropped = s.dropped
    PROVE  Boxed(t, S + 1, R, G)
<1>1. Sent(S, R, G) /\ s.serverSeq = S % SeqMod BY DEF Boxed
<1>2. Sent(S + 1, R, G) /\ t.serverSeq = (S + 1) % SeqMod BY <1>1, NextSent
<1>3. PICK d \in StartSeq..S : Dropped(s, d, R, G) BY DEF Boxed
<1>4. S \in Nat /\ StartSeq \in Nat BY <1>1, SentType
<1>5. d \in StartSeq..(S + 1) BY <1>4
<1>6. Dropped(t, d, R, G) BY <1>3 DEF Dropped
<1>7. Filed(t.outbox, R) BY DEF Boxed
<1> QED BY <1>2, <1>5, <1>6, <1>7 DEF Boxed

\* encode of a reliable message.
LEMMA GainsBoxed ==
    ASSUME NEW s \in StreamRec, NEW t, NEW k \in Nat, NEW S, NEW R, NEW G, NEW m \in OutboxMsg,
           Boxed(s, S, R, G), S < StartSeq + MaxSends,
           t.serverSeq = (s.serverSeq + 1) % SeqMod, Gains(s, t, k, m),
           m.seq = (s.serverSeq + 1) % SeqMod, m.num = S + 1
    PROVE  Boxed(t, S + 1, R \cup {S + 1}, G)
<1>1. Sent(S, R, G) /\ s.serverSeq = S % SeqMod /\ Filed(s.outbox, R) BY DEF Boxed
<1>2. Sent(S + 1, R \cup {S + 1}, G) /\ t.serverSeq = (S + 1) % SeqMod /\ m.seq = (S + 1) % SeqMod BY <1>1, NextSent
<1>3. PICK d \in StartSeq..S : Dropped(s, d, R, G) BY DEF Boxed
<1>4. S \in Nat /\ StartSeq \in Nat /\ G \in Nat /\ R \subseteq Nat /\ \A n \in R : n <= S BY <1>1, SentType
<1>5. PICK u : u = [outbox |-> From(s.outbox, k), dropped |-> t.dropped] OBVIOUS
<1>6. k \in 0..Len(s.outbox) /\ t.outbox = Append(From(s.outbox, k), m) BY DEF Gains
<1>7. Drops(s, u, k) BY <1>5 DEF Gains, Drops
<1>8. PICK e \in StartSeq..S : Dropped(u, e, R, G) BY <1>1, <1>3, <1>7, DropsDropped
<1>9. s.outbox \in Seq(OutboxMsg) BY DEF StreamRec
<1>10. PICK f \in Seq(OutboxMsg) : f = From(s.outbox, k) BY <1>6, <1>9, FromSeq
<1>11. Filed(f, R) BY <1>1, <1>6, <1>9, <1>10, FiledFrom
<1>12. PICK q : q = Append(f, m) OBVIOUS
<1>13. Len(f) \in Nat /\ Len(q) = Len(f) + 1 /\ q[Len(f) + 1] = m /\ \A i \in 1..Len(f) : q[i] = f[i]
  BY ONLY <1>12, f \in Seq(OutboxMsg), m \in OutboxMsg, AppendProperties
<1>14. t.outbox = q /\ u.outbox = f /\ t.dropped = u.dropped BY <1>5, <1>6, <1>10, <1>12
<1>15. \A i \in 1..Len(q) : i \in 1..Len(f) \/ i = Len(f) + 1 BY <1>13
<1>16. \A i \in 1..Len(f) : f[i].num \in R /\ f[i].num < S + 1 /\ f[i].num > e
  <2> TAKE i \in 1..Len(f)
  <2>1. f[i].num \in R BY <1>11 DEF Filed
  <2>2. f[i].num > e BY <1>8, <1>14 DEF Dropped
  <2>3. PICK x \in Nat : x = f[i].num /\ x <= S BY <1>4, <2>1
  <2>4. x < S + 1 BY ONLY <1>4, <2>3, x \in Nat
  <2> QED BY <2>1, <2>2, <2>3, <2>4
<1>17. Filed(q, R \cup {S + 1})
  <2>1. \A i \in 1..Len(q) : q[i].num \in R \cup {S + 1} /\ q[i].seq = q[i].num % SeqMod
    <3> TAKE i \in 1..Len(q)
    <3>1. CASE i \in 1..Len(f) BY <1>11, <1>13, <3>1 DEF Filed
    <3>2. CASE i = Len(f) + 1 BY <1>2, <1>13, <3>2
    <3> QED BY <1>15, <3>1, <3>2
  <2>2. \A i, j \in 1..Len(q) : i < j => q[i].num < q[j].num
    <3> SUFFICES ASSUME NEW i \in 1..Len(q), NEW j \in 1..Len(q), i < j PROVE q[i].num < q[j].num OBVIOUS
    <3>1. i \in 1..Len(f) BY <1>13
    <3>2. CASE j \in 1..Len(f) BY <1>11, <1>13, <3>1, <3>2 DEF Filed
    <3>3. CASE j = Len(f) + 1 BY <1>13, <1>16, <3>1, <3>3
    <3> QED BY <1>15, <3>2, <3>3
  <2> QED BY <2>1, <2>2 DEF Filed
<1>18. \A i \in 1..Len(q) : q[i].num > e
  <2> TAKE i \in 1..Len(q)
  <2>1. CASE i \in 1..Len(f) BY <1>13, <1>16, <2>1
  <2>2. CASE i = Len(f) + 1 BY <1>4, <1>13, <2>2
  <2> QED BY <1>15, <2>1, <2>2
<1>19. \A n \in R \cup {S + 1} : n > e /\ n > G => Keeps(q, n)
  <2> SUFFICES ASSUME NEW n \in R \cup {S + 1}, n > e, n > G PROVE Keeps(q, n) OBVIOUS
  <2>1. CASE n \in R
    <3>1. Keeps(f, n) BY <1>8, <1>14, <2>1 DEF Dropped
    <3>2. PICK i \in 1..Len(f) : f[i].num = n BY <3>1 DEF Keeps
    <3>3. i \in 1..Len(q) /\ q[i].num = n BY <1>13, <3>2
    <3> QED BY <3>3 DEF Keeps
  <2>2. CASE n = S + 1
    <3>1. Len(f) + 1 \in 1..Len(q) BY <1>13
    <3> QED BY <1>13, <2>2, <3>1 DEF Keeps
  <2> QED BY <2>1, <2>2
<1>20. (t.dropped = NoSeq /\ e = StartSeq) \/ t.dropped = e % SeqMod BY <1>8, <1>14 DEF Dropped
<1>21. Dropped(t, e, R \cup {S + 1}, G) BY <1>14, <1>18, <1>19, <1>20 DEF Dropped
<1>22. e \in StartSeq..(S + 1) BY <1>4
<1> QED BY <1>2, <1>14, <1>17, <1>21, <1>22 DEF Boxed

\* accept_sequence with a number that the client has received.
LEMMA AcceptBoxed ==
    ASSUME MaxSends < SeqMod \div 2, NEW s \in StreamRec, NEW S, NEW R, NEW G, Boxed(s, S, R, G),
           NEW a \in StartSeq..G, NEW seq \in Seqs
    PROVE  Boxed(AcceptSequence(s, seq, a % SeqMod), S, R, G)
<1>1. PICK u : u = [s EXCEPT !.clientSeq = seq] OBVIOUS
<1>2. u \in StreamRec BY ONLY <1>1, s \in StreamRec, seq \in Seqs DEF StreamRec
<1>3. SameBox(s, u) BY ONLY <1>1, s \in StreamRec, seq \in Seqs DEF StreamRec, SameBox
<1>4. Boxed(u, S, R, G) BY <1>3, SameBoxed
<1>5. PICK v : v = PruneOutbox(u) OBVIOUS
<1>6. v \in StreamRec /\ Boxed(v, S, R, G) BY <1>2, <1>4, <1>5, PruneFx, PruneBoxed
<1>7. PICK t : t = AcknowledgeOutbox(v, a % SeqMod) OBVIOUS
<1>8. Boxed(t, S, R, G) BY <1>6, <1>7, AckBoxed
<1>9. t = AcceptSequence(s, seq, a % SeqMod) BY <1>1, <1>5, <1>7 DEF AcceptSequence
<1> QED BY <1>8, <1>9

-----------------------------------------------------------------------------
(* Messages on their way *)

\* The messages on a wire have been sent, and the reliable ones are known to be; so are those
\* that a worker is to replay.
OnWire(q, S, R) == \A i \in 1..Len(q) : /\ q[i].num \in (StartSeq + 1)..S
                                        /\ q[i].kind = "reliable" <=> q[i].num \in R
InReplay(q, R) == \A i \in 1..Len(q) : q[i].num \in R
Carried == \A c \in Conns : OnWire(wire[c], sent, reliable) /\ InReplay(worker[c].replay, reliable)

\* The stream, and what the client has received of it.
InBox == Boxed(stream, sent, reliable, client.got)

\* An empty wire and an empty replay.
LEMMA NothingCarried == ASSUME NEW S, NEW R PROVE OnWire(<<>>, S, R) /\ InReplay(<<>>, R)
<1>1. Len(<<>>) = 0 /\ 1..0 = {} OBVIOUS
<1> QED BY <1>1 DEF OnWire, InReplay

\* A message more is sent on some other connection.
LEMMA OnWireMore == ASSUME NEW q, NEW S \in Nat, NEW R, OnWire(q, S, R)
                    PROVE  OnWire(q, S + 1, R) /\ OnWire(q, S + 1, R \cup {S + 1})
<1>1. StartSeq \in Nat BY StreamConfig DEF StreamConfig
<1> SUFFICES ASSUME NEW i \in 1..Len(q)
             PROVE  /\ q[i].num \in (StartSeq + 1)..(S + 1) /\ (q[i].kind = "reliable" <=> q[i].num \in R)
                    /\ (q[i].num \in R <=> q[i].num \in R \cup {S + 1})
  BY DEF OnWire
<1>2. q[i].num \in (StartSeq + 1)..S /\ (q[i].kind = "reliable" <=> q[i].num \in R) BY DEF OnWire
<1>3. PICK n \in (StartSeq + 1)..S : n = q[i].num BY <1>2
<1>4. n \in (StartSeq + 1)..(S + 1) /\ n # S + 1 BY ONLY <1>1, <1>3, S \in Nat
<1> QED BY <1>2, <1>3, <1>4

\* A message more on a wire.
LEMMA OnWireAppend == ASSUME NEW q \in Seq(WireMsg), NEW m \in WireMsg, NEW S, NEW R, OnWire(q, S, R),
                             m.num \in (StartSeq + 1)..S, m.kind = "reliable" <=> m.num \in R
                      PROVE  OnWire(Append(q, m), S, R)
<1>1. PICK p : p = Append(q, m) OBVIOUS
<1>2. Len(q) \in Nat /\ Len(p) = Len(q) + 1 /\ p[Len(q) + 1] = m /\ \A i \in 1..Len(q) : p[i] = q[i]
  BY <1>1, AppendProperties
<1>3. \A i \in 1..Len(p) : p[i].num \in (StartSeq + 1)..S /\ (p[i].kind = "reliable" <=> p[i].num \in R)
  <2> TAKE i \in 1..Len(p)
  <2>1. CASE i \in 1..Len(q) BY <1>2, <2>1 DEF OnWire
  <2>2. CASE i = Len(q) + 1 BY <1>2, <2>2
  <2> QED BY <1>2, <2>1, <2>2
<1> QED BY <1>1, <1>3 DEF OnWire

\* The rest of a wire after its first message.
LEMMA OnWireTail == ASSUME NEW q \in Seq(WireMsg), q # <<>>, NEW S, NEW R, OnWire(q, S, R) PROVE OnWire(Tail(q), S, R)
<1>1. Len(q) \in Nat /\ Len(q) > 0 /\ Len(Tail(q)) = Len(q) - 1 /\ \A i \in 1..(Len(q) - 1) : Tail(q)[i] = q[i + 1]
  BY HeadTailProperties
<1>2. \A i \in 1..(Len(q) - 1) : i + 1 \in 1..Len(q) BY <1>1
<1>3. PICK r : r = Tail(q) OBVIOUS
<1>4. \A i \in 1..Len(r) : r[i] = q[i + 1] /\ i + 1 \in 1..Len(q) BY <1>1, <1>2, <1>3
<1>5. \A i \in 1..Len(r) : r[i].num \in (StartSeq + 1)..S /\ (r[i].kind = "reliable" <=> r[i].num \in R) BY <1>4 DEF OnWire
<1> QED BY <1>3, <1>5 DEF OnWire

\* Two wires.
LEMMA OnWireConcat == ASSUME NEW q \in Seq(WireMsg), NEW r \in Seq(WireMsg), NEW S, NEW R, OnWire(q, S, R), OnWire(r, S, R)
                      PROVE  OnWire(q \o r, S, R)
<1>1. PICK p : p = q \o r OBVIOUS
<1>2. /\ Len(q) \in Nat /\ Len(r) \in Nat /\ Len(p) = Len(q) + Len(r)
      /\ \A i \in 1..(Len(q) + Len(r)) : p[i] = IF i <= Len(q) THEN q[i] ELSE r[i - Len(q)]
  BY <1>1, ConcatProperties
<1>3. \A i \in 1..Len(p) : p[i].num \in (StartSeq + 1)..S /\ (p[i].kind = "reliable" <=> p[i].num \in R)
  <2> TAKE i \in 1..Len(p)
  <2>1. CASE i <= Len(q)
    <3>1. i \in 1..Len(q) /\ p[i] = q[i] BY <1>2, <2>1
    <3> QED BY <3>1 DEF OnWire
  <2>2. CASE ~(i <= Len(q))
    <3>1. i - Len(q) \in 1..Len(r) /\ p[i] = r[i - Len(q)] BY <1>2, <2>2
    <3> QED BY <3>1 DEF OnWire
  <2> QED BY <2>1, <2>2
<1> QED BY <1>1, <1>3 DEF OnWire

\* A step that sends nothing.
LEMMA CarriedKept ==
    ASSUME Types, Carried, UNCHANGED <<sent, reliable>>,
           \A c \in Conns : \/ wire'[c] = wire[c] \/ wire'[c] = <<>>
                            \/ wire[c] # <<>> /\ wire'[c] = Tail(wire[c]),
           \A c \in Conns : worker'[c].replay = worker[c].replay \/ worker'[c].replay = <<>>
    PROVE  Carried'
<1> SUFFICES ASSUME NEW c \in Conns PROVE OnWire(wire'[c], sent, reliable) /\ InReplay(worker'[c].replay, reliable)
  BY DEF Carried
<1>1. OnWire(wire[c], sent, reliable) /\ InReplay(worker[c].replay, reliable) BY DEF Carried
<1>2. PICK q \in Seq(WireMsg) : q = wire[c] BY TypesEasy
<1>3. q # <<>> => OnWire(Tail(q), sent, reliable) BY <1>1, <1>2, OnWireTail
<1> QED BY <1>1, <1>2, <1>3, NothingCarried

\* A step that sends.
LEMMA SendsCarried ==
    ASSUME Types, Carried, InBox, NEW s, NEW c \in Conns, NEW kind \in {"reliable", "control"}, Sends(s, c, kind),
           \A d \in Conns : worker'[d].replay = worker[d].replay
    PROVE  Carried'
<1>1. sent \in Nat /\ StartSeq \in Nat BY TypesEasy, StreamConfig DEF StreamConfig
<1>2. sent' = sent + 1 /\ reliable' = IF kind = "reliable" THEN reliable \cup {sent + 1} ELSE reliable BY DEF Sends
<1>3. Sent(sent, reliable, client.got) BY DEF InBox, Boxed
<1>4. sent + 1 \notin reliable /\ sent + 1 \in (StartSeq + 1)..(sent + 1) BY <1>1, <1>3, SentType DEF Sent
<1>5. PICK m \in WireMsg : m = [num |-> sent + 1, kind |-> kind]
  <2>1. sent + 1 \in Nat /\ kind \in {"reliable", "control", "resumed"} BY <1>1
  <2>2. [num |-> sent + 1, kind |-> kind] \in WireMsg BY ONLY <2>1 DEF WireMsg
  <2> QED BY <2>2
<1>6. m.num = sent + 1 /\ m.kind = kind BY <1>5
<1>7. m.kind = "reliable" <=> m.num \in reliable' BY <1>2, <1>4, <1>6
<1>8. ASSUME NEW d \in Conns PROVE OnWire(wire[d], sent', reliable') /\ InReplay(worker[d].replay, reliable')
  <2>1. OnWire(wire[d], sent, reliable) /\ InReplay(worker[d].replay, reliable) BY DEF Carried
  <2>2. OnWire(wire[d], sent', reliable') BY <1>1, <1>2, <2>1, OnWireMore
  <2> QED BY <1>2, <2>1, <2>2 DEF InReplay
<1>9. \A d \in Conns : wire'[d] = wire[d] \/ (d = c /\ wire'[d] = Append(wire[d], m)) BY <1>5 DEF Sends
<1>10. ASSUME NEW d \in Conns PROVE OnWire(wire'[d], sent', reliable')
  <2>1. PICK q \in Seq(WireMsg) : q = wire[d] BY TypesEasy
  <2>2. OnWire(q, sent', reliable') BY <1>8, <2>1
  <2>3. m.num \in (StartSeq + 1)..sent' BY <1>2, <1>4, <1>6
  <2>4. OnWire(Append(q, m), sent', reliable') BY <1>7, <2>2, <2>3, OnWireAppend
  <2> QED BY <1>9, <2>1, <2>2, <2>4
<1> QED BY <1>8, <1>10 DEF Carried

\* What it leaves in the outbox.
LEMMA SendsBoxed ==
    ASSUME Types, NEW s \in StreamRec, Boxed(s, sent, reliable, client.got), NEW c, NEW kind \in {"reliable", "control"},
           Sends(s, c, kind)
    PROVE  Boxed(stream', sent', reliable', client.got)
<1>1. sent \in Nat /\ now \in Nat BY TypesEasy
<1>2. sent < StartSeq + MaxSends /\ sent' = sent + 1 /\ stream' = Encode(s, sent + 1, kind) BY DEF Sends
<1>3. CASE kind = "control"
  <2>1. reliable' = reliable /\ kind # "reliable" BY <1>3 DEF Sends
  <2>2. PICK t : t = Encode(s, sent + 1, kind) OBVIOUS
  <2>3. t.serverSeq = (s.serverSeq + 1) % SeqMod /\ t.outbox = s.outbox /\ t.dropped = s.dropped BY <2>1, <2>2, EncodeControlFx
  <2>4. Boxed(t, sent + 1, reliable, client.got) BY <1>2, <2>3, ControlBoxed
  <2> QED BY <1>2, <2>1, <2>2, <2>4
<1>4. CASE kind = "reliable"
  <2>1. reliable' = reliable \cup {sent + 1} BY <1>4 DEF Sends
  <2>2. PICK t : t = Encode(s, sent + 1, "reliable") OBVIOUS
  <2>3. sent + 1 \in Nat BY <1>1
  <2>4. PICK m : m = [seq |-> (s.serverSeq + 1) % SeqMod, num |-> sent + 1, at |-> now] OBVIOUS
  <2>5. t.serverSeq = (s.serverSeq + 1) % SeqMod /\ t \in StreamRec BY <1>1, <2>2, <2>3, EncodeFx
  <2>6. PICK k \in Nat : Gains(s, t, k, m) BY <1>1, <2>2, <2>3, <2>4, EncodeFx
  <2>7. m \in OutboxMsg
    <3>1. (s.serverSeq + 1) % SeqMod \in 0..(SeqMod - 1) BY <2>5 DEF StreamRec, Seqs
    <3> QED BY <1>1, <2>3, <2>4, <3>1 DEF OutboxMsg
  <2>8. m.seq = (s.serverSeq + 1) % SeqMod /\ m.num = sent + 1 BY <2>4
  <2>9. Boxed(t, sent + 1, reliable \cup {sent + 1}, client.got) BY <1>2, <2>5, <2>6, <2>7, <2>8, GainsBoxed
  <2> QED BY <1>2, <1>4, <2>1, <2>2, <2>9
<1> QED BY <1>3, <1>4

Stocked == Carried /\ InBox

\* A step that sends nothing and leaves the outbox alone.
LEMMA StockedKept ==
    ASSUME Types, Stocked, UNCHANGED <<sent, reliable>>, client'.got = client.got, SameBox(stream, stream'),
           \A c \in Conns : wire'[c] = wire[c] \/ wire'[c] = <<>>,
           \A c \in Conns : worker'[c].replay = worker[c].replay \/ worker'[c].replay = <<>>
    PROVE  Stocked'
<1>1. Carried' BY CarriedKept DEF Stocked
<1>2. Boxed(stream', sent, reliable, client.got) BY SameBoxed DEF Stocked, InBox
<1> QED BY <1>1, <1>2 DEF Stocked, InBox

\* A connection closes.
LEMMA CloseStocked == ASSUME Types, Stocked, NEW c \in Conns, Close(c), UNCHANGED <<stream, sent, reliable, client>>
                      PROVE  Stocked'
<1>1. /\ wire'[c] = <<>> /\ worker'[c] = Fresh("closed")
      /\ \A d \in Conns \ {c} : wire'[d] = wire[d] /\ worker'[d] = worker[d]
  BY CloseFx
<1>2. Fresh("closed").replay = <<>> BY FreshType DEF Pcs
<1>3. SameBox(stream, stream') BY DEF SameBox
<1>4. \A d \in Conns : wire'[d] = wire[d] \/ wire'[d] = <<>> BY <1>1
<1>5. \A d \in Conns : worker'[d].replay = worker[d].replay \/ worker'[d].replay = <<>> BY <1>1, <1>2
<1> QED BY <1>3, <1>4, <1>5, StockedKept

\* PushMail and the messages of the stream.
LEMMA PushMailStocked == ASSUME Types, Stocked, PushMail PROVE Stocked'
<1>1. Sends(stream, stream.sid, "reliable") /\ stream.sid \in Conns /\ stream \in StreamRec BY PushMailTypes, TypesEasy
<1>2. UNCHANGED <<worker, client>> BY DEF PushMail
<1>3. Carried' BY <1>1, <1>2, SendsCarried DEF Stocked
<1>4. Boxed(stream', sent', reliable', client.got) BY <1>1, SendsBoxed DEF Stocked, InBox
<1> QED BY <1>2, <1>3, <1>4 DEF Stocked, InBox

\* Respond and the messages of the stream.
LEMMA RespondStocked == ASSUME Types, Stocked, NEW c \in Conns, Respond(c) PROVE Stocked'
<1>1. /\ \A d \in Conns : worker'[d].replay = worker[d].replay
      /\ Sends(stream, c, "reliable") \/ UNCHANGED <<stream, sent, reliable, refused, wire>>
  BY RespondTypes
<1>2. client' = client BY DEF Respond
<1>3. CASE Sends(stream, c, "reliable")
  <2>1. Carried' BY <1>1, <1>3, SendsCarried DEF Stocked
  <2>2. Boxed(stream', sent', reliable', client.got) BY <1>3, TypesEasy, SendsBoxed DEF Stocked, InBox
  <2> QED BY <1>2, <2>1, <2>2 DEF Stocked, InBox
<1>4. CASE UNCHANGED <<stream, sent, reliable, refused, wire>>
  <2>1. SameBox(stream, stream') BY <1>4 DEF SameBox
  <2> QED BY <1>1, <1>2, <1>4, <2>1, StockedKept
<1> QED BY <1>1, <1>3, <1>4

\* An acknowledgement of the client is a number that it has received.
LEMMA AcksReceived == ASSUME Types, NEW ack \in Acks PROVE ack \in StartSeq..client.got
BY TypesEasy DEF Acks

\* Acknowledge and the messages of the stream.
LEMMA AcknowledgeStocked ==
    ASSUME MaxSends < SeqMod \div 2, Types, Stocked, NEW c \in Conns, NEW num \in ClientNums, NEW ack \in Acks, NEW ping,
           Acknowledge(c, num, ack, ping)
    PROVE  Stocked'
<1>1. PICK s \in StreamRec :
          /\ s = AcceptSequence(stream, num % SeqMod, ack % SeqMod)
          /\ Sends(s, c, "control") \/ (stream' = s /\ UNCHANGED <<sent, reliable, refused, wire>>)
  BY AcknowledgeTypes
<1>2. client'.got = client.got /\ worker' = worker BY AcknowledgeTypes DEF Acknowledge
<1>3. Boxed(s, sent, reliable, client.got) BY <1>1, NumType, AcksReceived, TypesEasy, AcceptBoxed DEF Stocked, InBox
<1>4. CASE Sends(s, c, "control")
  <2>1. Carried' BY <1>2, <1>4, SendsCarried DEF Stocked
  <2>2. Boxed(stream', sent', reliable', client.got) BY <1>3, <1>4, SendsBoxed
  <2> QED BY <1>2, <2>1, <2>2 DEF Stocked, InBox
<1>5. CASE stream' = s /\ UNCHANGED <<sent, reliable, refused, wire>>
  <2>1. Carried' BY <1>2, <1>5, CarriedKept DEF Stocked
  <2> QED BY <1>2, <1>3, <1>5, <2>1 DEF Stocked, InBox
<1> QED BY <1>1, <1>4, <1>5

\* Request and the messages of the stream.
LEMMA RequestStocked ==
    ASSUME MaxSends < SeqMod \div 2, Types, Stocked, NEW c \in Conns, NEW num \in ClientNums, NEW ack \in Acks,
           Request(c, num, ack)
    PROVE  Stocked'
<1>1. PICK a \in StreamRec, s \in StreamRec, times \in Seq(Nat) :
          /\ a = AcceptSequence(stream, num % SeqMod, ack % SeqMod)
          /\ s = [a EXCEPT !.requestTimes = s.requestTimes]
          /\ Passed(c, num, s, times) \/ RateLimited(c, s, times)
  BY RequestTypes
<1>2. client'.got = client.got BY RequestTypes
<1>3. Boxed(a, sent, reliable, client.got) BY <1>1, NumType, AcksReceived, TypesEasy, AcceptBoxed DEF Stocked, InBox
<1>4. SameBox(a, s)
  <2>1. PICK q : q = s.requestTimes OBVIOUS
  <2>2. s = [a EXCEPT !.requestTimes = q] BY <1>1, <2>1
  <2> QED BY ONLY <2>2, a \in StreamRec DEF StreamRec, SameBox
<1>5. Boxed(s, sent, reliable, client.got) BY <1>3, <1>4, SameBoxed
<1>6. CASE Passed(c, num, s, times)
  <2>1. stream' = s /\ UNCHANGED <<sent, reliable, wire>> /\ \A d \in Conns : worker'[d].replay = worker[d].replay
    BY <1>6 DEF Passed
  <2>2. Carried' BY <2>1, CarriedKept DEF Stocked
  <2> QED BY <1>2, <1>5, <2>1, <2>2 DEF Stocked, InBox
<1>7. CASE RateLimited(c, s, times)
  <2>1. Sends(s, c, "reliable") /\ worker' = worker BY <1>7 DEF RateLimited
  <2>2. Carried' BY <2>1, SendsCarried DEF Stocked
  <2>3. Boxed(stream', sent', reliable', client.got) BY <1>5, <2>1, SendsBoxed
  <2> QED BY <1>2, <2>2, <2>3 DEF Stocked, InBox
<1> QED BY <1>1, <1>6, <1>7

\* What a reconnect replays is the outbox, all of it later than what the client has received.
LEMMA CompletesBoxed ==
    ASSUME MaxSends < SeqMod \div 2, Types, Wired, InBox, NEW c \in Conns, NEW w \in WorkerRec,
           NEW p \in StreamRec, NEW a \in StreamRec,
           w = worker[c], w.pc = "authorized", p = PruneOutbox(stream), a = AcknowledgeOutbox(p, w.ack % SeqMod),
           Completes(c, w, p, a)
    PROVE  /\ w.ack = client.got /\ Boxed(a, sent, reliable, client.got) /\ worker'[c].replay = a.outbox
           /\ \A i \in 1..Len(a.outbox) : a.outbox[i].num > client.got
<1>1. c \in open /\ worker'[c].replay = ReplayOf(a.outbox, w.ack) BY DEF Completes
<1>2. w.ack = client.got BY <1>1 DEF Wired, Asked
<1>3. Boxed(p, sent, reliable, client.got) BY TypesEasy, PruneBoxed DEF InBox
<1>4. Sent(sent, reliable, client.got) BY DEF InBox, Boxed
<1>5. /\ client.got \in StartSeq..client.got /\ client.got \in Nat /\ StartSeq \in Nat /\ client.got \in StartSeq..(StartSeq + MaxSends)
      /\ \A n \in reliable : n \in StartSeq..(StartSeq + MaxSends)
  BY <1>4, SentType DEF Sent
<1>6. a = AcknowledgeOutbox(p, client.got % SeqMod) BY <1>2
<1>7. Boxed(a, sent, reliable, client.got) /\ \A i \in 1..Len(a.outbox) : a.outbox[i].num > client.got
  BY <1>3, <1>5, <1>6, AckBoxed
<1>8. PICK q \in Seq(OutboxMsg) : q = a.outbox BY DEF StreamRec
<1>9. \A i \in 1..Len(q) : SeqAfter(q[i].seq, w.ack % SeqMod)
  <2> SUFFICES ASSUME NEW i \in 1..Len(q) PROVE SeqAfter(q[i].seq, w.ack % SeqMod) BY SMTT(30)
  <2>1. q[i].num \in reliable /\ q[i].seq = q[i].num % SeqMod BY <1>7, <1>8 DEF Boxed, Filed
  <2>2. PICK n \in StartSeq..(StartSeq + MaxSends) : n = q[i].num BY <1>5, <2>1
  <2>3. n > client.got BY <1>7, <1>8, <2>2
  <2>4. SeqAfter(n % SeqMod, client.got % SeqMod) BY <1>5, <2>3, SeqAfterIsAfter
  <2> QED BY <1>2, <2>1, <2>2, <2>4
<1>10. ReplayOf(q, w.ack) = q BY <1>9, ReplayAll
<1> QED BY <1>1, <1>2, <1>7, <1>8, <1>10

\* CompleteReconnect and the messages of the stream.
LEMMA CompleteReconnectStocked ==
    ASSUME MaxSends < SeqMod \div 2, Types, Wired, Stocked, NEW c \in Conns, CompleteReconnect(c) PROVE Stocked'
<1>1. PICK w \in WorkerRec, p \in StreamRec, a \in StreamRec :
          /\ w = worker[c] /\ w.pc = "authorized" /\ p = PruneOutbox(stream) /\ a = AcknowledgeOutbox(p, w.ack % SeqMod)
          /\ Completes(c, w, p, a) \/ GivesUp(c, p)
  BY CompleteReconnectTypes
<1>2. UNCHANGED <<client, sent, reliable>> BY DEF CompleteReconnect
<1>3. CASE GivesUp(c, p)
  <2>1. Close(c) /\ (stream' = stream \/ stream' = p) BY <1>3 DEF GivesUp
  <2>2. Boxed(p, sent, reliable, client.got) BY <1>1, TypesEasy, PruneBoxed DEF Stocked, InBox
  <2>3. InBox' BY <1>2, <2>1, <2>2 DEF Stocked, InBox
  <2>4. /\ wire'[c] = <<>> /\ worker'[c] = Fresh("closed")
        /\ \A d \in Conns \ {c} : wire'[d] = wire[d] /\ worker'[d] = worker[d]
    BY <2>1, CloseFx
  <2>5. Fresh("closed").replay = <<>> BY FreshType DEF Pcs
  <2>6. \A d \in Conns : wire'[d] = wire[d] \/ wire'[d] = <<>> BY <2>4
  <2>7. \A d \in Conns : worker'[d].replay = worker[d].replay \/ worker'[d].replay = <<>> BY <2>4, <2>5
  <2>8. Carried' BY <1>2, <2>6, <2>7, CarriedKept DEF Stocked
  <2> QED BY <2>3, <2>8 DEF Stocked
<1>4. CASE Completes(c, w, p, a)
  <2>1. Boxed(a, sent, reliable, client.got) /\ worker'[c].replay = a.outbox BY <1>1, <1>4, CompletesBoxed DEF Stocked
  <2>2. SameBox(a, stream') /\ wire' = wire /\ \A d \in Conns \ {c} : worker'[d] = worker[d] BY <1>4 DEF Completes
  <2>3. Boxed(stream', sent, reliable, client.got) BY <2>1, <2>2, SameBoxed
  <2>4. InReplay(a.outbox, reliable) BY <2>1 DEF Boxed, Filed, InReplay
  <2>5. Carried' BY <1>2, <2>1, <2>2, <2>4 DEF Stocked, Carried
  <2> QED BY <1>2, <2>3, <2>5 DEF Stocked, InBox
<1> QED BY <1>1, <1>3, <1>4

\* AuthorizeReconnect and the messages of the stream.
LEMMA AuthorizeReconnectStocked ==
    ASSUME Types, Stocked, NEW c \in Conns, NEW num \in ClientNums, AuthorizeReconnect(c, num) PROVE Stocked'
<1>1. client'.got = client.got /\ \A d \in Conns \ {c} : worker'[d] = worker[d] BY AuthorizeReconnectTypes
<1>2. PICK p \in StreamRec, times \in Seq(Nat) :
          /\ p = PruneOutbox(stream) /\ (SameBox(p, stream') \/ SameBox(stream, stream'))
          /\ Authorizes(c, num, p, times) \/ Refuses(c, p, times)
  BY AuthorizeReconnectTypes
<1>3. UNCHANGED <<sent, reliable, wire>> BY DEF AuthorizeReconnect
<1>4. Boxed(p, sent, reliable, client.got) BY <1>2, TypesEasy, PruneBoxed DEF Stocked, InBox
<1>5. Boxed(stream', sent, reliable, client.got) BY <1>2, <1>4, SameBoxed DEF Stocked, InBox
<1>6. Fresh("closed").replay = <<>> BY FreshType DEF Pcs
<1>7. worker'[c].replay = <<>> BY <1>2, <1>6 DEF Authorizes, Refuses
<1>8. Carried' BY <1>1, <1>3, <1>7, CarriedKept DEF Stocked
<1> QED BY <1>1, <1>3, <1>5, <1>8 DEF Stocked, InBox

\* Disconnected and the messages of the stream.
LEMMA DisconnectedStocked == ASSUME Types, Stocked, NEW c \in Conns, Disconnected(c) PROVE Stocked'
<1>1. worker'[c] = Fresh("closed") /\ (\A d \in Conns \ {c} : worker'[d] = worker[d]) /\ SameBox(stream, stream')
  BY DisconnectedTypes
<1>2. UNCHANGED <<wire, client, sent, reliable>> BY DEF Disconnected
<1>3. Fresh("closed").replay = <<>> BY FreshType DEF Pcs
<1>4. \A d \in Conns : worker'[d].replay = worker[d].replay \/ worker'[d].replay = <<>> BY <1>1, <1>3
<1> QED BY <1>1, <1>2, <1>4, StockedKept

\* KickLocal and the messages of the stream.
LEMMA KickLocalStocked == ASSUME Types, Stocked, NEW c \in Conns, KickLocal(c) PROVE Stocked'
<1>1. /\ SameBox(stream, stream')
      /\ \/ Close(c)
         \/ worker'[c] = Fresh("idle") /\ (\A d \in Conns \ {c} : worker'[d] = worker[d]) /\ UNCHANGED wire
  BY KickLocalTypes
<1>2. UNCHANGED <<client, sent, reliable>> BY DEF KickLocal
<1>3. \A p \in {"closed", "idle"} : Fresh(p).replay = <<>> BY FreshType DEF Pcs
<1>4. /\ \A d \in Conns : wire'[d] = wire[d] \/ wire'[d] = <<>>
      /\ \A d \in Conns : worker'[d].replay = worker[d].replay \/ worker'[d].replay = <<>>
  BY <1>1, <1>3, CloseFx
<1> QED BY <1>1, <1>2, <1>4, StockedKept

\* Break and the messages of the stream.
LEMMA BreakStocked == ASSUME Types, Stocked, NEW c \in Conns, Break(c) PROVE Stocked'
<1>1. wire'[c] = <<>> /\ \A d \in Conns \ {c} : wire'[d] = wire[d] BY BreakTypes
<1>2. UNCHANGED <<stream, sent, reliable, client, worker>> BY DEF Break, server
<1>3. SameBox(stream, stream') BY <1>2 DEF SameBox
<1> QED BY <1>1, <1>2, <1>3, StockedKept

\* Deliver and the messages of the stream.
LEMMA DeliverStocked == ASSUME Types, Stocked, NEW c \in Conns, Deliver(c) PROVE Stocked'
<1>1. PICK m \in WireMsg :
          /\ wire[c] # <<>> /\ m = wire[c][1] /\ wire'[c] = Tail(wire[c])
          /\ client'.got = (IF m.num > client.got THEN m.num ELSE client.got)
  BY DeliverTypes, SMTT(30)
<1>2. (\A d \in Conns \ {c} : wire'[d] = wire[d]) /\ UNCHANGED <<stream, worker, sent, reliable>>
  BY DeliverTypes DEF Deliver, server
<1>3. Carried' BY <1>1, <1>2, CarriedKept DEF Stocked
<1>4. PICK q \in Seq(WireMsg) : q = wire[c] BY TypesEasy
<1>5. 1 \in 1..Len(q)
  <2>1. q # <<>> BY <1>1, <1>4
  <2> QED BY <2>1, EmptySeq
<1>6. m.num \in (StartSeq + 1)..sent BY <1>1, <1>4, <1>5 DEF Stocked, Carried, OnWire
<1>7. Sent(sent, reliable, client.got) BY DEF Stocked, InBox, Boxed
<1>8. sent \in Nat /\ client.got \in Nat /\ StartSeq \in Nat /\ client.got \in StartSeq..sent BY <1>7, SentType DEF Sent
<1>9. client'.got \in client.got..sent BY <1>1, <1>6, <1>8
<1>10. Boxed(stream, sent, reliable, client'.got) BY <1>9, GotBoxed DEF Stocked, InBox
<1> QED BY <1>2, <1>3, <1>10 DEF Stocked, InBox

\* The replay, then ReconnectRsp.
LEMMA ReplayStocked == ASSUME Types, Stocked, NEW c \in Conns, Replay(c) PROVE Stocked'
<1>1. UNCHANGED <<client, reliable>> /\ sent < StartSeq + MaxSends BY DEF Replay
<1>2. PICK w \in WorkerRec : w = worker[c] BY TypesEasy
<1>3. PICK q \in Seq(WireMsg) : q = wire[c] BY TypesEasy
<1>4. PICK r \in Seq(WireMsg) : r = Copies(w) BY CopiesType
<1>5. Sent(sent, reliable, client.got) BY DEF Stocked, InBox, Boxed
<1>6. sent \in Nat /\ StartSeq \in Nat /\ sent >= StartSeq /\ reliable \subseteq (StartSeq + 1)..sent BY <1>5, SentType DEF Sent
<1>7. OnWire(q, sent, reliable) BY <1>3 DEF Stocked, Carried
<1>8. OnWire(r, sent, reliable)
  <2>1. InReplay(w.replay, reliable) BY <1>2 DEF Stocked, Carried
  <2>2. Len(r) = Len(w.replay) /\ \A i \in 1..Len(w.replay) : r[i] = [num |-> w.replay[i].num, kind |-> "reliable"]
    BY <1>4, CopiesType
  <2>3. \A i \in 1..Len(r) : r[i].num \in reliable /\ r[i].kind = "reliable"
    <3> TAKE i \in 1..Len(r)
    <3>1. i \in 1..Len(w.replay) BY <2>2
    <3>2. w.replay[i].num \in reliable BY <2>1, <3>1 DEF InReplay
    <3>3. r[i] = [num |-> w.replay[i].num, kind |-> "reliable"] BY <2>2, <3>1
    <3> QED BY ONLY <3>2, <3>3
  <2> QED BY <1>6, <2>3 DEF OnWire
<1>9. OnWire(q \o r, sent, reliable) /\ q \o r \in Seq(WireMsg)
  <2>1. q \o r \in Seq(WireMsg) BY ConcatProperties
  <2> QED BY <1>7, <1>8, <2>1, OnWireConcat
<1>10. PICK x \in Seq(WireMsg) : x = q \o r BY <1>9
<1>11. Fresh("idle").replay = <<>> BY FreshType DEF Pcs
<1>12. CASE ~Bound(c) /\ UNCHANGED <<stream, sent>> /\ Replays(c, <<>>)
  <2>1. wire'[c] = x \o <<>> BY <1>2, <1>3, <1>4, <1>10, <1>12 DEF Replays
  <2>2. wire'[c] = x BY <2>1, ConcatEmptySeq
  <2>3. \A d \in Conns \ {c} : wire'[d] = wire[d] /\ worker'[d] = worker[d] BY <1>12 DEF Replays
  <2>4. worker'[c].replay = <<>> BY <1>11, <1>12 DEF Replays
  <2>5. Carried' BY <1>1, <1>9, <1>10, <1>12, <2>2, <2>3, <2>4, NothingCarried DEF Stocked, Carried
  <2> QED BY <1>1, <1>12, <2>5 DEF Stocked, InBox
<1>13. CASE /\ Bound(c) /\ stream' = Encode(stream, sent + 1, "control") /\ sent' = sent + 1
            /\ Replays(c, <<[num |-> sent + 1, kind |-> "resumed"]>>)
  <2>1. PICK m \in WireMsg : m = [num |-> sent + 1, kind |-> "resumed"]
    <3>1. [num |-> sent + 1, kind |-> "resumed"] \in WireMsg BY <1>6 DEF WireMsg
    <3> QED BY <3>1
  <2>2. m.num = sent + 1 /\ m.kind = "resumed" BY <2>1
  <2>3. wire'[c] = x \o <<m>> BY <1>2, <1>3, <1>4, <1>10, <1>13, <2>1 DEF Replays
  <2>4. x \o <<m>> = Append(x, m) BY AppendIsConcat
  <2>5. OnWire(x, sent + 1, reliable) BY <1>6, <1>9, <1>10, OnWireMore
  <2>6. m.num \in (StartSeq + 1)..(sent + 1) /\ m.num \notin reliable
    <3>1. sent + 1 \in (StartSeq + 1)..(sent + 1) /\ sent + 1 \notin (StartSeq + 1)..sent BY ONLY <1>6
    <3> QED BY ONLY <1>6, <2>2, <3>1
  <2>7. OnWire(Append(x, m), sent + 1, reliable) BY <2>2, <2>5, <2>6, OnWireAppend
  <2>8. \A d \in Conns \ {c} : wire'[d] = wire[d] /\ worker'[d] = worker[d] BY <1>13 DEF Replays
  <2>9. worker'[c].replay = <<>> BY <1>11, <1>13 DEF Replays
  <2>10. \A d \in Conns : OnWire(wire[d], sent + 1, reliable) BY <1>6, OnWireMore DEF Stocked, Carried
  <2>11. Carried' BY <1>1, <1>13, <2>3, <2>4, <2>7, <2>8, <2>9, <2>10, NothingCarried DEF Stocked, Carried
  <2>12. PICK t : t = Encode(stream, sent + 1, "control") OBVIOUS
  <2>13. t.serverSeq = (stream.serverSeq + 1) % SeqMod /\ t.outbox = stream.outbox /\ t.dropped = stream.dropped
    BY <2>12, TypesEasy, EncodeControlFx
  <2>14. Boxed(t, sent + 1, reliable, client.got) BY <1>1, <2>13, ControlBoxed DEF Stocked, InBox
  <2> QED BY <1>1, <1>13, <2>11, <2>12, <2>14 DEF Stocked, InBox
<1> QED BY <1>12, <1>13, ReplayTypes

\* At the start.
LEMMA InitStocked == ASSUME Init PROVE Stocked
<1>1. StartSeq \in Nat /\ MaxSends \in Nat BY StreamConfig DEF StreamConfig
<1>2. /\ stream.serverSeq = StartSeq % SeqMod /\ stream.outbox = <<>> /\ stream.dropped = NoSeq
      /\ sent = StartSeq /\ reliable = {} /\ client.got = StartSeq
      /\ wire = [c \in Conns |-> <<>>] /\ worker = [c \in Conns |-> Fresh(IF c = 0 THEN "idle" ELSE "none")]
  BY DEF Init
<1>3. \A c \in Conns : worker[c].replay = <<>>
  <2> TAKE c \in Conns
  <2>1. worker[c] = Fresh(IF c = 0 THEN "idle" ELSE "none") BY <1>2
  <2> QED BY <2>1 DEF Fresh
<1>4. \A c \in Conns : wire[c] = <<>> BY <1>2
<1>5. Carried BY <1>3, <1>4, NothingCarried DEF Carried
<1>6. Len(<<>>) = 0 /\ 1..0 = {} OBVIOUS
<1>7. Sent(sent, reliable, client.got) BY <1>1, <1>2 DEF Sent
<1>8. Filed(stream.outbox, reliable) BY <1>2, <1>6 DEF Filed
<1>9. Dropped(stream, StartSeq, reliable, client.got) BY <1>2, <1>6 DEF Dropped
<1>10. StartSeq \in StartSeq..sent BY <1>1, <1>2
<1>11. InBox BY <1>2, <1>7, <1>8, <1>9, <1>10 DEF InBox, Boxed
<1> QED BY <1>5, <1>11 DEF Stocked

\* Every step.
LEMMA NextStocked == ASSUME MaxSends < SeqMod \div 2, Types, Wired, Stocked, [Next]_vars PROVE Stocked'
<1>1. CASE Tick \/ PruneExpired \/ UNCHANGED vars
  <2>1. UNCHANGED <<stream, sent, reliable, client, wire, worker>> BY <1>1 DEF Tick, PruneExpired, server, vars
  <2> QED BY <2>1 DEF Stocked, Carried, InBox
<1>3. CASE PushMail BY <1>3, PushMailStocked
<1>4. ASSUME NEW c \in Conns, Break(c) PROVE Stocked' BY <1>4, BreakStocked
<1>5. ASSUME NEW c \in Conns, Disconnected(c) PROVE Stocked' BY <1>5, DisconnectedStocked
<1>6. ASSUME NEW c \in Conns, Deliver(c) PROVE Stocked' BY <1>6, DeliverStocked
<1>7. ASSUME NEW c \in Conns, Respond(c) PROVE Stocked' BY <1>7, RespondStocked
<1>8. ASSUME NEW c \in Conns, CompleteReconnect(c) PROVE Stocked' BY <1>8, CompleteReconnectStocked
<1>9. ASSUME NEW c \in Conns, ReconnectFails(c) \/ \E num \in ClientNums : RejectFrame(c, num) PROVE Stocked'
  BY <1>9, CloseStocked DEF ReconnectFails, RejectFrame, server
<1>10. ASSUME NEW c \in Conns, Replay(c) PROVE Stocked' BY <1>10, ReplayStocked
<1>11. ASSUME NEW c \in Conns, KickLocal(c) PROVE Stocked' BY <1>11, KickLocalStocked
<1>12. ASSUME NEW c \in Conns, NEW num \in ClientNums, AuthorizeReconnect(c, num) PROVE Stocked'
  BY <1>12, AuthorizeReconnectStocked
<1>13. ASSUME NEW c \in Conns, NEW num \in ClientNums, NEW ack \in Acks, Request(c, num, ack) PROVE Stocked'
  BY <1>13, RequestStocked
<1>14. ASSUME NEW c \in Conns, NEW num \in ClientNums, NEW ack \in Acks, NEW ping \in BOOLEAN, Acknowledge(c, num, ack, ping)
       PROVE  Stocked'
  BY <1>14, AcknowledgeStocked
<1> QED BY <1>1, <1>3, <1>4, <1>5, <1>6, <1>7, <1>8, <1>9, <1>10, <1>11, <1>12, <1>13, <1>14 DEF Next

\* Without a gap nothing is dropped beyond what the client has received.
LEMMA NoGap == ASSUME MaxSends < SeqMod \div 2, NEW s, NEW S, NEW R, NEW G, Boxed(s, S, R, G), ~OutboxGap(s, G % SeqMod),
                      NEW n \in R, n > G
               PROVE  Keeps(s.outbox, n)
<1>1. Sent(S, R, G) BY DEF Boxed
<1>2. PICK d \in StartSeq..S : Dropped(s, d, R, G) BY DEF Boxed
<1>3. S \in Nat /\ G \in Nat /\ StartSeq \in Nat /\ MaxSends \in Nat /\ n \in Nat BY <1>1, SentType
<1>4. S \in StartSeq..(StartSeq + MaxSends) /\ G \in StartSeq..S BY <1>1 DEF Sent
<1>5. d \in StartSeq..(StartSeq + MaxSends) /\ G \in StartSeq..(StartSeq + MaxSends) /\ d \in Nat BY <1>3, <1>4
<1>6. ASSUME d > G PROVE FALSE
  <2>1. s.dropped = d % SeqMod
    <3>1. d # StartSeq BY <1>3, <1>4, <1>6
    <3> QED BY <1>2, <3>1 DEF Dropped
  <2>2. s.dropped # NoSeq
    <3>1. SeqMod \in Nat /\ SeqMod > 0 /\ d \in Int BY <1>5, StreamConfig DEF StreamConfig
    <3>2. d % SeqMod \in 0..(SeqMod - 1) BY ONLY <3>1, ModRange
    <3>3. -1 \notin 0..(SeqMod - 1) BY <3>1
    <3> QED BY <2>1, <3>2, <3>3 DEF NoSeq
  <2>3. SeqAfter(d % SeqMod, G % SeqMod) /\ ~SeqAfter(G % SeqMod, d % SeqMod)
    <3>1. ~(G > d) BY <1>3, <1>5, <1>6
    <3> QED BY <1>5, <1>6, <3>1, SeqAfterIsAfter
  <2>4. d % SeqMod # G % SeqMod BY <2>3
  <2>5. ~SeqAtOrAfter(G % SeqMod, d % SeqMod) BY <2>3, <2>4 DEF SeqAtOrAfter
  <2>6. OutboxGap(s, G % SeqMod) BY <2>1, <2>2, <2>5 DEF OutboxGap
  <2> QED BY <2>6
<1>7. n > d BY <1>3, <1>5, <1>6
<1> QED BY <1>2, <1>7 DEF Dropped

\* In a stream of fewer than SeqMod \div 2 messages, what the client has not received and is not
\* under way is in the outbox for the next reconnect, or that reconnect is refused: for any
\* capacities and limits, wherever the sequence wraps.
THEOREM StillInOutbox == ASSUME MaxSends < SeqMod \div 2 PROVE Spec => []StillThere
<1>1. Init => Types /\ Wired /\ Stocked BY InitTypes, InitWired, InitStocked
<1>2. Types /\ Wired /\ Stocked /\ [Next]_vars => Types' /\ Wired' /\ Stocked' BY NextTypes, NextWired, NextStocked
<1>3. Types /\ Stocked => StillThere
  <2> SUFFICES ASSUME Types, Stocked, NEW n \in reliable, n > client.got, ~OutboxGap(stream, client.got % SeqMod)
               PROVE  n \in {stream.outbox[i].num : i \in DOMAIN stream.outbox}
    BY DEF StillThere
  <2>1. Keeps(stream.outbox, n) BY NoGap DEF Stocked, InBox
  <2>2. stream.outbox \in Seq(OutboxMsg) BY TypesEasy DEF StreamRec
  <2>3. DOMAIN stream.outbox = 1..Len(stream.outbox) BY <2>2
  <2> QED BY <2>1, <2>3 DEF Keeps
<1> QED BY <1>1, <1>2, <1>3, PTL DEF Spec

-----------------------------------------------------------------------------
(* The order of the messages *)

\* After its first f messages, q holds messages in order and later than g.
Rises(q, f, g) == /\ \A j \in (f + 1)..Len(q) : q[j].num > g
                  /\ \A j, k \in (f + 1)..Len(q) : j < k => q[j].num < q[k].num

\* An empty wire is in order.
LEMMA NothingRises == ASSUME NEW g PROVE Rises(<<>>, 0, g)
<1>1. Len(<<>>) = 0 /\ (0 + 1)..0 = {} OBVIOUS
<1> QED BY <1>1 DEF Rises

\* A newer message at the end.
LEMMA RisesAppend == ASSUME NEW q \in Seq(WireMsg), NEW m \in WireMsg, NEW f \in 0..Len(q), NEW g, Rises(q, f, g), m.num > g,
                            \A i \in 1..Len(q) : q[i].num < m.num
                     PROVE  Rises(Append(q, m), f, g)
<1>1. PICK p : p = Append(q, m) OBVIOUS
<1>2. Len(q) \in Nat /\ Len(p) = Len(q) + 1 /\ p[Len(q) + 1] = m /\ \A i \in 1..Len(q) : p[i] = q[i]
  BY <1>1, AppendProperties
<1>3. \A j \in (f + 1)..Len(p) : (j \in (f + 1)..Len(q) /\ j \in 1..Len(q)) \/ j = Len(q) + 1 BY <1>2
<1>4. \A j \in (f + 1)..Len(p) : p[j].num > g BY <1>2, <1>3 DEF Rises
<1>5. \A j, k \in (f + 1)..Len(p) : j < k => p[j].num < p[k].num
  <2> SUFFICES ASSUME NEW j \in (f + 1)..Len(p), NEW k \in (f + 1)..Len(p), j < k PROVE p[j].num < p[k].num OBVIOUS
  <2>1. j \in (f + 1)..Len(q) /\ j \in 1..Len(q) BY <1>2
  <2>2. CASE k \in (f + 1)..Len(q) /\ k \in 1..Len(q) BY <1>2, <2>1, <2>2 DEF Rises
  <2>3. CASE k = Len(q) + 1 BY <1>2, <2>1, <2>3
  <2> QED BY <1>3, <2>2, <2>3
<1> QED BY <1>1, <1>4, <1>5 DEF Rises

\* The first message is taken off.
LEMMA RisesTail == ASSUME NEW q \in Seq(WireMsg), q # <<>>, NEW f \in 1..Len(q), NEW g, Rises(q, f, g)
                   PROVE  Rises(Tail(q), f - 1, g)
<1>1. Len(q) \in Nat /\ Len(q) > 0 /\ Len(Tail(q)) = Len(q) - 1 /\ \A i \in 1..(Len(q) - 1) : Tail(q)[i] = q[i + 1]
  BY HeadTailProperties
<1>2. PICK r : r = Tail(q) OBVIOUS
<1>3. \A j \in ((f - 1) + 1)..Len(r) : j + 1 \in (f + 1)..Len(q) /\ r[j] = q[j + 1] BY <1>1, <1>2
<1>4. \A j \in ((f - 1) + 1)..Len(r) : r[j].num > g BY <1>3 DEF Rises
<1>5. \A j, k \in ((f - 1) + 1)..Len(r) : j < k => r[j].num < r[k].num
  <2> SUFFICES ASSUME NEW j \in ((f - 1) + 1)..Len(r), NEW k \in ((f - 1) + 1)..Len(r), j < k PROVE r[j].num < r[k].num OBVIOUS
  <2>1. j + 1 < k + 1 BY <1>1, <1>2
  <2>2. q[j + 1].num < q[k + 1].num BY <1>3, <2>1 DEF Rises
  <2> QED BY <1>3, <2>2
<1> QED BY <1>2, <1>4, <1>5 DEF Rises

\* When all of q rises, the first message is the next, and the rest is later than it.
LEMMA RisesFirst == ASSUME NEW q \in Seq(WireMsg), q # <<>>, NEW g, Rises(q, 0, g)
                    PROVE  q[1].num > g /\ Rises(Tail(q), 0, q[1].num)
<1>1. Len(q) \in Nat /\ Len(q) > 0 BY HeadTailProperties
<1>2. 1 \in (0 + 1)..Len(q) /\ 1 \in 1..Len(q) BY <1>1
<1>3. q[1].num > g BY <1>2 DEF Rises
<1>4. Rises(q, 1, q[1].num)
  <2>1. \A j \in (1 + 1)..Len(q) : j \in (0 + 1)..Len(q) /\ 1 < j BY <1>1
  <2>2. \A j \in (1 + 1)..Len(q) : q[1].num < q[j].num BY <1>2, <2>1 DEF Rises
  <2>3. \A j \in 1..Len(q) : q[j].num \in Nat
    <3> TAKE j \in 1..Len(q)
    <3>1. q[j] \in WireMsg BY ElementOfSeq
    <3> QED BY <3>1 DEF WireMsg
  <2>4. \A j \in (1 + 1)..Len(q) : q[j].num > q[1].num
    <3> TAKE j \in (1 + 1)..Len(q)
    <3>1. q[j].num \in Nat /\ q[1].num \in Nat BY <1>1, <1>2, <2>3
    <3>2. q[1].num < q[j].num BY <2>2
    <3> QED BY ONLY <3>1, <3>2
  <2>5. \A j, k \in (1 + 1)..Len(q) : j < k => q[j].num < q[k].num BY <2>1 DEF Rises
  <2> QED BY <2>4, <2>5 DEF Rises
<1>5. Rises(Tail(q), 1 - 1, q[1].num) BY <1>2, <1>4, RisesTail
<1>6. 1 - 1 = 0 OBVIOUS
<1> QED BY <1>3, <1>5, <1>6

\* Without pushes nothing overtakes a replay.
Ordered == /\ \A c \in Conns : Rises(wire[c], 0, client.got)
           /\ \A c \in open : worker[c].pc = "replaying" => wire[c] = <<>> /\ Rises(worker[c].replay, 0, client.got)
           /\ \A n \in received : n <= client.got

\* A step that sends and delivers nothing.
LEMMA OrderedKept ==
    ASSUME Types, Ordered, client'.got = client.got, received' = received,
           \A c \in Conns : wire'[c] = wire[c] \/ wire'[c] = <<>>,
           \A c \in open' : c \in Conns /\ (worker'[c].pc = "replaying" => worker'[c] = worker[c] /\ c \in open)
    PROVE  Ordered'
<1>1. \A c \in Conns : Rises(wire'[c], 0, client'.got) BY NothingRises DEF Ordered
<1>2. \A c \in open' : worker'[c].pc = "replaying" => wire'[c] = <<>> /\ Rises(worker'[c].replay, 0, client'.got) BY DEF Ordered
<1> QED BY <1>1, <1>2 DEF Ordered

\* A new message is newer than what is on the wires and what the client has received.
LEMMA NewestSent == ASSUME Types, Stocked
                    PROVE  /\ sent + 1 > client.got
                           /\ \A c \in Conns : \A i \in 1..Len(wire[c]) : wire[c][i].num < sent + 1
                           /\ \A n \in reliable : n < sent + 1
<1>1. Sent(sent, reliable, client.got) BY DEF Stocked, InBox, Boxed
<1>2. sent \in Nat /\ client.got \in Nat /\ StartSeq \in Nat /\ client.got \in StartSeq..sent /\ reliable \subseteq (StartSeq + 1)..sent
  <2>1. sent \in Nat /\ client.got \in Nat /\ StartSeq \in Nat BY <1>1, SentType
  <2>2. client.got \in StartSeq..sent /\ reliable \subseteq (StartSeq + 1)..sent BY <1>1 DEF Sent
  <2> QED BY <2>1, <2>2
<1>3. ASSUME NEW c \in Conns, NEW i \in 1..Len(wire[c]) PROVE wire[c][i].num < sent + 1
  <2>1. wire[c][i].num \in (StartSeq + 1)..sent BY DEF Stocked, Carried, OnWire
  <2>2. PICK n \in (StartSeq + 1)..sent : n = wire[c][i].num BY <2>1
  <2>3. n < sent + 1 BY ONLY <1>2, <2>2
  <2> QED BY <2>2, <2>3
<1>4. \A n \in reliable : n < sent + 1 BY <1>2
<1>5. sent + 1 > client.got BY ONLY <1>2
<1> QED BY <1>3, <1>4, <1>5

\* A message of a connection that is not replaying.
LEMMA OrderedSent ==
    ASSUME Types, Stocked, Ordered, NEW s, NEW c \in Conns, NEW kind \in {"reliable", "control"}, Sends(s, c, kind),
           client'.got = client.got, received' = received, open' = open,
           \A d \in open : worker'[d].pc = "replaying" => worker'[d] = worker[d] /\ d # c
    PROVE  Ordered'
<1>1. sent \in Nat /\ open \subseteq Conns BY TypesEasy
<1>2. PICK m \in WireMsg : m = [num |-> sent + 1, kind |-> kind]
  <2>1. sent + 1 \in Nat /\ kind \in {"reliable", "control", "resumed"} BY <1>1
  <2>2. [num |-> sent + 1, kind |-> kind] \in WireMsg BY ONLY <2>1 DEF WireMsg
  <2> QED BY <2>2
<1>3. m.num = sent + 1 BY <1>2
<1>4. \A d \in Conns : wire'[d] = wire[d] \/ (d = c /\ wire'[d] = Append(wire[d], m)) BY <1>2 DEF Sends
<1>5. \A d \in Conns : Rises(wire'[d], 0, client.got)
  <2> TAKE d \in Conns
  <2>1. PICK q \in Seq(WireMsg) : q = wire[d] BY TypesEasy
  <2>2. Rises(q, 0, client.got) BY <2>1 DEF Ordered
  <2>3. m.num > client.got /\ \A i \in 1..Len(q) : q[i].num < m.num BY <1>3, <2>1, NewestSent
  <2>4. 0 \in 0..Len(q) OBVIOUS
  <2>5. Rises(Append(q, m), 0, client.got) BY <2>2, <2>3, <2>4, RisesAppend
  <2> QED BY <1>4, <2>1, <2>2, <2>5
<1>6. \A d \in open : worker'[d].pc = "replaying" => wire'[d] = <<>> /\ Rises(worker'[d].replay, 0, client.got)
  BY <1>1, <1>4 DEF Ordered
<1> QED BY <1>5, <1>6 DEF Ordered

\* Deliver and the order of the messages.
LEMMA DeliverOrdered ==
    ASSUME Types, Wired, Ordered, NEW c \in Conns, Deliver(c)
    PROVE  Ordered' /\ \A n \in received' \ received, m \in received : m < n
<1>1. PICK m \in WireMsg :
          /\ wire[c] # <<>> /\ m = wire[c][1] /\ wire'[c] = Tail(wire[c])
          /\ client'.got = (IF m.num > client.got THEN m.num ELSE client.got)
          /\ received' = (IF m.kind = "reliable" THEN received \cup {m.num} ELSE received)
  BY DeliverTypes, SMTT(30)
<1>2. (\A d \in Conns \ {c} : wire'[d] = wire[d]) /\ UNCHANGED <<worker, open>> BY DeliverTypes DEF Deliver, server
<1>3. PICK q \in Seq(WireMsg) : q = wire[c] BY TypesEasy
<1>4. m.num > client.got /\ Rises(Tail(q), 0, m.num) BY <1>1, <1>3, RisesFirst DEF Ordered
<1>5. client'.got = m.num /\ m.num \in Nat /\ client.got \in Nat BY <1>1, <1>4, TypesEasy DEF WireMsg
<1>6. c \in open /\ c = client.conn BY <1>1, CarriesMessages
<1>7. \A d \in Conns \ {c} : wire[d] = <<>> BY <1>6, CarriesMessages
<1>8. \A d \in Conns : Rises(wire'[d], 0, client'.got) BY <1>1, <1>2, <1>3, <1>4, <1>5, <1>7, NothingRises
<1>9. \A d \in open : worker[d].pc # "replaying"
  <2>1. open = {c} BY <1>6 DEF Wired, OneOpen
  <2> QED BY <1>1, <2>1 DEF Ordered
<1>10. received \subseteq Nat BY TypesEasy
<1>11. \A n \in received : n < m.num
  <2> TAKE n \in received
  <2>1. n <= client.got /\ n \in Nat BY <1>10 DEF Ordered
  <2> QED BY ONLY <1>4, <1>5, <2>1
<1>12. \A n \in received' : n <= client'.got BY <1>1, <1>5, <1>10, <1>11
<1>13. Ordered' BY <1>2, <1>8, <1>9, <1>12 DEF Ordered
<1>14. \A n \in received' \ received, k \in received : k < n BY <1>1, <1>11
<1> QED BY <1>13, <1>14

\* CompleteReconnect and the order of the messages.
LEMMA CompleteReconnectOrdered ==
    ASSUME MaxSends < SeqMod \div 2, Types, Wired, Stocked, Ordered, NEW c \in Conns, CompleteReconnect(c) PROVE Ordered'
<1>1. PICK w \in WorkerRec, p \in StreamRec, a \in StreamRec :
          /\ w = worker[c] /\ w.pc = "authorized" /\ p = PruneOutbox(stream) /\ a = AcknowledgeOutbox(p, w.ack % SeqMod)
          /\ Completes(c, w, p, a) \/ GivesUp(c, p)
  BY CompleteReconnectTypes
<1>2. UNCHANGED <<client, received>> BY DEF CompleteReconnect
<1>3. CASE GivesUp(c, p)
  <2>1. Close(c) BY <1>3 DEF GivesUp
  <2>2. /\ open' = open \ {c} /\ open' \subseteq Conns /\ wire'[c] = <<>>
        /\ \A d \in Conns \ {c} : wire'[d] = wire[d] /\ worker'[d] = worker[d]
    BY <2>1, CloseFx
  <2>3. \A d \in Conns : wire'[d] = wire[d] \/ wire'[d] = <<>> BY <2>2
  <2>4. \A d \in open' : d \in Conns /\ (worker'[d].pc = "replaying" => worker'[d] = worker[d] /\ d \in open) BY <2>2
  <2> QED BY <1>2, <2>3, <2>4, OrderedKept
<1>4. CASE Completes(c, w, p, a)
  <2>1. /\ Boxed(a, sent, reliable, client.got) /\ worker'[c].replay = a.outbox
        /\ \A i \in 1..Len(a.outbox) : a.outbox[i].num > client.got
    BY <1>1, <1>4, CompletesBoxed DEF Stocked
  <2>2. c \in open /\ UNCHANGED <<open, wire>> BY <1>4 DEF Completes
  <2>3. open = {c} BY <2>2 DEF Wired, OneOpen
  <2>4. wire[c] = <<>> BY <1>1 DEF Wired, Unbound
  <2>5. Rises(a.outbox, 0, client.got)
    <3>1. (0 + 1)..Len(a.outbox) = 1..Len(a.outbox) OBVIOUS
    <3>2. \A i, j \in 1..Len(a.outbox) : i < j => a.outbox[i].num < a.outbox[j].num BY <2>1 DEF Boxed, Filed
    <3> QED BY <2>1, <3>1, <3>2 DEF Rises
  <2>6. \A d \in open' : wire'[d] = <<>> /\ Rises(worker'[d].replay, 0, client'.got) BY <1>2, <2>1, <2>2, <2>3, <2>4, <2>5
  <2>7. \A d \in Conns : Rises(wire'[d], 0, client'.got) BY <1>2, <2>2 DEF Ordered
  <2> QED BY <1>2, <2>6, <2>7 DEF Ordered
<1> QED BY <1>1, <1>3, <1>4

\* Replay and the order of the messages.
LEMMA ReplayOrdered == ASSUME Types, Stocked, Ordered, NEW c \in Conns, Replay(c) PROVE Ordered'
<1>1. worker[c].pc = "replaying" /\ c \in open /\ UNCHANGED <<open, client, received>> BY DEF Replay
<1>2. PICK w \in WorkerRec : w = worker[c] BY TypesEasy
<1>3. PICK r \in Seq(WireMsg) : r = Copies(w) BY CopiesType
<1>4. Len(r) = Len(w.replay) /\ \A i \in 1..Len(w.replay) : r[i] = [num |-> w.replay[i].num, kind |-> "reliable"]
  BY <1>3, CopiesType
<1>5. wire[c] = <<>> /\ Rises(w.replay, 0, client.got) BY <1>1, <1>2 DEF Ordered
<1>6. \A i \in 1..Len(r) : r[i].num = w.replay[i].num /\ r[i].num \in reliable
  <2> TAKE i \in 1..Len(r)
  <2>1. r[i].num = w.replay[i].num
    <3>1. r[i] = [num |-> w.replay[i].num, kind |-> "reliable"] BY <1>4
    <3> QED BY ONLY <3>1
  <2>2. w.replay[i].num \in reliable BY <1>2, <1>4 DEF Stocked, Carried, InReplay
  <2> QED BY <2>1, <2>2
<1>7. Rises(r, 0, client.got)
  <2>1. (0 + 1)..Len(r) = 1..Len(r) OBVIOUS
  <2> QED BY <1>4, <1>5, <1>6, <2>1 DEF Rises
<1>8. wire[c] \o r = r BY <1>5, ConcatEmptySeq
<1>9. PICK tail : Replays(c, tail) /\ (tail = <<>> \/ tail = <<[num |-> sent + 1, kind |-> "resumed"]>>) BY ReplayTypes
<1>10. wire'[c] = r \o tail BY <1>2, <1>3, <1>8, <1>9 DEF Replays
<1>11. (\A d \in Conns \ {c} : wire'[d] = wire[d] /\ worker'[d] = worker[d]) /\ worker'[c] = Fresh("idle") BY <1>9 DEF Replays
<1>12. Rises(wire'[c], 0, client.got)
  <2>1. CASE tail = <<>>
    <3>1. r \o <<>> = r BY ConcatEmptySeq
    <3> QED BY <1>7, <1>10, <2>1, <3>1
  <2>2. CASE tail = <<[num |-> sent + 1, kind |-> "resumed"]>>
    <3>1. PICK m \in WireMsg : m = [num |-> sent + 1, kind |-> "resumed"]
      <4>1. sent + 1 \in Nat BY TypesEasy
      <4>2. [num |-> sent + 1, kind |-> "resumed"] \in WireMsg BY <4>1 DEF WireMsg
      <4> QED BY <4>2
    <3>2. m.num = sent + 1 BY <3>1
    <3>3. wire'[c] = Append(r, m)
      <4>1. r \o <<m>> = Append(r, m) BY AppendIsConcat
      <4> QED BY <1>10, <2>2, <3>1, <4>1
    <3>4. m.num > client.got /\ \A i \in 1..Len(r) : r[i].num < m.num BY <1>6, <3>2, NewestSent
    <3>5. 0 \in 0..Len(r) OBVIOUS
    <3> QED BY <1>7, <3>3, <3>4, <3>5, RisesAppend
  <2> QED BY <1>9, <2>1, <2>2
<1>13. Fresh("idle").pc = "idle" BY FreshType DEF Pcs
<1>14. open \subseteq Conns BY TypesEasy
<1>15. \A d \in Conns : Rises(wire'[d], 0, client'.got) BY <1>1, <1>11, <1>12 DEF Ordered
<1>16. \A d \in open' : worker'[d].pc = "replaying" => wire'[d] = <<>> /\ Rises(worker'[d].replay, 0, client'.got)
  BY <1>1, <1>11, <1>13, <1>14 DEF Ordered
<1> QED BY <1>1, <1>15, <1>16 DEF Ordered

\* A step after which the wires and the replays are the same or gone.
LEMMA CloseOrdered == ASSUME Types, Ordered, NEW c \in Conns, Close(c), UNCHANGED <<client, received>> PROVE Ordered'
<1>1. /\ open' = open \ {c} /\ open' \subseteq Conns /\ wire'[c] = <<>>
      /\ \A d \in Conns \ {c} : wire'[d] = wire[d] /\ worker'[d] = worker[d]
  BY CloseFx
<1>2. \A d \in Conns : wire'[d] = wire[d] \/ wire'[d] = <<>> BY <1>1
<1>3. \A d \in open' : d \in Conns /\ (worker'[d].pc = "replaying" => worker'[d] = worker[d] /\ d \in open) BY <1>1
<1> QED BY <1>2, <1>3, OrderedKept

\* A worker that leaves its step without sending.
LEMMA WorkerOrdered == ASSUME Types, Ordered, NEW c \in Conns, \A d \in Conns \ {c} : worker'[d] = worker[d],
                              worker'[c].pc # "replaying", open' = open \/ open' = open \cup {c}, wire' = wire,
                              client'.got = client.got, received' = received
                       PROVE  Ordered'
<1>1. open \subseteq Conns BY TypesEasy
<1>2. \A d \in open' : d \in Conns /\ (worker'[d].pc = "replaying" => worker'[d] = worker[d] /\ d \in open) BY <1>1
<1> QED BY <1>2, OrderedKept

\* Respond and the order of the messages.
LEMMA RespondOrdered == ASSUME Types, Stocked, Ordered, NEW c \in Conns, Respond(c) PROVE Ordered'
<1>1. /\ worker'[c].pc = "idle" /\ \A d \in Conns \ {c} : worker'[d] = worker[d]
      /\ Sends(stream, c, "reliable") \/ UNCHANGED <<stream, sent, reliable, refused, wire>>
  BY RespondTypes
<1>2. UNCHANGED <<open, client, received>> BY DEF Respond
<1>3. CASE Sends(stream, c, "reliable")
  <2>1. \A d \in open : worker'[d].pc = "replaying" => worker'[d] = worker[d] /\ d # c BY <1>1, TypesEasy
  <2> QED BY <1>2, <1>3, <2>1, OrderedSent
<1>4. CASE UNCHANGED <<stream, sent, reliable, refused, wire>> BY <1>1, <1>2, <1>4, WorkerOrdered
<1> QED BY <1>1, <1>3, <1>4

\* Acknowledge and the order of the messages.
LEMMA AcknowledgeOrdered ==
    ASSUME Types, Stocked, Ordered, NEW c \in Conns, NEW num \in ClientNums, NEW ack, NEW ping, Acknowledge(c, num, ack, ping)
    PROVE  Ordered'
<1>1. PICK s \in StreamRec : Sends(s, c, "control") \/ (stream' = s /\ UNCHANGED <<sent, reliable, refused, wire>>)
  BY AcknowledgeTypes
<1>2. client'.got = client.got /\ UNCHANGED <<worker, open, received>> /\ worker[c].pc = "idle"
  BY AcknowledgeTypes DEF Acknowledge, CanSend
<1>3. CASE Sends(s, c, "control") BY <1>2, <1>3, OrderedSent
<1>4. CASE UNCHANGED wire BY <1>2, <1>4, WorkerOrdered
<1> QED BY <1>1, <1>3, <1>4

\* Request and the order of the messages.
LEMMA RequestOrdered ==
    ASSUME Types, Stocked, Ordered, NEW c \in Conns, NEW num \in ClientNums, NEW ack, Request(c, num, ack) PROVE Ordered'
<1>1. PICK s \in StreamRec, times \in Seq(Nat) : Passed(c, num, s, times) \/ RateLimited(c, s, times) BY RequestTypes
<1>2. client'.got = client.got /\ UNCHANGED <<open, received>> /\ worker[c].pc = "idle" BY RequestTypes DEF Request, CanSend
<1>3. CASE Passed(c, num, s, times)
  <2>1. UNCHANGED wire /\ worker'[c].pc = "responding" /\ \A d \in Conns \ {c} : worker'[d] = worker[d] BY <1>3 DEF Passed
  <2> QED BY <1>2, <2>1, WorkerOrdered
<1>4. CASE RateLimited(c, s, times)
  <2>1. Sends(s, c, "reliable") /\ worker' = worker BY <1>4 DEF RateLimited
  <2> QED BY <1>2, <2>1, OrderedSent
<1> QED BY <1>1, <1>3, <1>4

\* AuthorizeReconnect and the order of the messages.
LEMMA AuthorizeReconnectOrdered ==
    ASSUME Types, Ordered, NEW c \in Conns, NEW num \in ClientNums, AuthorizeReconnect(c, num) PROVE Ordered'
<1>1. client'.got = client.got /\ \A d \in Conns \ {c} : worker'[d] = worker[d] BY AuthorizeReconnectTypes
<1>2. PICK p \in StreamRec, times \in Seq(Nat) : Authorizes(c, num, p, times) \/ Refuses(c, p, times) BY AuthorizeReconnectTypes
<1>3. UNCHANGED <<wire, received>> BY DEF AuthorizeReconnect
<1>4. Fresh("closed").pc = "closed" BY FreshType DEF Pcs
<1>5. worker'[c].pc # "replaying" /\ (open' = open \/ open' = open \cup {c}) BY <1>2, <1>4 DEF Authorizes, Refuses
<1> QED BY <1>1, <1>3, <1>5, WorkerOrdered

\* KickLocal and the order of the messages.
LEMMA KickLocalOrdered == ASSUME Types, Ordered, NEW c \in Conns, KickLocal(c) PROVE Ordered'
<1>1. \/ Close(c)
      \/ worker'[c] = Fresh("idle") /\ (\A d \in Conns \ {c} : worker'[d] = worker[d]) /\ UNCHANGED <<open, wire>>
  BY KickLocalTypes
<1>2. UNCHANGED <<client, received>> BY DEF KickLocal
<1>3. Fresh("idle").pc = "idle" BY FreshType DEF Pcs
<1>4. CASE Close(c) BY <1>2, <1>4, CloseOrdered
<1>5. CASE worker'[c] = Fresh("idle") /\ (\A d \in Conns \ {c} : worker'[d] = worker[d]) /\ UNCHANGED <<open, wire>>
  BY <1>2, <1>3, <1>5, WorkerOrdered
<1> QED BY <1>1, <1>4, <1>5

\* Disconnected and the order of the messages.
LEMMA DisconnectedOrdered == ASSUME Types, Ordered, NEW c \in Conns, Disconnected(c) PROVE Ordered'
<1>1. worker'[c] = Fresh("closed") /\ \A d \in Conns \ {c} : worker'[d] = worker[d] BY DisconnectedTypes
<1>2. UNCHANGED <<open, wire, client, received>> BY DEF Disconnected
<1>3. Fresh("closed").pc = "closed" BY FreshType DEF Pcs
<1> QED BY <1>1, <1>2, <1>3, WorkerOrdered

\* Break and the order of the messages.
LEMMA BreakOrdered == ASSUME Types, Ordered, NEW c \in Conns, Break(c) PROVE Ordered'
<1>1. wire'[c] = <<>> /\ \A d \in Conns \ {c} : wire'[d] = wire[d] BY BreakTypes
<1>2. open' = open \ {c} /\ UNCHANGED <<worker, client, received>> BY DEF Break
<1>3. \A d \in Conns : wire'[d] = wire[d] \/ wire'[d] = <<>> BY <1>1
<1>4. \A d \in open' : d \in Conns /\ (worker'[d].pc = "replaying" => worker'[d] = worker[d] /\ d \in open)
  BY <1>2, TypesEasy
<1> QED BY <1>2, <1>3, <1>4, OrderedKept

\* Every step keeps the order, and what the client receives is newer than what it has received.
LEMMA NextOrdered ==
    ASSUME ~Pushes, MaxSends < SeqMod \div 2, Types, Wired, Stocked, Ordered, [Next]_vars
    PROVE  Ordered' /\ \A n \in received' \ received, m \in received : m < n
<1>1. ASSUME received' = received PROVE \A n \in received' \ received, m \in received : m < n BY <1>1
<1>2. CASE Tick \/ PruneExpired \/ UNCHANGED vars
  <2>1. UNCHANGED <<wire, worker, open, client, received>> BY <1>2 DEF Tick, PruneExpired, vars
  <2> QED BY <1>1, <2>1 DEF Ordered
<1>3. CASE PushMail BY <1>3 DEF PushMail
<1>4. ASSUME NEW c \in Conns, Break(c) PROVE Ordered' /\ received' = received BY <1>4, BreakOrdered DEF Break
<1>5. ASSUME NEW c \in Conns, Disconnected(c) PROVE Ordered' /\ received' = received
  BY <1>5, DisconnectedOrdered DEF Disconnected
<1>6. ASSUME NEW c \in Conns, Deliver(c) PROVE Ordered' /\ \A n \in received' \ received, m \in received : m < n
  BY <1>6, DeliverOrdered
<1>7. ASSUME NEW c \in Conns, Respond(c) PROVE Ordered' /\ received' = received BY <1>7, RespondOrdered DEF Respond
<1>8. ASSUME NEW c \in Conns, CompleteReconnect(c) PROVE Ordered' /\ received' = received
  BY <1>8, CompleteReconnectOrdered DEF CompleteReconnect
<1>9. ASSUME NEW c \in Conns, ReconnectFails(c) \/ \E num \in ClientNums : RejectFrame(c, num)
      PROVE  Ordered' /\ received' = received
  BY <1>9, CloseOrdered, SMTT(30) DEF ReconnectFails, RejectFrame
<1>10. ASSUME NEW c \in Conns, Replay(c) PROVE Ordered' /\ received' = received BY <1>10, ReplayOrdered DEF Replay
<1>11. ASSUME NEW c \in Conns, KickLocal(c) PROVE Ordered' /\ received' = received BY <1>11, KickLocalOrdered DEF KickLocal
<1>12. ASSUME NEW c \in Conns, NEW num \in ClientNums, AuthorizeReconnect(c, num) PROVE Ordered' /\ received' = received
  BY <1>12, AuthorizeReconnectOrdered DEF AuthorizeReconnect
<1>13. ASSUME NEW c \in Conns, NEW num \in ClientNums, NEW ack \in Acks, Request(c, num, ack)
       PROVE  Ordered' /\ received' = received
  BY <1>13, RequestOrdered DEF Request
<1>14. ASSUME NEW c \in Conns, NEW num \in ClientNums, NEW ack \in Acks, NEW ping \in BOOLEAN, Acknowledge(c, num, ack, ping)
       PROVE  Ordered' /\ received' = received
  BY <1>14, AcknowledgeOrdered DEF Acknowledge
<1> QED BY <1>1, <1>2, <1>3, <1>4, <1>5, <1>6, <1>7, <1>8, <1>9, <1>10, <1>11, <1>12, <1>13, <1>14 DEF Next

\* Without pushes, in a stream of fewer than SeqMod \div 2 messages, reliable messages reach the
\* client in their order, across reconnects and replays.
THEOREM ReceivedInOrder == ASSUME ~Pushes, MaxSends < SeqMod \div 2 PROVE Spec => InOrder
<1>1. Init => Types /\ Wired /\ Stocked BY InitTypes, InitWired, InitStocked
<1>2. Init => Ordered
  <2> SUFFICES ASSUME Init PROVE Ordered OBVIOUS
  <2>1. /\ \A c \in Conns : wire[c] = <<>> /\ worker[c] = Fresh(IF c = 0 THEN "idle" ELSE "none")
        /\ received = {} /\ open = {0}
    BY DEF Init
  <2>2. 0 \in Conns /\ Fresh("idle").pc = "idle" BY ConnsType, FreshType DEF Pcs
  <2> QED BY <2>1, <2>2, NothingRises DEF Ordered
<1>3. Types /\ Wired /\ Stocked /\ [Next]_vars => Types' /\ Wired' /\ Stocked' BY NextTypes, NextWired, NextStocked
<1>4. Types /\ Wired /\ Stocked /\ Ordered /\ [Next]_vars => Ordered' BY NextOrdered
<1>5. Types /\ Wired /\ Stocked /\ Ordered /\ [Next]_vars => [\A n \in received' \ received, m \in received : m < n]_vars
  BY NextOrdered
<1> QED BY <1>1, <1>2, <1>3, <1>4, <1>5, PTL DEF Spec, InOrder

-----------------------------------------------------------------------------
(* Nothing is lost silently *)

\* The answer to a reconnect, at place i of a wire, is later than what precedes it and than
\* what the client has received, and what follows it is in order.
Answer(q, i, g) == /\ Rises(q, i, q[i].num) /\ q[i].num > g
                   /\ \A j \in 1..(i - 1) : q[j].num < q[i].num
Answers(q, g) == \A i \in 1..Len(q) : q[i].kind = "resumed" => Answer(q, i, g)

\* A wire without an answer, ...
LEMMA NoAnswers == ASSUME NEW q, NEW g, NoAnswer(q) PROVE Answers(q, g)
BY DEF NoAnswer, Answers

\* ... or without a message.
LEMMA NothingAnswers == ASSUME NEW g PROVE Answers(<<>>, g)
<1>1. Len(<<>>) = 0 /\ 1..0 = {} OBVIOUS
<1> QED BY <1>1 DEF Answers

\* A newer message at the end of a wire, ...
LEMMA AnswersAppend == ASSUME NEW q \in Seq(WireMsg), NEW m \in WireMsg, NEW g \in Nat, Answers(q, g), m.num > g,
                              \A i \in 1..Len(q) : q[i].num < m.num
                       PROVE  Answers(Append(q, m), g)
<1>1. PICK p : p = Append(q, m) OBVIOUS
<1>2. Len(q) \in Nat /\ Len(p) = Len(q) + 1 /\ p[Len(q) + 1] = m /\ \A i \in 1..Len(q) : p[i] = q[i]
  BY <1>1, AppendProperties
<1> SUFFICES ASSUME NEW i \in 1..Len(p), p[i].kind = "resumed" PROVE Answer(p, i, g) BY <1>1 DEF Answers
<1>3. CASE i \in 1..Len(q)
  <2>1. p[i] = q[i] /\ i \in 0..Len(q) BY <1>2, <1>3
  <2>2. Answer(q, i, g) BY <1>3, <2>1 DEF Answers
  <2>3. m.num > q[i].num
    <3>1. q[i].num < m.num BY <1>3
    <3>2. q[i] \in WireMsg BY <1>3, ElementOfSeq
    <3>3. q[i].num \in Nat /\ m.num \in Nat BY <3>2 DEF WireMsg
    <3> QED BY ONLY <3>1, <3>3
  <2>4. Rises(q, i, q[i].num) BY <2>2 DEF Answer
  <2>5. Rises(p, i, q[i].num) BY <1>1, <2>1, <2>3, <2>4, RisesAppend
  <2>6. \A j \in 1..(i - 1) : p[j].num < p[i].num
    <3> TAKE j \in 1..(i - 1)
    <3>1. j \in 1..Len(q) BY <1>2, <1>3
    <3>2. q[j].num < q[i].num BY <2>2 DEF Answer
    <3> QED BY <1>2, <2>1, <3>1, <3>2
  <2> QED BY <2>1, <2>2, <2>5, <2>6 DEF Answer
<1>4. CASE i = Len(q) + 1
  <2>1. p[i] = m BY <1>2, <1>4
  <2>2. (i + 1)..Len(p) = {} BY <1>2, <1>4
  <2>3. Rises(p, i, m.num) BY <2>2 DEF Rises
  <2>4. \A j \in 1..(i - 1) : p[j].num < m.num
    <3> TAKE j \in 1..(i - 1)
    <3>1. j \in 1..Len(q) BY <1>2, <1>4
    <3> QED BY <1>2, <3>1
  <2> QED BY <2>1, <2>3, <2>4 DEF Answer
<1> QED BY <1>2, <1>3, <1>4

\* ... and the first message taken off it.
LEMMA AnswersTail == ASSUME NEW q \in Seq(WireMsg), q # <<>>, NEW g \in Nat, Answers(q, g),
                            NEW h, h = (IF q[1].num > g THEN q[1].num ELSE g)
                     PROVE  /\ Answers(Tail(q), h)
                            /\ q[1].kind = "resumed" => q[1].num > g /\ Rises(Tail(q), 0, q[1].num)
<1>1. Len(q) \in Nat /\ Len(q) > 0 /\ Len(Tail(q)) = Len(q) - 1 /\ \A i \in 1..(Len(q) - 1) : Tail(q)[i] = q[i + 1]
  BY HeadTailProperties
<1>2. PICK r : r = Tail(q) OBVIOUS
<1>3. ASSUME NEW i \in 1..Len(r), r[i].kind = "resumed" PROVE Answer(r, i, h)
  <2>1. i + 1 \in 1..Len(q) /\ r[i] = q[i + 1] /\ i \in Nat /\ (i + 1) - 1 = i /\ i >= 1 BY <1>1, <1>2
  <2>2. Answer(q, i + 1, g) BY <1>3, <2>1 DEF Answers
  <2>3. Rises(q, i + 1, q[i + 1].num) /\ q[i + 1].num > g BY <2>2 DEF Answer
  <2>4. Rises(r, (i + 1) - 1, q[i + 1].num) BY <1>2, <2>1, <2>3, RisesTail
  <2>5. Rises(r, i, r[i].num) BY <2>1, <2>4
  <2>6. \A j \in 1..i : q[j].num < q[i + 1].num BY <2>1, <2>2 DEF Answer
  <2>7. r[i].num > h
    <3>1. q[1].num < q[i + 1].num BY <2>1, <2>6
    <3>2. q[1] \in WireMsg /\ q[i + 1] \in WireMsg BY <1>1, <2>1, ElementOfSeq
    <3>3. q[1].num \in Nat /\ q[i + 1].num \in Nat BY <3>2 DEF WireMsg
    <3>4. q[i + 1].num > h BY ONLY <2>3, <3>1, <3>3, g \in Nat, h = (IF q[1].num > g THEN q[1].num ELSE g)
    <3> QED BY <2>1, <3>4
  <2>8. \A j \in 1..(i - 1) : r[j].num < r[i].num
    <3> TAKE j \in 1..(i - 1)
    <3>1. j + 1 \in 1..i /\ j \in 1..(Len(q) - 1) BY <1>1, <1>2, <2>1
    <3>2. r[j] = q[j + 1] BY <1>1, <1>2, <3>1
    <3> QED BY <2>1, <2>6, <3>1, <3>2
  <2> QED BY <2>5, <2>7, <2>8 DEF Answer
<1>4. ASSUME q[1].kind = "resumed" PROVE q[1].num > g /\ Rises(Tail(q), 0, q[1].num)
  <2>1. 1 \in 1..Len(q) /\ 1 - 1 = 0 BY <1>1
  <2>2. Answer(q, 1, g) BY <1>4, <2>1 DEF Answers
  <2>3. Rises(q, 1, q[1].num) /\ q[1].num > g BY <2>2 DEF Answer
  <2>4. Rises(Tail(q), 1 - 1, q[1].num) BY <2>1, <2>3, RisesTail
  <2> QED BY <2>1, <2>3, <2>4
<1> QED BY <1>2, <1>3, <1>4 DEF Answers

\* The connection of the session that the client knows is in order.
Answered == \A c \in Conns : /\ client.session = c => Rises(wire[c], 0, client.got)
                             /\ Answers(wire[c], client.got)

\* On the open connection of the stream every reliable message has reached the client, is on its
\* way or was refused; ...
Arrives(c, n) == n \in received \/ n \in refused \/ Keeps(wire[c], n) \/ Keeps(worker[c].replay, n)
Delivers == \A c \in open : retained /\ stream.sid = c => \A n \in reliable : Arrives(c, n)

\* ... and those that a client passed that may resume the stream are not on their way any more.
Confirmed == retained /\ client.session = stream.sid =>
                \A n \in reliable : n <= client.got => n \in received \/ n \in refused
Whole == Answered /\ Delivers /\ Confirmed

\* A step that sends and delivers nothing.
LEMMA WholeKept ==
    ASSUME Whole, client'.got = client.got, client'.session = client.session, UNCHANGED <<received, refused, reliable>>,
           stream'.sid = stream.sid, retained' => retained,
           \A c \in Conns : wire'[c] = wire[c] \/ wire'[c] = <<>>,
           \A c \in open' : retained' /\ stream.sid = c =>
                c \in open /\ wire'[c] = wire[c] /\ worker'[c].replay = worker[c].replay
    PROVE  Whole'
<1>1. Answered' BY NothingRises, NothingAnswers DEF Whole, Answered
<1>2. Delivers' BY DEF Whole, Delivers, Arrives
<1>3. Confirmed' BY DEF Whole, Confirmed
<1> QED BY <1>1, <1>2, <1>3 DEF Whole

\* A message more.
LEMMA KeepsAppend == ASSUME NEW T, NEW q \in Seq(T), NEW m \in T
                     PROVE  Keeps(Append(q, m), m.num) /\ \A n : Keeps(q, n) => Keeps(Append(q, m), n)
<1>1. PICK p : p = Append(q, m) OBVIOUS
<1>2. Len(q) \in Nat /\ Len(p) = Len(q) + 1 /\ p[Len(q) + 1] = m /\ \A i \in 1..Len(q) : p[i] = q[i]
  BY <1>1, AppendProperties
<1>3. Len(q) + 1 \in 1..Len(p) /\ \A i \in 1..Len(q) : i \in 1..Len(p) BY <1>2
<1>4. Keeps(p, m.num) BY <1>2, <1>3 DEF Keeps
<1>5. ASSUME NEW n, Keeps(q, n) PROVE Keeps(p, n)
  <2>1. PICK i \in 1..Len(q) : q[i].num = n BY <1>5 DEF Keeps
  <2>2. i \in 1..Len(p) /\ p[i].num = n BY <1>2, <1>3, <2>1
  <2> QED BY <2>2 DEF Keeps
<1> QED BY <1>1, <1>4, <1>5

\* The stream sends on its connection.
LEMMA WholeSent ==
    ASSUME Types, Stocked, Whole, NEW s, NEW c \in Conns, NEW kind \in {"reliable", "control"}, Sends(s, c, kind),
           c = stream.sid, client'.got = client.got, client'.session = client.session, UNCHANGED <<received, retained, open>>,
           stream'.sid = stream.sid, \A d \in Conns : worker'[d].replay = worker[d].replay
    PROVE  Whole'
<1>1. sent \in Nat /\ open \subseteq Conns /\ client.got \in Nat BY TypesEasy
<1>2. PICK m \in WireMsg : m = [num |-> sent + 1, kind |-> kind]
  <2>1. sent + 1 \in Nat /\ kind \in {"reliable", "control", "resumed"} BY <1>1
  <2>2. [num |-> sent + 1, kind |-> kind] \in WireMsg BY ONLY <2>1 DEF WireMsg
  <2> QED BY <2>2
<1>3. m.num = sent + 1 BY <1>2
<1>4. \A d \in Conns : wire'[d] = wire[d] \/ (d = c /\ wire'[d] = Append(wire[d], m)) BY <1>2 DEF Sends
<1>5. reliable' = reliable \/ reliable' = reliable \cup {sent + 1} BY DEF Sends
<1>6. \/ wire'[c] = Append(wire[c], m) /\ refused' = refused
      \/ c \notin open
      \/ wire' = wire /\ refused' = refused \cup ({sent + 1} \cap reliable')
  BY <1>2 DEF Sends
<1>7. refused \subseteq refused' BY DEF Sends
<1>8. Answered'
  <2> SUFFICES ASSUME NEW d \in Conns
               PROVE  (client.session = d => Rises(wire'[d], 0, client.got)) /\ Answers(wire'[d], client.got)
    BY DEF Answered
  <2>1. PICK q \in Seq(WireMsg) : q = wire[d] BY TypesEasy
  <2>2. (client.session = d => Rises(q, 0, client.got)) /\ Answers(q, client.got) BY <2>1 DEF Whole, Answered
  <2>3. m.num > client.got /\ \A i \in 1..Len(q) : q[i].num < m.num BY <1>3, <2>1, NewestSent
  <2>4. 0 \in 0..Len(q) OBVIOUS
  <2>5. Rises(q, 0, client.got) => Rises(Append(q, m), 0, client.got) BY <2>3, <2>4, RisesAppend
  <2>6. Answers(Append(q, m), client.got) BY <1>1, <2>2, <2>3, AnswersAppend
  <2> QED BY <1>4, <2>1, <2>2, <2>5, <2>6
<1>9. Delivers'
  <2> SUFFICES ASSUME NEW d \in open, retained, stream.sid = d, NEW n \in reliable' PROVE Arrives(d, n)' BY DEF Delivers
  <2>1. d = c /\ worker'[c].replay = worker[c].replay OBVIOUS
  <2>2. PICK q \in Seq(WireMsg) : q = wire[c] BY TypesEasy
  <2>3. Keeps(Append(q, m), sent + 1) /\ \A k : Keeps(q, k) => Keeps(Append(q, m), k) BY <1>3, KeepsAppend
  <2>4. CASE n \in reliable
    <3>1. Arrives(c, n) BY <2>1, <2>4 DEF Whole, Delivers
    <3>2. Keeps(wire[c], n) => Keeps(wire'[c], n) BY <1>4, <2>2, <2>3
    <3> QED BY <1>7, <2>1, <3>1, <3>2 DEF Arrives
  <2>5. CASE n = sent + 1
    <3>1. Keeps(wire'[c], n) \/ n \in refused' BY <1>6, <2>1, <2>2, <2>3, <2>5
    <3> QED BY <2>1, <3>1 DEF Arrives
  <2> QED BY <1>5, <2>4, <2>5
<1>10. Confirmed'
  <2> SUFFICES ASSUME retained, client.session = stream.sid, NEW n \in reliable', n <= client.got
               PROVE  n \in received \/ n \in refused'
    BY DEF Confirmed
  <2>1. n # sent + 1
    <3>1. sent + 1 > client.got BY NewestSent
    <3> QED BY ONLY <1>1, <3>1, n <= client.got
  <2>2. n \in reliable BY <1>5, <2>1
  <2> QED BY <1>7, <2>2 DEF Whole, Confirmed
<1> QED BY <1>8, <1>9, <1>10 DEF Whole

\* PushMail loses nothing silently.
LEMMA PushMailWhole == ASSUME Types, Stocked, Whole, PushMail PROVE Whole'
<1>1. Sends(stream, stream.sid, "reliable") /\ Rest(stream, stream') BY PushMailTypes
<1>2. UNCHANGED <<retained, worker, open, client, received>> BY DEF PushMail
<1>3. stream'.sid = stream.sid /\ stream.sid \in Conns BY <1>1, TypesEasy DEF Rest
<1> QED BY <1>1, <1>2, <1>3, WholeSent

\* Respond loses nothing silently.
LEMMA RespondWhole == ASSUME Types, Stocked, Whole, NEW c \in Conns, Respond(c) PROVE Whole'
<1>1. /\ \A d \in Conns : worker'[d].replay = worker[d].replay
      /\ Rest(stream, stream')
      /\ \/ Bound(c) /\ Sends(stream, c, "reliable")
         \/ UNCHANGED <<stream, sent, reliable, refused, wire>>
  BY RespondTypes
<1>2. UNCHANGED <<retained, open, client, received>> BY DEF Respond
<1>3. stream'.sid = stream.sid BY <1>1 DEF Rest
<1>4. CASE Bound(c) /\ Sends(stream, c, "reliable")
  <2>1. c = stream.sid BY <1>4 DEF Bound
  <2> QED BY <1>1, <1>2, <1>3, <1>4, <2>1, WholeSent
<1>5. CASE UNCHANGED <<stream, sent, reliable, refused, wire>> BY <1>1, <1>2, <1>5, TypesEasy, WholeKept
<1> QED BY <1>1, <1>4, <1>5

\* Acknowledge loses nothing silently.
LEMMA AcknowledgeWhole ==
    ASSUME Types, Stocked, Whole, NEW c \in Conns, NEW num \in ClientNums, NEW ack, NEW ping, Acknowledge(c, num, ack, ping)
    PROVE  Whole'
<1>1. PICK s \in StreamRec :
          /\ s = AcceptSequence(stream, num % SeqMod, ack % SeqMod) /\ Rest(s, stream')
          /\ Sends(s, c, "control") \/ (stream' = s /\ UNCHANGED <<sent, reliable, refused, wire>>)
  BY AcknowledgeTypes
<1>2. client'.session = client.session /\ client'.got = client.got BY AcknowledgeTypes
<1>3. UNCHANGED <<retained, worker, open, received>> /\ Bound(c) BY DEF Acknowledge
<1>4. stream'.sid = stream.sid
  <2>1. s.sid = stream.sid BY <1>1, NumType, TypesEasy, AcceptType
  <2> QED BY <1>1, <2>1 DEF Rest
<1>5. CASE Sends(s, c, "control")
  <2>1. c = stream.sid BY <1>3 DEF Bound
  <2> QED BY <1>2, <1>3, <1>4, <1>5, <2>1, WholeSent
<1>6. CASE UNCHANGED <<sent, reliable, refused, wire>> BY <1>2, <1>3, <1>4, <1>6, WholeKept
<1> QED BY <1>1, <1>5, <1>6

\* Request loses nothing silently.
LEMMA RequestWhole ==
    ASSUME Types, Stocked, Whole, NEW c \in Conns, NEW num \in ClientNums, NEW ack, Request(c, num, ack) PROVE Whole'
<1>1. PICK a \in StreamRec, s \in StreamRec, times \in Seq(Nat) :
          /\ a = AcceptSequence(stream, num % SeqMod, ack % SeqMod)
          /\ s = [a EXCEPT !.requestTimes = s.requestTimes] /\ Rest(s, stream')
          /\ Passed(c, num, s, times) \/ RateLimited(c, s, times)
  BY RequestTypes
<1>2. client'.session = client.session /\ client'.got = client.got BY RequestTypes
<1>3. UNCHANGED <<retained, open, received>> /\ Bound(c) BY DEF Request
<1>4. stream'.sid = stream.sid
  <2>1. a.sid = stream.sid BY <1>1, NumType, TypesEasy, AcceptType
  <2>2. s.sid = a.sid
    <3>1. PICK q : q = s.requestTimes OBVIOUS
    <3>2. s = [a EXCEPT !.requestTimes = q] BY <1>1, <3>1
    <3> QED BY ONLY <3>2, a \in StreamRec DEF StreamRec
  <2> QED BY <1>1, <2>1, <2>2 DEF Rest
<1>5. CASE Passed(c, num, s, times)
  <2>1. UNCHANGED <<reliable, refused, wire>> /\ \A d \in Conns : worker'[d].replay = worker[d].replay BY <1>5 DEF Passed
  <2> QED BY <1>2, <1>3, <1>4, <2>1, TypesEasy, WholeKept
<1>6. CASE RateLimited(c, s, times)
  <2>1. Sends(s, c, "reliable") /\ worker' = worker /\ c = stream.sid BY <1>3, <1>6 DEF RateLimited, Bound
  <2> QED BY <1>2, <1>3, <1>4, <2>1, WholeSent
<1> QED BY <1>1, <1>5, <1>6

\* A connection closes.
LEMMA CloseWhole == ASSUME Types, Whole, NEW c \in Conns, Close(c), UNCHANGED <<client, received, refused, reliable>>,
                           stream'.sid = stream.sid, retained' => retained
                    PROVE  Whole'
<1>1. /\ open' = open \ {c} /\ open' \subseteq Conns /\ wire'[c] = <<>>
      /\ \A d \in Conns \ {c} : wire'[d] = wire[d] /\ worker'[d] = worker[d]
  BY CloseFx
<1>2. \A d \in Conns : wire'[d] = wire[d] \/ wire'[d] = <<>> BY <1>1
<1>3. \A d \in open' : d \in open /\ wire'[d] = wire[d] /\ worker'[d].replay = worker[d].replay BY <1>1
<1> QED BY <1>2, <1>3, WholeKept

\* Break loses nothing silently.
LEMMA BreakWhole == ASSUME Types, Whole, NEW c \in Conns, Break(c) PROVE Whole'
<1>1. wire'[c] = <<>> /\ \A d \in Conns \ {c} : wire'[d] = wire[d] BY BreakTypes
<1>2. open' = open \ {c} /\ UNCHANGED <<worker, client, received, stream, retained, reliable, refused>> BY DEF Break, server
<1>3. \A d \in Conns : wire'[d] = wire[d] \/ wire'[d] = <<>> BY <1>1
<1>4. \A d \in open' : d \in open /\ wire'[d] = wire[d] /\ worker'[d].replay = worker[d].replay BY <1>1, <1>2, TypesEasy
<1> QED BY <1>2, <1>3, <1>4, WholeKept

\* Disconnected loses nothing silently.
LEMMA DisconnectedWhole == ASSUME Types, Whole, NEW c \in Conns, Disconnected(c) PROVE Whole'
<1>1. (\A d \in Conns \ {c} : worker'[d] = worker[d]) /\ stream'.sid = stream.sid BY DisconnectedTypes
<1>2. c \notin open /\ UNCHANGED <<open, wire, client, received, retained, reliable, refused>> BY DEF Disconnected
<1>3. \A d \in open' : d \in open /\ wire'[d] = wire[d] /\ worker'[d].replay = worker[d].replay BY <1>1, <1>2, TypesEasy
<1> QED BY <1>1, <1>2, <1>3, WholeKept

\* KickLocal loses nothing silently.
LEMMA KickLocalWhole == ASSUME Types, Whole, NEW c \in Conns, KickLocal(c) PROVE Whole'
<1>1. /\ stream'.sid = stream.sid
      /\ \/ retained' = FALSE /\ Close(c)
         \/ /\ ~(retained /\ stream.sid = c) /\ \A d \in Conns \ {c} : worker'[d] = worker[d]
            /\ UNCHANGED <<retained, stream, open, wire>>
  BY KickLocalTypes
<1>2. UNCHANGED <<client, received, reliable, refused>> BY DEF KickLocal
<1>3. CASE retained' = FALSE /\ Close(c) BY <1>1, <1>2, <1>3, CloseWhole
<1>4. CASE /\ ~(retained /\ stream.sid = c) /\ \A d \in Conns \ {c} : worker'[d] = worker[d]
           /\ UNCHANGED <<retained, stream, open, wire>>
  <2>1. \A d \in open' : retained' /\ stream.sid = d => d \in open /\ wire'[d] = wire[d] /\ worker'[d].replay = worker[d].replay
    BY <1>4, TypesEasy
  <2> QED BY <1>2, <1>4, <2>1, WholeKept
<1> QED BY <1>1, <1>3, <1>4

\* AuthorizeReconnect loses nothing silently.
LEMMA AuthorizeReconnectWhole ==
    ASSUME Types, Wired, Whole, NEW c \in Conns, NEW num \in ClientNums, AuthorizeReconnect(c, num) PROVE Whole'
<1>1. client'.session = client.session /\ client'.got = client.got /\ \A d \in Conns \ {c} : worker'[d] = worker[d]
  BY AuthorizeReconnectTypes
<1>2. PICK p \in StreamRec, times \in Seq(Nat) :
          /\ Rest(stream, p) /\ stream'.sid = p.sid
          /\ Authorizes(c, num, p, times) \/ Refuses(c, p, times)
  BY AuthorizeReconnectTypes
<1>3. stream'.sid = stream.sid /\ open' \subseteq open \cup {c} BY <1>2 DEF Rest, Authorizes, Refuses
<1>4. worker[c].pc = "none" /\ UNCHANGED <<retained, wire, reliable, refused, received>> BY DEF AuthorizeReconnect
<1>5. stream.sid # c BY <1>4 DEF Wired, Unbound
<1>6. \A d \in open' : retained' /\ stream.sid = d => d \in open /\ wire'[d] = wire[d] /\ worker'[d].replay = worker[d].replay
  BY <1>1, <1>3, <1>4, <1>5, TypesEasy
<1> QED BY <1>1, <1>3, <1>4, <1>6, WholeKept

\* The stream moves to c: what the client passed it has, and the rest is replayed.
LEMMA CompleteReconnectWhole ==
    ASSUME MaxSends < SeqMod \div 2, Types, Wired, Stocked, Whole, NEW c \in Conns, CompleteReconnect(c) PROVE Whole'
<1>1. PICK w \in WorkerRec, p \in StreamRec, a \in StreamRec :
          /\ w = worker[c] /\ w.pc = "authorized" /\ p = PruneOutbox(stream) /\ a = AcknowledgeOutbox(p, w.ack % SeqMod)
          /\ Rest(stream, p)
          /\ Completes(c, w, p, a) \/ GivesUp(c, p)
  BY CompleteReconnectTypes
<1>2. UNCHANGED <<client, received, retained, reliable, refused>> BY DEF CompleteReconnect
<1>3. CASE GivesUp(c, p)
  <2>1. Close(c) /\ stream'.sid = stream.sid BY <1>1, <1>3 DEF GivesUp, Rest
  <2> QED BY <1>2, <2>1, CloseWhole
<1>4. CASE Completes(c, w, p, a)
  <2>1. w.ack = client.got /\ Boxed(a, sent, reliable, client.got) /\ worker'[c].replay = a.outbox
    BY <1>1, <1>4, CompletesBoxed DEF Stocked
  <2>2. c \in open /\ stream'.sid = c /\ UNCHANGED <<open, wire>> /\ MayComplete(p, w) BY <1>4 DEF Completes
  <2>3. client.session # c BY <1>1 DEF Wired, Unbound
  <2>4. retained /\ client.session = stream.sid /\ ~OutboxGap(p, client.got % SeqMod)
    <3>1. w.prev = client.session BY <1>1, <2>2 DEF Wired, Asked
    <3>2. retained /\ p.sid = w.prev /\ ~OutboxGap(p, client.got % SeqMod) BY <2>1, <2>2 DEF MayComplete
    <3> QED BY <1>1, <3>1, <3>2 DEF Rest
  <2>5. ~OutboxGap(a, client.got % SeqMod)
    <3>1. PICK k \in Nat : Forgets(p, a, k, w.ack % SeqMod) BY <1>1, AcknowledgeFx
    <3>2. a.dropped = p.dropped BY <3>1 DEF Forgets
    <3> QED BY <2>4, <3>2 DEF OutboxGap
  <2>6. \A n \in reliable : Arrives(c, n)'
    <3> TAKE n \in reliable
    <3>1. n \in Nat /\ client.got \in Nat BY TypesEasy
    <3>2. CASE n > client.got
      <4>1. Keeps(a.outbox, n) BY <2>1, <2>5, <3>2, NoGap
      <4> QED BY <2>1, <4>1 DEF Arrives
    <3>3. CASE n <= client.got
      <4>1. n \in received \/ n \in refused BY <2>4, <3>3 DEF Whole, Confirmed
      <4> QED BY <1>2, <4>1 DEF Arrives
    <3> QED BY <3>1, <3>2, <3>3
  <2>7. Delivers' BY <1>2, <2>2, <2>6 DEF Delivers
  <2>8. Confirmed' BY <1>2, <2>2, <2>3 DEF Confirmed
  <2>9. Answered' BY <1>2, <2>2 DEF Whole, Answered
  <2> QED BY <2>7, <2>8, <2>9 DEF Whole
<1> QED BY <1>1, <1>3, <1>4

\* What is in one of two sequences is in their concatenation.
LEMMA KeepsConcat == ASSUME NEW T, NEW q \in Seq(T), NEW r \in Seq(T), NEW n, Keeps(q, n) \/ Keeps(r, n) PROVE Keeps(q \o r, n)
<1>1. PICK p : p = q \o r OBVIOUS
<1>2. /\ Len(q) \in Nat /\ Len(r) \in Nat /\ Len(p) = Len(q) + Len(r)
      /\ \A i \in 1..(Len(q) + Len(r)) : p[i] = IF i <= Len(q) THEN q[i] ELSE r[i - Len(q)]
  BY <1>1, ConcatProperties
<1>3. CASE Keeps(q, n)
  <2>1. PICK i \in 1..Len(q) : q[i].num = n BY <1>3 DEF Keeps
  <2>2. i \in 1..Len(p) /\ p[i] = q[i] BY <1>2
  <2> QED BY <1>1, <2>1, <2>2 DEF Keeps
<1>4. CASE Keeps(r, n)
  <2>1. PICK i \in 1..Len(r) : r[i].num = n BY <1>4 DEF Keeps
  <2>2. PICK k \in Nat : k = i + Len(q) BY <1>2
  <2>3. k \in 1..Len(p) /\ ~(k <= Len(q)) /\ k - Len(q) = i /\ k \in 1..(Len(q) + Len(r)) BY <1>2, <2>2
  <2>4. p[k] = r[i] BY <1>2, <2>3
  <2> QED BY <1>1, <2>1, <2>3, <2>4 DEF Keeps
<1> QED BY <1>3, <1>4

\* Replay loses nothing silently.
LEMMA ReplayWhole == ASSUME Types, Wired, Stocked, Whole, NEW c \in Conns, Replay(c) PROVE Whole'
<1>1. worker[c].pc = "replaying" /\ UNCHANGED <<open, client, received, reliable, refused, retained>> BY DEF Replay
<1>2. PICK w \in WorkerRec : w = worker[c] BY TypesEasy
<1>3. PICK q \in Seq(WireMsg) : q = wire[c] BY TypesEasy
<1>4. PICK r \in Seq(WireMsg) : r = Copies(w) BY CopiesType
<1>5. Len(r) = Len(w.replay) /\ \A i \in 1..Len(w.replay) : r[i] = [num |-> w.replay[i].num, kind |-> "reliable"]
  BY <1>4, CopiesType
<1>6. client.session # c /\ NoAnswer(q) BY <1>1, <1>3 DEF Wired, Replaying
<1>7. \A i \in 1..Len(r) : r[i].num = w.replay[i].num /\ r[i].kind # "resumed" /\ r[i].num \in reliable
  <2> TAKE i \in 1..Len(r)
  <2>1. r[i].num = w.replay[i].num /\ r[i].kind = "reliable"
    <3>1. r[i] = [num |-> w.replay[i].num, kind |-> "reliable"] BY <1>5
    <3> QED BY ONLY <3>1
  <2>2. w.replay[i].num \in reliable BY <1>2, <1>5 DEF Stocked, Carried, InReplay
  <2> QED BY <2>1, <2>2
<1>8. PICK x \in Seq(WireMsg) : x = q \o r BY ConcatProperties
<1>9. /\ Len(q) \in Nat /\ Len(r) \in Nat /\ Len(x) = Len(q) + Len(r)
      /\ \A i \in 1..(Len(q) + Len(r)) : x[i] = IF i <= Len(q) THEN q[i] ELSE r[i - Len(q)]
  BY <1>8, ConcatProperties
<1>10. \A i \in 1..Len(x) : x[i].kind # "resumed" /\ x[i].num < sent + 1
  <2> TAKE i \in 1..Len(x)
  <2>1. CASE i <= Len(q)
    <3>1. i \in 1..Len(q) /\ x[i] = q[i] BY <1>9, <2>1
    <3> QED BY <1>3, <1>6, <3>1, NewestSent DEF NoAnswer
  <2>2. CASE ~(i <= Len(q))
    <3>1. i - Len(q) \in 1..Len(r) /\ x[i] = r[i - Len(q)] BY <1>9, <2>2
    <3> QED BY <1>7, <3>1, NewestSent
  <2> QED BY <2>1, <2>2
<1>11. client.got \in Nat /\ sent \in Nat BY TypesEasy
<1>12. Answers(x, client.got) BY <1>10, NoAnswers DEF NoAnswer
<1>13. ASSUME NEW n, Keeps(wire[c], n) \/ Keeps(worker[c].replay, n) PROVE Keeps(x, n)
  <2>1. Keeps(w.replay, n) => Keeps(r, n)
    <3>1. \A i \in 1..Len(w.replay) : r[i].num = w.replay[i].num BY <1>5, <1>7
    <3> QED BY <1>5, <3>1 DEF Keeps
  <2> QED BY <1>2, <1>3, <1>8, <1>13, <2>1, KeepsConcat
<1>14. PICK tail : Replays(c, tail) /\ (tail = <<>> \/ tail = <<[num |-> sent + 1, kind |-> "resumed"]>>) BY ReplayTypes
<1>15. wire'[c] = x \o tail /\ (\A d \in Conns \ {c} : wire'[d] = wire[d] /\ worker'[d] = worker[d])
  BY <1>2, <1>3, <1>4, <1>8, <1>14 DEF Replays
<1>16. Answers(wire'[c], client.got) /\ \A n : Keeps(x, n) => Keeps(wire'[c], n)
  <2>1. CASE tail = <<>>
    <3>1. x \o <<>> = x BY ConcatEmptySeq
    <3> QED BY <1>12, <1>15, <2>1, <3>1
  <2>2. CASE tail = <<[num |-> sent + 1, kind |-> "resumed"]>>
    <3>1. PICK m \in WireMsg : m = [num |-> sent + 1, kind |-> "resumed"]
      <4>1. sent + 1 \in Nat BY <1>11
      <4>2. [num |-> sent + 1, kind |-> "resumed"] \in WireMsg BY <4>1 DEF WireMsg
      <4> QED BY <4>2
    <3>2. m.num = sent + 1 BY <3>1
    <3>3. wire'[c] = Append(x, m)
      <4>1. x \o <<m>> = Append(x, m) BY AppendIsConcat
      <4> QED BY <1>15, <2>2, <3>1, <4>1
    <3>4. m.num > client.got /\ \A i \in 1..Len(x) : x[i].num < m.num BY <1>10, <3>2, NewestSent
    <3>5. Answers(Append(x, m), client.got) BY <1>11, <1>12, <3>4, AnswersAppend
    <3>6. \A n : Keeps(x, n) => Keeps(Append(x, m), n) BY KeepsAppend
    <3> QED BY <3>3, <3>5, <3>6
  <2> QED BY <1>14, <2>1, <2>2
<1>17. stream'.sid = stream.sid /\ open \subseteq Conns BY ReplayTypes, TypesEasy DEF Rest
<1>18. Answered' BY <1>1, <1>6, <1>15, <1>16 DEF Whole, Answered
<1>19. Delivers'
  <2> SUFFICES ASSUME NEW d \in open, retained, stream.sid = d, NEW n \in reliable PROVE Arrives(d, n)'
    BY <1>1, <1>17 DEF Delivers
  <2>1. Arrives(d, n) BY DEF Whole, Delivers
  <2>2. CASE d = c BY <1>1, <1>13, <1>16, <2>1, <2>2 DEF Arrives
  <2>3. CASE d # c BY <1>1, <1>15, <1>17, <2>1, <2>3 DEF Arrives
  <2> QED BY <2>2, <2>3
<1>20. Confirmed' BY <1>1, <1>17 DEF Whole, Confirmed
<1> QED BY <1>18, <1>19, <1>20 DEF Whole

\* Deliver loses nothing silently.
LEMMA DeliverWhole == ASSUME Types, Wired, Stocked, Whole, NEW c \in Conns, Deliver(c) PROVE Whole'
<1>1. PICK m \in WireMsg :
          /\ wire[c] # <<>> /\ m = wire[c][1] /\ wire'[c] = Tail(wire[c])
          /\ client'.got = (IF m.num > client.got THEN m.num ELSE client.got)
          /\ client'.session = (IF m.kind = "resumed" THEN c ELSE client.session)
          /\ received' = (IF m.kind = "reliable" THEN received \cup {m.num} ELSE received)
  BY DeliverTypes, SMTT(30)
<1>2. (\A d \in Conns \ {c} : wire'[d] = wire[d]) /\ UNCHANGED <<worker, open, stream, retained, reliable, refused>>
  BY DeliverTypes DEF Deliver, server
<1>3. PICK q \in Seq(WireMsg) : q = wire[c] BY TypesEasy
<1>4. c \in open /\ c = client.conn /\ stream.sid = c BY <1>1, CarriesMessages
<1>5. \A d \in Conns \ {c} : wire[d] = <<>> BY <1>4, CarriesMessages
<1>6. open = {c} BY <1>4 DEF Wired, OneOpen
<1>7. q # <<>> /\ m = q[1] /\ client.got \in Nat /\ m.num \in Nat BY <1>1, <1>3, TypesEasy DEF WireMsg
<1>8. Len(q) \in Nat /\ Len(q) > 0 /\ Len(Tail(q)) = Len(q) - 1 /\ \A i \in 1..(Len(q) - 1) : Tail(q)[i] = q[i + 1]
  BY <1>7, HeadTailProperties
<1>9. /\ Answers(Tail(q), client'.got)
      /\ m.kind = "resumed" => m.num > client.got /\ Rises(Tail(q), 0, m.num)
  <2>1. Answers(q, client.got) BY <1>3 DEF Whole, Answered
  <2>2. client'.got = (IF q[1].num > client.got THEN q[1].num ELSE client.got) BY <1>1, <1>7
  <2>3. PICK h : h = client'.got OBVIOUS
  <2>4. /\ Answers(Tail(q), h)
        /\ q[1].kind = "resumed" => q[1].num > client.got /\ Rises(Tail(q), 0, q[1].num)
    BY <1>7, <2>1, <2>2, <2>3, AnswersTail
  <2> QED BY <1>7, <2>3, <2>4
<1>10. client.session = c => m.num > client.got /\ Rises(Tail(q), 0, m.num) BY <1>3, <1>7, RisesFirst DEF Whole, Answered
<1>11. ASSUME client'.session = c PROVE m.num > client.got /\ Rises(Tail(q), 0, m.num) /\ client'.got = m.num
  BY <1>1, <1>9, <1>10, <1>11
<1>12. Answered'
  <2>1. \A d \in Conns \ {c} : Rises(wire'[d], 0, client'.got) /\ Answers(wire'[d], client'.got)
    BY <1>2, <1>5, NothingRises, NothingAnswers
  <2> QED BY <1>1, <1>3, <1>9, <1>11, <2>1 DEF Answered
<1>13. ASSUME NEW n \in reliable, Keeps(q, n) PROVE n \in received' \/ Keeps(Tail(q), n)
  <2>1. PICK i \in 1..Len(q) : q[i].num = n BY <1>13 DEF Keeps
  <2>2. CASE i = 1
    <3>1. m.kind = "reliable"
      <4>1. 1 \in 1..Len(q) /\ m.num \in reliable BY <1>7, <1>8, <2>1, <2>2
      <4>2. q[1].kind = "reliable" <=> q[1].num \in reliable BY <1>3, <4>1 DEF Stocked, Carried, OnWire
      <4> QED BY <1>7, <4>1, <4>2
    <3> QED BY <1>1, <1>7, <2>1, <2>2, <3>1
  <2>3. CASE i # 1
    <3>1. i - 1 \in 1..(Len(q) - 1) /\ (i - 1) + 1 = i BY <1>8, <2>3
    <3>2. i - 1 \in 1..Len(Tail(q)) /\ Tail(q)[i - 1] = q[i] BY <1>8, <3>1
    <3> QED BY <2>1, <3>2 DEF Keeps
  <2> QED BY <2>2, <2>3
<1>14. received \subseteq received' BY <1>1
<1>15. ASSUME retained, NEW n \in reliable
       PROVE  n \in received' \/ n \in refused \/ Keeps(Tail(q), n) \/ Keeps(worker[c].replay, n)
  <2>1. Arrives(c, n) BY <1>4, <1>15 DEF Whole, Delivers
  <2> QED BY <1>3, <1>13, <1>14, <2>1 DEF Arrives
<1>16. Delivers' BY <1>1, <1>2, <1>3, <1>6, <1>15 DEF Delivers, Arrives
<1>17. Confirmed'
  <2> SUFFICES ASSUME retained, client'.session = c, NEW n \in reliable, n <= client'.got PROVE n \in received' \/ n \in refused
    BY <1>2, <1>4 DEF Confirmed
  <2>1. Rises(Tail(q), 0, m.num) /\ client'.got = m.num BY <1>11
  <2>2. ~Keeps(Tail(q), n)
    <3> SUFFICES ASSUME NEW i \in 1..Len(Tail(q)), Tail(q)[i].num = n PROVE FALSE BY DEF Keeps
    <3>1. i \in (0 + 1)..Len(Tail(q)) OBVIOUS
    <3>2. n > m.num BY <2>1, <3>1 DEF Rises
    <3>3. n \in Nat BY TypesEasy
    <3> QED BY <1>7, <2>1, <3>2, <3>3
  <2>3. worker[c].pc # "replaying"
    <3>1. CASE client.session = c BY <3>1 DEF Wired, Replaying
    <3>2. CASE m.kind = "resumed"
      <4>1. 1 \in 1..Len(q) BY <1>8
      <4>2. ~NoAnswer(wire[c]) BY <1>3, <1>7, <3>2, <4>1 DEF NoAnswer
      <4> QED BY <4>2 DEF Wired, Replaying
    <3> QED BY <1>1, <3>1, <3>2
  <2>4. worker[c].replay = <<>> BY <2>3 DEF Wired, Replaying
  <2>5. ~Keeps(worker[c].replay, n)
    <3>1. Len(<<>>) = 0 /\ 1..0 = {} OBVIOUS
    <3> QED BY <2>4, <3>1 DEF Keeps
  <2> QED BY <1>15, <2>2, <2>5
<1> QED BY <1>12, <1>16, <1>17 DEF Whole

\* At the start.
LEMMA InitWhole == ASSUME Init PROVE Whole
<1>1. (\A c \in Conns : wire[c] = <<>>) /\ reliable = {} BY DEF Init
<1>2. Answered BY <1>1, NothingRises, NothingAnswers DEF Answered
<1> QED BY <1>1, <1>2 DEF Whole, Delivers, Confirmed

\* Every step.
LEMMA NextWhole == ASSUME MaxSends < SeqMod \div 2, Types, Wired, Stocked, Whole, [Next]_vars PROVE Whole'
<1>1. CASE Tick \/ PruneExpired \/ UNCHANGED vars
  <2>1. UNCHANGED <<stream, reliable, refused, received, client, wire, worker, open>> /\ (retained' => retained)
    BY <1>1 DEF Tick, PruneExpired, server, vars
  <2> QED BY <2>1, WholeKept
<1>3. CASE PushMail BY <1>3, PushMailWhole
<1>4. ASSUME NEW c \in Conns, Break(c) PROVE Whole' BY <1>4, BreakWhole
<1>5. ASSUME NEW c \in Conns, Disconnected(c) PROVE Whole' BY <1>5, DisconnectedWhole
<1>6. ASSUME NEW c \in Conns, Deliver(c) PROVE Whole' BY <1>6, DeliverWhole
<1>7. ASSUME NEW c \in Conns, Respond(c) PROVE Whole' BY <1>7, RespondWhole
<1>8. ASSUME NEW c \in Conns, CompleteReconnect(c) PROVE Whole' BY <1>8, CompleteReconnectWhole
<1>9. ASSUME NEW c \in Conns, ReconnectFails(c) \/ \E num \in ClientNums : RejectFrame(c, num) PROVE Whole'
  <2>1. Close(c) /\ UNCHANGED <<client, received, refused, reliable, retained, stream>>
    BY <1>9 DEF ReconnectFails, RejectFrame, server
  <2> QED BY <2>1, CloseWhole
<1>10. ASSUME NEW c \in Conns, Replay(c) PROVE Whole' BY <1>10, ReplayWhole
<1>11. ASSUME NEW c \in Conns, KickLocal(c) PROVE Whole' BY <1>11, KickLocalWhole
<1>12. ASSUME NEW c \in Conns, NEW num \in ClientNums, AuthorizeReconnect(c, num) PROVE Whole' BY <1>12, AuthorizeReconnectWhole
<1>13. ASSUME NEW c \in Conns, NEW num \in ClientNums, NEW ack \in Acks, Request(c, num, ack) PROVE Whole' BY <1>13, RequestWhole
<1>14. ASSUME NEW c \in Conns, NEW num \in ClientNums, NEW ack \in Acks, NEW ping \in BOOLEAN, Acknowledge(c, num, ack, ping)
       PROVE  Whole'
  BY <1>14, AcknowledgeWhole
<1> QED BY <1>1, <1>3, <1>4, <1>5, <1>6, <1>7, <1>8, <1>9, <1>10, <1>11, <1>12, <1>13, <1>14 DEF Next

\* In a stream of fewer than SeqMod \div 2 messages a client in the stream never passes a
\* reliable message silently: it has received the message, or the message is under way, or the
\* write queue refused it.
THEOREM NeverSilentlyLost == ASSUME MaxSends < SeqMod \div 2 PROVE Spec => []NoSilentLoss
<1>1. Init => Types /\ Wired /\ Stocked /\ Whole BY InitTypes, InitWired, InitStocked, InitWhole
<1>2. Types /\ Wired /\ Stocked /\ Whole /\ [Next]_vars => Types' /\ Wired' /\ Stocked' /\ Whole'
  BY NextTypes, NextWired, NextStocked, NextWhole
<1>3. Types /\ Whole => NoSilentLoss
  <2> SUFFICES ASSUME Types, Whole, InStream, NEW n \in reliable, n <= client.got PROVE n \in received \cup UnderWay \cup refused
    BY DEF NoSilentLoss
  <2>1. CASE retained /\ client.session = stream.sid
    <3>1. n \in received \/ n \in refused BY <2>1 DEF Whole, Confirmed
    <3> QED BY <3>1
  <2>2. CASE retained /\ client.conn = stream.sid /\ client.conn \in open
    <3>1. PICK c \in Conns : c = client.conn BY TypesEasy
    <3>2. Arrives(c, n) BY <2>2, <3>1 DEF Whole, Delivers
    <3>3. DOMAIN wire[c] = 1..Len(wire[c]) /\ DOMAIN worker[c].replay = 1..Len(worker[c].replay)
      <4>1. PICK q \in Seq(WireMsg) : q = wire[c] BY TypesEasy
      <4>2. PICK w \in WorkerRec : w = worker[c] BY TypesEasy
      <4>3. PICK r \in Seq(OutboxMsg) : r = w.replay BY DEF WorkerRec
      <4>4. DOMAIN q = 1..Len(q) /\ DOMAIN r = 1..Len(r) OBVIOUS
      <4> QED BY <4>1, <4>2, <4>3, <4>4
    <3>4. Keeps(wire[c], n) \/ Keeps(worker[c].replay, n) => n \in UnderWay BY <3>1, <3>3 DEF Keeps, UnderWay
    <3> QED BY <3>2, <3>4 DEF Arrives
  <2> QED BY <2>1, <2>2 DEF InStream
<1> QED BY <1>1, <1>2, <1>3, PTL DEF Spec
=============================================================================
