---------------------------- MODULE ClientStream ----------------------------
(***************************************************************************)
(* The retained client stream of a logged-in player on one Gate            *)
(* (service/gate/src/session.rs, driven by the handlers of gateway.rs):    *)
(* wrapping u32 sequence numbers in both directions, the bounded outbox    *)
(* with cumulative acknowledgement, reconnect in two critical sections     *)
(* around the Logic RPC, replay, and the request and reconnect limits.     *)
(*                                                                         *)
(* The player logged in on connection 0.  Connections deliver in order and *)
(* may break at any moment, losing what is still on the wire.  The client  *)
(* is outside the repository: it acknowledges the newest message it has    *)
(* received and never uses sequence 0 to reconnect.  Every message has an  *)
(* absolute number next to its wire sequence, which is that number modulo  *)
(* SeqMod; the program only sees the latter.                               *)
(***************************************************************************)
EXTENDS Integers, Sequences, FiniteSets

CONSTANTS
    SeqMod,                \* 2^32 in the code
    StartSeq,              \* messages numbered up to here are acknowledged at the start
    OutboxCap,             \* SessionConfig::outbox_messages
    ResumeTtl,             \* SessionConfig::resume_ttl
    ReconnectTotal, ReconnectWindow, ReconnectWindowCount,
    RequestWindow, RequestWindowCount, BurstWindow, BurstCount,
    Pushes,                \* does Public push mail to the player?
    Backpressure,          \* may a connection's write queue refuse a message?
    MaxTime, MaxSends, MaxFrames, MaxConns   \* bounds of the instance

ASSUME StreamConfig ==
    /\ SeqMod \in Nat /\ SeqMod > 1 /\ SeqMod % 2 = 0 /\ StartSeq \in Nat
    /\ {OutboxCap, ResumeTtl, ReconnectTotal, ReconnectWindow, ReconnectWindowCount, RequestWindow,
        RequestWindowCount, BurstWindow, BurstCount} \subseteq Nat \ {0}
    /\ ReconnectWindowCount <= ReconnectTotal /\ BurstCount <= RequestWindowCount
    /\ {Pushes, Backpressure} \subseteq BOOLEAN
    /\ {MaxTime, MaxSends, MaxFrames, MaxConns} \subseteq Nat

Conns == 0..MaxConns
NoSeq == -1        \* dropped_through: None
Online == -1       \* disconnected_at: None

VARIABLES
    now,        \* the clock
    stream,     \* the ClientSession
    retained,   \* is the stream still in the players map?
    worker,     \* the task that handles the frames of a connection
    open,       \* connections that are not closed
    wire,       \* messages sent on a connection and not received yet
    sent,       \* number of the last message sent to the client
    reliable,   \* numbers of the messages that went through the outbox
    refused,    \* of those, the ones that the write queue refused (history)
    client,     \* the client: connection, session it knows, last numbers
    received,   \* numbers of the reliable messages the client got
    accepted,   \* requests Gate let through, in order
    resumes     \* times of the reconnects Gate authorized

vars == <<now, stream, retained, worker, open, wire, sent, reliable, refused, client, received, accepted, resumes>>
server == <<stream, retained, sent, reliable, refused>>

OutboxMsg == [seq : 0..(SeqMod - 1), num : Nat, at : Nat]

TypeOK ==
    /\ now \in 0..MaxTime /\ retained \in BOOLEAN
    /\ stream.sid \in Conns /\ stream.active \in BOOLEAN
    /\ stream.serverSeq \in 0..(SeqMod - 1) /\ stream.clientSeq \in 0..(SeqMod - 1)
    /\ stream.outbox \in Seq(OutboxMsg) /\ Len(stream.outbox) <= OutboxCap
    /\ stream.dropped \in {NoSeq} \cup 0..(SeqMod - 1)
    /\ stream.offAt \in {Online} \cup 0..MaxTime
    /\ stream.reconnectCount \in 0..ReconnectTotal
    /\ Len(stream.reconnectTimes) <= ReconnectWindowCount
    /\ Len(stream.requestTimes) <= RequestWindowCount
    /\ \A c \in Conns : worker[c].pc \in {"none", "idle", "responding", "authorized", "replaying", "closed"}
    /\ open \subseteq Conns
    /\ \A c \in Conns : wire[c] \in Seq([num : Nat, kind : {"reliable", "control", "resumed"}])
    /\ sent \in Nat /\ reliable \subseteq Nat /\ refused \subseteq reliable /\ received \subseteq Nat
    /\ client.conn \in Conns /\ client.session \in Conns /\ client.got \in Nat /\ client.num \in Nat

Fresh(pc) == [pc |-> pc, prev |-> 0, num |-> 0, ack |-> 0, replay |-> <<>>]

\* ClientSession::new, and the LoginRsp received.
Init ==
    /\ now = 0 /\ retained = TRUE
    /\ stream = [sid |-> 0, active |-> TRUE, serverSeq |-> StartSeq % SeqMod,
                 clientSeq |-> StartSeq % SeqMod, outbox |-> <<>>, dropped |-> NoSeq, offAt |-> Online,
                 reconnectCount |-> 0, reconnectTimes |-> <<>>, requestTimes |-> <<>>]
    /\ worker = [c \in Conns |-> Fresh(IF c = 0 THEN "idle" ELSE "none")]
    /\ open = {0} /\ wire = [c \in Conns |-> <<>>]
    /\ sent = StartSeq /\ reliable = {} /\ refused = {} /\ received = {}
    /\ client = [conn |-> 0, session |-> 0, got |-> StartSeq, num |-> StartSeq]
    /\ accepted = <<>> /\ resumes = <<>>

-----------------------------------------------------------------------------
(* Methods of ClientSession, on a stream s.                                  *)

\* Mutant: a repeated sequence counts as newer.
SeqAfterOrEqual(value, previous) == (value - previous) % SeqMod < SeqMod \div 2

\* seq_after, with wrapping_sub
SeqAfter(value, previous) ==
    LET distance == (value - previous) % SeqMod IN distance # 0 /\ distance < SeqMod \div 2

\* seq_at_or_after
SeqAtOrAfter(value, previous) == value = previous \/ SeqAfter(value, previous)

\* How many elements at the front of q satisfy P, up to the first that does not.
Leading(q, P(_)) == CHOOSE k \in 0..Len(q) : /\ \A i \in 1..k : P(q[i])
                                             /\ k < Len(q) => ~P(q[k + 1])
From(q, k) == SubSeq(q, k + 1, Len(q))

\* prune_outbox
PruneOutbox(s) ==
    LET k == Leading(s.outbox, LAMBDA m : now - m.at > ResumeTtl)
    IN IF k = 0 THEN s ELSE [s EXCEPT !.outbox = From(@, k), !.dropped = s.outbox[k].seq]

\* Mutant: the first message that is not acknowledged goes too.
AcknowledgeOneMore(s, ack) ==
    [s EXCEPT !.outbox = From(@, Leading(@, LAMBDA m : ~SeqAfter(m.seq, ack + 1)))]

\* acknowledge_outbox
AcknowledgeOutbox(s, ack) ==
    [s EXCEPT !.outbox = From(@, Leading(@, LAMBDA m : ~SeqAfter(m.seq, ack)))]

\* The dropped_through test of both reconnect methods.
OutboxGap(s, ack) == s.dropped # NoSeq /\ ~SeqAtOrAfter(ack, s.dropped)

\* Mutant: the outbox grows one over its capacity.
FullOneLate(outbox) == Len(outbox) > OutboxCap

OutboxFull(outbox) == Len(outbox) = OutboxCap

\* encode of message number num: the next sequence; an outbox message is
\* retained, at capacity in place of the oldest.
Encode(s, num, kind) ==
    LET seq == (s.serverSeq + 1) % SeqMod
        t == PruneOutbox([s EXCEPT !.serverSeq = seq])
        full == OutboxFull(t.outbox)
        entry == [seq |-> seq, num |-> num, at |-> now]
    IN IF kind # "reliable" THEN [s EXCEPT !.serverSeq = seq]
       ELSE [t EXCEPT !.outbox = Append(IF full THEN Tail(@) ELSE @, entry),
                      !.dropped = IF full THEN t.outbox[1].seq ELSE @]

\* Mutant: a time is forgotten one unit too early.
RecentShort(q, window) == From(q, Leading(q, LAMBDA at : now - at >= window - 1))

\* The part of a deque of times that a sliding window still counts.
Recent(q, window) == From(q, Leading(q, LAMBDA at : now - at >= window))

\* Mutant: the burst limit admits one more.
RateOneMore(times) ==
    /\ Len(times) < RequestWindowCount
    /\ Cardinality({i \in DOMAIN times : now - times[i] < BurstWindow}) <= BurstCount

\* accept_rate: does the request pass, given the pruned request_times?
RatePasses(times) ==
    /\ Len(times) < RequestWindowCount
    /\ Cardinality({i \in DOMAIN times : now - times[i] < BurstWindow}) < BurstCount

\* accept_sequence on a connection that passed its session test
AcceptSequence(s, seq, ack) == AcknowledgeOutbox(PruneOutbox([s EXCEPT !.clientSeq = seq]), ack)

-----------------------------------------------------------------------------
(* Sending: ClientSessions::send to the session of connection c.             *)

Bound(c) == retained /\ stream.sid = c /\ stream.active

\* The message goes to the outbox before the connection takes it; a refusal of
\* the write queue, or a closed connection, is only logged.
SendFrom(s, c, kind) ==
    /\ sent < StartSeq + MaxSends
    /\ sent' = sent + 1
    /\ stream' = Encode(s, sent + 1, kind)
    /\ reliable' = IF kind = "reliable" THEN reliable \cup {sent + 1} ELSE reliable
    /\ \/ c \in open /\ wire' = [wire EXCEPT ![c] = Append(@, [num |-> sent + 1, kind |-> kind])] /\ UNCHANGED refused
       \/ c \notin open /\ UNCHANGED <<wire, refused>>
       \/ c \in open /\ Backpressure /\ refused' = refused \cup ({sent + 1} \cap reliable') /\ UNCHANGED wire

Close(c) ==
    /\ open' = open \ {c}
    /\ wire' = [wire EXCEPT ![c] = <<>>]
    /\ worker' = [worker EXCEPT ![c] = Fresh("closed")]

\* push_mail
PushMail ==
    /\ Pushes /\ retained /\ stream.active
    /\ SendFrom(stream, stream.sid, "reliable")
    /\ UNCHANGED <<now, retained, worker, open, client, received, accepted, resumes>>

-----------------------------------------------------------------------------
(* Frames of a bound connection, handled one after another by its worker.    *)

\* The client uses its next number or repeats its last one, with an
\* acknowledgement that may be older than what it has received since.
ClientNums == {n \in {client.num, client.num + 1} : n <= StartSeq + MaxFrames}
Acks == {n \in StartSeq..client.got : client.got - n <= 1}

CanSend(c) == worker[c].pc = "idle" /\ c = client.conn /\ c \in open

\* A frame of another session, or one whose sequence is not newer, closes the
\* connection and changes nothing else.
RejectFrame(c, num) ==
    /\ CanSend(c)
    /\ ~Bound(c) \/ ~SeqAfter(num % SeqMod, stream.clientSeq)
    /\ Close(c)
    /\ UNCHANGED <<now, server, client, received, accepted, resumes>>

\* handle_ack and handle_ping: no rate limit; a ping is answered.
Acknowledge(c, num, ack, ping) ==
    LET s == AcceptSequence(stream, num % SeqMod, ack % SeqMod) IN
    /\ CanSend(c) /\ Bound(c) /\ SeqAfter(num % SeqMod, stream.clientSeq)
    /\ IF ping THEN SendFrom(s, c, "control")
       ELSE stream' = s /\ UNCHANGED <<sent, reliable, refused, wire>>
    /\ client' = [client EXCEPT !.num = num]
    /\ UNCHANGED <<now, retained, worker, open, received, accepted, resumes>>

\* forward up to the RPC.  A rate-limited request has consumed its sequence and
\* is answered at once.
Request(c, num, ack) ==
    LET a == AcceptSequence(stream, num % SeqMod, ack % SeqMod)
        times == Recent(a.requestTimes, RequestWindow)
        s == [a EXCEPT !.requestTimes = IF RatePasses(times) THEN Append(times, now) ELSE times]
    IN
    /\ CanSend(c) /\ Bound(c) /\ SeqAfter(num % SeqMod, stream.clientSeq)
    /\ client' = [client EXCEPT !.num = num]
    /\ IF RatePasses(times)
       THEN /\ stream' = s
            /\ accepted' = Append(accepted, [num |-> num, at |-> now])
            /\ worker' = [worker EXCEPT ![c].pc = "responding"]
            /\ UNCHANGED <<sent, reliable, refused, wire>>
       ELSE /\ SendFrom(s, c, "reliable")
            /\ UNCHANGED <<accepted, worker>>
    /\ UNCHANGED <<now, retained, open, received, resumes>>

\* forward after the RPC: the response goes to the session of this connection,
\* or nowhere when the stream has moved on.
Respond(c) ==
    /\ worker[c].pc = "responding"
    /\ worker' = [worker EXCEPT ![c].pc = "idle"]
    /\ IF Bound(c) THEN SendFrom(stream, c, "reliable")
       ELSE UNCHANGED <<stream, sent, reliable, refused, wire>>
    /\ UNCHANGED <<now, retained, open, client, received, accepted, resumes>>

-----------------------------------------------------------------------------
(* Reconnect *)

\* Why authorize_reconnect refuses before it looks at the outbox.
Refused(prev, num) ==
    \/ ~retained \/ stream.sid # prev
    \/ ~SeqAfter(num % SeqMod, stream.clientSeq)
    \/ stream.offAt # Online /\ now - stream.offAt > ResumeTtl

\* The client opens connection c and presents the session it knows; on success
\* the worker awaits the Logic RPC.  A refusal keeps the pruning done so far.
AuthorizeReconnect(c, num) ==
    LET prev == client.session
        pruned == PruneOutbox(stream)
        times == Recent(pruned.reconnectTimes, ReconnectWindow)
        gap == OutboxGap(pruned, client.got % SeqMod)
        spent == pruned.reconnectCount >= ReconnectTotal
        ok == ~Refused(prev, num) /\ ~gap /\ ~spent /\ Len(times) < ReconnectWindowCount
    IN
    /\ worker[c].pc = "none" /\ c = client.conn + 1 /\ client.conn \notin open
    /\ num % SeqMod # 0
    /\ stream' = CASE ok -> [pruned EXCEPT !.reconnectCount = @ + 1, !.reconnectTimes = Append(times, now)]
                   [] Refused(prev, num) -> stream
                   [] gap \/ spent -> pruned
                   [] OTHER -> [pruned EXCEPT !.reconnectTimes = times]
    /\ resumes' = IF ok THEN Append(resumes, now) ELSE resumes
    /\ open' = IF ok THEN open \cup {c} ELSE open
    /\ worker' = [worker EXCEPT ![c] =
                    IF ok THEN [pc |-> "authorized", prev |-> prev, num |-> num,
                                ack |-> client.got, replay |-> <<>>]
                    ELSE Fresh("closed")]
    /\ client' = [client EXCEPT !.conn = c, !.num = num]
    /\ UNCHANGED <<now, retained, wire, sent, reliable, refused, received, accepted>>

\* Mutant: the outbox gap is not tested again after the RPC.
SkipRecheck(s, w) == retained /\ s.sid = w.prev /\ SeqAfter(w.num % SeqMod, s.clientSeq)

\* complete_reconnect repeats the session, sequence and outbox tests.
MayComplete(s, w) ==
    /\ retained /\ s.sid = w.prev /\ SeqAfter(w.num % SeqMod, s.clientSeq)
    /\ ~OutboxGap(s, w.ack % SeqMod)

\* Mutant: the newest message is replayed first.
NewestFirst(outbox, ack) ==
    LET later == SelectSeq(outbox, LAMBDA m : SeqAfter(m.seq, ack % SeqMod))
    IN [i \in DOMAIN later |-> later[Len(later) + 1 - i]]

\* The messages complete_reconnect replays: those after ack, in the order of the outbox.
ReplayOf(outbox, ack) ==
    LET later == {i \in DOMAIN outbox : SeqAfter(outbox[i].seq, ack % SeqMod)}
        Nth(j) == CHOOSE i \in later : Cardinality({h \in later : h <= i}) = j
    IN [j \in 1..Cardinality(later) |-> outbox[Nth(j)]]

\* After the RPC: the stream moves to c and its replay is captured.
CompleteReconnect(c) ==
    LET w == worker[c]
        pruned == PruneOutbox(stream)
        acked == AcknowledgeOutbox(pruned, w.ack % SeqMod)
        ok == c \in open /\ MayComplete(pruned, w)
    IN
    /\ w.pc = "authorized"
    /\ IF ok THEN /\ stream' = [acked EXCEPT !.active = TRUE, !.sid = c, !.clientSeq = w.num % SeqMod,
                                             !.offAt = Online]
                  /\ worker' = [worker EXCEPT ![c].pc = "replaying",
                                                 ![c].replay = ReplayOf(acked.outbox, w.ack)]
                  /\ UNCHANGED <<open, wire>>
             ELSE /\ stream' = IF c \in open /\ retained /\ stream.sid = w.prev
                                  /\ SeqAfter(w.num % SeqMod, stream.clientSeq) THEN pruned ELSE stream
                  /\ Close(c)
    /\ UNCHANGED <<now, retained, sent, reliable, refused, client, received, accepted, resumes>>

\* The Logic RPC fails or refuses.
ReconnectFails(c) ==
    /\ worker[c].pc = "authorized"
    /\ Close(c)
    /\ UNCHANGED <<now, server, client, received, accepted, resumes>>

\* save_online has succeeded: the replay, then ReconnectRsp.
Replay(c) ==
    LET copies == [i \in DOMAIN worker[c].replay |-> [num |-> worker[c].replay[i].num, kind |-> "reliable"]]
        rsp == <<[num |-> sent + 1, kind |-> "resumed"]>>
        bound == Bound(c)
    IN
    /\ worker[c].pc = "replaying" /\ c \in open /\ sent < StartSeq + MaxSends
    /\ stream' = IF bound THEN Encode(stream, sent + 1, "control") ELSE stream
    /\ sent' = IF bound THEN sent + 1 ELSE sent
    /\ wire' = [wire EXCEPT ![c] = @ \o copies \o (IF bound THEN rsp ELSE <<>>)]
    /\ worker' = [worker EXCEPT ![c] = Fresh("idle")]
    /\ UNCHANGED <<now, retained, open, reliable, refused, client, received, accepted, resumes>>

\* save_online fails, or the write queue refuses a replayed message: kick_local.
KickLocal(c) ==
    /\ worker[c].pc = "replaying"
    /\ IF retained /\ stream.sid = c
       THEN retained' = FALSE /\ stream' = [stream EXCEPT !.active = FALSE] /\ Close(c)
       ELSE worker' = [worker EXCEPT ![c] = Fresh("idle")] /\ UNCHANGED <<retained, stream, open, wire>>
    /\ UNCHANGED <<now, sent, reliable, refused, client, received, accepted, resumes>>

-----------------------------------------------------------------------------
(* Connections, clock and client                                             *)

Tick ==
    /\ now < MaxTime /\ now' = now + 1
    /\ UNCHANGED <<server, worker, open, wire, client, received, accepted, resumes>>

\* The connection breaks; the wire's content is lost.
Break(c) ==
    /\ c \in open
    /\ open' = open \ {c} /\ wire' = [wire EXCEPT ![c] = <<>>]
    /\ UNCHANGED <<now, server, worker, client, received, accepted, resumes>>

\* on_disconnected aborts the worker; disconnect marks the stream offline.
Disconnected(c) ==
    /\ c \notin open /\ worker[c].pc # "none" /\ (worker[c].pc # "closed" \/ Bound(c))
    /\ worker' = [worker EXCEPT ![c] = Fresh("closed")]
    /\ stream' = IF Bound(c) THEN [stream EXCEPT !.active = FALSE, !.offAt = now] ELSE stream
    /\ UNCHANGED <<now, retained, open, wire, sent, reliable, refused, client, received, accepted, resumes>>

\* prune_expired
PruneExpired ==
    /\ retained /\ ~stream.active /\ now - stream.offAt > ResumeTtl
    /\ retained' = FALSE
    /\ UNCHANGED <<now, stream, worker, open, wire, sent, reliable, refused, client, received, accepted, resumes>>

Deliver(c) ==
    LET m == Head(wire[c]) IN
    /\ c = client.conn /\ wire[c] # <<>>
    /\ wire' = [wire EXCEPT ![c] = Tail(@)]
    /\ received' = IF m.kind = "reliable" THEN received \cup {m.num} ELSE received
    /\ client' = [client EXCEPT !.got = IF m.num > @ THEN m.num ELSE @,
                                !.session = IF m.kind = "resumed" THEN c ELSE @]
    /\ UNCHANGED <<now, server, worker, open, accepted, resumes>>

Next ==
    \/ Tick \/ PruneExpired \/ PushMail
    \/ \E c \in Conns :
          \/ Break(c) \/ Disconnected(c) \/ Deliver(c) \/ Respond(c)
          \/ CompleteReconnect(c) \/ ReconnectFails(c) \/ Replay(c) \/ KickLocal(c)
          \/ \E num \in ClientNums :
                \/ RejectFrame(c, num) \/ AuthorizeReconnect(c, num)
                \/ \E ack \in Acks :
                      \/ Request(c, num, ack)
                      \/ \E ping \in BOOLEAN : Acknowledge(c, num, ack, ping)

Spec == Init /\ [][Next]_vars

-----------------------------------------------------------------------------
(* Properties *)

\* Numbers that can still reach the client on its connection.
UnderWay == LET c == client.conn IN {wire[c][i].num : i \in DOMAIN wire[c]}
                                    \cup {worker[c].replay[i].num : i \in DOMAIN worker[c].replay}

\* The client is still in the stream: its connection carries it, or it knows
\* the session it needs to resume.
InStream == retained /\ (client.session = stream.sid \/ (client.conn = stream.sid /\ client.conn \in open))

\* An acknowledgement is cumulative, so a client in the stream may only pass a
\* reliable message that it received or is about to: whatever breaks, is evicted
\* or expires, Gate replays the message or refuses to resume the stream.  The
\* only messages that can be passed are those the write queue refused: send
\* keeps the connection, and a later message overtakes them.
NoSilentLoss ==
    InStream => \A n \in reliable : n <= client.got => n \in received \cup UnderWay \cup refused

\* What a client in the stream has not passed yet is not lost either, a refused
\* message included: it is under way, or in the outbox for the next reconnect, or
\* that reconnect will be refused.
StillThere ==
    InStream => \A n \in reliable : n > client.got =>
        \/ n \in UnderWay \/ n \in {stream.outbox[i].num : i \in DOMAIN stream.outbox}
        \/ OutboxGap(stream, client.got % SeqMod)

\* Reliable messages reach the client in their order, across reconnects: "Gate
\* replays only later outbox entries and then continues the same stream".
InOrder == [][\A n \in received' \ received, m \in received : m < n]_vars

\* A client request is let through at most once, in the client's order, across
\* duplicates, reconnects and the wrap of the sequence number.
AcceptedOnce == \A i, j \in DOMAIN accepted : i < j => accepted[i].num < accepted[j].num

InWindow(times, at, window) == {j \in DOMAIN times : times[j] >= at /\ times[j] < at + window}

\* "at most 15 accepted client requests in any 5-second window; at most 8 in any
\* 1-second window": for windows that start anywhere, although the deque forgets.
RequestLimits ==
    LET times == [i \in DOMAIN accepted |-> accepted[i].at] IN
    \A at \in 0..now : /\ Cardinality(InWindow(times, at, RequestWindow)) <= RequestWindowCount
                       /\ Cardinality(InWindow(times, at, BurstWindow)) <= BurstCount

\* At most ReconnectTotal reconnects of a stream and ReconnectWindowCount in any
\* window, whatever becomes of the reconnects after their authorization.
ReconnectLimits ==
    /\ Len(resumes) <= ReconnectTotal
    /\ \A at \in 0..now : Cardinality(InWindow(resumes, at, ReconnectWindow)) <= ReconnectWindowCount
=============================================================================
