---------------------------- MODULE PlayerCalls ----------------------------
(***************************************************************************)
(* What the Logic Runtime promises its callers, without mailboxes, runners,*)
(* caches or save gates: the accepted calls of a player are served one at  *)
(* a time, in the order of acceptance, each is answered exactly once, and  *)
(* the player's stored data only grows, by calls that really ran.          *)
(***************************************************************************)
EXTENDS Sequences

CONSTANTS Gids, Calls

VARIABLES
    target,   \* the player a call addresses
    queue,    \* accepted calls of a player that are not answered yet
    answer,   \* what a call was told
    stored    \* calls whose mutation the database contains, per player

callVars == <<target, queue, answer, stored>>

Init ==
    /\ target \in [Calls -> Gids]
    /\ queue = [g \in Gids |-> <<>>]
    /\ answer = [c \in Calls |-> "none"]
    /\ stored = [g \in Gids |-> {}]

Waiting(c) == \E i \in DOMAIN queue[target[c]] : queue[target[c]][i] = c

Refuse(c) ==
    /\ answer[c] = "none" /\ ~Waiting(c)
    /\ answer' = [answer EXCEPT ![c] = "refused"]
    /\ UNCHANGED <<target, queue, stored>>

Accept(c) ==
    /\ answer[c] = "none" /\ ~Waiting(c)
    /\ queue' = [queue EXCEPT ![target[c]] = Append(@, c)]
    /\ UNCHANGED <<target, answer, stored>>

\* Calls whose mutation may still reach the database.
Unsaved(g) == {c \in Calls : target[c] = g /\ answer[c] = "unsaved"}

\* Only the oldest call of the player is answered.  "stored" promises that the
\* mutation is in the database, "unsaved" that it may be or become so; after
\* "read" and "failed" the call has no effect.
Serve(c) ==
    LET g == target[c] IN
    /\ queue[g] # <<>> /\ c = Head(queue[g])
    /\ queue' = [queue EXCEPT ![g] = Tail(@)]
    /\ \E a \in {"read", "stored", "unsaved", "failed"}, old \in SUBSET Unsaved(g),
          own \in SUBSET {c} :
          /\ a = "stored" => own = {c}
          /\ a \in {"read", "failed"} => own = {}
          /\ answer' = [answer EXCEPT ![c] = a]
          /\ stored' = [stored EXCEPT ![g] = @ \cup old \cup own]
    /\ UNCHANGED target

\* The cache or the shutdown flush writes an unsaved player.
WriteBack(g) ==
    /\ \E old \in SUBSET Unsaved(g) : stored' = [stored EXCEPT ![g] = @ \cup old]
    /\ UNCHANGED <<target, queue, answer>>

Next ==
    \/ \E c \in Calls : Refuse(c) \/ Accept(c) \/ Serve(c)
    \/ \E g \in Gids : WriteBack(g)

Spec == Init /\ [][Next]_callVars
=============================================================================
