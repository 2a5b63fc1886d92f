--------------------------- MODULE ValvulaService ----------------------------
(***************************************************************************)
(* What libValvula promises to the clients of its port: to one that waits  *)
(* for its replies, as Postfix does, one reply to each request, made from  *)
(* that request, or none and then silence; to one that does not wait, no   *)
(* more replies than it sent requests, each made of its own lines.  Nobody *)
(* is answered unasked or after he has gone.                               *)
(***************************************************************************)
EXTENDS Naturals, Sequences

CONSTANT Clients

VARIABLES
    phase,      \* what each client is doing
    asked,      \* the requests it has sent
    replies     \* the lines each reply was made from

vars == <<phase, asked, replies>>

\* A line is known by its client and by the request it was sent for.
Lines(c, last) == {c} \X (1..last)

Init ==
    /\ phase = [c \in Clients |-> "away"]
    /\ asked = [c \in Clients |-> 0]
    /\ replies = [c \in Clients |-> <<>>]

Goes(c, from, to) == phase[c] = from /\ phase' = [phase EXCEPT ![c] = to]

Come(c) ==
    /\ Goes(c, "away", "writing") \/ Goes(c, "away", "streaming")
    /\ UNCHANGED <<asked, replies>>

Ask(c) ==
    /\ Goes(c, "writing", "waiting") \/ Goes(c, "streaming", "streaming")
    /\ asked' = [asked EXCEPT ![c] = @ + 1]
    /\ UNCHANGED replies

Answer(c) ==
    /\ Goes(c, "waiting", "writing")
    /\ replies' = [replies EXCEPT ![c] = Append(@, {<<c, asked[c]>>})]
    /\ UNCHANGED asked

\* The client may be at its next request already.
AnswerStream(c) ==
    /\ phase[c] = "streaming"
    /\ Len(replies[c]) < asked[c]
    /\ \E made \in SUBSET Lines(c, asked[c] + 1) :
           replies' = [replies EXCEPT ![c] = Append(@, made)]
    /\ UNCHANGED <<phase, asked>>

\* The handlers chose a state that has no reply.
PassOver(c) ==
    /\ Goes(c, "waiting", "unanswered")
    /\ UNCHANGED <<asked, replies>>

Leave(c) ==
    /\ phase[c] \notin {"away", "gone"}
    /\ phase' = [phase EXCEPT ![c] = "gone"]
    /\ UNCHANGED <<asked, replies>>

Next ==
    \E c \in Clients : Come(c) \/ Ask(c) \/ Answer(c) \/ AnswerStream(c) \/ PassOver(c) \/ Leave(c)

Spec == Init /\ [][Next]_vars
=============================================================================
