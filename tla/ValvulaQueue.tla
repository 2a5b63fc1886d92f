---------------------------- MODULE ValvulaQueue -----------------------------
(***************************************************************************)
(* What a ValvulaAsyncQueue promises to the threads that share it: items   *)
(* come out in the order they went in (a priority item before all others), *)
(* each to one thread, and a thread that waits for an item does not sleep  *)
(* while there is one.                                                     *)
(***************************************************************************)
EXTENDS Naturals, Sequences

CONSTANTS Threads, Items, NULL

VARIABLES
    contents,       \* the items, the newest first
    waiting,        \* the threads that wait for one
    got             \* what the last pop of each thread returned

vars == <<contents, waiting, got>>

Init ==
    /\ contents = <<>>
    /\ waiting = {}
    /\ got = [t \in Threads |-> NULL]

Put(x)      == contents' = <<x>> \o contents      /\ UNCHANGED <<waiting, got>>
PutFirst(x) == contents' = Append(contents, x)    /\ UNCHANGED <<waiting, got>>

Get(t) ==
    /\ contents # <<>>
    /\ got' = [got EXCEPT ![t] = contents[Len(contents)]]
    /\ contents' = SubSeq(contents, 1, Len(contents) - 1)
    /\ waiting' = waiting \ {t}

\* A thread starts to wait, and may give up, only while there is no item.
Wait(t) ==
    /\ contents = <<>>
    /\ waiting' = waiting \cup {t}
    /\ UNCHANGED <<contents, got>>

GiveUp(t) ==
    /\ t \in waiting /\ contents = <<>>
    /\ waiting' = waiting \ {t}
    /\ got' = [got EXCEPT ![t] = NULL]
    /\ UNCHANGED contents

Next ==
    \/ \E x \in Items : Put(x) \/ PutFirst(x)
    \/ \E t \in Threads : Get(t) \/ Wait(t) \/ GiveUp(t)

\* Items do not stay while threads wait.
Delivery == WF_vars(\E t \in waiting : Get(t))

Spec == Init /\ [][Next]_vars /\ Delivery
=============================================================================
