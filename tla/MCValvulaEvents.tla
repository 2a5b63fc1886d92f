---------------------------- MODULE MCValvulaEvents ----------------------------
EXTENDS ValvulaEvents

CONSTANTS e1, e2

\* Delays with and without a fraction of a second.
MCDelay == [e \in Events |-> IF e = e1 THEN 3 ELSE 4]

=============================================================================
