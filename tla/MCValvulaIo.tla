------------------------------ MODULE MCValvulaIo ------------------------------
EXTENDS ValvulaIo

\* select and poll hold fewer than there are, so that their limit is met.
MCLimit == [m \in Mechs |-> IF m = "epoll" THEN 3 ELSE 2]

=============================================================================
