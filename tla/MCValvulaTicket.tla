--------------------------- MODULE MCValvulaTicket ---------------------------
(* A small instance of ValvulaTicket for TLC: one ticket that all workers want. *)
EXTENDS ValvulaTicket

MCPlan == [t \in Tickets |-> [total |-> 3, day |-> 2, month |-> -1]]
MCActiveIp == [t \in Tickets |-> "active"]
MCMissingIp == [t \in Tickets |-> "missing"]
=============================================================================
