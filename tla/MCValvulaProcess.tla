--------------------------- MODULE MCValvulaProcess ---------------------------
(* Two files of one module, and a <run> node without its module before it. *)
EXTENDS ValvulaProcess

MCFiles == <<"one", "again">>
MCModName == [f \in {"one", "again"} |-> "a"]
MCRunNodes ==
    << [port |-> "p1", name |-> "b", prio |-> 1], [port |-> "p1", name |-> "a", prio |-> 2] >>
=============================================================================
