--------------------------- MODULE MCNetWorkflow ---------------------------
(***************************************************************************)
(* Values for the model checker: two clients that share a stream, of which *)
(* one leaves; two that leave, with a stream each; one client with two     *)
(* streams, while connections and streams fail.                            *)
(***************************************************************************)
EXTENDS NetWorkflow, TLC

CONSTANTS c1, c2, s1, s2

MCClients == {c1, c2}
MCPlans ==
  {[asks |-> MCClients \X {s1}, leaves |-> {c}, faults |-> 0] : c \in MCClients}
  \cup {[asks |-> {<<c, s1>>} \cup ((MCClients \ {c}) \X {s2}), leaves |-> MCClients,
         faults |-> 0] : c \in MCClients}
  \cup {[asks |-> {c} \X {s1, s2}, leaves |-> {c}, faults |-> 2] : c \in MCClients}
MCSymmetry == Permutations(MCClients)
=============================================================================
