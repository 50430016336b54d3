---------------------------- MODULE MCShmRowFifo ----------------------------
(***************************************************************************)
(* Values for the model checker: a ring of three rows, and fewer reader    *)
(* slots than clients so that newReader also finds every slot used.        *)
(***************************************************************************)
EXTENDS ShmRowFifo, TLC

CONSTANTS c1, c2, c3

MCClients == {c1, c2}
MCThreeClients == {c1, c2, c3}
MCSymmetry == Permutations(MCClients)
MCSymmetryThree == Permutations(MCThreeClients)
=============================================================================
