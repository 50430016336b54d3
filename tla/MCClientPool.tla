---------------------------- MODULE MCClientPool ----------------------------
(***************************************************************************)
(* Values for the model checker: three clients, so that lists have a first *)
(* item, a last one and one between, in every configuration or in one.     *)
(***************************************************************************)
EXTENDS ClientPool, TLC

CONSTANTS c1, c2, c3

MCClients == {c1, c2, c3}
MCTwoClients == {c1, c2}
\* With request style THREADS the write style is not looked at.
MCStyles == {<<"EVENTS", "EVENTS">>, <<"EVENTS", "THREADS">>, <<"THREADS", "EVENTS">>}
MCWriteThreads == {<<"EVENTS", "THREADS">>}
MCThreads == {<<"THREADS", "EVENTS">>}
MCSymmetry == Permutations(MCClients)

\* ListsSound says nothing about what comes after an early release.
UntilEarly == ~early
=============================================================================
