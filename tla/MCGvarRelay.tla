---------------------------- MODULE MCGvarRelay -----------------------------
(***************************************************************************)
(* Values for the model checker.  Block 2 carries rows of two channels, of *)
(* which one is asked for; a fifo of two rows is full after two of its     *)
(* three line documents.  Of two lines the client's box has one.           *)
(***************************************************************************)
EXTENDS GvarRelay

CONSTANT c1

MCClient == {c1}
MCRequested == [c \in {c1} |-> {0, 1}]
MCBlockIds == {0, 2}
MCLines == {1, 2}
MCInBox == [c \in {c1} |-> {1}]
=============================================================================
