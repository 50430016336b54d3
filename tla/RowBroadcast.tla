---------------------------- MODULE RowBroadcast ----------------------------
(***************************************************************************)
(* What the row fifo promises to the handlers of mod_geostream: every      *)
(* subscribed reader gets every row published since it joined, in order    *)
(* and once, until it has finished.  A reader that is Window rows behind   *)
(* may lose the stream, and only such a reader; one that is further behind *)
(* does not exist.                                                         *)
(***************************************************************************)
EXTENDS Integers, Sequences

CONSTANTS
  Readers,   \* who may subscribe
  Rows,      \* what is published
  Window     \* rows kept for the slowest reader

VARIABLES
  active,    \* readers the stream is kept for
  pending,   \* rows each active reader has still to take
  leaving    \* active readers that have finished

bvars == <<active, pending, leaving>>

BInit ==
  /\ active = {}
  /\ pending = [c \in Readers |-> <<>>]
  /\ leaving = {}

\* A row goes to every active reader, none of which is Window rows behind.
Publish(r) ==
  /\ \A c \in active : Len(pending[c]) < Window
  /\ pending' = [c \in Readers |-> IF c \in active THEN Append(pending[c], r)
                                                   ELSE <<>>]
  /\ UNCHANGED <<active, leaving>>

\* A reader joins with nothing to take: it sees the rows to come.
Join(c) ==
  /\ c \notin active
  /\ active' = active \cup {c}
  /\ UNCHANGED <<pending, leaving>>

Take(c) ==
  /\ c \in active \ leaving
  /\ pending[c] # <<>>
  /\ pending' = [pending EXCEPT ![c] = Tail(@)]
  /\ UNCHANGED <<active, leaving>>

\* A reader as far behind as the window is wide loses the stream.
Lose(c) ==
  /\ c \in active
  /\ Len(pending[c]) = Window
  /\ active' = active \ {c}
  /\ pending' = [pending EXCEPT ![c] = <<>>]
  /\ leaving' = leaving \ {c}

\* A reader takes no more rows, though some may still come, and then leaves.
Finish(c) ==
  /\ c \in active \ leaving
  /\ leaving' = leaving \cup {c}
  /\ UNCHANGED <<active, pending>>

Leave(c) ==
  /\ c \in leaving
  /\ active' = active \ {c}
  /\ pending' = [pending EXCEPT ![c] = <<>>]
  /\ leaving' = leaving \ {c}

BNext ==
  \/ \E r \in Rows : Publish(r)
  \/ \E c \in Readers : Join(c) \/ Take(c) \/ Lose(c) \/ Finish(c) \/ Leave(c)

BSpec == BInit /\ [][BNext]_bvars
=============================================================================
