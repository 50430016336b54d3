---------------------------- MODULE LinkedLists -----------------------------
(***************************************************************************)
(* The intrusive doubly linked lists of the C daemon (gvar/geostreamd/     *)
(* ll.c).  The links are in the items themselves, so one item has one pair *)
(* of links, whatever list it is meant to be on.  Every operation holds    *)
(* the write lock of its list and is one step; ll_empty takes no lock.     *)
(*                                                                         *)
(* A list memory m has the head and tail of each list and the prev and     *)
(* next of each item.                                                      *)
(***************************************************************************)
EXTENDS Naturals, Sequences

CONSTANT NULL

Memory(Items, Lists) ==
  [head : [Lists -> Items \cup {NULL}], tail : [Lists -> Items \cup {NULL}],
   prev : [Items -> Items \cup {NULL}], next : [Items -> Items \cup {NULL}]]

Empty(m, l) == m.head[l] = NULL

\* The first item, m.head[l], is taken off a list that is not empty.
Shift(m, l) ==
  LET h == m.head[l]
      n == m.next[h]
  IN [head |-> [m.head EXCEPT ![l] = n],
      tail |-> IF m.tail[l] = h THEN [m.tail EXCEPT ![l] = NULL] ELSE m.tail,
      prev |-> [x \in DOMAIN m.prev |-> IF x = h \/ x = n THEN NULL ELSE m.prev[x]],
      next |-> [m.next EXCEPT ![h] = NULL]]

\* Item c becomes the last one.
Link(m, l, c) ==
  LET t == m.tail[l]
  IN [head |-> IF t = NULL THEN [m.head EXCEPT ![l] = c] ELSE m.head,
      tail |-> [m.tail EXCEPT ![l] = c],
      prev |-> [m.prev EXCEPT ![c] = t],
      next |-> [x \in DOMAIN m.next |->
                  IF x = t THEN c ELSE IF x = c THEN NULL ELSE m.next[x]]]

\* Wrong on purpose: the tail is left alone.
UnlinkKeepsTail(m, l, c) ==
  LET p == m.prev[c]
      n == m.next[c]
  IN [head |-> IF m.head[l] = c THEN [m.head EXCEPT ![l] = n] ELSE m.head,
      tail |-> m.tail,
      prev |-> [x \in DOMAIN m.prev |->
                  IF x = c THEN NULL ELSE IF x = n THEN p ELSE m.prev[x]],
      next |-> [x \in DOMAIN m.next |->
                  IF x = c THEN NULL ELSE IF x = p THEN n ELSE m.next[x]]]

\* Item c is taken out of the chain it is in; only the ends of l are looked at.
Unlink(m, l, c) ==
  LET p == m.prev[c]
      n == m.next[c]
  IN [head |-> IF m.head[l] = c THEN [m.head EXCEPT ![l] = n] ELSE m.head,
      tail |-> IF m.tail[l] = c THEN [m.tail EXCEPT ![l] = p] ELSE m.tail,
      prev |-> [x \in DOMAIN m.prev |->
                  IF x = c THEN NULL ELSE IF x = n THEN p ELSE m.prev[x]],
      next |-> [x \in DOMAIN m.next |->
                  IF x = c THEN NULL ELSE IF x = p THEN n ELSE m.next[x]]]

-----------------------------------------------------------------------------
(* What a list memory represents *)

Distinct(q) == \A j, k \in 1 .. Len(q) : q[j] = q[k] => j = k

In(c, q) == \E k \in 1 .. Len(q) : q[k] = c

\* List l holds the items of q in their order, its links and ends agree.
IsList(m, l, q) ==
  /\ m.head[l] = IF q = <<>> THEN NULL ELSE q[1]
  /\ m.tail[l] = IF q = <<>> THEN NULL ELSE q[Len(q)]
  /\ \A k \in 1 .. Len(q) :
       /\ m.prev[q[k]] = IF k = 1 THEN NULL ELSE q[k - 1]
       /\ m.next[q[k]] = IF k = Len(q) THEN NULL ELSE q[k + 1]
=============================================================================
