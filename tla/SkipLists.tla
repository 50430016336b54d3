----------------------------- MODULE SkipLists -----------------------------
(***************************************************************************)
(* The skip lists of the dynamic cascade tree (dct/skip_list/SkipList.h,   *)
(* SkipNode.h), as the tree uses them: a node has a coordinate as its key  *)
(* and the ids of some regions as its object.                              *)
(*                                                                         *)
(* The node of a key is named by the key.  Only the order of coordinates   *)
(* matters: they are numbers between the head, which has no key, and the   *)
(* tail, whose key is maxDimValue.                                         *)
(***************************************************************************)
EXTENDS Integers

CONSTANTS
  MaxKey,     \* maxDimValue
  MaxHeight,  \* skipListMaxHeight
  Height,     \* (a bound) the level that RandomHeight gives the node of a key
  Ids         \* the ids of the regions

Keys   == 1..(MaxKey - 1)
Head   == 0
Tail   == MaxKey
Nodes  == Head..Tail
Nil    == -1          \* no link: the node is not there, or not as high
Levels == 1..MaxHeight

ASSUME SizesAssumption  == MaxKey \in Nat \ {0} /\ MaxHeight \in Nat \ {0}
ASSUME HeightAssumption == Height \in [Keys -> Levels]
ASSUME IdsAssumption    == Ids \subseteq Nat

Lists == [fwd : [Levels -> [Nodes -> Nodes \cup {Nil}]],  \* fwdNodes
          bck : [Levels -> [Nodes -> Nodes \cup {Nil}]],  \* bckNodes
          curHeight : Levels,
          obj : [Keys -> SUBSET Ids]]                     \* empty: there is no node

EmptyList ==
  [fwd |-> [h \in Levels |-> [n \in Nodes |-> IF n = Head THEN Tail ELSE Nil]],
   bck |-> [h \in Levels |-> [n \in Nodes |-> IF n = Tail THEN Head ELSE Nil]],
   curHeight |-> 1,
   obj |-> [k \in Keys |-> {}]]

\* updateVec: where the search for k leaves each level, the last node with a smaller key.
\* An insertion takes the head for the levels above curHeight.
Before(l, k) ==
  [h \in Levels |->
     IF h <= l.curHeight
       THEN CHOOSE n \in Nodes : l.fwd[h][n] # Nil /\ n < k /\ k <= l.fwd[h][n]
       ELSE Head]

\* What retrieve tells: there is a node with this key.
Has(l, k) == l.fwd[1][Before(l, k)[1]] = k

\* insert, of a key that is not there.
Link(l, k) ==
  LET u == Before(l, k)
      next(h) == l.fwd[h][u[h]]
  IN [l EXCEPT
        !.fwd = [h \in Levels |->
                   IF h <= Height[k] THEN [l.fwd[h] EXCEPT ![k] = next(h), ![u[h]] = k]
                   ELSE l.fwd[h]],
        !.bck = [h \in Levels |->
                   IF h <= Height[k] THEN [l.bck[h] EXCEPT ![next(h)] = k, ![k] = u[h]]
                   ELSE l.bck[h]],
        !.curHeight = IF Height[k] > @ THEN Height[k] ELSE @]

\* Wrong on purpose: curHeight goes down by one whatever is left on its level.
UnlinkLower(l, k) ==
  LET u == Before(l, k)
      linked(h) == h <= l.curHeight /\ \A j \in 1..h : l.fwd[j][u[j]] = k
  IN [l EXCEPT
        !.fwd = [h \in Levels |->
                   IF linked(h) THEN [l.fwd[h] EXCEPT ![u[h]] = l.fwd[h][k], ![k] = Nil]
                   ELSE l.fwd[h]],
        !.bck = [h \in Levels |->
                   IF linked(h) THEN [l.bck[h] EXCEPT ![l.fwd[h][k]] = u[h], ![k] = Nil]
                   ELSE l.bck[h]],
        !.curHeight = IF @ > 1 THEN @ - 1 ELSE @]

\* removeWithKey, of a key that is there: it is unlinked from the levels below the first it
\* is not on, and curHeight goes down to the highest level that is left with a node.
Unlink(l, k) ==
  LET u == Before(l, k)
      linked(h) == h <= l.curHeight /\ \A j \in 1..h : l.fwd[j][u[j]] = k
      first(h) == IF linked(h) /\ u[h] = Head THEN l.fwd[h][k] ELSE l.fwd[h][Head]
      used == {h \in 1..l.curHeight : h = 1 \/ first(h) # Tail}
  IN [l EXCEPT
        !.fwd = [h \in Levels |->
                   IF linked(h) THEN [l.fwd[h] EXCEPT ![u[h]] = l.fwd[h][k], ![k] = Nil]
                   ELSE l.fwd[h]],
        !.bck = [h \in Levels |->
                   IF linked(h) THEN [l.bck[h] EXCEPT ![l.fwd[h][k]] = u[h], ![k] = Nil]
                   ELSE l.bck[h]],
        !.curHeight = CHOOSE h \in used : \A j \in used : j <= h]

\* The id i joins the ids of the node of k, which is made if it is not there ...
AddId(l, k, i) ==
  LET with == IF Has(l, k) THEN l ELSE Link(l, k)
  IN [with EXCEPT !.obj[k] = @ \cup {i}]

\* ... and leaves them, and the node is removed when it was the last.
LastId(l, k, i) == Has(l, k) /\ l.obj[k] = {i}
DropId(l, k, i) ==
  LET without == IF LastId(l, k, i) THEN Unlink(l, k) ELSE l
  IN [without EXCEPT !.obj[k] = @ \ {i}]

-----------------------------------------------------------------------------
(* properties *)

\* The nodes of one level with their links.
OnLevel(l, h) == {k \in Keys : l.obj[k] # {} /\ h <= Height[k]}

Chained(fwd, bck, ks) ==
  /\ \A n \in ks \cup {Head} :
       LET m == fwd[n]
       IN /\ m \in ks \cup {Tail} /\ n < m /\ bck[m] = n
          /\ \A k \in ks : k <= n \/ m <= k
  /\ \A n \in Nodes \ (ks \cup {Head}) : fwd[n] = Nil
  /\ \A n \in Nodes \ (ks \cup {Tail}) : bck[n] = Nil

\* On every level the nodes of that height are linked in the order of their keys, both
\* ways, and no level above curHeight has a node.
Sound(l) ==
  /\ \A h \in Levels : Chained(l.fwd[h], l.bck[h], OnLevel(l, h))
  /\ \A h \in Levels : h > l.curHeight => OnLevel(l, h) = {}
=============================================================================
