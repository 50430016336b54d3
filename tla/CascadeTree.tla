---------------------------- MODULE CascadeTree ----------------------------
(***************************************************************************)
(* The dynamic cascade tree (dct/skip_list/DynamicCascadeTree.h,           *)
(* CascadeNode.h), which finds the regions that intersect a window or a    *)
(* point.  There is a node for each dimension and one for the result.  A   *)
(* node lists its regions by their minimum and by their maximum in its     *)
(* dimension; two cursors into these lists stay where the last query has   *)
(* put them, and the regions between the cursors are those of the next     *)
(* node.  A query moves the cursors of one node after the other and takes  *)
(* along what it passes.                                                   *)
(*                                                                         *)
(* A step of a query is one turn of one of its loops.                      *)
(***************************************************************************)
EXTENDS SkipLists

CONSTANTS
  NumOfDims,  \* numOfDims
  Boxes,      \* the regions that may be inserted: their corners
  Windows,    \* the windows that may be asked for; a point is a window of no size
  NULL

Dims == 1..NumOfDims

ASSUME DimsAssumption    == NumOfDims \in Nat \ {0}
ASSUME BoxesAssumption   == Boxes \subseteq [min : [Dims -> Keys], max : [Dims -> Keys]]
ASSUME WindowsAssumption == Windows \subseteq [min : [Dims -> Nodes], max : [Dims -> Nodes]]
ASSUME NullAssumption    == NULL \notin Boxes /\ NULL \notin Windows /\ NULL \notin Nodes

VARIABLES
  regions,           \* id -> the region inserted with it
  minList, maxList,  \* of each dimension's node
  currMaxAtMinList, currMinAtMaxList,
  oldMin, oldMax,    \* NULL: existOldMin and existOldMax are false
  resultList,        \* of the result node
  pc,                \* the loop of performWindowQuery
  query,             \* the window of the query
  dimNo,             \* the node it is at
  ids                \* idNode: the ids of the cursor's node not looked at yet

nodes == <<minList, maxList, currMaxAtMinList, currMinAtMaxList, resultList>>
old   == <<oldMin, oldMax>>
local == <<pc, query, dimNo, ids>>
vars  == <<regions, nodes, old, local>>

Init ==
  /\ regions = [i \in Ids |-> NULL]
  /\ minList = [d \in Dims |-> EmptyList]
  /\ maxList = [d \in Dims |-> EmptyList]
  /\ currMaxAtMinList = [d \in Dims |-> Head]
  /\ currMinAtMaxList = [d \in Dims |-> Head]
  /\ oldMin = [d \in Dims |-> NULL]
  /\ oldMax = [d \in Dims |-> NULL]
  /\ resultList = {}
  /\ pc = "idle"
  /\ query = NULL
  /\ dimNo = 1
  /\ ids = {}

-----------------------------------------------------------------------------
(* insertRegion and deleteRegion *)

\* Wrong on purpose: a minimum at the cursor is taken for one beyond it.
BetweenStrictly(r, d) ==
  /\ currMaxAtMinList[d] # Head /\ currMinAtMaxList[d] # Head
  /\ r.max[d] > currMinAtMaxList[d]
  /\ currMaxAtMinList[d] > r.min[d]

\* The test for cascadeInsert at the end of insertRegion.
Between(r, d) ==
  /\ currMaxAtMinList[d] # Head /\ currMinAtMaxList[d] # Head
  /\ r.max[d] > currMinAtMaxList[d]
  /\ currMaxAtMinList[d] >= r.min[d]

\* The nodes that an insertion at the node of d comes to.
Reached(r, d) == {e \in d..(NumOfDims + 1) : \A f \in d..(e - 1) : Between(r, f)}

\* insertRegion by the minimum and by the maximum, and the cascadeInsert of both.
Insert(i, r, d) ==
  /\ minList' = [e \in Dims |-> IF e \in Reached(r, d) THEN AddId(minList[e], r.min[e], i)
                                ELSE minList[e]]
  /\ maxList' = [e \in Dims |-> IF e \in Reached(r, d) THEN AddId(maxList[e], r.max[e], i)
                                ELSE maxList[e]]
  /\ resultList' = IF NumOfDims + 1 \in Reached(r, d) THEN resultList \cup {i} ELSE resultList
  /\ UNCHANGED <<currMaxAtMinList, currMinAtMaxList>>

\* Wrong on purpose: the cursor is left where it is.
MaxCursorStays(e, i) == currMaxAtMinList[e]

\* Where the deletion of i at the node of e leaves the cursors: one that is at the node of a
\* coordinate that goes with i moves to the one before or, in the list of maxima, after it.
MaxCursor(e, i) ==
  LET k == regions[i].min[e]
  IN IF currMaxAtMinList[e] = k /\ LastId(minList[e], k, i)
       THEN minList[e].bck[1][k] ELSE currMaxAtMinList[e]

\* Wrong on purpose: the cursor goes back.
MinCursorBack(e, i) ==
  LET k == regions[i].max[e]
  IN IF currMinAtMaxList[e] = k /\ LastId(maxList[e], k, i)
       THEN maxList[e].bck[1][k] ELSE currMinAtMaxList[e]

MinCursor(e, i) ==
  LET k == regions[i].max[e]
  IN IF currMinAtMaxList[e] = k /\ LastId(maxList[e], k, i)
       THEN maxList[e].fwd[1][k] ELSE currMinAtMaxList[e]

\* deleteRegion by the minimum and by the maximum, at this node and all that follow.
Delete(i, d) ==
  LET from(e) == d <= e
  IN /\ minList' = [e \in Dims |-> IF from(e) THEN DropId(minList[e], regions[i].min[e], i)
                                   ELSE minList[e]]
     /\ maxList' = [e \in Dims |-> IF from(e) THEN DropId(maxList[e], regions[i].max[e], i)
                                   ELSE maxList[e]]
     /\ currMaxAtMinList' = [e \in Dims |-> IF from(e) THEN MaxCursor(e, i)
                                            ELSE currMaxAtMinList[e]]
     /\ currMinAtMaxList' = [e \in Dims |-> IF from(e) THEN MinCursor(e, i)
                                            ELSE currMinAtMaxList[e]]
     /\ resultList' = resultList \ {i}

\* DynamicCascadeTree.insertRegion
InsertRegion(i) ==
  /\ pc \in {"idle", "answered"}
  /\ regions[i] = NULL
  /\ \E r \in Boxes : regions' = [regions EXCEPT ![i] = r] /\ Insert(i, r, 1)
  /\ pc' = "idle"
  /\ UNCHANGED <<old, query, dimNo, ids>>

-----------------------------------------------------------------------------
(* windowQuery, pointQuery and performWindowQuery *)

WindowQuery ==
  /\ pc \in {"idle", "answered"}
  /\ pc' = "maxShrinks"
  /\ query' \in Windows
  /\ dimNo' = 1
  /\ UNCHANGED <<regions, nodes, old, ids>>

\* The loops look at the regions of a node in the order of their ids.
NextId(i) == i \in ids /\ \A j \in ids : i <= j

\* max is shrinking.  (The cursor is never at the tail: no coordinate is beyond it.)
MaxShrinks ==
  LET k == currMaxAtMinList[dimNo]
  IN /\ pc = "maxShrinks"
     /\ IF k # Head /\ query.max[dimNo] <= k
          THEN pc' = "maxLeaves" /\ ids' = minList[dimNo].obj[k]
          ELSE pc' = "minShrinks" /\ UNCHANGED ids
     /\ UNCHANGED <<regions, nodes, old, query, dimNo>>

\* Wrong on purpose: the test for regions that have left before is the other way round.
MaxLeavesInside(i) ==
  /\ pc = "maxLeaves" /\ NextId(i)
  /\ ids' = ids \ {i}
  /\ IF oldMin[dimNo] = NULL \/ regions[i].max[dimNo] <= oldMin[dimNo]
       THEN Delete(i, dimNo + 1) ELSE UNCHANGED nodes
  /\ UNCHANGED <<regions, old, pc, query, dimNo>>

MaxLeaves(i) ==
  /\ pc = "maxLeaves" /\ NextId(i)
  /\ ids' = ids \ {i}
  /\ IF oldMin[dimNo] = NULL \/ regions[i].max[dimNo] > oldMin[dimNo]
       THEN Delete(i, dimNo + 1) ELSE UNCHANGED nodes
  /\ UNCHANGED <<regions, old, pc, query, dimNo>>

\* Wrong on purpose: it moves the other way.
MaxMovesUp ==
  /\ pc = "maxLeaves" /\ ids = {}
  /\ pc' = "maxShrinks"
  /\ currMaxAtMinList' = [currMaxAtMinList EXCEPT ![dimNo] = minList[dimNo].fwd[1][@]]
  /\ UNCHANGED <<regions, minList, maxList, currMinAtMaxList, resultList, old, query, dimNo, ids>>

MaxMoves ==
  /\ pc = "maxLeaves" /\ ids = {}
  /\ pc' = "maxShrinks"
  /\ currMaxAtMinList' = [currMaxAtMinList EXCEPT ![dimNo] = minList[dimNo].bck[1][@]]
  /\ UNCHANGED <<regions, minList, maxList, currMinAtMaxList, resultList, old, query, dimNo, ids>>

\* min is shrinking.  The first query moves the cursor from the head, to the tail when there
\* is no region: the tail has no object, and the program stops.
MinShrinks ==
  LET d == dimNo
      k == currMinAtMaxList[d]
      first == IF k = Head THEN maxList[d].fwd[1][Head] ELSE k
  IN /\ pc = "minShrinks"
     /\ IF k = Head \/ (k # Tail /\ query.min[d] >= k)
          THEN /\ currMinAtMaxList' = [currMinAtMaxList EXCEPT ![d] = first]
               /\ IF first = Tail THEN pc' = "crashed" /\ UNCHANGED ids
                  ELSE pc' = "minLeaves" /\ ids' = maxList[d].obj[first]
          ELSE pc' = "maxGrows" /\ UNCHANGED <<currMinAtMaxList, ids>>
     /\ UNCHANGED <<regions, minList, maxList, currMaxAtMinList, resultList, old, query, dimNo>>

MinLeaves(i) ==
  /\ pc = "minLeaves" /\ NextId(i)
  /\ ids' = ids \ {i}
  /\ IF oldMax[dimNo] = NULL \/ regions[i].min[dimNo] <= oldMax[dimNo]
       THEN Delete(i, dimNo + 1) ELSE UNCHANGED nodes
  /\ UNCHANGED <<regions, old, pc, query, dimNo>>

MinMoves ==
  /\ pc = "minLeaves" /\ ids = {}
  /\ pc' = "minShrinks"
  /\ currMinAtMaxList' = [currMinAtMaxList EXCEPT ![dimNo] = maxList[dimNo].fwd[1][@]]
  /\ UNCHANGED <<regions, minList, maxList, currMaxAtMinList, resultList, old, query, dimNo, ids>>

\* max is growing
MaxGrows ==
  LET d == dimNo
      next == minList[d].fwd[1][currMaxAtMinList[d]]
  IN /\ pc = "maxGrows"
     /\ IF next < query.max[d]
          THEN /\ pc' = "maxEnters" /\ ids' = minList[d].obj[next]
               /\ currMaxAtMinList' = [currMaxAtMinList EXCEPT ![d] = next]
          ELSE pc' = "minGrows" /\ UNCHANGED <<currMaxAtMinList, ids>>
     /\ UNCHANGED <<regions, minList, maxList, currMinAtMaxList, resultList, old, query, dimNo>>

MaxEnters(i) ==
  /\ pc = "maxEnters" /\ NextId(i)
  /\ ids' = ids \ {i}
  /\ IF regions[i].max[dimNo] > query.min[dimNo]
       THEN Insert(i, regions[i], dimNo + 1) ELSE UNCHANGED nodes
  /\ UNCHANGED <<regions, old, pc, query, dimNo>>

MaxEntered ==
  /\ pc = "maxEnters" /\ ids = {}
  /\ pc' = "maxGrows"
  /\ UNCHANGED <<regions, nodes, old, query, dimNo, ids>>

\* min is growing; then the bounds of the query are kept, and the next node's turn comes.
MinGrows ==
  LET d == dimNo
      prev == maxList[d].bck[1][currMinAtMaxList[d]]
  IN /\ pc = "minGrows"
     /\ prev # Head /\ query.min[d] < prev
     /\ pc' = "minEnters" /\ ids' = maxList[d].obj[prev]
     /\ currMinAtMaxList' = [currMinAtMaxList EXCEPT ![d] = prev]
     /\ UNCHANGED <<regions, minList, maxList, currMaxAtMinList, resultList, old, query, dimNo>>

MinEnters(i) ==
  /\ pc = "minEnters" /\ NextId(i)
  /\ ids' = ids \ {i}
  /\ IF regions[i].min[dimNo] < query.max[dimNo]
       THEN Insert(i, regions[i], dimNo + 1) ELSE UNCHANGED nodes
  /\ UNCHANGED <<regions, old, pc, query, dimNo>>

MinEntered ==
  /\ pc = "minEnters" /\ ids = {}
  /\ pc' = "minGrows"
  /\ UNCHANGED <<regions, nodes, old, query, dimNo, ids>>

NextNode ==
  LET d == dimNo
      prev == maxList[d].bck[1][currMinAtMaxList[d]]
  IN /\ pc = "minGrows"
     /\ prev = Head \/ query.min[d] >= prev
     /\ oldMax' = [oldMax EXCEPT ![d] = query.max[d]]
     /\ oldMin' = [oldMin EXCEPT ![d] = query.min[d]]
     /\ IF d = NumOfDims THEN pc' = "answered" /\ dimNo' = 1
        ELSE pc' = "maxShrinks" /\ dimNo' = d + 1
     /\ UNCHANGED <<regions, nodes, query, ids>>

-----------------------------------------------------------------------------
Query == \/ WindowQuery
         \/ MaxShrinks \/ MaxMoves \/ MinShrinks \/ MinMoves
         \/ MaxGrows \/ MaxEntered \/ MinGrows \/ MinEntered \/ NextNode
         \/ \E i \in Ids : MaxLeaves(i) \/ MinLeaves(i) \/ MaxEnters(i) \/ MinEnters(i)

Next == Query \/ \E i \in Ids : InsertRegion(i)

Spec == Init /\ [][Next]_vars

-----------------------------------------------------------------------------
(* properties *)

TypeOK ==
  /\ regions \in [Ids -> Boxes \cup {NULL}]
  /\ minList \in [Dims -> Lists] /\ maxList \in [Dims -> Lists]
  /\ currMaxAtMinList \in [Dims -> Nodes \ {Tail}]
  /\ currMinAtMaxList \in [Dims -> Nodes]
  /\ oldMin \in [Dims -> Nodes \cup {NULL}] /\ oldMax \in [Dims -> Nodes \cup {NULL}]
  /\ resultList \subseteq Ids
  /\ pc \in {"idle", "maxShrinks", "maxLeaves", "minShrinks", "minLeaves", "maxGrows",
             "maxEnters", "minGrows", "minEnters", "answered", "crashed"}
  /\ query \in Windows \cup {NULL}
  /\ dimNo \in Dims
  /\ ids \subseteq Ids

\* The two lists of a node are sound skip lists with the same regions, each at its minimum
\* in the one and at its maximum in the other.
ListsSound ==
  \A d \in Dims :
    /\ Sound(minList[d]) /\ Sound(maxList[d])
    /\ \A i \in Ids : \A k \in Keys :
         /\ i \in minList[d].obj[k] => /\ regions[i] # NULL /\ k = regions[i].min[d]
                                       /\ i \in maxList[d].obj[regions[i].max[d]]
         /\ i \in maxList[d].obj[k] => /\ regions[i] # NULL /\ k = regions[i].max[d]
                                       /\ i \in minList[d].obj[regions[i].min[d]]

\* A cursor is a pointer that deletions by the node before free nodes under: it is always
\* at a node of its list.
CursorsAlive ==
  \A d \in Dims :
    /\ currMaxAtMinList[d] # Head => minList[d].obj[currMaxAtMinList[d]] # {}
    /\ currMinAtMaxList[d] \notin {Head, Tail} => maxList[d].obj[currMinAtMaxList[d]] # {}

Intersects(r, q) == \A d \in Dims : r.min[d] < q.max[d] /\ r.max[d] > q.min[d]

\* "this node stores the result regions that intersect with a query": whatever was inserted
\* and asked for before, in any order, an answer has no other regions.
AnswerIntersects ==
  pc = "answered" => \A i \in resultList : Intersects(regions[i], query)

\* ... and it misses no region that intersects, but one whose maximum in some dimension is
\* another's too: insertRegion passes a region on only when its maximum is beyond the cursor,
\* and a query passes on only the regions it moves the cursor to.
Tied(i) == \E d \in Dims : \E j \in Ids \ {i} :
             regions[j] # NULL /\ regions[j].max[d] = regions[i].max[d]

AnswerMissesOnlyTies ==
  pc = "answered" =>
    \A i \in Ids \ resultList :
      regions[i] # NULL /\ Intersects(regions[i], query) => Tied(i)

\* The program stops only in its first query, at a node that no region has come to.
StopsOnlyWhenEmpty ==
  pc = "crashed" => /\ oldMin[dimNo] = NULL
                    /\ \A k \in Keys : maxList[dimNo].obj[k] = {}
=============================================================================
