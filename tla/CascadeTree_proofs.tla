------------------------- MODULE CascadeTree_proofs -------------------------
(***************************************************************************)
(* For any number of dimensions and of regions, any coordinates and any    *)
(* heights of the nodes: the skip lists stay sound, the cursors stay at    *)
(* nodes that are there, and an answer has only regions that intersect.    *)
(***************************************************************************)
EXTENDS CascadeTree, TLAPS, WellFoundedInduction

-----------------------------------------------------------------------------
(* Numbers *)

LEMMA Least ==
  ASSUME NEW S, S \subseteq Nat, S # {}
  PROVE  \E x \in S : \A y \in S : x <= y
<1> DEFINE R == {p \in Nat \X Nat : p[1] < p[2]}
<1>1. IsWellFoundedOn(R, Nat)
  BY NatLessThanWellFounded DEF OpToRel
<1>2. \E x \in S : \A y \in S : ~ (<<y, x>> \in R)
  <2> HIDE DEF R
  <2> QED BY <1>1, WFMin
<1>3. PICK x \in S : \A y \in S : ~ (<<y, x>> \in R)
  BY <1>2
<1>4. ASSUME NEW y \in S PROVE x <= y
  <2>1. <<y, x>> \in Nat \X Nat
    OBVIOUS
  <2>2. ~ (y < x)
    BY <1>3, <2>1
  <2> QED BY <2>2
<1> QED BY <1>4

LEMMA Greatest ==
  ASSUME NEW N \in Nat, NEW S, S \subseteq 0 .. N, S # {}
  PROVE  \E x \in S : \A y \in S : y <= x
<1> DEFINE T == {t \in Nat : \E x \in S : t = N - x}
<1>1. T \subseteq Nat
  OBVIOUS
<1>2. T # {}
  <2>1. PICK x \in S : TRUE
    OBVIOUS
  <2>2. N - x \in T
    BY <2>1
  <2> QED BY <2>2
<1>3. \E t \in T : \A y \in T : t <= y
  <2> HIDE DEF T
  <2> QED BY <1>1, <1>2, Least
<1>4. PICK t \in T : \A y \in T : t <= y
  BY <1>3
<1>5. PICK x \in S : t = N - x
  OBVIOUS
<1>6. ASSUME NEW y \in S PROVE y <= x
  <2>1. N - y \in T
    OBVIOUS
  <2> HIDE DEF T
  <2>2. t <= N - y
    BY <1>4, <2>1
  <2> QED BY <2>2, <1>5
<1> QED BY <1>6

-----------------------------------------------------------------------------
(* Skip lists *)

\* The coordinates that have a node.
Alive(l) == {k \in Keys : l.obj[k] # {}}

LEMMA Numbers ==
  /\ MaxKey \in Nat /\ MaxKey >= 1 /\ MaxHeight \in Nat /\ MaxHeight >= 1
  /\ Head = 0 /\ Tail = MaxKey /\ Head \in Nodes /\ Tail \in Nodes /\ Keys \subseteq Nodes
  /\ \A k \in Keys : k \in Nat /\ Head < k /\ k < Tail
  /\ \A n \in Nodes : n \in Nat /\ (n \in Keys <=> n # Head /\ n # Tail)
  /\ \A h \in Levels : h \in Nat /\ h >= 1
  /\ 1 \in Levels /\ Nil \notin Nodes
  BY SizesAssumption DEF Keys, Nodes, Head, Tail, Levels, Nil

LEMMA FirstLevel ==
  ASSUME NEW l
  PROVE  OnLevel(l, 1) = Alive(l)
  BY HeightAssumption, Numbers DEF OnLevel, Alive

\* The search for k ends, on every level, at the last node before k.
LEMMA BeforeHolds ==
  ASSUME NEW l \in Lists, Sound(l), NEW k \in Keys \cup {Tail}, NEW h \in Levels
  PROVE  /\ Before(l, k)[h] \in OnLevel(l, h) \cup {Head}
         /\ Before(l, k)[h] < k
         /\ k <= l.fwd[h][Before(l, k)[h]]
<1> DEFINE u == Before(l, k)[h]
           on == OnLevel(l, h)
           fwd == l.fwd[h]
<1>1. /\ Chained(fwd, l.bck[h], on) /\ on \subseteq Keys
      /\ h > l.curHeight => on = {}
  BY DEF Sound, OnLevel
<1>2. k \in Nat /\ Head < k /\ k <= Tail
  BY Numbers
<1>3. CASE h > l.curHeight
  <2>1. u = Head
    BY <1>3, Numbers DEF Before, Lists
  <2>2. fwd[Head] = Tail
    BY <1>1, <1>3 DEF Chained
  <2> QED BY <2>1, <2>2, <1>2
<1>4. CASE h <= l.curHeight
  <2> DEFINE S == {n \in on \cup {Head} : n < k}
             Ok(n) == fwd[n] # Nil /\ n < k /\ k <= fwd[n]
  <2>1. S \subseteq 0 .. MaxKey /\ S # {}
    BY <1>1, <1>2, Numbers DEF Nodes
  <2>2. PICK n \in S : \A m \in S : m <= n
    <3> HIDE DEF S
    <3> QED BY <2>1, Greatest, Numbers
  <2>3. fwd[n] \in on \cup {Tail} /\ n < fwd[n]
    BY <1>1 DEF Chained
  <2>n. n \in Nodes /\ n \in Nat /\ n < k /\ fwd[n] \in Nat /\ fwd[n] <= Tail /\ Tail \in Nat
    <3>1. on \cup {Head} \subseteq Nodes /\ on \cup {Tail} \subseteq Nodes
      BY <1>1, Numbers
    <3>2. \A m \in Nodes : m \in Nat /\ m <= Tail
      BY Numbers DEF Nodes
    <3> HIDE DEF fwd, on
    <3> QED BY <3>1, <3>2, <2>3, Numbers
  <2>4. ~ (fwd[n] < k)
    <3> SUFFICES ASSUME fwd[n] < k PROVE FALSE
      OBVIOUS
    <3>1. fwd[n] # Tail
      BY <1>2, <2>n
    <3>2. fwd[n] \in S
      BY <3>1, <2>3
    <3> HIDE DEF S, fwd
    <3> QED BY <3>2, <2>2, <2>3, <2>n
  <2>5. n \in Nodes /\ Ok(n)
    <3>1. fwd[n] # Nil
      BY <2>n DEF Nil
    <3> QED BY <2>4, <2>n, <1>2, <3>1
  <2>6. u = CHOOSE x \in Nodes : Ok(x)
    BY <1>4 DEF Before
  <2>7. u \in Nodes /\ Ok(u)
    <3> HIDE DEF Ok, u
    <3> QED BY <2>5, <2>6
  <2>8. u \in on \cup {Head}
    BY <2>7, <1>1 DEF Chained
  <2> QED BY <2>7, <2>8
<1>5. QED
  BY <1>3, <1>4, Numbers DEF Lists

\* ... which is right before k when there is a node of k there, and before the place for
\* k when there is none.
LEMMA BeforeNode ==
  ASSUME NEW l \in Lists, Sound(l), NEW k \in Keys \cup {Tail}, NEW h \in Levels
  PROVE  LET u == Before(l, k)[h]
         IN  /\ u \in OnLevel(l, h) \cup {Head} /\ u < k
             /\ \A j \in OnLevel(l, h) : j <= u \/ k <= j
             /\ IF k \in OnLevel(l, h) \cup {Tail} THEN l.fwd[h][u] = k /\ l.bck[h][k] = u
                                                 ELSE k < l.fwd[h][u]
<1> DEFINE u == Before(l, k)[h]
           on == OnLevel(l, h)
           fwd == l.fwd[h]
<1>1. u \in on \cup {Head} /\ u < k /\ k <= fwd[u]
  BY BeforeHolds
<1>2. Chained(fwd, l.bck[h], on) /\ on \subseteq Keys
  BY DEF Sound, OnLevel
<1> HIDE DEF u, on, fwd
<1>3. /\ fwd[u] \in on \cup {Tail} /\ u < fwd[u] /\ l.bck[h][fwd[u]] = u
      /\ \A j \in on : j <= u \/ fwd[u] <= j
  BY <1>1, <1>2 DEF Chained
<1>4. u \in Nat /\ k \in Nat /\ k <= Tail /\ fwd[u] \in Nat /\ fwd[u] <= Tail /\ Tail \in Nat
      /\ \A j \in on : j \in Nat
  <2>1. on \cup {Head} \subseteq Nodes /\ on \cup {Tail} \subseteq Nodes
    BY <1>2, Numbers
  <2>2. \A m \in Nodes : m \in Nat /\ m <= Tail
    BY Numbers DEF Nodes
  <2> QED BY <2>1, <2>2, <1>1, <1>3, Numbers
<1>5. \A j \in on : j <= u \/ k <= j
  BY <1>1, <1>3, <1>4
<1>6. CASE k \in on \cup {Tail}
  <2>1. fwd[u] <= k
    BY <1>1, <1>3, <1>4, <1>6
  <2>2. fwd[u] = k
    BY <2>1, <1>1, <1>4
  <2> QED BY <2>2, <1>1, <1>3, <1>5, <1>6 DEF u, on, fwd
<1>7. CASE k \notin on \cup {Tail}
  <2>1. k # fwd[u]
    BY <1>3, <1>7
  <2>2. k < fwd[u]
    BY <2>1, <1>1, <1>4
  <2> QED BY <2>2, <1>1, <1>5, <1>7 DEF u, on, fwd
<1> QED BY <1>6, <1>7

LEMMA HasHolds ==
  ASSUME NEW l \in Lists, Sound(l), NEW k \in Keys
  PROVE  Has(l, k) <=> k \in Alive(l)
<1> DEFINE u == Before(l, k)[1]
<1>1. IF k \in Alive(l) \cup {Tail} THEN l.fwd[1][u] = k ELSE k < l.fwd[1][u]
  BY BeforeNode, FirstLevel, Numbers
<1>2. k # Tail /\ k \in Nat
  BY Numbers
<1> QED BY <1>1, <1>2 DEF Has

LEMMA NextHolds ==
  ASSUME NEW l \in Lists, Sound(l), NEW n \in Alive(l) \cup {Head}
  PROVE  LET m == l.fwd[1][n]
         IN  m \in Alive(l) \cup {Tail} /\ n < m /\ \A k \in Alive(l) : k <= n \/ m <= k
  BY FirstLevel, Numbers DEF Sound, Chained

LEMMA PrevHolds ==
  ASSUME NEW l \in Lists, Sound(l), NEW m \in Alive(l) \cup {Tail}
  PROVE  LET n == l.bck[1][m]
         IN  n \in Alive(l) \cup {Head} /\ n < m /\ \A k \in Alive(l) : k <= n \/ m <= k
<1>1. m \in Keys \cup {Tail}
  BY DEF Alive
<1> QED BY <1>1, BeforeNode, FirstLevel, Numbers

\* One level when a node is linked in, and when it is taken out.
LEMMA ChainLinked ==
  ASSUME NEW on \in SUBSET Keys, NEW f \in [Nodes -> Nodes \cup {Nil}],
         NEW b \in [Nodes -> Nodes \cup {Nil}], Chained(f, b, on),
         NEW k \in Keys \ on, NEW u \in on \cup {Head}, u < k, k < f[u]
  PROVE  LET g == [f EXCEPT ![k] = f[u], ![u] = k]
             c == [b EXCEPT ![f[u]] = k, ![k] = u]
         IN  /\ g \in [Nodes -> Nodes \cup {Nil}] /\ c \in [Nodes -> Nodes \cup {Nil}]
             /\ Chained(g, c, on \cup {k})
<1> DEFINE g == [f EXCEPT ![k] = f[u], ![u] = k]
           c == [b EXCEPT ![f[u]] = k, ![k] = u]
           v == f[u]
<1>0. /\ on \subseteq Nodes /\ k \in Nodes /\ u \in Nodes /\ k # u
      /\ \A n \in Nodes : n \in Nat /\ n <= Tail /\ Head <= n
      /\ Head \in Nodes /\ Tail \in Nodes /\ Nil \notin Nodes /\ k # Head /\ k # Tail
  <2>1. \A n \in Nodes : n \in Nat /\ n <= Tail /\ Head <= n
    BY Numbers DEF Nodes
  <2> QED BY <2>1, Numbers
<1>1. /\ v \in on \cup {Tail} /\ v \in Nodes /\ u < v /\ b[v] = u /\ v # k
      /\ \A j \in on : j <= u \/ v <= j
  BY <1>0 DEF Chained
<1>2. /\ g \in [Nodes -> Nodes \cup {Nil}] /\ c \in [Nodes -> Nodes \cup {Nil}]
      /\ g[k] = v /\ g[u] = k /\ c[v] = k /\ c[k] = u
      /\ \A n \in Nodes \ {k, u} : g[n] = f[n]
      /\ \A n \in Nodes \ {k, v} : c[n] = b[n]
  BY <1>0, <1>1
<1> HIDE DEF g, c, v
<1>3. ASSUME NEW n \in on \cup {k, Head}
      PROVE  /\ g[n] \in on \cup {k, Tail} /\ n < g[n] /\ c[g[n]] = n
             /\ \A j \in on \cup {k} : j <= n \/ g[n] <= j
  <2>1. CASE n = u
    <3>1. g[n] = k /\ n < k /\ c[k] = n
      BY <2>1, <1>2
    <3>2. \A j \in on : j <= n \/ k <= j
      <4>1. k < v
        BY DEF v
      <4>2. \A j \in on : j \in Nat
        BY <1>0
      <4>3. QED
        BY <4>1, <4>2, <1>0, <1>1, <2>1
    <3>3. QED
      BY <3>1, <3>2, <1>0
  <2>2. CASE n = k
    BY <2>2, <1>0, <1>1, <1>2 DEF v
  <2>3. CASE n # u /\ n # k
    <3>1. /\ n \in on \cup {Head} /\ n \in Nodes /\ g[n] = f[n]
          /\ f[n] \in on \cup {Tail} /\ f[n] \in Nodes /\ n < f[n] /\ b[f[n]] = n
          /\ \A j \in on : j <= n \/ f[n] <= j
      BY <2>3, <1>0, <1>2 DEF Chained
    <3>2. f[n] # v /\ f[n] # k
      BY <3>1, <2>3, <1>0, <1>1
    <3>3. c[f[n]] = n
      BY <3>1, <3>2, <1>2
    <3>4. k <= n \/ f[n] <= k
      <4>1. n \in on \/ n = Head
        BY <3>1
      <4>2. u \in on \/ u = Head
        OBVIOUS
      <4>3. n <= u \/ v <= n
        BY <4>1, <1>1, <1>0
      <4>4. u <= n \/ f[n] <= u
        BY <4>2, <3>1, <1>0
      <4> QED BY <4>3, <4>4, <3>1, <1>0, <1>1, <2>3 DEF v
    <3> QED BY <3>1, <3>3, <3>4
  <2> QED BY <2>1, <2>2, <2>3
<1>4. \A n \in Nodes \ (on \cup {k, Head}) : g[n] = Nil
  BY <1>0, <1>2 DEF Chained
<1>5. \A n \in Nodes \ (on \cup {k, Tail}) : c[n] = Nil
  BY <1>0, <1>1, <1>2 DEF Chained
<1>6. Chained(g, c, on \cup {k})
  <2>1. on \cup {k, Head} = (on \cup {k}) \cup {Head} /\ on \cup {k, Tail} = (on \cup {k}) \cup {Tail}
    OBVIOUS
  <2> QED BY <1>3, <1>4, <1>5, <2>1 DEF Chained
<1> QED BY <1>2, <1>6 DEF g, c, v

LEMMA ChainUnlinked ==
  ASSUME NEW on \in SUBSET Keys, NEW f \in [Nodes -> Nodes \cup {Nil}],
         NEW b \in [Nodes -> Nodes \cup {Nil}], Chained(f, b, on),
         NEW k \in on, NEW u \in on \cup {Head}, f[u] = k
  PROVE  LET g == [f EXCEPT ![u] = f[k], ![k] = Nil]
             c == [b EXCEPT ![f[k]] = u, ![k] = Nil]
         IN  /\ g \in [Nodes -> Nodes \cup {Nil}] /\ c \in [Nodes -> Nodes \cup {Nil}]
             /\ Chained(g, c, on \ {k})
<1> DEFINE g == [f EXCEPT ![u] = f[k], ![k] = Nil]
           c == [b EXCEPT ![f[k]] = u, ![k] = Nil]
           v == f[k]
<1>0. /\ on \subseteq Nodes /\ k \in Nodes /\ u \in Nodes
      /\ \A n \in Nodes : n \in Nat /\ n <= Tail /\ Head <= n
      /\ Head \in Nodes /\ Tail \in Nodes /\ Nil \notin Nodes /\ k # Head /\ k # Tail
  <2>1. \A n \in Nodes : n \in Nat /\ n <= Tail /\ Head <= n
    BY Numbers DEF Nodes
  <2> QED BY <2>1, Numbers
<1>1. /\ v \in on \cup {Tail} /\ v \in Nodes /\ k < v /\ b[v] = k /\ u < k /\ b[k] = u
      /\ \A j \in on : j <= u \/ k <= j
      /\ \A j \in on : j <= k \/ v <= j
  BY <1>0 DEF Chained
<1>2. /\ g \in [Nodes -> Nodes \cup {Nil}] /\ c \in [Nodes -> Nodes \cup {Nil}]
      /\ g[k] = Nil /\ g[u] = v /\ c[v] = u /\ c[k] = Nil
      /\ \A n \in Nodes \ {k, u} : g[n] = f[n]
      /\ \A n \in Nodes \ {k, v} : c[n] = b[n]
  BY <1>0, <1>1
<1> HIDE DEF g, c, v
<1>3. ASSUME NEW n \in (on \ {k}) \cup {Head}
      PROVE  /\ g[n] \in (on \ {k}) \cup {Tail} /\ n < g[n] /\ c[g[n]] = n
             /\ \A j \in on \ {k} : j <= n \/ g[n] <= j
  <2>1. CASE n = u
    BY <2>1, <1>0, <1>1, <1>2
  <2>2. CASE n # u
    <3>1. /\ n \in on \cup {Head} /\ n \in Nodes /\ n # k /\ g[n] = f[n]
          /\ f[n] \in on \cup {Tail} /\ f[n] \in Nodes /\ n < f[n] /\ b[f[n]] = n
          /\ \A j \in on : j <= n \/ f[n] <= j
      BY <2>2, <1>0, <1>2 DEF Chained
    <3>2. f[n] # v /\ f[n] # k
      BY <3>1, <2>2, <1>0, <1>1
    <3>3. c[f[n]] = n
      BY <3>1, <3>2, <1>2
    <3> QED BY <3>1, <3>2, <3>3
  <2> QED BY <2>1, <2>2
<1>4. \A n \in Nodes \ ((on \ {k}) \cup {Head}) : g[n] = Nil
  BY <1>0, <1>2 DEF Chained
<1>5. \A n \in Nodes \ ((on \ {k}) \cup {Tail}) : c[n] = Nil
  BY <1>0, <1>1, <1>2 DEF Chained
<1>6. Chained(g, c, on \ {k})
  BY <1>3, <1>4, <1>5 DEF Chained
<1> QED BY <1>2, <1>6 DEF g, c, v

LEMMA ChainEmpty ==
  ASSUME NEW on \in SUBSET Keys, NEW f, NEW b, Chained(f, b, on), f[Head] = Tail
  PROVE  on = {}
<1>1. \A j \in on : j <= Head \/ Tail <= j
  BY DEF Chained
<1>2. \A j \in on : j \in Nat /\ Head < j /\ j < Tail
  BY Numbers
<1>3. QED
  BY <1>1, <1>2, Numbers

LEMMA LevelsOf ==
  ASSUME NEW l \in Lists, Sound(l), NEW h \in Levels
  PROVE  /\ l.fwd[h] \in [Nodes -> Nodes \cup {Nil}] /\ l.bck[h] \in [Nodes -> Nodes \cup {Nil}]
         /\ Chained(l.fwd[h], l.bck[h], OnLevel(l, h)) /\ OnLevel(l, h) \in SUBSET Keys
BY DEF Lists, Sound, OnLevel

\* What insert does to the levels.
LEMMA LinkHolds ==
  ASSUME NEW l \in Lists, Sound(l), NEW k \in Keys, k \notin Alive(l)
  PROVE  LET m == Link(l, k)
         IN  /\ m \in Lists /\ m.obj = l.obj
             /\ \A h \in Levels :
                  /\ Chained(m.fwd[h], m.bck[h], IF h <= Height[k] THEN OnLevel(l, h) \cup {k}
                                                ELSE OnLevel(l, h))
                  /\ h > m.curHeight => OnLevel(l, h) = {} /\ ~ (h <= Height[k])
<1> DEFINE m == Link(l, k)
           u == Before(l, k)
           f(h) == [l.fwd[h] EXCEPT ![k] = l.fwd[h][u[h]], ![u[h]] = k]
           b(h) == [l.bck[h] EXCEPT ![l.fwd[h][u[h]]] = k, ![k] = u[h]]
<1>0. Height[k] \in Levels /\ l.curHeight \in Levels /\ \A h \in Levels : h \in Nat
  BY HeightAssumption, Numbers DEF Lists
<1>1. /\ m.fwd = [h \in Levels |-> IF h <= Height[k] THEN f(h) ELSE l.fwd[h]]
      /\ m.bck = [h \in Levels |-> IF h <= Height[k] THEN b(h) ELSE l.bck[h]]
      /\ m.curHeight = IF Height[k] > l.curHeight THEN Height[k] ELSE l.curHeight
      /\ m.obj = l.obj
      /\ m = [fwd |-> m.fwd, bck |-> m.bck, curHeight |-> m.curHeight, obj |-> m.obj]
  <2> DEFINE F == [h \in Levels |-> IF h <= Height[k] THEN f(h) ELSE l.fwd[h]]
             B == [h \in Levels |-> IF h <= Height[k] THEN b(h) ELSE l.bck[h]]
             C == IF Height[k] > l.curHeight THEN Height[k] ELSE l.curHeight
  <2>1. l = [fwd |-> l.fwd, bck |-> l.bck, curHeight |-> l.curHeight, obj |-> l.obj]
    BY DEF Lists
  <2>2. m = [l EXCEPT !.fwd = F, !.bck = B, !.curHeight = C]
    BY DEF Link
  <2>3. m.fwd = F /\ m.bck = B /\ m.curHeight = C /\ m.obj = l.obj
        /\ m = [fwd |-> m.fwd, bck |-> m.bck, curHeight |-> m.curHeight, obj |-> m.obj]
    <3> HIDE DEF F, B, C, m
    <3>1. QED
      BY <2>1, <2>2
  <2>4. QED
    BY <2>3
<1>2. ASSUME NEW h \in Levels
      PROVE  /\ f(h) \in [Nodes -> Nodes \cup {Nil}] /\ b(h) \in [Nodes -> Nodes \cup {Nil}]
             /\ Chained(f(h), b(h), OnLevel(l, h) \cup {k})
  <2>1. k \in Keys \ OnLevel(l, h)
    BY DEF Alive, OnLevel
  <2>2. k \notin OnLevel(l, h) \cup {Tail}
    BY <2>1, Numbers
  <2>3. u[h] \in OnLevel(l, h) \cup {Head} /\ u[h] < k /\ k < l.fwd[h][u[h]]
    BY <2>2, BeforeNode
  <2> HIDE DEF u
  <2>4. QED
    BY <2>1, <2>3, LevelsOf, ChainLinked
<1> HIDE DEF f, b, m
<1>3. ASSUME NEW h \in Levels
      PROVE  /\ m.fwd[h] \in [Nodes -> Nodes \cup {Nil}] /\ m.bck[h] \in [Nodes -> Nodes \cup {Nil}]
             /\ Chained(m.fwd[h], m.bck[h], IF h <= Height[k] THEN OnLevel(l, h) \cup {k}
                                            ELSE OnLevel(l, h))
             /\ h > m.curHeight => OnLevel(l, h) = {} /\ ~ (h <= Height[k])
  <2>1. CASE h <= Height[k]
    <3>1. m.fwd[h] = f(h) /\ m.bck[h] = b(h)
      BY <2>1, <1>1
    <3>2. ~ (h > m.curHeight)
      BY <2>1, <1>0, <1>1
    <3>3. QED
      BY <3>1, <3>2, <2>1, <1>2
  <2>2. CASE ~ (h <= Height[k])
    <3>1. m.fwd[h] = l.fwd[h] /\ m.bck[h] = l.bck[h]
      BY <2>2, <1>1
    <3>2. h > m.curHeight => h > l.curHeight
      BY <1>0, <1>1
    <3>3. h > l.curHeight => OnLevel(l, h) = {}
      BY DEF Sound
    <3>4. QED
      BY <3>1, <3>2, <3>3, <2>2, LevelsOf
  <2>3. QED
    BY <2>1, <2>2
<1>4. m \in Lists
  <2>1. /\ m.fwd \in [Levels -> [Nodes -> Nodes \cup {Nil}]]
        /\ m.bck \in [Levels -> [Nodes -> Nodes \cup {Nil}]]
    BY <1>1, <1>3
  <2>2. m.curHeight \in Levels /\ m.obj \in [Keys -> SUBSET Ids]
    BY <1>0, <1>1 DEF Lists
  <2>3. QED
    BY <2>1, <2>2, <1>1 DEF Lists
<1>5. QED
  BY <1>1, <1>3, <1>4 DEF m

\* What removeWithKey does to them.
OthersOnLevel(l, h, k) == OnLevel(l, h) \ {k}

LEMMA UnlinkHolds ==
  ASSUME NEW l \in Lists, Sound(l), NEW k \in Alive(l)
  PROVE  LET m == Unlink(l, k)
         IN  /\ m \in Lists /\ m.obj = l.obj
             /\ \A h \in Levels : /\ Chained(m.fwd[h], m.bck[h], OthersOnLevel(l, h, k))
                                  /\ h > m.curHeight => OthersOnLevel(l, h, k) = {}
<1> DEFINE m == Unlink(l, k)
           u == Before(l, k)
           linked(h) == h <= l.curHeight /\ \A j \in 1..h : l.fwd[j][u[j]] = k
           first(h) == IF linked(h) /\ u[h] = Head THEN l.fwd[h][k] ELSE l.fwd[h][Head]
           used == {h \in 1..l.curHeight : h = 1 \/ first(h) # Tail}
           f(h) == [l.fwd[h] EXCEPT ![u[h]] = l.fwd[h][k], ![k] = Nil]
           b(h) == [l.bck[h] EXCEPT ![l.fwd[h][k]] = u[h], ![k] = Nil]
<1>0. /\ k \in Keys /\ Height[k] \in Levels /\ l.curHeight \in Levels
      /\ l.curHeight \in Nat /\ Height[k] \in Nat /\ l.curHeight >= 1
      /\ \A h \in Levels : h \in Nat /\ h >= 1
  BY HeightAssumption, Numbers DEF Lists, Alive
<1>1. /\ m.fwd = [h \in Levels |-> IF linked(h) THEN f(h) ELSE l.fwd[h]]
      /\ m.bck = [h \in Levels |-> IF linked(h) THEN b(h) ELSE l.bck[h]]
      /\ m.curHeight = CHOOSE h \in used : \A j \in used : j <= h
      /\ m.obj = l.obj
      /\ m = [fwd |-> m.fwd, bck |-> m.bck, curHeight |-> m.curHeight, obj |-> m.obj]
  <2> DEFINE F == [h \in Levels |-> IF linked(h) THEN f(h) ELSE l.fwd[h]]
             B == [h \in Levels |-> IF linked(h) THEN b(h) ELSE l.bck[h]]
             C == CHOOSE h \in used : \A j \in used : j <= h
  <2>1. l = [fwd |-> l.fwd, bck |-> l.bck, curHeight |-> l.curHeight, obj |-> l.obj]
    BY DEF Lists
  <2>2. m = [l EXCEPT !.fwd = F, !.bck = B, !.curHeight = C]
    BY DEF Unlink
  <2>3. m.fwd = F /\ m.bck = B /\ m.curHeight = C /\ m.obj = l.obj
        /\ m = [fwd |-> m.fwd, bck |-> m.bck, curHeight |-> m.curHeight, obj |-> m.obj]
    <3> HIDE DEF F, B, C, m
    <3>1. QED
      BY <2>1, <2>2
  <2>4. QED
    BY <2>3
<1>2. ASSUME NEW h \in Levels
      PROVE  /\ u[h] \in OnLevel(l, h) \cup {Head}
             /\ k \in OnLevel(l, h) <=> h <= Height[k]
             /\ l.fwd[h][u[h]] = k <=> h <= Height[k]
  <2>1. k \in OnLevel(l, h) <=> h <= Height[k]
    BY <1>0 DEF OnLevel, Alive
  <2>2. /\ u[h] \in OnLevel(l, h) \cup {Head}
        /\ IF k \in OnLevel(l, h) \cup {Tail} THEN l.fwd[h][u[h]] = k ELSE k < l.fwd[h][u[h]]
    BY <1>0, BeforeNode
  <2>3. k # Tail /\ k \in Nat
    BY <1>0, Numbers
  <2> HIDE DEF u
  <2>4. QED
    BY <2>1, <2>2, <2>3
<1>3. Height[k] <= l.curHeight
  <2>1. k \in OnLevel(l, Height[k])
    BY <1>0, <1>2
  <2>2. ~ (Height[k] > l.curHeight)
    BY <2>1, <1>0 DEF Sound
  <2>3. QED
    BY <2>2, <1>0
<1>4. ASSUME NEW h \in Levels
      PROVE  linked(h) <=> h <= Height[k]
  <2> HIDE DEF u
  <2>1. h \in 1..h /\ \A j \in 1..h : j <= h /\ j \in Nat /\ j \in Levels
    <3>1. h \in Nat /\ h >= 1 /\ h <= MaxHeight /\ MaxHeight \in Nat
      BY <1>0, Numbers DEF Levels
    <3>2. QED
      BY <3>1 DEF Levels
  <2>2. CASE h <= Height[k]
    <3>1. h <= l.curHeight
      BY <2>2, <1>0, <1>3
    <3>2. \A j \in 1..h : j <= Height[k]
      BY <2>1, <2>2, <1>0
    <3>3. QED
      BY <3>1, <3>2, <2>1, <2>2, <1>2
  <2>3. CASE ~ (h <= Height[k])
    <3>1. l.fwd[h][u[h]] # k
      BY <2>3, <1>2
    <3>2. QED
      BY <3>1, <2>1, <2>3
  <2>4. QED
    BY <2>2, <2>3
<1>5. ASSUME NEW h \in Levels, h <= Height[k]
      PROVE  /\ f(h) \in [Nodes -> Nodes \cup {Nil}] /\ b(h) \in [Nodes -> Nodes \cup {Nil}]
             /\ Chained(f(h), b(h), OnLevel(l, h) \ {k})
  <2> HIDE DEF u
  <2>1. QED
    BY <1>2, <1>5, LevelsOf, ChainUnlinked
<1> HIDE DEF linked, m
<1>6. ASSUME NEW h \in Levels
      PROVE  /\ m.fwd[h] \in [Nodes -> Nodes \cup {Nil}] /\ m.bck[h] \in [Nodes -> Nodes \cup {Nil}]
             /\ Chained(m.fwd[h], m.bck[h], OnLevel(l, h) \ {k})
             /\ first(h) = m.fwd[h][Head]
  <2>1. CASE h <= Height[k]
    <3>1. m.fwd[h] = f(h) /\ m.bck[h] = b(h)
      <4> HIDE DEF f, b
      <4>1. QED
        BY <2>1, <1>1, <1>4
    <3>2. first(h) = f(h)[Head]
      <4>1. linked(h) /\ k # Head /\ Head \in Nodes
        BY <2>1, <1>0, <1>4, Numbers
      <4>2. l.fwd[h] \in [Nodes -> Nodes \cup {Nil}]
        BY LevelsOf
      <4> HIDE DEF u
      <4>3. QED
        BY <4>1, <4>2
    <3> HIDE DEF first, f, b
    <3>3. QED
      BY <3>1, <3>2, <2>1, <1>5
  <2>2. CASE ~ (h <= Height[k])
    <3>1. m.fwd[h] = l.fwd[h] /\ m.bck[h] = l.bck[h]
      <4> HIDE DEF f, b
      <4>1. QED
        BY <2>2, <1>1, <1>4
    <3>2. OnLevel(l, h) \ {k} = OnLevel(l, h)
      BY <2>2, <1>2
    <3>3. first(h) = l.fwd[h][Head]
      BY <2>2, <1>4
    <3>4. QED
      BY <3>1, <3>2, <3>3, LevelsOf
  <2>3. QED
    BY <2>1, <2>2
<1>7. m.curHeight \in used /\ \A j \in used : j <= m.curHeight
  <2>1. used \subseteq 0 .. l.curHeight /\ 1 \in used
    BY <1>0
  <2> HIDE DEF used
  <2>2. \E h \in used : \A j \in used : j <= h
    BY <2>1, <1>0, Greatest
  <2>3. QED
    BY <2>2, <1>1
<1>8. m.curHeight \in Levels
  <2>1. m.curHeight \in 1..l.curHeight
    <3> HIDE DEF first
    <3>1. QED
      BY <1>7
  <2>2. l.curHeight \in Nat /\ l.curHeight <= MaxHeight /\ MaxHeight \in Nat
    BY <1>0, Numbers DEF Levels
  <2>3. QED
    BY <2>1, <2>2 DEF Levels
<1>9. ASSUME NEW h \in Levels, h > m.curHeight
      PROVE  OnLevel(l, h) \ {k} = {}
  <2>1. CASE h > l.curHeight
    BY <2>1 DEF Sound
  <2>2. CASE h <= l.curHeight
    <3>1. h \notin used
      BY <1>0, <1>7, <1>8, <1>9
    <3>2. h \in 1..l.curHeight
      BY <2>2, <1>0
    <3>3. m.fwd[h][Head] = Tail
      <4> HIDE DEF first
      <4>1. QED
        BY <3>1, <3>2, <1>6
    <3>4. OnLevel(l, h) \ {k} \in SUBSET Keys
      BY DEF OnLevel
    <3>5. QED
      BY <3>3, <3>4, <1>6, ChainEmpty
  <2>3. QED
    BY <2>1, <2>2, <1>0
<1>10. m \in Lists
  <2>1. /\ m.fwd \in [Levels -> [Nodes -> Nodes \cup {Nil}]]
        /\ m.bck \in [Levels -> [Nodes -> Nodes \cup {Nil}]]
    <3>1. m.fwd = [h \in Levels |-> m.fwd[h]] /\ m.bck = [h \in Levels |-> m.bck[h]]
      <4> HIDE DEF f, b
      <4>1. QED
        BY <1>1
    <3> HIDE DEF f, b, first
    <3>2. QED
      BY <3>1, <1>6
  <2>2. m.obj \in [Keys -> SUBSET Ids]
    BY <1>1 DEF Lists
  <2>3. m = [fwd |-> m.fwd, bck |-> m.bck, curHeight |-> m.curHeight, obj |-> m.obj]
    BY <1>1
  <2>4. QED
    BY <2>1, <2>2, <2>3, <1>8 DEF Lists
<1>11. m.obj = l.obj
  BY <1>1
<1> HIDE DEF first, used
<1>12. QED
  BY <1>6, <1>9, <1>10, <1>11 DEF m, OthersOnLevel

\* What becomes of a list that an id joins, and of one that it leaves.
LEMMA AddIdHolds ==
  ASSUME NEW l \in Lists, Sound(l), NEW k \in Keys, NEW i \in Ids
  PROVE  /\ AddId(l, k, i) \in Lists /\ Sound(AddId(l, k, i))
         /\ AddId(l, k, i).obj = [l.obj EXCEPT ![k] = @ \cup {i}]
<1> DEFINE with == IF Has(l, k) THEN l ELSE Link(l, k)
           m == AddId(l, k, i)
           on(h) == IF h <= Height[k] THEN OnLevel(l, h) \cup {k} ELSE OnLevel(l, h)
<1>1. /\ with \in Lists /\ with.obj = l.obj
      /\ \A h \in Levels : /\ Chained(with.fwd[h], with.bck[h], on(h))
                           /\ h > with.curHeight => on(h) = {}
  <2>1. CASE Has(l, k)
    <3>1. k \in Alive(l)
      BY <2>1, HasHolds
    <3>2. \A h \in Levels : on(h) = OnLevel(l, h)
      BY <3>1 DEF OnLevel, Alive
    <3> HIDE DEF on
    <3>3. QED
      BY <2>1, <3>2 DEF Sound
  <2>2. CASE ~Has(l, k)
    <3>1. k \notin Alive(l)
      BY <2>2, HasHolds
    <3>2. QED
      BY <2>2, <3>1, LinkHolds
  <2>3. QED
    BY <2>1, <2>2
<1> HIDE DEF with, on
<1>2. /\ m = [with EXCEPT !.obj = [with.obj EXCEPT ![k] = with.obj[k] \cup {i}]]
      /\ with.obj \in [Keys -> SUBSET Ids]
  BY <1>1 DEF AddId, Lists, with
<1> HIDE DEF m
<1>3. /\ m \in Lists /\ m.obj = [l.obj EXCEPT ![k] = l.obj[k] \cup {i}]
      /\ m.fwd = with.fwd /\ m.bck = with.bck /\ m.curHeight = with.curHeight
  BY <1>1, <1>2 DEF Lists
<1>4. \A h \in Levels : OnLevel(m, h) = on(h)
  <2>1. l.obj \in [Keys -> SUBSET Ids]
    BY DEF Lists
  <2>2. m.obj[k] # {} /\ \A j \in Keys \ {k} : m.obj[j] = l.obj[j]
    BY <1>3, <2>1
  <2>3. QED
    BY <2>2 DEF OnLevel, on
<1>5. Sound(m)
  BY <1>1, <1>3, <1>4 DEF Sound
<1>6. QED
  BY <1>3, <1>5 DEF m

Dropped(obj, k, i) == [obj EXCEPT ![k] = @ \ {i}]

RestOnLevel(l, h, k, i) == IF l.obj[k] = {i} THEN OthersOnLevel(l, h, k) ELSE OnLevel(l, h)

LEMMA DropIdHolds ==
  ASSUME NEW l \in Lists, Sound(l), NEW k \in Keys, NEW i \in Ids
  PROVE  /\ DropId(l, k, i) \in Lists /\ Sound(DropId(l, k, i))
         /\ DropId(l, k, i).obj = Dropped(l.obj, k, i)
         /\ LastId(l, k, i) <=> l.obj[k] = {i}
<1> DEFINE without == IF LastId(l, k, i) THEN Unlink(l, k) ELSE l
           m == DropId(l, k, i)
<1>0. LastId(l, k, i) <=> l.obj[k] = {i}
  BY HasHolds DEF LastId, Alive
<1>1. /\ without \in Lists /\ without.obj = l.obj
      /\ \A h \in Levels : /\ Chained(without.fwd[h], without.bck[h], RestOnLevel(l, h, k, i))
                           /\ h > without.curHeight => RestOnLevel(l, h, k, i) = {}
  <2>1. CASE l.obj[k] = {i}
    <3>1. k \in Alive(l)
      BY <2>1 DEF Alive
    <3>2. without = Unlink(l, k) /\ \A h \in Levels : RestOnLevel(l, h, k, i) = OthersOnLevel(l, h, k)
      BY <2>1, <1>0 DEF RestOnLevel
    <3> HIDE DEF without
    <3>3. /\ without \in Lists /\ without.obj = l.obj
          /\ \A h \in Levels : /\ Chained(without.fwd[h], without.bck[h], OthersOnLevel(l, h, k))
                               /\ h > without.curHeight => OthersOnLevel(l, h, k) = {}
      BY <3>1, <3>2, UnlinkHolds
    <3>4. QED
      BY <3>2, <3>3
  <2>2. CASE l.obj[k] # {i}
    BY <2>2, <1>0 DEF Sound, RestOnLevel
  <2>3. QED
    BY <2>1, <2>2
<1> HIDE DEF without
<1>2. /\ m = [without EXCEPT !.obj = [without.obj EXCEPT ![k] = without.obj[k] \ {i}]]
      /\ without.obj \in [Keys -> SUBSET Ids]
  BY <1>1 DEF DropId, Lists, without
<1> HIDE DEF m
<1>3. /\ m \in Lists /\ m.obj = [l.obj EXCEPT ![k] = l.obj[k] \ {i}]
      /\ m.fwd = without.fwd /\ m.bck = without.bck /\ m.curHeight = without.curHeight
  BY <1>1, <1>2 DEF Lists
<1>4. \A h \in Levels : OnLevel(m, h) = RestOnLevel(l, h, k, i)
  <2>1. l.obj \in [Keys -> SUBSET Ids]
    BY DEF Lists
  <2>2. m.obj[k] = l.obj[k] \ {i} /\ \A j \in Keys \ {k} : m.obj[j] = l.obj[j]
    BY <1>3, <2>1
  <2>3. m.obj[k] = {} <=> l.obj[k] = {} \/ l.obj[k] = {i}
    BY <2>2
  <2>4. QED
    BY <2>2, <2>3 DEF OnLevel, RestOnLevel, OthersOnLevel
<1>5. Sound(m)
  BY <1>1, <1>3, <1>4 DEF Sound
<1>6. QED
  BY <1>0, <1>3, <1>5 DEF m, Dropped

-----------------------------------------------------------------------------
(* The invariant *)

\* The regions of a node; the node after those of the dimensions is the result.
In(e) == IF e = NumOfDims + 1 THEN resultList
         ELSE {i \in Ids : regions[i] # NULL /\ i \in minList[e].obj[regions[i].min[e]]}

Listed ==
  /\ \A i \in resultList : regions[i] # NULL
  /\ \A e \in Dims :
       /\ Sound(minList[e]) /\ Sound(maxList[e])
       /\ \A k \in Keys : /\ minList[e].obj[k] = {i \in In(e) : regions[i].min[e] = k}
                          /\ maxList[e].obj[k] = {i \in In(e) : regions[i].max[e] = k}

\* A region that a node has, the nodes before it have.
Nested == \A e, f \in 1..(NumOfDims + 1) : e <= f => In(f) \subseteq In(e)

\* A cursor is at a node of its list or at its end.
MaxAt(e, k) == k \in Alive(minList[e]) \cup {Head}
MinAt(e, k) == k \in Alive(maxList[e]) \cup {Head, Tail}
Cursors == \A e \in Dims : MaxAt(e, currMaxAtMinList[e]) /\ MinAt(e, currMinAtMaxList[e])

\* The regions of the next node are between the cursors ...
Inside(e) == \A i \in In(e + 1) : /\ regions[i].min[e] <= currMaxAtMinList[e]
                                  /\ currMinAtMaxList[e] <= regions[i].max[e]

\* ... and the cursors are within the last query's bounds.
Below(e, q) == currMaxAtMinList[e] = Head \/ currMaxAtMinList[e] < q
Above(e, q) == /\ currMinAtMaxList[e] # Head
               /\ currMinAtMaxList[e] = Tail \/ q < currMinAtMaxList[e]

Settled(e) ==
  /\ Inside(e)
  /\ oldMin[e] = NULL <=> oldMax[e] = NULL
  /\ IF oldMin[e] = NULL THEN currMaxAtMinList[e] = Head /\ currMinAtMaxList[e] = Head
     ELSE Below(e, oldMax[e]) /\ Above(e, oldMin[e])

\* The node of a query: after max, and after min, has shrunk.
MaxShrunk(d) ==
  /\ Inside(d)
  /\ oldMin[d] = NULL <=> oldMax[d] = NULL
  /\ Below(d, query.max[d])
  /\ IF oldMin[d] = NULL THEN currMaxAtMinList[d] = Head ELSE Below(d, oldMax[d])
  /\ currMinAtMaxList[d] = Head => oldMin[d] = NULL

MinShrunk(d) ==
  /\ Below(d, query.max[d]) /\ Above(d, query.min[d])
  /\ \A i \in In(d + 1) : /\ regions[i].min[d] <= currMaxAtMinList[d]
                          /\ query.min[d] < regions[i].max[d]

\* max has grown: no coordinate is left between it and the query's.
MaxGrown(d) == \A k \in Alive(minList[d]) : k <= currMaxAtMinList[d] \/ query.max[d] <= k

\* What is known at each loop of the node of d.
At(d) ==
  /\ pc = "maxShrinks" => Settled(d)
  /\ pc = "maxLeaves" =>
       /\ Settled(d) /\ currMaxAtMinList[d] # Head /\ ids \subseteq In(d)
       /\ \A i \in In(d + 1) : regions[i].min[d] = currMaxAtMinList[d] => i \in ids
  /\ pc = "minShrinks" => MaxShrunk(d)
  /\ pc = "minLeaves" =>
       /\ MaxShrunk(d) /\ currMinAtMaxList[d] \notin {Head, Tail} /\ ids \subseteq In(d)
       /\ \A i \in In(d + 1) : regions[i].max[d] = currMinAtMaxList[d] => i \in ids
  /\ pc \in {"maxGrows", "maxEnters", "minGrows", "minEnters"} => MinShrunk(d)
  /\ pc = "maxEnters" => ids \subseteq {i \in In(d) : regions[i].min[d] = currMaxAtMinList[d]}
  /\ pc \in {"minGrows", "minEnters"} => MaxGrown(d)
  /\ pc = "minEnters" => ids \subseteq {i \in In(d) : regions[i].max[d] = currMinAtMaxList[d]}

Loops == {"maxShrinks", "maxLeaves", "minShrinks", "minLeaves", "maxGrows", "maxEnters",
          "minGrows", "minEnters"}

\* The nodes before that of the query have been asked.
Asked(e) == oldMin[e] = query.min[e] /\ oldMax[e] = query.max[e]

Stepwise ==
  /\ pc \in {"idle", "answered"} => \A e \in Dims : Settled(e)
  /\ pc \in Loops => /\ query # NULL
                     /\ \A e \in Dims : /\ e # dimNo => Settled(e)
                                        /\ e < dimNo => Asked(e)
                                        /\ e = dimNo => At(e)
  /\ pc = "answered" => query # NULL /\ \A e \in Dims : Asked(e)

StopsEmpty ==
  pc = "crashed" => \A e \in Dims : e = dimNo => oldMin[e] = NULL /\ Alive(maxList[e]) = {}

TreeInv == TypeOK /\ Listed /\ Nested /\ Cursors /\ Stepwise /\ StopsEmpty

-----------------------------------------------------------------------------
(* What every step has *)

LEMMA Kinds ==
  /\ NumOfDims \in Nat /\ NumOfDims >= 1
  /\ \A e \in Dims : e \in Nat /\ e + 1 \in 1..(NumOfDims + 1) /\ e \in 1..(NumOfDims + 1)
                     /\ e # NumOfDims + 1
  /\ \A r \in Boxes : \A e \in Dims : r.min[e] \in Keys /\ r.max[e] \in Keys
  /\ \A q \in Windows : \A e \in Dims : q.min[e] \in Nodes /\ q.max[e] \in Nodes
  /\ NULL \notin Boxes /\ NULL \notin Windows /\ NULL \notin Nodes
BY DimsAssumption, BoxesAssumption, WindowsAssumption, NullAssumption DEF Dims

\* The regions of a node, with their coordinates among those of its lists.
LEMMA RegionsOf ==
  ASSUME TypeOK, Listed, NEW e \in 1..(NumOfDims + 1), NEW i \in In(e)
  PROVE  /\ i \in Ids /\ regions[i] \in Boxes
         /\ e # NumOfDims + 1 => /\ e \in Dims
                                 /\ regions[i].min[e] \in Alive(minList[e])
                                 /\ regions[i].max[e] \in Alive(maxList[e])
<1>1. i \in Ids /\ regions[i] \in Boxes
  BY DEF In, TypeOK, Listed
<1>2. ASSUME e # NumOfDims + 1
      PROVE  /\ e \in Dims
             /\ regions[i].min[e] \in Alive(minList[e])
             /\ regions[i].max[e] \in Alive(maxList[e])
  <2>1. e \in Dims
    BY <1>2, Kinds DEF Dims
  <2>2. regions[i].min[e] \in Keys /\ regions[i].max[e] \in Keys
    BY <1>1, <2>1, Kinds
  <2>3. i \in minList[e].obj[regions[i].min[e]] /\ i \in maxList[e].obj[regions[i].max[e]]
    BY <2>1, <2>2 DEF Listed
  <2>4. QED
    BY <2>1, <2>2, <2>3 DEF Alive
<1>3. QED
  BY <1>1, <1>2

\* Every id of a node of a list is one of its regions.
LEMMA ListedAt ==
  ASSUME TypeOK, Listed, NEW e \in Dims, NEW k \in Keys
  PROVE  /\ minList[e].obj[k] = {i \in In(e) : regions[i].min[e] = k}
         /\ maxList[e].obj[k] = {i \in In(e) : regions[i].max[e] = k}
         /\ minList[e] \in Lists /\ maxList[e] \in Lists
         /\ Sound(minList[e]) /\ Sound(maxList[e])
BY DEF TypeOK, Listed

-----------------------------------------------------------------------------
(* An insertion *)

LEMMA ReachedNodes ==
  ASSUME NEW r, NEW d \in 1..(NumOfDims + 1)
  PROVE  /\ d \in Reached(r, d)
         /\ Reached(r, d) \subseteq d..(NumOfDims + 1)
         /\ \A e, f \in d..(NumOfDims + 1) :
              e <= f /\ f \in Reached(r, d) => e \in Reached(r, d) /\ (e < f => Between(r, e))
<1>1. d \in Nat /\ d <= NumOfDims + 1 /\ NumOfDims \in Nat
  BY Kinds
<1>2. d \in d..(NumOfDims + 1) /\ d..(d - 1) = {}
  BY <1>1
<1>3. d \in Reached(r, d)
  BY <1>2 DEF Reached
<1>4. ASSUME NEW e \in d..(NumOfDims + 1), NEW f \in d..(NumOfDims + 1), e <= f,
             f \in Reached(r, d)
      PROVE  e \in Reached(r, d) /\ (e < f => Between(r, e))
  <2>1. \A g \in d..(f - 1) : Between(r, g)
    BY <1>4 DEF Reached
  <2>2. \A g \in d..(e - 1) : g \in d..(f - 1)
    BY <1>1, <1>4
  <2>3. e < f => e \in d..(f - 1)
    BY <1>1
  <2>4. QED
    BY <2>1, <2>2, <2>3 DEF Reached
<1>5. QED
  BY <1>3, <1>4 DEF Reached

\* Region r with the id i, new or known, comes to the node of d.
LEMMA InsertHolds ==
  ASSUME TypeOK, Listed, NEW i \in Ids, NEW r \in Boxes, NEW d \in 1..(NumOfDims + 1),
         regions[i] \in {NULL, r}, regions' = [regions EXCEPT ![i] = r],
         Insert(i, r, d)
  PROVE  /\ \A e \in 1..(NumOfDims + 1) :
              In(e)' = IF e \in Reached(r, d) THEN In(e) \cup {i} ELSE In(e)
         /\ \A e \in 1..(NumOfDims + 1) : \A j \in In(e) : regions'[j] = regions[j]
         /\ regions'[i] = r
         /\ Listed'
         /\ minList' \in [Dims -> Lists] /\ maxList' \in [Dims -> Lists]
         /\ resultList' \subseteq Ids
         /\ \A e \in Dims : /\ Alive(minList[e]) \subseteq Alive(minList'[e])
                            /\ Alive(maxList[e]) \subseteq Alive(maxList'[e])
                            /\ e < d => minList'[e] = minList[e] /\ maxList'[e] = maxList[e]
<1>0. /\ regions \in [Ids -> Boxes \cup {NULL}] /\ r # NULL /\ NumOfDims \in Nat
      /\ minList \in [Dims -> Lists] /\ maxList \in [Dims -> Lists] /\ resultList \subseteq Ids
      /\ regions'[i] = r /\ \A j \in Ids \ {i} : regions'[j] = regions[j]
      /\ regions' \in [Ids -> Boxes \cup {NULL}]
  BY Kinds DEF TypeOK
<1>1. \A j \in Ids : regions[j] # NULL => regions'[j] = regions[j]
  BY <1>0
<1>2. \A e \in 1..(NumOfDims + 1) : \A j \in In(e) : regions'[j] = regions[j]
  BY <1>1, Kinds, RegionsOf
<1>3. ASSUME NEW e \in Dims
      PROVE  /\ minList'[e] = IF e \in Reached(r, d) THEN AddId(minList[e], r.min[e], i)
                              ELSE minList[e]
             /\ maxList'[e] = IF e \in Reached(r, d) THEN AddId(maxList[e], r.max[e], i)
                              ELSE maxList[e]
  BY DEF Insert
<1>4. ASSUME NEW e \in Dims
      PROVE  /\ minList'[e] \in Lists /\ Sound(minList'[e])
             /\ maxList'[e] \in Lists /\ Sound(maxList'[e])
             /\ minList'[e].obj = IF e \in Reached(r, d)
                  THEN [minList[e].obj EXCEPT ![r.min[e]] = @ \cup {i}] ELSE minList[e].obj
             /\ maxList'[e].obj = IF e \in Reached(r, d)
                  THEN [maxList[e].obj EXCEPT ![r.max[e]] = @ \cup {i}] ELSE maxList[e].obj
  <2>1. /\ minList[e] \in Lists /\ maxList[e] \in Lists
        /\ Sound(minList[e]) /\ Sound(maxList[e])
    BY <1>0 DEF Listed
  <2>2. r.min[e] \in Keys /\ r.max[e] \in Keys
    BY Kinds
  <2>3. CASE e \in Reached(r, d)
    BY <2>1, <2>2, <2>3, <1>3, AddIdHolds
  <2>4. CASE e \notin Reached(r, d)
    BY <2>1, <2>4, <1>3
  <2>5. QED
    BY <2>3, <2>4
<1>5. ASSUME NEW e \in Dims
      PROVE  /\ In(e)' = IF e \in Reached(r, d) THEN In(e) \cup {i} ELSE In(e)
             /\ \A k \in Keys : /\ minList'[e].obj[k] = {j \in In(e)' : regions'[j].min[e] = k}
                                /\ maxList'[e].obj[k] = {j \in In(e)' : regions'[j].max[e] = k}
             /\ Alive(minList[e]) \subseteq Alive(minList'[e])
             /\ Alive(maxList[e]) \subseteq Alive(maxList'[e])
  <2>1. /\ minList[e].obj \in [Keys -> SUBSET Ids] /\ maxList[e].obj \in [Keys -> SUBSET Ids]
        /\ e # NumOfDims + 1 /\ r.min[e] \in Keys /\ r.max[e] \in Keys
    BY <1>0, Kinds DEF Lists
  <2>2. \A k \in Keys : /\ minList[e].obj[k] = {j \in In(e) : regions[j].min[e] = k}
                        /\ maxList[e].obj[k] = {j \in In(e) : regions[j].max[e] = k}
    BY DEF Listed
  <2>3. \A j \in Ids : j \in In(e) => regions[j] \in Boxes /\ regions'[j] = regions[j]
    BY <2>1, <1>0, <1>1 DEF In
  <2>4. In(e) \subseteq Ids
    BY <2>1 DEF In
  <2>5. In(e)' = {j \in Ids : regions'[j] # NULL /\ j \in minList'[e].obj[regions'[j].min[e]]}
    BY <2>1 DEF In
  <2>6. In(e) = {j \in Ids : regions[j] # NULL /\ j \in minList[e].obj[regions[j].min[e]]}
    BY <2>1 DEF In
  <2>7. CASE e \in Reached(r, d)
    <3>1. /\ minList'[e].obj[r.min[e]] = minList[e].obj[r.min[e]] \cup {i}
          /\ maxList'[e].obj[r.max[e]] = maxList[e].obj[r.max[e]] \cup {i}
          /\ \A k \in Keys : /\ k # r.min[e] => minList'[e].obj[k] = minList[e].obj[k]
                             /\ k # r.max[e] => maxList'[e].obj[k] = maxList[e].obj[k]
      BY <2>1, <2>7, <1>4
    <3>2. In(e)' = In(e) \cup {i}
      <4>1. ASSUME NEW j \in Ids
            PROVE  j \in In(e)' <=> j \in In(e) \/ j = i
        <5>1. CASE j = i
          BY <5>1, <3>1, <2>5, <1>0
        <5>2. CASE j # i
          <6>1. regions'[j] = regions[j]
            BY <5>2, <1>0
          <6>2. regions[j] # NULL => regions[j].min[e] \in Keys
            BY <1>0, Kinds
          <6>3. regions[j] # NULL =>
                  (j \in minList'[e].obj[regions[j].min[e]] <=> j \in minList[e].obj[regions[j].min[e]])
            BY <6>2, <3>1, <5>2
          <6>4. QED
            BY <6>1, <6>3, <2>5, <2>6, <5>2
        <5>3. QED
          BY <5>1, <5>2
      <4>2. In(e)' \subseteq Ids
        BY <2>5
      <4>3. QED
        BY <4>1, <4>2, <2>4
    <3>3. ASSUME NEW k \in Keys
          PROVE  /\ minList'[e].obj[k] = {j \in In(e)' : regions'[j].min[e] = k}
                 /\ maxList'[e].obj[k] = {j \in In(e)' : regions'[j].max[e] = k}
      <4>1. \A j \in In(e) : j \in Ids /\ regions'[j] = regions[j]
        BY <2>3, <2>4
      <4>2. /\ minList'[e].obj[k] = IF k = r.min[e] THEN minList[e].obj[k] \cup {i}
                                    ELSE minList[e].obj[k]
            /\ maxList'[e].obj[k] = IF k = r.max[e] THEN maxList[e].obj[k] \cup {i}
                                    ELSE maxList[e].obj[k]
        BY <3>1
      <4>3. /\ minList[e].obj[k] = {j \in In(e) : regions[j].min[e] = k}
            /\ maxList[e].obj[k] = {j \in In(e) : regions[j].max[e] = k}
        BY <2>2
      <4>4. QED
        BY ONLY <4>1, <4>2, <4>3, <3>2, <1>0
    <3>4. \A k \in Keys : /\ minList[e].obj[k] \subseteq minList'[e].obj[k]
                          /\ maxList[e].obj[k] \subseteq maxList'[e].obj[k]
      BY <3>1
    <3>5. QED
      BY <3>2, <3>3, <3>4, <2>7 DEF Alive
  <2>8. CASE e \notin Reached(r, d)
    <3>1. minList'[e].obj = minList[e].obj /\ maxList'[e].obj = maxList[e].obj
      BY <2>8, <1>4
    <3>2. In(e)' = In(e)
      <4>1. ASSUME NEW j \in Ids
            PROVE  j \in In(e)' <=> j \in In(e)
        <5>1. CASE regions[j] # NULL
          BY <5>1, <3>1, <2>5, <2>6, <1>1
        <5>2. CASE regions[j] = NULL
          <6>1. j \notin In(e)
            BY <5>2, <2>6
          <6>2. ASSUME j \in In(e)'
                PROVE  FALSE
            <7>1. j = i
              BY <6>2, <5>2, <2>5, <1>0
            <7>2. j \in minList[e].obj[r.min[e]]
              BY <7>1, <6>2, <2>5, <3>1, <1>0
            <7>3. j \in In(e)
              BY <7>2, <2>1, <2>2
            <7>4. QED
              BY <7>3, <6>1
          <6>3. QED
            BY <6>1, <6>2
        <5>3. QED
          BY <5>1, <5>2
      <4>2. In(e)' \subseteq Ids
        BY <2>5
      <4>3. QED
        BY <4>1, <4>2, <2>4
    <3>3. ASSUME NEW k \in Keys
          PROVE  /\ minList'[e].obj[k] = {j \in In(e)' : regions'[j].min[e] = k}
                 /\ maxList'[e].obj[k] = {j \in In(e)' : regions'[j].max[e] = k}
      BY <2>2, <2>3, <2>4, <3>1, <3>2
    <3>4. QED
      BY <3>1, <3>2, <3>3, <2>8 DEF Alive
  <2>9. QED
    BY <2>7, <2>8
<1>6. /\ In(NumOfDims + 1)' = IF NumOfDims + 1 \in Reached(r, d)
                                THEN In(NumOfDims + 1) \cup {i} ELSE In(NumOfDims + 1)
      /\ resultList' \subseteq Ids
      /\ \A j \in resultList' : regions'[j] # NULL
  <2>1. resultList' = IF NumOfDims + 1 \in Reached(r, d) THEN resultList \cup {i} ELSE resultList
    BY DEF Insert
  <2>2. In(NumOfDims + 1) = resultList /\ In(NumOfDims + 1)' = resultList'
    BY DEF In
  <2>3. \A j \in resultList : regions[j] # NULL
    BY DEF Listed
  <2>4. QED
    BY <2>1, <2>2, <2>3, <1>0, <1>1
<1>7. \A e \in 1..(NumOfDims + 1) :
        In(e)' = IF e \in Reached(r, d) THEN In(e) \cup {i} ELSE In(e)
  <2>1. \A e \in 1..(NumOfDims + 1) : e \in Dims \/ e = NumOfDims + 1
    BY <1>0 DEF Dims
  <2>2. QED
    BY <2>1, <1>5, <1>6
<1>8. Listed'
  BY <1>4, <1>5, <1>6 DEF Listed
<1>9. minList' \in [Dims -> Lists] /\ maxList' \in [Dims -> Lists]
  BY <1>4 DEF Insert
<1>10. ASSUME NEW e \in Dims, e < d
       PROVE  minList'[e] = minList[e] /\ maxList'[e] = maxList[e]
  <2>1. e \notin Reached(r, d)
    BY <1>10, Kinds, ReachedNodes
  <2>2. QED
    BY <2>1, <1>3
<1>11. QED
  BY <1>0, <1>2, <1>5, <1>6, <1>7, <1>8, <1>9, <1>10

-----------------------------------------------------------------------------
(* A deletion *)

\* What is left of the coordinates of a list, and where its cursors go.
LEMMA DropAlive ==
  ASSUME NEW l \in Lists, Sound(l), NEW k \in Keys, NEW i \in Ids
  PROVE  /\ Alive(DropId(l, k, i)) = IF l.obj[k] = {i} THEN Alive(l) \ {k} ELSE Alive(l)
         /\ \A j \in Keys : \A x \in Ids : x \in DropId(l, k, i).obj[j]
                                         <=> x \in l.obj[j] /\ ~ (j = k /\ x = i)
<1> DEFINE m == DropId(l, k, i)
<1>1. m.obj = [l.obj EXCEPT ![k] = @ \ {i}] /\ l.obj \in [Keys -> SUBSET Ids]
  BY DropIdHolds, ZenonT(60) DEF Lists, Dropped
<1> HIDE DEF m
<1>2. \A j \in Keys : m.obj[j] = IF j = k THEN l.obj[j] \ {i} ELSE l.obj[j]
  BY <1>1
<1>3. \A j \in Keys : m.obj[j] = {} <=> l.obj[j] = {} \/ (j = k /\ l.obj[j] = {i})
  BY <1>2
<1>4. Alive(m) = IF l.obj[k] = {i} THEN Alive(l) \ {k} ELSE Alive(l)
  BY <1>3 DEF Alive
<1>5. \A j \in Keys : \A x \in Ids : x \in m.obj[j] <=> x \in l.obj[j] /\ ~ (j = k /\ x = i)
  BY <1>2
<1>6. QED
  BY <1>4, <1>5 DEF m

\* The cursor into the minima goes down, and past none that is left.
LEMMA MaxCursorHolds ==
  ASSUME TypeOK, Listed, Cursors, NEW i \in Ids, regions[i] \in Boxes, NEW e \in Dims
  PROVE  LET l == DropId(minList[e], regions[i].min[e], i)
             c == MaxCursor(e, i)
         IN  /\ c \in Alive(l) \cup {Head} /\ c <= currMaxAtMinList[e]
             /\ \A k \in Alive(l) : k <= currMaxAtMinList[e] => k <= c
<1> DEFINE k == regions[i].min[e]
           old0 == minList[e]
           l == DropId(old0, k, i)
           c == MaxCursor(e, i)
<1>1. k \in Keys /\ old0 \in Lists /\ Sound(old0)
  BY Kinds, ListedAt
<1>2. /\ Alive(l) = IF old0.obj[k] = {i} THEN Alive(old0) \ {k} ELSE Alive(old0)
      /\ LastId(old0, k, i) <=> old0.obj[k] = {i}
  <2> HIDE DEF k, old0
  <2>1. Alive(l) = IF old0.obj[k] = {i} THEN Alive(old0) \ {k} ELSE Alive(old0)
    BY <1>1, DropAlive
  <2>2. LastId(old0, k, i) <=> old0.obj[k] = {i}
    BY <1>1, DropIdHolds
  <2>3. QED
    BY <2>1, <2>2
<1>3. currMaxAtMinList[e] \in Alive(old0) \cup {Head}
  BY DEF Cursors, MaxAt
<1>4. c = IF currMaxAtMinList[e] = k /\ old0.obj[k] = {i} THEN old0.bck[1][k]
          ELSE currMaxAtMinList[e]
  BY <1>2 DEF MaxCursor
<1>n. Head \in Nat /\ \A j \in Alive(old0) : j \in Nat
  BY Numbers DEF Alive
<1>5. CASE currMaxAtMinList[e] = k /\ old0.obj[k] = {i}
  <2>1. k \in Alive(old0)
    BY <1>1, <1>5 DEF Alive
  <2>2. LET n == old0.bck[1][k]
        IN  n \in Alive(old0) \cup {Head} /\ n < k /\ \A j \in Alive(old0) : j <= n \/ k <= j
    BY <2>1, <1>1, PrevHolds
  <2>3. c = old0.bck[1][k]
    BY <1>4, <1>5
  <2> HIDE DEF k, old0, l, c
  <2>4. c \in Alive(l) \cup {Head} /\ c <= currMaxAtMinList[e]
    BY <2>2, <2>3, <1>2, <1>5, <1>n, <2>1
  <2>5. ASSUME NEW j \in Alive(l), j <= currMaxAtMinList[e]
        PROVE  j <= c
    BY <2>2, <2>3, <2>5, <1>2, <1>5, <1>n, <2>1
  <2>6. QED
    BY <2>4, <2>5 DEF k, old0, l, c
<1>6. CASE ~ (currMaxAtMinList[e] = k /\ old0.obj[k] = {i})
  <2>1. c = currMaxAtMinList[e]
    BY <1>4, <1>6
  <2> HIDE DEF k, old0, l, c
  <2>2. c \in Alive(l) \cup {Head} /\ c <= currMaxAtMinList[e]
    BY <2>1, <1>2, <1>3, <1>6, <1>n
  <2>3. QED
    BY <2>1, <2>2 DEF k, old0, l, c
<1>7. QED
  BY <1>5, <1>6

\* The cursor into the maxima goes up.
LEMMA MinCursorHolds ==
  ASSUME TypeOK, Listed, Cursors, NEW i \in Ids, regions[i] \in Boxes, NEW e \in Dims
  PROVE  LET l == DropId(maxList[e], regions[i].max[e], i)
             c == MinCursor(e, i)
         IN  /\ c \in Alive(l) \cup {Head, Tail} /\ currMinAtMaxList[e] <= c
             /\ c = Head <=> currMinAtMaxList[e] = Head
             /\ \A k \in Alive(l) : currMinAtMaxList[e] <= k => c <= k
<1> DEFINE k == regions[i].max[e]
           old0 == maxList[e]
           l == DropId(old0, k, i)
           c == MinCursor(e, i)
<1>1. k \in Keys /\ old0 \in Lists /\ Sound(old0)
  BY Kinds, ListedAt
<1>2. /\ Alive(l) = IF old0.obj[k] = {i} THEN Alive(old0) \ {k} ELSE Alive(old0)
      /\ LastId(old0, k, i) <=> old0.obj[k] = {i}
  <2> HIDE DEF k, old0
  <2>1. Alive(l) = IF old0.obj[k] = {i} THEN Alive(old0) \ {k} ELSE Alive(old0)
    BY <1>1, DropAlive
  <2>2. LastId(old0, k, i) <=> old0.obj[k] = {i}
    BY <1>1, DropIdHolds
  <2>3. QED
    BY <2>1, <2>2
<1>3. currMinAtMaxList[e] \in Alive(old0) \cup {Head, Tail}
  BY DEF Cursors, MinAt
<1>4. c = IF currMinAtMaxList[e] = k /\ old0.obj[k] = {i} THEN old0.fwd[1][k]
          ELSE currMinAtMaxList[e]
  BY <1>2 DEF MinCursor
<1>n. /\ Head \in Nat /\ Tail \in Nat /\ Head < Tail
      /\ \A j \in Alive(old0) : j \in Nat /\ Head < j /\ j < Tail
  BY Numbers DEF Alive
<1>5. CASE currMinAtMaxList[e] = k /\ old0.obj[k] = {i}
  <2>1. k \in Alive(old0)
    BY <1>1, <1>5 DEF Alive
  <2>2. LET n == old0.fwd[1][k]
        IN  n \in Alive(old0) \cup {Tail} /\ k < n /\ \A j \in Alive(old0) : j <= k \/ n <= j
    BY <2>1, <1>1, NextHolds
  <2>3. c = old0.fwd[1][k]
    BY <1>4, <1>5
  <2> HIDE DEF k, old0, l, c
  <2>4. c \in Alive(l) \cup {Head, Tail} /\ currMinAtMaxList[e] <= c /\ c # Head
        /\ currMinAtMaxList[e] # Head
    BY <2>2, <2>3, <1>2, <1>5, <1>n, <2>1
  <2>5. ASSUME NEW j \in Alive(l), currMinAtMaxList[e] <= j
        PROVE  c <= j
    BY <2>2, <2>3, <2>5, <1>2, <1>5, <1>n, <2>1
  <2>6. QED
    BY <2>4, <2>5 DEF k, old0, l, c
<1>6. CASE ~ (currMinAtMaxList[e] = k /\ old0.obj[k] = {i})
  <2>1. c = currMinAtMaxList[e]
    BY <1>4, <1>6
  <2> HIDE DEF k, old0, l, c
  <2>2. c \in Alive(l) \cup {Head, Tail} /\ currMinAtMaxList[e] <= c
    BY <2>1, <1>2, <1>3, <1>6, <1>n
  <2>3. QED
    BY <2>1, <2>2 DEF k, old0, l, c
<1>7. QED
  BY <1>5, <1>6

\* The region of i leaves the node of d and all that follow.
LEMMA DeleteHolds ==
  ASSUME TypeOK, Listed, Cursors, NEW i \in Ids, regions[i] \in Boxes,
         NEW d \in 2..(NumOfDims + 1), Delete(i, d), regions' = regions
  PROVE  /\ \A e \in 1..(NumOfDims + 1) : In(e)' = IF d <= e THEN In(e) \ {i} ELSE In(e)
         /\ Listed' /\ Cursors'
         /\ minList' \in [Dims -> Lists] /\ maxList' \in [Dims -> Lists]
         /\ currMaxAtMinList' \in [Dims -> Nodes \ {Tail}]
         /\ currMinAtMaxList' \in [Dims -> Nodes]
         /\ resultList' \subseteq Ids
         /\ \A e \in Dims : ~ (d <= e) =>
              /\ minList'[e] = minList[e] /\ maxList'[e] = maxList[e]
              /\ currMaxAtMinList'[e] = currMaxAtMinList[e]
              /\ currMinAtMaxList'[e] = currMinAtMaxList[e]
         /\ \A e \in Dims :
              /\ currMaxAtMinList'[e] <= currMaxAtMinList[e]
              /\ \A k \in Alive(minList'[e]) :
                   k <= currMaxAtMinList[e] => k <= currMaxAtMinList'[e]
              /\ currMinAtMaxList[e] <= currMinAtMaxList'[e]
              /\ currMinAtMaxList'[e] = Head <=> currMinAtMaxList[e] = Head
              /\ \A k \in Alive(maxList'[e]) :
                   currMinAtMaxList[e] <= k => currMinAtMaxList'[e] <= k
<1>0. /\ regions \in [Ids -> Boxes \cup {NULL}] /\ NumOfDims \in Nat /\ regions[i] # NULL
      /\ minList \in [Dims -> Lists] /\ maxList \in [Dims -> Lists] /\ resultList \subseteq Ids
      /\ currMaxAtMinList \in [Dims -> Nodes \ {Tail}] /\ currMinAtMaxList \in [Dims -> Nodes]
      /\ d \in Nat
  BY Kinds DEF TypeOK
<1>1. ASSUME NEW e \in Dims
      PROVE  IF d <= e
               THEN /\ minList'[e] = DropId(minList[e], regions[i].min[e], i)
                    /\ maxList'[e] = DropId(maxList[e], regions[i].max[e], i)
                    /\ currMaxAtMinList'[e] = MaxCursor(e, i)
                    /\ currMinAtMaxList'[e] = MinCursor(e, i)
               ELSE /\ minList'[e] = minList[e] /\ maxList'[e] = maxList[e]
                    /\ currMaxAtMinList'[e] = currMaxAtMinList[e]
                    /\ currMinAtMaxList'[e] = currMinAtMaxList[e]
  BY DEF Delete
<1>2. ASSUME NEW e \in Dims
      PROVE  /\ minList[e] \in Lists /\ maxList[e] \in Lists
             /\ Sound(minList[e]) /\ Sound(maxList[e])
             /\ regions[i].min[e] \in Keys /\ regions[i].max[e] \in Keys
             /\ \A k \in Keys : /\ minList[e].obj[k] = {j \in In(e) : regions[j].min[e] = k}
                                /\ maxList[e].obj[k] = {j \in In(e) : regions[j].max[e] = k}
             /\ MaxAt(e, currMaxAtMinList[e]) /\ MinAt(e, currMinAtMaxList[e])
             /\ In(e) = {j \in Ids : regions[j] # NULL /\ j \in minList[e].obj[regions[j].min[e]]}
             /\ In(e)' = {j \in Ids : regions[j] # NULL /\ j \in minList'[e].obj[regions[j].min[e]]}
  <2>1. e # NumOfDims + 1
    BY Kinds
  <2>2. QED
    BY <2>1, <1>0, Kinds DEF Listed, Cursors, In
<1>3. ASSUME NEW e \in Dims
      PROVE  /\ minList'[e] \in Lists /\ Sound(minList'[e])
             /\ maxList'[e] \in Lists /\ Sound(maxList'[e])
             /\ \A k \in Keys :
                  /\ minList'[e].obj[k] = IF d <= e THEN minList[e].obj[k] \ {i} ELSE minList[e].obj[k]
                  /\ maxList'[e].obj[k] = IF d <= e THEN maxList[e].obj[k] \ {i} ELSE maxList[e].obj[k]
  <2>1. CASE d <= e
    <3>1. /\ minList'[e] \in Lists /\ Sound(minList'[e])
          /\ maxList'[e] \in Lists /\ Sound(maxList'[e])
      <4>1. minList'[e] \in Lists /\ Sound(minList'[e])
        <5>1. minList'[e] = DropId(minList[e], regions[i].min[e], i)
          BY <2>1, <1>1
        <5>2. QED
          BY <5>1, <1>2, DropIdHolds
      <4>2. maxList'[e] \in Lists /\ Sound(maxList'[e])
        <5>1. maxList'[e] = DropId(maxList[e], regions[i].max[e], i)
          BY <2>1, <1>1
        <5>2. QED
          BY <5>1, <1>2, DropIdHolds
      <4>3. QED
        BY <4>1, <4>2
    <3>2. \A k \in Keys : \A x \in Ids :
            /\ x \in minList'[e].obj[k] <=> x \in minList[e].obj[k] /\ ~ (k = regions[i].min[e] /\ x = i)
            /\ x \in maxList'[e].obj[k] <=> x \in maxList[e].obj[k] /\ ~ (k = regions[i].max[e] /\ x = i)
      <4>1. /\ minList'[e] = DropId(minList[e], regions[i].min[e], i)
            /\ maxList'[e] = DropId(maxList[e], regions[i].max[e], i)
        BY <2>1, <1>1
      <4>2. \A k \in Keys : \A x \in Ids :
              x \in minList'[e].obj[k] <=> x \in minList[e].obj[k] /\ ~ (k = regions[i].min[e] /\ x = i)
        BY <4>1, <1>2, DropAlive
      <4>3. \A k \in Keys : \A x \in Ids :
              x \in maxList'[e].obj[k] <=> x \in maxList[e].obj[k] /\ ~ (k = regions[i].max[e] /\ x = i)
        BY <4>1, <1>2, DropAlive
      <4>4. QED
        BY <4>2, <4>3
    <3>3. \A k \in Keys : /\ k # regions[i].min[e] => i \notin minList[e].obj[k]
                          /\ k # regions[i].max[e] => i \notin maxList[e].obj[k]
      BY <1>2
    <3>4. \A k \in Keys : /\ minList'[e].obj[k] \subseteq Ids /\ minList[e].obj[k] \subseteq Ids
                          /\ maxList'[e].obj[k] \subseteq Ids /\ maxList[e].obj[k] \subseteq Ids
      BY <3>1, <1>2 DEF Lists
    <3>5. ASSUME NEW k \in Keys
          PROVE  /\ minList'[e].obj[k] = minList[e].obj[k] \ {i}
                 /\ maxList'[e].obj[k] = maxList[e].obj[k] \ {i}
      BY <3>2, <3>3, <3>4
    <3>6. QED
      BY <3>1, <3>5, <2>1
  <2>2. CASE ~ (d <= e)
    BY <2>2, <1>1, <1>2
  <2>3. QED
    BY <2>1, <2>2
<1>4. ASSUME NEW e \in Dims
      PROVE  /\ In(e)' = IF d <= e THEN In(e) \ {i} ELSE In(e)
             /\ \A k \in Keys : /\ minList'[e].obj[k] = {j \in In(e)' : regions'[j].min[e] = k}
                                /\ maxList'[e].obj[k] = {j \in In(e)' : regions'[j].max[e] = k}
  <2>1. \A j \in Ids : regions[j] # NULL => regions[j].min[e] \in Keys
    BY <1>0, Kinds
  <2>2. /\ In(e) = {j \in Ids : regions[j] # NULL /\ j \in minList[e].obj[regions[j].min[e]]}
        /\ In(e)' = {j \in Ids : regions[j] # NULL /\ j \in minList'[e].obj[regions[j].min[e]]}
        /\ \A k \in Keys : /\ minList[e].obj[k] = {j \in In(e) : regions[j].min[e] = k}
                           /\ maxList[e].obj[k] = {j \in In(e) : regions[j].max[e] = k}
    BY <1>2
  <2>3. CASE d <= e
    <3>1. \A k \in Keys : /\ minList'[e].obj[k] = minList[e].obj[k] \ {i}
                          /\ maxList'[e].obj[k] = maxList[e].obj[k] \ {i}
      BY <2>3, <1>3
    <3>2. In(e)' = In(e) \ {i}
      BY ONLY <2>1, <2>2, <3>1
    <3>3. ASSUME NEW k \in Keys
          PROVE  /\ minList'[e].obj[k] = {j \in In(e)' : regions[j].min[e] = k}
                 /\ maxList'[e].obj[k] = {j \in In(e)' : regions[j].max[e] = k}
      BY ONLY <2>2, <3>1, <3>2, k \in Keys
    <3>4. QED
      BY <3>2, <3>3, <2>3
  <2>4. CASE ~ (d <= e)
    <3>1. \A k \in Keys : /\ minList'[e].obj[k] = minList[e].obj[k]
                          /\ maxList'[e].obj[k] = maxList[e].obj[k]
      BY <2>4, <1>3
    <3>2. In(e)' = In(e)
      BY ONLY <2>1, <2>2, <3>1
    <3>3. QED
      BY <3>1, <3>2, <2>2, <2>4
  <2>5. QED
    BY <2>3, <2>4
<1>5. /\ In(NumOfDims + 1)' = In(NumOfDims + 1) \ {i} /\ d <= NumOfDims + 1
      /\ resultList' \subseteq Ids /\ \A j \in resultList' : regions'[j] # NULL
  BY <1>0 DEF Delete, In, Listed
<1>6. \A e \in 1..(NumOfDims + 1) : In(e)' = IF d <= e THEN In(e) \ {i} ELSE In(e)
  <2>1. \A e \in 1..(NumOfDims + 1) : e \in Dims \/ e = NumOfDims + 1
    BY <1>0 DEF Dims
  <2>2. QED
    BY <2>1, <1>4, <1>5
<1>7. Listed'
  BY <1>3, <1>4, <1>5 DEF Listed
<1>8. ASSUME NEW e \in Dims
      PROVE  /\ currMaxAtMinList'[e] \in Alive(minList'[e]) \cup {Head}
             /\ currMaxAtMinList'[e] <= currMaxAtMinList[e]
             /\ \A k \in Alive(minList'[e]) :
                  k <= currMaxAtMinList[e] => k <= currMaxAtMinList'[e]
             /\ currMinAtMaxList'[e] \in Alive(maxList'[e]) \cup {Head, Tail}
             /\ currMinAtMaxList[e] <= currMinAtMaxList'[e]
             /\ currMinAtMaxList'[e] = Head <=> currMinAtMaxList[e] = Head
             /\ \A k \in Alive(maxList'[e]) :
                  currMinAtMaxList[e] <= k => currMinAtMaxList'[e] <= k
  <2>1. CASE d <= e
    BY <2>1, <1>1, MaxCursorHolds, MinCursorHolds
  <2>2. CASE ~ (d <= e)
    <3>1. currMaxAtMinList[e] \in Nat /\ currMinAtMaxList[e] \in Nat
      BY <1>0, Numbers
    <3>2. QED
      BY <3>1, <2>2, <1>1, <1>2 DEF MaxAt, MinAt
  <2>3. QED
    BY <2>1, <2>2
<1>9. Cursors'
  BY <1>8 DEF Cursors, MaxAt, MinAt
<1>10. /\ minList' \in [Dims -> Lists] /\ maxList' \in [Dims -> Lists]
       /\ currMaxAtMinList' \in [Dims -> Nodes \ {Tail}]
       /\ currMinAtMaxList' \in [Dims -> Nodes]
  <2>1. \A e \in Dims : /\ currMaxAtMinList'[e] \in Nodes \ {Tail}
                        /\ currMinAtMaxList'[e] \in Nodes
    <3>1. ASSUME NEW e \in Dims
          PROVE  currMaxAtMinList'[e] \in Nodes \ {Tail} /\ currMinAtMaxList'[e] \in Nodes
      <4>1. \A k \in Keys : k \in Nodes /\ k # Tail
        BY Numbers
      <4>2. Head # Tail
        BY Numbers
      <4>3. QED
        BY <4>1, <4>2, <1>8, Numbers DEF Alive
    <3>2. QED
      BY <3>1
  <2>2. QED
    BY <2>1, <1>3 DEF Delete
<1>11. QED
  BY <1>1, <1>5, <1>6, <1>7, <1>8, <1>9, <1>10

-----------------------------------------------------------------------------
(* What the steps have in common *)

\* A node, its regions and its cursors.
LEMMA NodeHolds ==
  ASSUME TypeOK, Listed, Nested, Cursors, NEW d \in Dims
  PROVE  /\ d + 1 \in 1..(NumOfDims + 1) /\ d + 1 \in 2..(NumOfDims + 1) /\ d \in Nat
         /\ Head = 0 /\ Tail \in Nat /\ Head < Tail
         /\ currMaxAtMinList[d] \in Nat /\ currMinAtMaxList[d] \in Nat
         /\ currMaxAtMinList[d] \in Alive(minList[d]) \cup {Head}
         /\ currMinAtMaxList[d] \in Alive(maxList[d]) \cup {Head, Tail}
         /\ minList[d] \in Lists /\ Sound(minList[d])
         /\ maxList[d] \in Lists /\ Sound(maxList[d])
         /\ In(d + 1) \subseteq In(d) /\ In(d) \subseteq Ids
         /\ \A i \in In(d) : /\ regions[i] \in Boxes
                             /\ regions[i].min[d] \in Alive(minList[d])
                             /\ regions[i].max[d] \in Alive(maxList[d])
         /\ \A k \in Alive(minList[d]) : k \in Keys /\ k \in Nat /\ Head < k /\ k < Tail
         /\ \A k \in Alive(maxList[d]) : k \in Keys /\ k \in Nat /\ Head < k /\ k < Tail
         /\ oldMin[d] # NULL => oldMin[d] \in Nat
         /\ oldMax[d] # NULL => oldMax[d] \in Nat
         /\ query # NULL => /\ query.min[d] \in Nat /\ query.max[d] \in Nat
                            /\ query.max[d] <= Tail
<1>1. /\ d + 1 \in 1..(NumOfDims + 1) /\ d + 1 \in 2..(NumOfDims + 1) /\ d \in Nat
      /\ d \in 1..(NumOfDims + 1) /\ d # NumOfDims + 1
  BY Kinds
<1>2. /\ currMaxAtMinList[d] \in Alive(minList[d]) \cup {Head}
      /\ currMinAtMaxList[d] \in Alive(maxList[d]) \cup {Head, Tail}
  BY DEF Cursors, MaxAt, MinAt
<1>3. currMaxAtMinList[d] \in Nat /\ currMinAtMaxList[d] \in Nat
  BY Numbers DEF TypeOK
<1>4. \A k \in Keys : k \in Nat /\ Head < k /\ k < Tail
  BY Numbers
<1>5. Head = 0 /\ Tail \in Nat /\ Head < Tail
  BY Numbers
<1>6. In(d + 1) \subseteq In(d) /\ In(d) \subseteq Ids
  <2>1. d <= d + 1
    BY <1>1
  <2>2. QED
    BY <1>1, <2>1 DEF Nested, In
<1>7. \A i \in In(d) : /\ regions[i] \in Boxes
                       /\ regions[i].min[d] \in Alive(minList[d])
                       /\ regions[i].max[d] \in Alive(maxList[d])
  BY <1>1, RegionsOf
<1>8. /\ oldMin[d] # NULL => oldMin[d] \in Nat
      /\ oldMax[d] # NULL => oldMax[d] \in Nat
  BY Numbers DEF TypeOK
<1>9. query # NULL => /\ query.min[d] \in Nat /\ query.max[d] \in Nat
                      /\ query.max[d] <= Tail
  <2>1. \A n \in Nodes : n \in Nat /\ n <= Tail
    BY Numbers DEF Nodes
  <2>2. query # NULL => query.min[d] \in Nodes /\ query.max[d] \in Nodes
    BY Kinds DEF TypeOK
  <2>3. QED
    BY <2>1, <2>2
<1>10. minList[d] \in Lists /\ Sound(minList[d]) /\ maxList[d] \in Lists /\ Sound(maxList[d])
  BY DEF TypeOK, Listed
<1>11. /\ \A k \in Alive(minList[d]) : k \in Keys
       /\ \A k \in Alive(maxList[d]) : k \in Keys
  BY DEF Alive
<1>12. QED
  BY <1>1, <1>2, <1>3, <1>4, <1>5, <1>6, <1>7, <1>8, <1>9, <1>10, <1>11

\* The nodes keep their regions when the lists do not change.
LEMMA SameRegions ==
  ASSUME UNCHANGED <<regions, minList, maxList, resultList>>
  PROVE  /\ \A e : In(e)' = In(e)
         /\ Listed => Listed'
         /\ Nested => Nested'
<1>1. \A e : In(e)' = In(e)
  BY DEF In
<1>2. Listed => Listed'
  BY <1>1 DEF Listed
<1>3. Nested => Nested'
  BY <1>1 DEF Nested
<1>4. QED
  BY <1>1, <1>2, <1>3

\* A node that a step does not touch stays settled; it may lose regions.
LEMMA SettledKept ==
  ASSUME NEW e \in Dims, Settled(e), regions' = regions, In(e + 1)' \subseteq In(e + 1),
         currMaxAtMinList'[e] = currMaxAtMinList[e], currMinAtMaxList'[e] = currMinAtMaxList[e],
         oldMin'[e] = oldMin[e], oldMax'[e] = oldMax[e]
  PROVE  Settled(e)'
BY DEF Settled, Inside, Below, Above

\* The steps of a loop that leave the lists as they are.
LEMMA MoveStep ==
  ASSUME TreeInv, pc \in Loops, pc' \in Loops, ids' \subseteq Ids,
         UNCHANGED <<regions, minList, maxList, resultList, oldMin, oldMax, query, dimNo>>,
         NEW d \in Dims, d = dimNo, NEW a, NEW b, MaxAt(d, a), MinAt(d, b),
         currMaxAtMinList' = [currMaxAtMinList EXCEPT ![d] = a],
         currMinAtMaxList' = [currMinAtMaxList EXCEPT ![d] = b],
         At(d)'
  PROVE  TreeInv'
<1>0. TypeOK /\ Listed /\ Nested /\ Cursors /\ Stepwise
  BY DEF TreeInv
<1>1. (\A e : In(e)' = In(e)) /\ Listed' /\ Nested'
  BY <1>0, SameRegions
<1>2. a \in Nodes \ {Tail} /\ b \in Nodes
  <2>1. \A k \in Keys : k \in Nodes /\ k # Tail
    BY Numbers
  <2>2. Head # Tail /\ Head \in Nodes /\ Tail \in Nodes
    BY Numbers
  <2>3. QED
    BY <2>1, <2>2 DEF MaxAt, MinAt, Alive
<1>3. /\ currMaxAtMinList \in [Dims -> Nodes \ {Tail}] /\ currMinAtMaxList \in [Dims -> Nodes]
      /\ currMaxAtMinList' \in [Dims -> Nodes \ {Tail}] /\ currMinAtMaxList' \in [Dims -> Nodes]
  BY <1>0, <1>2 DEF TypeOK
<1>4. TypeOK'
  <2>1. pc' \in {"idle", "maxShrinks", "maxLeaves", "minShrinks", "minLeaves", "maxGrows",
             "maxEnters", "minGrows", "minEnters", "answered", "crashed"}
    BY DEF Loops
  <2>2. QED
    BY <2>1, <1>0, <1>3 DEF TypeOK
<1>5. Cursors'
  <2>1. ASSUME NEW e \in Dims
        PROVE  /\ currMaxAtMinList'[e] \in Alive(minList[e]) \cup {Head}
               /\ currMinAtMaxList'[e] \in Alive(maxList[e]) \cup {Head, Tail}
    <3>1. CASE e = d
      BY <3>1, <1>3 DEF MaxAt, MinAt
    <3>2. CASE e # d
      BY <3>2, <1>0, <1>3 DEF Cursors, MaxAt, MinAt
    <3>3. QED
      BY <3>1, <3>2
  <2>2. QED
    BY <2>1 DEF Cursors, MaxAt, MinAt
<1>6. ASSUME NEW e \in Dims, e # d
      PROVE  Settled(e)'
  <2>1. Settled(e)
    BY <1>0, <1>6 DEF Stepwise
  <2>2. /\ currMaxAtMinList'[e] = currMaxAtMinList[e]
        /\ currMinAtMaxList'[e] = currMinAtMaxList[e]
    BY <1>3, <1>6
  <2>3. In(e + 1)' \subseteq In(e + 1)
    BY <1>1
  <2>4. QED
    BY <2>1, <2>2, <2>3, SettledKept
<1>7. \A e \in Dims : e < dimNo => Asked(e)'
  BY <1>0 DEF Stepwise, Asked
<1>8. query' # NULL
  BY <1>0 DEF Stepwise
<1>9. pc' \notin {"idle", "answered", "crashed"}
  BY DEF Loops
<1>10. Stepwise' /\ StopsEmpty'
  BY <1>6, <1>7, <1>8, <1>9 DEF Stepwise, StopsEmpty
<1>11. QED
  BY <1>1, <1>4, <1>5, <1>10 DEF TreeInv

\* The steps in which a region leaves the nodes after that of d.
LEMMA DeleteStep ==
  ASSUME TreeInv, pc \in Loops, pc' = pc, ids' \subseteq Ids,
         UNCHANGED <<regions, oldMin, oldMax, query, dimNo>>,
         NEW d \in Dims, d = dimNo, NEW i \in Ids, regions[i] \in Boxes, Delete(i, d + 1),
         At(d)'
  PROVE  TreeInv'
<1>0. TypeOK /\ Listed /\ Nested /\ Cursors /\ Stepwise
  BY DEF TreeInv
<1>1. d + 1 \in 2..(NumOfDims + 1) /\ d \in Nat /\ NumOfDims \in Nat
  BY Kinds
<1>2. /\ \A e \in 1..(NumOfDims + 1) : In(e)' = IF d + 1 <= e THEN In(e) \ {i} ELSE In(e)
      /\ Listed' /\ Cursors'
      /\ minList' \in [Dims -> Lists] /\ maxList' \in [Dims -> Lists]
      /\ currMaxAtMinList' \in [Dims -> Nodes \ {Tail}]
      /\ currMinAtMaxList' \in [Dims -> Nodes]
      /\ resultList' \subseteq Ids
      /\ \A e \in Dims :
           /\ currMaxAtMinList'[e] <= currMaxAtMinList[e]
           /\ \A k \in Alive(minList'[e]) :
                k <= currMaxAtMinList[e] => k <= currMaxAtMinList'[e]
           /\ currMinAtMaxList[e] <= currMinAtMaxList'[e]
           /\ currMinAtMaxList'[e] = Head <=> currMinAtMaxList[e] = Head
           /\ \A k \in Alive(maxList'[e]) :
                currMinAtMaxList[e] <= k => currMinAtMaxList'[e] <= k
  BY <1>0, <1>1, DeleteHolds
<1>3. TypeOK'
  BY <1>0, <1>2 DEF TypeOK
<1>4. Nested'
  <2>1. ASSUME NEW e \in 1..(NumOfDims + 1), NEW f \in 1..(NumOfDims + 1), e <= f
        PROVE  In(f)' \subseteq In(e)'
    <3>1. In(f) \subseteq In(e)
      BY <1>0, <2>1 DEF Nested
    <3>2. d + 1 <= e => d + 1 <= f
      BY <1>1, <2>1
    <3>3. QED
      BY <1>2, <3>1, <3>2
  <2>2. QED
    BY <2>1 DEF Nested
<1>5. ASSUME NEW e \in Dims, e # d
      PROVE  Settled(e)'
  <2>1. Settled(e)
    BY <1>0, <1>5 DEF Stepwise
  <2>2. e + 1 \in 1..(NumOfDims + 1) /\ e \in 1..(NumOfDims + 1) /\ e <= e + 1 /\ e # NumOfDims + 1
    BY Kinds
  <2>3. /\ currMaxAtMinList[e] \in Nat /\ currMinAtMaxList[e] \in Nat
        /\ currMaxAtMinList'[e] \in Nat /\ currMinAtMaxList'[e] \in Nat
        /\ currMaxAtMinList'[e] <= currMaxAtMinList[e]
        /\ currMinAtMaxList[e] <= currMinAtMaxList'[e]
        /\ currMinAtMaxList'[e] = Head <=> currMinAtMaxList[e] = Head
        /\ Head = 0 /\ currMinAtMaxList'[e] <= Tail /\ currMinAtMaxList[e] <= Tail /\ Tail \in Nat
    <3>1. \A n \in Nodes : n \in Nat /\ n <= Tail
      BY Numbers DEF Nodes
    <3>2. currMaxAtMinList[e] \in Nodes /\ currMinAtMaxList[e] \in Nodes
      BY <1>0 DEF TypeOK
    <3>3. currMaxAtMinList'[e] \in Nodes /\ currMinAtMaxList'[e] \in Nodes
      BY <1>2
    <3>4. QED
      BY <3>1, <3>2, <3>3, <1>2, Numbers
  <2>4. Inside(e)'
    <3>1. ASSUME NEW j \in In(e + 1)'
          PROVE  /\ regions'[j].min[e] <= currMaxAtMinList'[e]
                 /\ currMinAtMaxList'[e] <= regions'[j].max[e]
      <4>1. j \in In(e + 1) /\ j \in In(e)'
        BY <1>2, <1>4, <2>2 DEF Nested
      <4>2. regions[j].min[e] <= currMaxAtMinList[e] /\ currMinAtMaxList[e] <= regions[j].max[e]
        BY <2>1, <4>1 DEF Settled, Inside
      <4>3. j \in Ids /\ regions[j] \in Boxes
        BY <4>1, <1>0, <2>2, RegionsOf
      <4>4. regions[j].min[e] \in Keys /\ regions[j].max[e] \in Keys
        BY <4>3, Kinds
      <4>5. /\ minList'[e].obj[regions[j].min[e]] = {h \in In(e)' : regions[h].min[e] = regions[j].min[e]}
            /\ maxList'[e].obj[regions[j].max[e]] = {h \in In(e)' : regions[h].max[e] = regions[j].max[e]}
        BY <1>2, <4>4 DEF Listed
      <4>6. regions[j].min[e] \in Alive(minList'[e]) /\ regions[j].max[e] \in Alive(maxList'[e])
        BY <4>1, <4>4, <4>5 DEF Alive
      <4>7. QED
        BY <4>2, <4>6, <1>2
    <3>2. QED
      BY <3>1 DEF Inside
  <2>5. /\ oldMin[e] # NULL => oldMin[e] \in Nat
        /\ oldMax[e] # NULL => oldMax[e] \in Nat
    BY <1>0, Numbers DEF TypeOK
  <2>6. QED
    BY <2>1, <2>3, <2>4, <2>5 DEF Settled, Below, Above
<1>6. \A e \in Dims : e < dimNo => Asked(e)'
  BY <1>0 DEF Stepwise, Asked
<1>7. query' # NULL
  BY <1>0 DEF Stepwise
<1>8. pc' \notin {"idle", "answered", "crashed"}
  BY DEF Loops
<1>9. Stepwise' /\ StopsEmpty'
  BY <1>5, <1>6, <1>7, <1>8 DEF Stepwise, StopsEmpty
<1>10. QED
  BY <1>2, <1>3, <1>4, <1>9 DEF TreeInv

\* What an insertion keeps at every node that the region comes to from the node before.
LEMMA InsertKeeps ==
  ASSUME TypeOK, Listed, Nested, Cursors, NEW i \in Ids, NEW r \in Boxes,
         NEW d \in 1..(NumOfDims + 1), regions[i] \in {NULL, r},
         regions' = [regions EXCEPT ![i] = r], Insert(i, r, d),
         \A e \in 1..(NumOfDims + 1) : e < d => i \in In(e)
  PROVE  /\ Listed' /\ Nested' /\ Cursors'
         /\ regions' \in [Ids -> Boxes \cup {NULL}]
         /\ minList' \in [Dims -> Lists] /\ maxList' \in [Dims -> Lists]
         /\ UNCHANGED <<currMaxAtMinList, currMinAtMaxList>> /\ resultList' \subseteq Ids
         /\ \A e \in Dims : /\ e + 1 # d
                            /\ oldMin'[e] = oldMin[e] /\ oldMax'[e] = oldMax[e]
                            /\ Settled(e)
                            => Settled(e)'
<1>1. /\ \A e \in 1..(NumOfDims + 1) :
           In(e)' = IF e \in Reached(r, d) THEN In(e) \cup {i} ELSE In(e)
      /\ \A e \in 1..(NumOfDims + 1) : \A j \in In(e) : regions'[j] = regions[j]
      /\ regions'[i] = r
      /\ Listed'
      /\ minList' \in [Dims -> Lists] /\ maxList' \in [Dims -> Lists]
      /\ resultList' \subseteq Ids
      /\ \A e \in Dims : /\ Alive(minList[e]) \subseteq Alive(minList'[e])
                         /\ Alive(maxList[e]) \subseteq Alive(maxList'[e])
  BY InsertHolds, ZenonT(120)
<1>2. UNCHANGED <<currMaxAtMinList, currMinAtMaxList>>
  BY DEF Insert
<1>3. /\ d \in Reached(r, d)
      /\ Reached(r, d) \subseteq d..(NumOfDims + 1)
      /\ \A e, f \in d..(NumOfDims + 1) :
           e <= f /\ f \in Reached(r, d) => e \in Reached(r, d) /\ (e < f => Between(r, e))
  BY ReachedNodes
<1>4. d \in Nat /\ NumOfDims \in Nat
  BY Kinds
<1>5. Nested'
  <2>1. ASSUME NEW e \in 1..(NumOfDims + 1), NEW f \in 1..(NumOfDims + 1), e <= f,
               NEW j \in In(f)'
        PROVE  j \in In(e)'
    <3>1. CASE j \in In(f)
      <4>1. j \in In(e)
        BY <3>1, <2>1 DEF Nested
      <4>2. QED
        BY <4>1, <1>1
    <3>2. CASE j \notin In(f)
      <4>1. j = i /\ f \in Reached(r, d)
        BY <3>2, <1>1
      <4>2. CASE e < d
        <5>1. i \in In(e)
          BY <4>2
        <5>2. QED
          BY <5>1, <4>1, <1>1
      <4>3. CASE ~ (e < d)
        <5>1. e \in d..(NumOfDims + 1) /\ f \in d..(NumOfDims + 1)
          BY <4>1, <4>3, <1>3, <1>4
        <5>2. e \in Reached(r, d)
          BY <5>1, <4>1, <2>1, <1>3
        <5>3. QED
          BY <5>2, <4>1, <1>1
      <4>4. QED
        BY <4>2, <4>3
    <3>3. QED
      BY <3>1, <3>2
  <2>2. QED
    BY <2>1 DEF Nested
<1>6. Cursors'
  BY <1>1, <1>2 DEF Cursors, MaxAt, MinAt
<1>7. ASSUME NEW e \in Dims, e + 1 # d, Settled(e),
             oldMin'[e] = oldMin[e], oldMax'[e] = oldMax[e]
      PROVE  Settled(e)'
  <2>1. e + 1 \in 1..(NumOfDims + 1) /\ e \in Nat
    BY Kinds
  <2>2. ASSUME NEW j \in In(e + 1)'
        PROVE  /\ regions'[j].min[e] <= currMaxAtMinList'[e]
               /\ currMinAtMaxList'[e] <= regions'[j].max[e]
    <3>1. CASE j \in In(e + 1)
      BY <3>1, <2>1, <1>1, <1>2, <1>7 DEF Settled, Inside
    <3>2. CASE j \notin In(e + 1)
      <4>1. j = i /\ e + 1 \in Reached(r, d)
        BY <3>2, <2>1, <1>1
      <4>2. e \in d..(NumOfDims + 1) /\ e + 1 \in d..(NumOfDims + 1) /\ e < e + 1
        BY <4>1, <2>1, <1>3, <1>4, <1>7
      <4>3. Between(r, e)
        BY <4>1, <4>2, <1>3
      <4>4. /\ currMaxAtMinList[e] \in Nat /\ currMinAtMaxList[e] \in Nat
            /\ r.min[e] \in Nat /\ r.max[e] \in Nat
        BY Kinds, Numbers DEF TypeOK
      <4>5. QED
        BY <4>1, <4>3, <4>4, <1>1, <1>2 DEF Between
    <3>3. QED
      BY <3>1, <3>2
  <2>3. Inside(e)'
    BY <2>2 DEF Inside
  <2>4. QED
    BY <2>3, <1>2, <1>7 DEF Settled, Below, Above
<1>8. regions' \in [Ids -> Boxes \cup {NULL}]
  BY DEF TypeOK
<1>9. QED
  BY <1>1, <1>2, <1>5, <1>6, <1>7, <1>8

\* The steps in which a region comes to the node after that of d.
LEMMA InsertStep ==
  ASSUME TreeInv, pc \in Loops, pc' = pc, ids' \subseteq Ids,
         UNCHANGED <<regions, oldMin, oldMax, query, dimNo>>,
         NEW d \in Dims, d = dimNo, NEW i \in In(d), Insert(i, regions[i], d + 1),
         At(d)'
  PROVE  TreeInv'
<1>0. TypeOK /\ Listed /\ Nested /\ Cursors /\ Stepwise
  BY DEF TreeInv
<1>1. d + 1 \in 1..(NumOfDims + 1) /\ d \in 1..(NumOfDims + 1) /\ d \in Nat /\ NumOfDims \in Nat
  BY Kinds
<1>2. i \in Ids /\ regions[i] \in Boxes
  BY <1>0, <1>1, RegionsOf
<1>3. regions' = [regions EXCEPT ![i] = regions[i]]
  BY <1>0, <1>2 DEF TypeOK
<1>4. \A e \in 1..(NumOfDims + 1) : e < d + 1 => i \in In(e)
  BY <1>0, <1>1 DEF Nested
<1>5. /\ Listed' /\ Nested' /\ Cursors'
      /\ minList' \in [Dims -> Lists] /\ maxList' \in [Dims -> Lists]
      /\ UNCHANGED <<currMaxAtMinList, currMinAtMaxList>> /\ resultList' \subseteq Ids
      /\ \A e \in Dims : /\ e + 1 # d + 1
                         /\ oldMin'[e] = oldMin[e] /\ oldMax'[e] = oldMax[e]
                         /\ Settled(e)
                         => Settled(e)'
  BY <1>0, <1>1, <1>2, <1>3, <1>4, InsertKeeps
<1>6. TypeOK'
  BY <1>0, <1>5 DEF TypeOK
<1>7. ASSUME NEW e \in Dims, e # d
      PROVE  Settled(e)'
  <2>1. Settled(e)
    BY <1>0, <1>7 DEF Stepwise
  <2>2. e + 1 # d + 1
    BY <1>1, <1>7, Kinds
  <2>3. QED
    BY <2>1, <2>2, <1>5
<1>8. \A e \in Dims : e < dimNo => Asked(e)'
  BY <1>0 DEF Stepwise, Asked
<1>9. query' # NULL
  BY <1>0 DEF Stepwise
<1>10. pc' \notin {"idle", "answered", "crashed"}
  BY DEF Loops
<1>11. Stepwise' /\ StopsEmpty'
  BY <1>7, <1>8, <1>9, <1>10 DEF Stepwise, StopsEmpty
<1>12. QED
  BY <1>5, <1>6, <1>11 DEF TreeInv


-----------------------------------------------------------------------------
(* The steps of a loop *)

\* What every step of a loop at the node of d starts from.
LEMMA LoopHolds ==
  ASSUME TreeInv, pc \in Loops, NEW d \in Dims, d = dimNo
  PROVE  /\ TypeOK /\ Listed /\ Nested /\ Cursors /\ At(d)
         /\ query # NULL /\ query.min[d] \in Nat /\ query.max[d] \in Nat /\ query.max[d] <= Tail
         /\ \A k \in Alive(minList[d]) : minList[d].obj[k] = {i \in In(d) : regions[i].min[d] = k}
         /\ \A k \in Alive(maxList[d]) : maxList[d].obj[k] = {i \in In(d) : regions[i].max[d] = k}
         /\ currMaxAtMinList = [currMaxAtMinList EXCEPT ![d] = currMaxAtMinList[d]]
         /\ currMinAtMaxList = [currMinAtMaxList EXCEPT ![d] = currMinAtMaxList[d]]
         /\ currMaxAtMinList \in [Dims -> Nodes \ {Tail}]
         /\ currMinAtMaxList \in [Dims -> Nodes]
         /\ MaxAt(d, currMaxAtMinList[d]) /\ MinAt(d, currMinAtMaxList[d])
<1>1. TypeOK /\ Listed /\ Nested /\ Cursors
  BY DEF TreeInv
<1>2. At(d) /\ query # NULL
  BY DEF TreeInv, Stepwise
<1>3. query.min[d] \in Nat /\ query.max[d] \in Nat /\ query.max[d] <= Tail
  BY <1>1, <1>2, NodeHolds
<1>4. \A k \in Alive(minList[d]) : minList[d].obj[k] = {i \in In(d) : regions[i].min[d] = k}
  BY <1>1 DEF Alive, Listed
<1>5. \A k \in Alive(maxList[d]) : maxList[d].obj[k] = {i \in In(d) : regions[i].max[d] = k}
  BY <1>1 DEF Alive, Listed
<1>6. /\ currMaxAtMinList \in [Dims -> Nodes \ {Tail}]
      /\ currMinAtMaxList \in [Dims -> Nodes]
  BY <1>1 DEF TypeOK
<1>7. MaxAt(d, currMaxAtMinList[d]) /\ MinAt(d, currMinAtMaxList[d])
  BY <1>1 DEF Cursors
<1>8. QED
  BY <1>1, <1>2, <1>3, <1>4, <1>5, <1>6, <1>7

LEMMA MaxShrinksKeeps ==
  ASSUME TreeInv, MaxShrinks
  PROVE  TreeInv'
<1>1. PICK d \in Dims : d = dimNo
  BY DEF TreeInv, TypeOK
<1>2. pc = "maxShrinks" /\ pc \in Loops /\ pc' \in {"maxLeaves", "minShrinks"} /\ pc' \in Loops
  BY DEF MaxShrinks, Loops
<1>3. UNCHANGED <<regions, minList, maxList, currMaxAtMinList, currMinAtMaxList, resultList,
                  oldMin, oldMax, query, dimNo>>
  BY DEF MaxShrinks, nodes, old
<1>4. Settled(d) /\ In(d)' = In(d) /\ In(d + 1)' = In(d + 1)
  BY <1>1, <1>2, <1>3, LoopHolds, SameRegions DEF At
<1>5. Settled(d)'
  BY <1>3, <1>4 DEF Settled, Inside, Below, Above
<1>6. CASE pc' = "maxLeaves"
  <2>1. currMaxAtMinList[d] # Head /\ ids' = minList[d].obj[currMaxAtMinList[d]]
    BY <1>1, <1>6 DEF MaxShrinks
  <2>2. ids' = {i \in In(d) : regions[i].min[d] = currMaxAtMinList[d]}
    BY <1>1, <1>2, <2>1, LoopHolds DEF MaxAt
  <2>3. In(d + 1) \subseteq In(d) /\ In(d) \subseteq Ids
    BY <1>1, <1>2, LoopHolds, NodeHolds
  <2>4. At(d)' /\ ids' \subseteq Ids
    BY <1>3, <1>4, <1>5, <1>6, <2>1, <2>2, <2>3 DEF At
  <2>5. QED
    BY <2>4, <1>1, <1>2, <1>3, LoopHolds, MoveStep
<1>7. CASE pc' = "minShrinks"
  <2>1. /\ currMaxAtMinList[d] = Head \/ ~ (query.max[d] <= currMaxAtMinList[d])
        /\ ids' = ids
    BY <1>1, <1>7 DEF MaxShrinks
  <2>2. Below(d, query.max[d])
    BY <2>1, <1>1, <1>2, LoopHolds, NodeHolds DEF Below
  <2>3. MaxShrunk(d)
    BY <2>2, <1>4 DEF Settled, MaxShrunk, Above
  <2>4. MaxShrunk(d)'
    BY <2>3, <1>3, <1>4 DEF MaxShrunk, Inside, Below
  <2>5. At(d)' /\ ids' \subseteq Ids
    BY <2>1, <2>4, <1>7, <1>1, <1>2, LoopHolds DEF At, TypeOK
  <2>6. QED
    BY <2>5, <1>1, <1>2, <1>3, LoopHolds, MoveStep
<1>8. QED
  BY <1>2, <1>6, <1>7

\* max moves to the coordinate before, past which there is none: its regions have left.
LEMMA MaxMovesKeeps ==
  ASSUME TreeInv, MaxMoves
  PROVE  TreeInv'
<1>1. PICK d \in Dims : d = dimNo
  BY DEF TreeInv, TypeOK
<1>2. pc = "maxLeaves" /\ pc \in Loops /\ pc' = "maxShrinks" /\ pc' \in Loops /\ ids = {}
  BY DEF MaxMoves, Loops
<1>3. /\ UNCHANGED <<regions, minList, maxList, currMinAtMaxList, resultList,
                     oldMin, oldMax, query, dimNo, ids>>
      /\ currMaxAtMinList' =
           [currMaxAtMinList EXCEPT ![d] = minList[d].bck[1][currMaxAtMinList[d]]]
  BY <1>1 DEF MaxMoves, old
<1> DEFINE k == currMaxAtMinList[d]
           n == minList[d].bck[1][k]
<1>4. /\ Settled(d) /\ k # Head
      /\ \A i \in In(d + 1) : regions[i].min[d] # k
      /\ In(d)' = In(d) /\ In(d + 1)' = In(d + 1)
  BY <1>1, <1>2, <1>3, LoopHolds, SameRegions DEF At
<1>5. k \in Alive(minList[d])
  BY <1>1, <1>2, <1>4, LoopHolds DEF MaxAt
<1>6. n \in Alive(minList[d]) \cup {Head} /\ n < k /\ \A j \in Alive(minList[d]) : j <= n \/ k <= j
  BY <1>1, <1>2, <1>5, LoopHolds, NodeHolds, PrevHolds
<1>7. currMaxAtMinList'[d] = n /\ n \in Nat /\ k \in Nat
  BY <1>1, <1>2, <1>3, <1>5, <1>6, LoopHolds, NodeHolds
<1>8. Inside(d)'
  <2>1. ASSUME NEW i \in In(d + 1)
        PROVE  regions[i].min[d] <= n /\ currMinAtMaxList[d] <= regions[i].max[d]
    <3>1. /\ regions[i].min[d] <= k /\ regions[i].min[d] # k
          /\ currMinAtMaxList[d] <= regions[i].max[d]
      BY <1>4 DEF Settled, Inside
    <3>2. regions[i].min[d] \in Alive(minList[d]) /\ regions[i].min[d] \in Nat
      BY <1>1, <1>2, LoopHolds, NodeHolds
    <3>3. QED
      BY <3>1, <3>2, <1>6, <1>7
  <2>2. QED
    BY <2>1, <1>3, <1>4, <1>7 DEF Inside
<1>9. Settled(d)'
  <2>1. oldMin[d] # NULL
    BY <1>4 DEF Settled
  <2>2. oldMax[d] \in Nat /\ k < oldMax[d]
    BY <2>1, <1>1, <1>2, <1>4, LoopHolds, NodeHolds DEF Settled, Below
  <2>3. n < oldMax[d]
    BY <2>2, <1>6, <1>7
  <2>4. QED
    BY <2>1, <2>3, <1>3, <1>4, <1>7, <1>8 DEF Settled, Below, Above
<1>10. At(d)' /\ ids' \subseteq Ids
  BY <1>2, <1>3, <1>9 DEF At
<1>11. MaxAt(d, n)
  BY <1>6 DEF MaxAt
<1>12. QED
  BY <1>1, <1>2, <1>3, <1>10, <1>11, LoopHolds, MoveStep

\* min is shrinking: the first query takes the cursor from the head.
LEMMA MinShrinksKeeps ==
  ASSUME TreeInv, MinShrinks
  PROVE  TreeInv'
<1>1. PICK d \in Dims : d = dimNo
  BY DEF TreeInv, TypeOK
<1>2. pc = "minShrinks" /\ pc \in Loops
  BY DEF MinShrinks, Loops
<1> DEFINE k == currMinAtMaxList[d]
           first == IF k = Head THEN maxList[d].fwd[1][Head] ELSE k
           moves == k = Head \/ (k # Tail /\ query.min[d] >= k)
<1>3. /\ UNCHANGED <<regions, minList, maxList, currMaxAtMinList, resultList,
                     oldMin, oldMax, query, dimNo>>
      /\ moves => /\ currMinAtMaxList' = [currMinAtMaxList EXCEPT ![d] = first]
                  /\ IF first = Tail THEN pc' = "crashed" /\ ids' = ids
                     ELSE pc' = "minLeaves" /\ ids' = maxList[d].obj[first]
      /\ ~ moves => pc' = "maxGrows" /\ ids' = ids /\ currMinAtMaxList' = currMinAtMaxList
  BY <1>1 DEF MinShrinks, old
<1>4. MaxShrunk(d) /\ In(d)' = In(d) /\ In(d + 1)' = In(d + 1)
  BY <1>1, <1>2, <1>3, LoopHolds, SameRegions DEF At
<1>5. k \in Nat /\ k \in Alive(maxList[d]) \cup {Head, Tail}
  BY <1>1, <1>2, LoopHolds, NodeHolds
<1>6. /\ first \in Alive(maxList[d]) \cup {Tail} /\ first \in Nat /\ first # Head
      /\ k = Head => \A j \in Alive(maxList[d]) : first <= j
  <2>1. CASE k = Head
    <3>1. LET m == maxList[d].fwd[1][Head]
          IN  m \in Alive(maxList[d]) \cup {Tail} /\ Head < m
              /\ \A j \in Alive(maxList[d]) : j <= Head \/ m <= j
      BY <1>1, <1>2, LoopHolds, NodeHolds, NextHolds
    <3>2. \A j \in Alive(maxList[d]) : j \in Nat /\ Head < j
      BY <1>1, <1>2, LoopHolds, NodeHolds
    <3>3. Head \in Nat /\ Tail \in Nat
      BY Numbers
    <3>4. QED
      BY <3>1, <3>2, <3>3, <2>1
  <2>2. CASE k # Head
    BY <2>2, <1>5
  <2>3. QED
    BY <2>1, <2>2
<1> HIDE DEF first, moves
<1>7. CASE moves /\ first # Tail
  <2>1. /\ currMinAtMaxList' = [currMinAtMaxList EXCEPT ![d] = first]
        /\ pc' = "minLeaves" /\ ids' = maxList[d].obj[first] /\ pc' \in Loops
    BY <1>3, <1>7 DEF Loops
  <2>2. currMinAtMaxList'[d] = first
    BY <2>1, <1>1, <1>2, LoopHolds
  <2>3. first \in Alive(maxList[d])
    BY <1>6, <1>7
  <2>4. ids' = {i \in In(d) : regions[i].max[d] = first}
    BY <2>1, <2>3, <1>1, <1>2, LoopHolds
  <2>5. In(d + 1) \subseteq In(d) /\ In(d) \subseteq Ids
    BY <1>1, <1>2, LoopHolds, NodeHolds
  <2>6. Inside(d)'
    <3>1. ASSUME NEW i \in In(d + 1)
          PROVE  regions[i].min[d] <= currMaxAtMinList[d] /\ first <= regions[i].max[d]
      <4>1. regions[i].min[d] <= currMaxAtMinList[d] /\ k <= regions[i].max[d]
        BY <1>4 DEF MaxShrunk, Inside
      <4>2. regions[i].max[d] \in Alive(maxList[d])
        BY <1>1, <1>2, LoopHolds, NodeHolds
      <4>3. k # Head => first = k
        BY DEF first
      <4>4. QED
        BY <4>1, <4>2, <4>3, <1>6
    <3>2. QED
      BY <3>1, <2>2, <1>3, <1>4 DEF Inside
  <2>7. MaxShrunk(d)'
    BY <2>2, <2>6, <1>3, <1>4, <1>6 DEF MaxShrunk, Below
  <2>8. At(d)' /\ ids' \subseteq Ids
    BY <2>1, <2>2, <2>4, <2>5, <2>7, <1>3, <1>4, <1>6, <1>7 DEF At
  <2>9. MinAt(d, first)
    BY <2>3 DEF MinAt
  <2>10. QED
    BY <2>1, <2>8, <2>9, <1>1, <1>2, <1>3, LoopHolds, MoveStep
<1>8. CASE ~ moves
  <2>1. pc' = "maxGrows" /\ ids' = ids /\ currMinAtMaxList' = currMinAtMaxList /\ pc' \in Loops
    BY <1>3, <1>8 DEF Loops
  <2>2. k # Head /\ (k = Tail \/ query.min[d] < k)
    BY <1>8, <1>5, <1>1, <1>2, LoopHolds, NodeHolds DEF moves
  <2>3. ASSUME NEW i \in In(d + 1)
        PROVE  regions[i].min[d] <= currMaxAtMinList[d] /\ query.min[d] < regions[i].max[d]
    <3>1. regions[i].min[d] <= currMaxAtMinList[d] /\ k <= regions[i].max[d]
      BY <1>4 DEF MaxShrunk, Inside
    <3>2. regions[i].max[d] \in Nat /\ regions[i].max[d] < Tail /\ Tail \in Nat
      BY <1>1, <1>2, LoopHolds, NodeHolds
    <3>3. query.min[d] \in Nat
      BY <1>1, <1>2, LoopHolds
    <3>4. QED
      BY <3>1, <3>2, <3>3, <2>2, <1>5
  <2>4. MinShrunk(d)'
    BY <2>1, <2>2, <2>3, <1>3, <1>4 DEF MinShrunk, MaxShrunk, Below, Above
  <2>5. At(d)' /\ ids' \subseteq Ids
    BY <2>1, <2>4, <1>1, <1>2, LoopHolds DEF At, TypeOK
  <2>6. QED
    BY <2>1, <2>5, <1>1, <1>2, <1>3, LoopHolds, MoveStep
<1>9. CASE moves /\ first = Tail
  <2>1. /\ currMinAtMaxList' = [currMinAtMaxList EXCEPT ![d] = Tail]
        /\ pc' = "crashed" /\ ids' = ids
    BY <1>3, <1>9
  <2>2. k = Head
    BY <1>9 DEF first, moves
  <2>3. oldMin[d] = NULL
    BY <2>2, <1>4 DEF MaxShrunk
  <2>4. Alive(maxList[d]) = {}
    <3>1. \A j \in Alive(maxList[d]) : j \in Nat /\ j < Tail /\ Tail <= j
      BY <2>2, <1>1, <1>2, <1>6, <1>9, LoopHolds, NodeHolds
    <3>2. Tail \in Nat
      BY Numbers
    <3>3. QED
      BY <3>1, <3>2
  <2>5. currMinAtMaxList' \in [Dims -> Nodes] /\ Tail \in Nodes
    BY <2>1, <1>1, <1>2, LoopHolds, Numbers
  <2>6. Listed' /\ Nested'
    BY <1>1, <1>2, <1>3, LoopHolds, SameRegions
  <2>7. TypeOK'
    BY <2>1, <2>5, <1>1, <1>2, <1>3, LoopHolds DEF TypeOK
  <2>8. Cursors'
    <3>1. ASSUME NEW e \in Dims
          PROVE  /\ currMaxAtMinList'[e] \in Alive(minList'[e]) \cup {Head}
                 /\ currMinAtMaxList'[e] \in Alive(maxList'[e]) \cup {Head, Tail}
      <4>1. Cursors /\ currMinAtMaxList \in [Dims -> Nodes]
        BY <1>1, <1>2, LoopHolds
      <4>2. QED
        BY <4>1, <2>1, <1>3 DEF Cursors, MaxAt, MinAt
    <3>2. QED
      BY <3>1 DEF Cursors, MaxAt, MinAt
  <2>9. Stepwise'
    BY <2>1 DEF Stepwise, Loops
  <2>10. StopsEmpty'
    BY <2>3, <2>4, <1>1, <1>3 DEF StopsEmpty
  <2>11. QED
    BY <2>6, <2>7, <2>8, <2>9, <2>10 DEF TreeInv
<1>10. QED
  BY <1>7, <1>8, <1>9

\* min moves to the coordinate after, before which there is none: its regions have left.
LEMMA MinMovesKeeps ==
  ASSUME TreeInv, MinMoves
  PROVE  TreeInv'
<1>1. PICK d \in Dims : d = dimNo
  BY DEF TreeInv, TypeOK
<1>2. pc = "minLeaves" /\ pc \in Loops /\ pc' = "minShrinks" /\ pc' \in Loops /\ ids = {}
  BY DEF MinMoves, Loops
<1>3. /\ UNCHANGED <<regions, minList, maxList, currMaxAtMinList, resultList,
                     oldMin, oldMax, query, dimNo, ids>>
      /\ currMinAtMaxList' =
           [currMinAtMaxList EXCEPT ![d] = maxList[d].fwd[1][currMinAtMaxList[d]]]
  BY <1>1 DEF MinMoves, old
<1> DEFINE k == currMinAtMaxList[d]
           n == maxList[d].fwd[1][k]
<1>4. /\ MaxShrunk(d) /\ k \notin {Head, Tail}
      /\ \A i \in In(d + 1) : regions[i].max[d] # k
      /\ In(d)' = In(d) /\ In(d + 1)' = In(d + 1)
  BY <1>1, <1>2, <1>3, LoopHolds, SameRegions DEF At
<1>5. k \in Alive(maxList[d])
  BY <1>1, <1>2, <1>4, LoopHolds DEF MinAt
<1>6. n \in Alive(maxList[d]) \cup {Tail} /\ k < n /\ \A j \in Alive(maxList[d]) : j <= k \/ n <= j
  BY <1>1, <1>2, <1>5, LoopHolds, NodeHolds, NextHolds
<1>7. currMinAtMaxList'[d] = n /\ n \in Nat /\ k \in Nat /\ n # Head
  BY <1>1, <1>2, <1>3, <1>5, <1>6, LoopHolds, NodeHolds
<1>8. Inside(d)'
  <2>1. ASSUME NEW i \in In(d + 1)
        PROVE  regions[i].min[d] <= currMaxAtMinList[d] /\ n <= regions[i].max[d]
    <3>1. /\ regions[i].min[d] <= currMaxAtMinList[d]
          /\ k <= regions[i].max[d] /\ regions[i].max[d] # k
      BY <1>4 DEF MaxShrunk, Inside
    <3>2. regions[i].max[d] \in Alive(maxList[d]) /\ regions[i].max[d] \in Nat
      BY <1>1, <1>2, LoopHolds, NodeHolds
    <3>3. QED
      BY <3>1, <3>2, <1>6, <1>7
  <2>2. QED
    BY <2>1, <1>3, <1>4, <1>7 DEF Inside
<1>9. MaxShrunk(d)'
  BY <1>3, <1>4, <1>7, <1>8 DEF MaxShrunk, Below
<1>10. At(d)' /\ ids' \subseteq Ids
  BY <1>2, <1>3, <1>9 DEF At
<1>11. MinAt(d, n)
  BY <1>6 DEF MinAt
<1>12. QED
  BY <1>1, <1>2, <1>3, <1>10, <1>11, LoopHolds, MoveStep

\* max is growing, until the next coordinate is the query's or beyond.
LEMMA MaxGrowsKeeps ==
  ASSUME TreeInv, MaxGrows
  PROVE  TreeInv'
<1>1. PICK d \in Dims : d = dimNo
  BY DEF TreeInv, TypeOK
<1>2. pc = "maxGrows" /\ pc \in Loops /\ pc' \in {"maxEnters", "minGrows"} /\ pc' \in Loops
  BY DEF MaxGrows, Loops
<1> DEFINE k == currMaxAtMinList[d]
           n == minList[d].fwd[1][k]
<1>3. /\ UNCHANGED <<regions, minList, maxList, currMinAtMaxList, resultList,
                     oldMin, oldMax, query, dimNo>>
      /\ IF n < query.max[d]
           THEN /\ pc' = "maxEnters" /\ ids' = minList[d].obj[n]
                /\ currMaxAtMinList' = [currMaxAtMinList EXCEPT ![d] = n]
           ELSE pc' = "minGrows" /\ ids' = ids /\ currMaxAtMinList' = currMaxAtMinList
  BY <1>1 DEF MaxGrows, old
<1>4. MinShrunk(d) /\ In(d)' = In(d) /\ In(d + 1)' = In(d + 1)
  BY <1>1, <1>2, <1>3, LoopHolds, SameRegions DEF At
<1>5. k \in Alive(minList[d]) \cup {Head} /\ k \in Nat
  BY <1>1, <1>2, LoopHolds, NodeHolds
<1>6. n \in Alive(minList[d]) \cup {Tail} /\ k < n /\ \A j \in Alive(minList[d]) : j <= k \/ n <= j
  BY <1>1, <1>2, <1>5, LoopHolds, NodeHolds, NextHolds
<1>7. /\ n \in Nat /\ query.max[d] \in Nat /\ query.max[d] <= Tail /\ Tail \in Nat
      /\ \A j \in Alive(minList[d]) : j \in Nat
      /\ \A i \in In(d) : regions[i].min[d] \in Alive(minList[d])
      /\ In(d) \subseteq Ids /\ In(d + 1) \subseteq In(d)
  BY <1>1, <1>2, <1>6, LoopHolds, NodeHolds
<1>8. CASE n < query.max[d]
  <2>1. n \in Alive(minList[d])
    BY <1>6, <1>7, <1>8
  <2>2. currMaxAtMinList'[d] = n
    BY <1>1, <1>2, <1>3, <1>8, LoopHolds
  <2>3. ids' = {i \in In(d) : regions[i].min[d] = n}
    BY <1>1, <1>2, <1>3, <1>8, <2>1, LoopHolds
  <2>4. \A i \in In(d + 1) : regions[i].min[d] <= n
    <3>1. ASSUME NEW i \in In(d + 1)
          PROVE  regions[i].min[d] <= n
      <4>1. regions[i].min[d] <= k
        BY <1>4 DEF MinShrunk
      <4>2. regions[i].min[d] \in Nat
        BY <1>7
      <4>3. QED
        BY <4>1, <4>2, <1>5, <1>6, <1>7
    <3>2. QED
      BY <3>1
  <2>5. MinShrunk(d)'
    BY <2>2, <2>4, <1>3, <1>4, <1>8 DEF MinShrunk, Below, Above
  <2>6. At(d)' /\ ids' \subseteq Ids
    BY <2>2, <2>3, <2>5, <1>3, <1>4, <1>7, <1>8 DEF At
  <2>7. MaxAt(d, n)
    BY <2>1 DEF MaxAt
  <2>8. QED
    BY <2>6, <2>7, <1>1, <1>2, <1>3, <1>8, LoopHolds, MoveStep
<1>9. CASE ~ (n < query.max[d])
  <2>1. \A j \in Alive(minList[d]) : j <= k \/ query.max[d] <= j
    BY <1>6, <1>7, <1>9
  <2>2. MaxGrown(d)'
    BY <2>1, <1>3, <1>9 DEF MaxGrown, Alive
  <2>3. MinShrunk(d)'
    BY <1>3, <1>4, <1>9 DEF MinShrunk, Below, Above
  <2>4. At(d)' /\ ids' \subseteq Ids
    BY <2>2, <2>3, <1>1, <1>2, <1>3, <1>9, LoopHolds DEF At, TypeOK
  <2>5. QED
    BY <2>4, <1>1, <1>2, <1>3, <1>9, LoopHolds, MoveStep
<1>10. QED
  BY <1>8, <1>9

LEMMA MaxEnteredKeeps ==
  ASSUME TreeInv, MaxEntered
  PROVE  TreeInv'
<1>1. PICK d \in Dims : d = dimNo
  BY DEF TreeInv, TypeOK
<1>2. pc = "maxEnters" /\ pc \in Loops /\ pc' = "maxGrows" /\ pc' \in Loops
  BY DEF MaxEntered, Loops
<1>3. UNCHANGED <<regions, minList, maxList, currMaxAtMinList, currMinAtMaxList, resultList,
                  oldMin, oldMax, query, dimNo, ids>>
  BY DEF MaxEntered, nodes, old
<1>4. MinShrunk(d) /\ In(d + 1)' = In(d + 1)
  BY <1>1, <1>2, <1>3, LoopHolds, SameRegions DEF At
<1>5. MinShrunk(d)'
  BY <1>3, <1>4 DEF MinShrunk, Below, Above
<1>6. At(d)' /\ ids' \subseteq Ids
  BY <1>1, <1>2, <1>3, <1>5, LoopHolds, SMTT(30) DEF At, TypeOK
<1>7. QED
  BY <1>1, <1>2, <1>3, <1>6, LoopHolds, MoveStep

\* min is growing, to the coordinate before.
LEMMA MinGrowsKeeps ==
  ASSUME TreeInv, MinGrows
  PROVE  TreeInv'
<1>1. PICK d \in Dims : d = dimNo
  BY DEF TreeInv, TypeOK
<1>2. pc = "minGrows" /\ pc \in Loops /\ pc' = "minEnters" /\ pc' \in Loops
  BY DEF MinGrows, Loops
<1> DEFINE k == currMinAtMaxList[d]
           n == maxList[d].bck[1][k]
<1>3. /\ UNCHANGED <<regions, minList, maxList, currMaxAtMinList, resultList,
                     oldMin, oldMax, query, dimNo>>
      /\ n # Head /\ query.min[d] < n /\ ids' = maxList[d].obj[n]
      /\ currMinAtMaxList' = [currMinAtMaxList EXCEPT ![d] = n]
  BY <1>1 DEF MinGrows, old
<1>4. MinShrunk(d) /\ MaxGrown(d) /\ In(d)' = In(d) /\ In(d + 1)' = In(d + 1)
  BY <1>1, <1>2, <1>3, LoopHolds, SameRegions DEF At
<1>5. k \in Alive(maxList[d]) \cup {Tail}
  BY <1>1, <1>2, <1>4, LoopHolds DEF MinShrunk, Above, MinAt
<1>6. n \in Alive(maxList[d]) \cup {Head}
  BY <1>1, <1>2, <1>5, LoopHolds, NodeHolds, PrevHolds
<1>7. n \in Alive(maxList[d])
  BY <1>3, <1>6
<1>8. currMinAtMaxList'[d] = n
  BY <1>1, <1>2, <1>3, LoopHolds
<1>9. ids' = {i \in In(d) : regions[i].max[d] = n} /\ In(d) \subseteq Ids
  BY <1>1, <1>2, <1>3, <1>7, LoopHolds, NodeHolds
<1>10. MinShrunk(d)'
  BY <1>3, <1>4, <1>8 DEF MinShrunk, Below, Above
<1>11. MaxGrown(d)'
  BY <1>3, <1>4 DEF MaxGrown, Alive
<1>12. At(d)' /\ ids' \subseteq Ids
  BY <1>2, <1>3, <1>4, <1>8, <1>9, <1>10, <1>11 DEF At
<1>13. MinAt(d, n)
  BY <1>7 DEF MinAt
<1>14. QED
  BY <1>1, <1>2, <1>3, <1>12, <1>13, LoopHolds, MoveStep

LEMMA MinEnteredKeeps ==
  ASSUME TreeInv, MinEntered
  PROVE  TreeInv'
<1>1. PICK d \in Dims : d = dimNo
  BY DEF TreeInv, TypeOK
<1>2. pc = "minEnters" /\ pc \in Loops /\ pc' = "minGrows" /\ pc' \in Loops
  BY DEF MinEntered, Loops
<1>3. UNCHANGED <<regions, minList, maxList, currMaxAtMinList, currMinAtMaxList, resultList,
                  oldMin, oldMax, query, dimNo, ids>>
  BY DEF MinEntered, nodes, old
<1>4. MinShrunk(d) /\ MaxGrown(d) /\ In(d + 1)' = In(d + 1)
  BY <1>1, <1>2, <1>3, LoopHolds, SameRegions DEF At
<1>5. MinShrunk(d)' /\ MaxGrown(d)'
  BY <1>3, <1>4 DEF MinShrunk, Below, Above, MaxGrown, Alive
<1>6. At(d)' /\ ids' \subseteq Ids
  BY <1>1, <1>2, <1>3, <1>5, LoopHolds, SMTT(30) DEF At, TypeOK
<1>7. QED
  BY <1>1, <1>2, <1>3, <1>6, LoopHolds, MoveStep

\* A region leaves the nodes after that of d, or comes to the next.
LEMMA NodeDeletes ==
  ASSUME TreeInv, pc \in Loops, NEW d \in Dims, d = dimNo, NEW i \in In(d),
         Delete(i, d + 1), regions' = regions
  PROVE  /\ i \in Ids /\ regions[i] \in Boxes
         /\ In(d)' = In(d) /\ In(d + 1)' = In(d + 1) \ {i}
         /\ currMaxAtMinList'[d] = currMaxAtMinList[d]
         /\ currMinAtMaxList'[d] = currMinAtMaxList[d]
<1>1. TypeOK /\ Listed /\ Cursors
  BY LoopHolds
<1>2. /\ d \in Nat /\ d + 1 \in 2..(NumOfDims + 1) /\ d + 1 \in 1..(NumOfDims + 1)
      /\ d \in 1..(NumOfDims + 1) /\ ~ (d + 1 <= d) /\ d + 1 <= d + 1
  BY Kinds
<1>3. i \in Ids /\ regions[i] \in Boxes
  BY <1>1, <1>2, RegionsOf
<1>4. /\ \A e \in 1..(NumOfDims + 1) : In(e)' = IF d + 1 <= e THEN In(e) \ {i} ELSE In(e)
      /\ \A e \in Dims : ~ (d + 1 <= e) =>
           /\ currMaxAtMinList'[e] = currMaxAtMinList[e]
           /\ currMinAtMaxList'[e] = currMinAtMaxList[e]
  BY <1>1, <1>2, <1>3, DeleteHolds
<1>5. QED
  BY <1>2, <1>3, <1>4

LEMMA NodeInserts ==
  ASSUME TreeInv, pc \in Loops, NEW d \in Dims, d = dimNo, NEW i \in In(d),
         Insert(i, regions[i], d + 1), regions' = regions
  PROVE  /\ In(d + 1)' = In(d + 1) \cup {i} /\ In(d)' = In(d)
         /\ UNCHANGED <<currMaxAtMinList, currMinAtMaxList>>
         /\ minList'[d] = minList[d]
<1>1. TypeOK /\ Listed
  BY LoopHolds
<1>2. /\ d \in Nat /\ d + 1 \in 1..(NumOfDims + 1) /\ d \in 1..(NumOfDims + 1) /\ d < d + 1
      /\ d \notin (d + 1)..(NumOfDims + 1)
  BY Kinds
<1>3. i \in Ids /\ regions[i] \in Boxes
  BY <1>1, <1>2, RegionsOf
<1>4. regions' = [regions EXCEPT ![i] = regions[i]]
  BY <1>1, <1>3 DEF TypeOK
<1>5. /\ d + 1 \in Reached(regions[i], d + 1)
      /\ Reached(regions[i], d + 1) \subseteq (d + 1)..(NumOfDims + 1)
  BY <1>2, ReachedNodes
<1>6. /\ \A e \in 1..(NumOfDims + 1) :
           In(e)' = IF e \in Reached(regions[i], d + 1) THEN In(e) \cup {i} ELSE In(e)
      /\ \A e \in Dims : e < d + 1 => minList'[e] = minList[e]
  <2>1. PICK r \in Boxes : r = regions[i]
    BY <1>3
  <2>2. PICK f \in 1..(NumOfDims + 1) : f = d + 1
    BY <1>2
  <2>3. /\ i \in Ids /\ regions[i] \in {NULL, r}
        /\ regions' = [regions EXCEPT ![i] = r] /\ Insert(i, r, f)
    BY <2>1, <2>2, <1>2, <1>3, <1>4
  <2>4. \A e \in 1..(NumOfDims + 1) :
          In(e)' = IF e \in Reached(r, f) THEN In(e) \cup {i} ELSE In(e)
    <3>1. TypeOK /\ Listed /\ r \in Boxes /\ f \in 1..(NumOfDims + 1)
      BY <1>1
    <3>2. QED
      BY ONLY <3>1, <2>3, InsertHolds, ZenonT(120)
  <2>5. \A e \in Dims : e < f => minList'[e] = minList[e]
    <3>1. TypeOK /\ Listed /\ r \in Boxes /\ f \in 1..(NumOfDims + 1)
      BY <1>1
    <3>2. QED
      BY ONLY <3>1, <2>3, InsertHolds, ZenonT(120)
  <2>6. QED
    BY <2>1, <2>2, <2>4, <2>5
<1>7. UNCHANGED <<currMaxAtMinList, currMinAtMaxList>>
  BY DEF Insert
<1>8. QED
  BY <1>2, <1>5, <1>6, <1>7

\* The test for regions that have left before, by the other cursor, lets none stay.
LEMMA MaxLeavesKeeps ==
  ASSUME TreeInv, NEW i \in Ids, MaxLeaves(i)
  PROVE  TreeInv'
<1>1. PICK d \in Dims : d = dimNo
  BY DEF TreeInv, TypeOK
<1>2. pc = "maxLeaves" /\ pc \in Loops /\ pc' = pc /\ pc' \in Loops
  BY DEF MaxLeaves, Loops
<1>3. /\ UNCHANGED <<regions, oldMin, oldMax, query, dimNo>>
      /\ i \in ids /\ ids' = ids \ {i}
      /\ IF oldMin[d] = NULL \/ regions[i].max[d] > oldMin[d]
           THEN Delete(i, d + 1)
           ELSE UNCHANGED <<minList, maxList, currMaxAtMinList, currMinAtMaxList, resultList>>
  BY <1>1 DEF MaxLeaves, NextId, nodes, old
<1>4. /\ Settled(d) /\ currMaxAtMinList[d] # Head /\ ids \subseteq In(d)
      /\ \A j \in In(d + 1) : regions[j].min[d] = currMaxAtMinList[d] => j \in ids
  BY <1>1, <1>2, LoopHolds DEF At
<1>5. ids' \subseteq Ids /\ i \in In(d)
  BY <1>1, <1>2, <1>3, <1>4, LoopHolds DEF TypeOK
<1>6. CASE oldMin[d] = NULL \/ regions[i].max[d] > oldMin[d]
  <2>1. Delete(i, d + 1)
    BY <1>3, <1>6
  <2>2. /\ regions[i] \in Boxes /\ In(d)' = In(d) /\ In(d + 1)' = In(d + 1) \ {i}
        /\ currMaxAtMinList'[d] = currMaxAtMinList[d]
        /\ currMinAtMaxList'[d] = currMinAtMaxList[d]
    BY <2>1, <1>1, <1>2, <1>3, <1>5, NodeDeletes
  <2>3. In(d + 1)' \subseteq In(d + 1)
    BY <2>2
  <2>4. Settled(d)'
    BY <2>2, <2>3, <1>3, <1>4, SettledKept
  <2>5. \A j \in In(d + 1)' : regions'[j].min[d] = currMaxAtMinList'[d] => j \in ids'
    BY <2>2, <1>3, <1>4
  <2>6. At(d)'
    BY <2>2, <2>4, <2>5, <1>2, <1>3, <1>4 DEF At
  <2>7. QED
    BY <2>1, <2>2, <2>6, <1>1, <1>2, <1>3, <1>5, DeleteStep
<1>7. CASE ~ (oldMin[d] = NULL \/ regions[i].max[d] > oldMin[d])
  <2>1. UNCHANGED <<minList, maxList, currMaxAtMinList, currMinAtMaxList, resultList>>
    BY <1>3, <1>7
  <2>2. In(d)' = In(d) /\ In(d + 1)' = In(d + 1)
    BY <2>1, <1>3, SameRegions
  <2>3. i \notin In(d + 1)
    <3>1. SUFFICES ASSUME i \in In(d + 1) PROVE FALSE
      OBVIOUS
    <3>2. /\ currMinAtMaxList[d] <= regions[i].max[d] /\ oldMin[d] # NULL
          /\ currMinAtMaxList[d] = Tail \/ oldMin[d] < currMinAtMaxList[d]
      BY <3>1, <1>4, <1>7 DEF Settled, Inside, Above
    <3>3. /\ regions[i].max[d] \in Nat /\ regions[i].max[d] < Tail /\ Tail \in Nat
          /\ oldMin[d] \in Nat /\ currMinAtMaxList[d] \in Nat
      BY <3>2, <1>1, <1>2, <1>5, LoopHolds, NodeHolds
    <3>4. QED
      BY <3>2, <3>3, <1>7
  <2>4. Settled(d)'
    BY <2>1, <2>2, <1>3, <1>4, SettledKept
  <2>5. At(d)'
    BY <2>1, <2>2, <2>3, <2>4, <1>2, <1>3, <1>4 DEF At
  <2>6. QED
    BY <2>1, <2>5, <1>1, <1>2, <1>3, <1>5, LoopHolds, MoveStep
<1>8. QED
  BY <1>6, <1>7

LEMMA MinLeavesKeeps ==
  ASSUME TreeInv, NEW i \in Ids, MinLeaves(i)
  PROVE  TreeInv'
<1>1. PICK d \in Dims : d = dimNo
  BY DEF TreeInv, TypeOK
<1>2. pc = "minLeaves" /\ pc \in Loops /\ pc' = pc /\ pc' \in Loops
  BY DEF MinLeaves, Loops
<1>3. /\ UNCHANGED <<regions, oldMin, oldMax, query, dimNo>>
      /\ i \in ids /\ ids' = ids \ {i}
      /\ IF oldMax[d] = NULL \/ regions[i].min[d] <= oldMax[d]
           THEN Delete(i, d + 1)
           ELSE UNCHANGED <<minList, maxList, currMaxAtMinList, currMinAtMaxList, resultList>>
  BY <1>1 DEF MinLeaves, NextId, nodes, old
<1>4. /\ MaxShrunk(d) /\ currMinAtMaxList[d] \notin {Head, Tail} /\ ids \subseteq In(d)
      /\ \A j \in In(d + 1) : regions[j].max[d] = currMinAtMaxList[d] => j \in ids
  BY <1>1, <1>2, LoopHolds DEF At
<1>5. ids' \subseteq Ids /\ i \in In(d)
  BY <1>1, <1>2, <1>3, <1>4, LoopHolds DEF TypeOK
<1>6. CASE oldMax[d] = NULL \/ regions[i].min[d] <= oldMax[d]
  <2>1. Delete(i, d + 1)
    BY <1>3, <1>6
  <2>2. /\ regions[i] \in Boxes /\ In(d)' = In(d) /\ In(d + 1)' = In(d + 1) \ {i}
        /\ currMaxAtMinList'[d] = currMaxAtMinList[d]
        /\ currMinAtMaxList'[d] = currMinAtMaxList[d]
    BY <2>1, <1>1, <1>2, <1>3, <1>5, NodeDeletes
  <2>3. MaxShrunk(d)'
    BY <2>2, <1>3, <1>4 DEF MaxShrunk, Inside, Below
  <2>4. \A j \in In(d + 1)' : regions'[j].max[d] = currMinAtMaxList'[d] => j \in ids'
    BY <2>2, <1>3, <1>4
  <2>5. At(d)'
    BY <2>2, <2>3, <2>4, <1>2, <1>3, <1>4 DEF At
  <2>6. QED
    BY <2>1, <2>2, <2>5, <1>1, <1>2, <1>3, <1>5, DeleteStep
<1>7. CASE ~ (oldMax[d] = NULL \/ regions[i].min[d] <= oldMax[d])
  <2>1. UNCHANGED <<minList, maxList, currMaxAtMinList, currMinAtMaxList, resultList>>
    BY <1>3, <1>7
  <2>2. In(d)' = In(d) /\ In(d + 1)' = In(d + 1)
    BY <2>1, <1>3, SameRegions
  <2>3. i \notin In(d + 1)
    <3>1. SUFFICES ASSUME i \in In(d + 1) PROVE FALSE
      OBVIOUS
    <3>2. /\ regions[i].min[d] <= currMaxAtMinList[d] /\ oldMax[d] # NULL
          /\ currMaxAtMinList[d] = Head \/ currMaxAtMinList[d] < oldMax[d]
      BY <3>1, <1>4, <1>7 DEF MaxShrunk, Inside, Below
    <3>3. /\ regions[i].min[d] \in Nat /\ Head < regions[i].min[d] /\ Head \in Nat
          /\ oldMax[d] \in Nat /\ currMaxAtMinList[d] \in Nat
      BY <3>2, <1>1, <1>2, <1>5, LoopHolds, NodeHolds
    <3>4. QED
      BY <3>2, <3>3, <1>7
  <2>4. MaxShrunk(d)'
    BY <2>1, <2>2, <1>3, <1>4 DEF MaxShrunk, Inside, Below
  <2>5. At(d)'
    BY <2>1, <2>2, <2>3, <2>4, <1>2, <1>3, <1>4 DEF At
  <2>6. QED
    BY <2>1, <2>5, <1>1, <1>2, <1>3, <1>5, LoopHolds, MoveStep
<1>8. QED
  BY <1>6, <1>7

\* A region that max has come to enters when it goes beyond the query's minimum.
LEMMA MaxEntersKeeps ==
  ASSUME TreeInv, NEW i \in Ids, MaxEnters(i)
  PROVE  TreeInv'
<1>1. PICK d \in Dims : d = dimNo
  BY DEF TreeInv, TypeOK
<1>2. pc = "maxEnters" /\ pc \in Loops /\ pc' = pc /\ pc' \in Loops
  BY DEF MaxEnters, Loops
<1>3. /\ UNCHANGED <<regions, oldMin, oldMax, query, dimNo>>
      /\ i \in ids /\ ids' = ids \ {i}
      /\ IF regions[i].max[d] > query.min[d]
           THEN Insert(i, regions[i], d + 1)
           ELSE UNCHANGED <<minList, maxList, currMaxAtMinList, currMinAtMaxList, resultList>>
  BY <1>1 DEF MaxEnters, NextId, nodes, old
<1>4. MinShrunk(d) /\ ids \subseteq {j \in In(d) : regions[j].min[d] = currMaxAtMinList[d]}
  BY <1>1, <1>2, LoopHolds DEF At
<1>5. ids' \subseteq Ids /\ i \in In(d) /\ regions[i].min[d] = currMaxAtMinList[d]
  BY <1>1, <1>2, <1>3, <1>4, LoopHolds DEF TypeOK
<1>6. CASE regions[i].max[d] > query.min[d]
  <2>1. Insert(i, regions[i], d + 1)
    BY <1>3, <1>6
  <2>2. /\ In(d + 1)' = In(d + 1) \cup {i} /\ In(d)' = In(d)
        /\ UNCHANGED <<currMaxAtMinList, currMinAtMaxList>>
    BY <2>1, <1>1, <1>2, <1>3, <1>5, NodeInserts
  <2>3. regions[i].min[d] <= currMaxAtMinList[d] /\ query.min[d] < regions[i].max[d]
    <3>1. currMaxAtMinList[d] \in Nat /\ query.min[d] \in Nat /\ regions[i].max[d] \in Nat
      BY <1>1, <1>2, <1>5, LoopHolds, NodeHolds
    <3>2. QED
      BY <3>1, <1>5, <1>6
  <2>4. MinShrunk(d)'
    BY <2>2, <2>3, <1>3, <1>4 DEF MinShrunk, Below, Above
  <2>5. At(d)'
    BY <2>2, <2>4, <1>2, <1>3, <1>4 DEF At
  <2>6. QED
    BY <2>1, <2>5, <1>1, <1>2, <1>3, <1>5, InsertStep
<1>7. CASE ~ (regions[i].max[d] > query.min[d])
  <2>1. UNCHANGED <<minList, maxList, currMaxAtMinList, currMinAtMaxList, resultList>>
    BY <1>3, <1>7
  <2>2. In(d)' = In(d) /\ In(d + 1)' = In(d + 1)
    BY <2>1, <1>3, SameRegions
  <2>3. MinShrunk(d)'
    BY <2>1, <2>2, <1>3, <1>4 DEF MinShrunk, Below, Above
  <2>4. At(d)'
    BY <2>1, <2>2, <2>3, <1>2, <1>3, <1>4 DEF At
  <2>5. QED
    BY <2>1, <2>4, <1>1, <1>2, <1>3, <1>5, LoopHolds, MoveStep
<1>8. QED
  BY <1>6, <1>7

\* One that min has come to, when it begins before the query's maximum: max has passed it.
LEMMA MinEntersKeeps ==
  ASSUME TreeInv, NEW i \in Ids, MinEnters(i)
  PROVE  TreeInv'
<1>1. PICK d \in Dims : d = dimNo
  BY DEF TreeInv, TypeOK
<1>2. pc = "minEnters" /\ pc \in Loops /\ pc' = pc /\ pc' \in Loops
  BY DEF MinEnters, Loops
<1>3. /\ UNCHANGED <<regions, oldMin, oldMax, query, dimNo>>
      /\ i \in ids /\ ids' = ids \ {i}
      /\ IF regions[i].min[d] < query.max[d]
           THEN Insert(i, regions[i], d + 1)
           ELSE UNCHANGED <<minList, maxList, currMaxAtMinList, currMinAtMaxList, resultList>>
  BY <1>1 DEF MinEnters, NextId, nodes, old
<1>4. /\ MinShrunk(d) /\ MaxGrown(d)
      /\ ids \subseteq {j \in In(d) : regions[j].max[d] = currMinAtMaxList[d]}
  BY <1>1, <1>2, LoopHolds DEF At
<1>5. ids' \subseteq Ids /\ i \in In(d) /\ regions[i].max[d] = currMinAtMaxList[d]
  BY <1>1, <1>2, <1>3, <1>4, LoopHolds DEF TypeOK
<1>6. CASE regions[i].min[d] < query.max[d]
  <2>1. Insert(i, regions[i], d + 1)
    BY <1>3, <1>6
  <2>2. /\ In(d + 1)' = In(d + 1) \cup {i} /\ In(d)' = In(d) /\ minList'[d] = minList[d]
        /\ UNCHANGED <<currMaxAtMinList, currMinAtMaxList>>
    BY <2>1, <1>1, <1>2, <1>3, <1>5, NodeInserts
  <2>3. regions[i].min[d] <= currMaxAtMinList[d] /\ query.min[d] < regions[i].max[d]
    <3>1. /\ query.min[d] \in Nat /\ query.max[d] \in Nat /\ regions[i].min[d] \in Nat
          /\ regions[i].min[d] \in Alive(minList[d])
          /\ regions[i].max[d] \in Nat /\ regions[i].max[d] < Tail /\ Tail \in Nat
      BY <1>1, <1>2, <1>5, LoopHolds, NodeHolds
    <3>2. regions[i].min[d] <= currMaxAtMinList[d] \/ query.max[d] <= regions[i].min[d]
      BY <3>1, <1>4 DEF MaxGrown
    <3>3. currMinAtMaxList[d] = Tail \/ query.min[d] < currMinAtMaxList[d]
      BY <1>4 DEF MinShrunk, Above
    <3>4. QED
      BY <3>1, <3>2, <3>3, <1>5, <1>6
  <2>4. MinShrunk(d)'
    BY <2>2, <2>3, <1>3, <1>4 DEF MinShrunk, Below, Above
  <2>5. MaxGrown(d)'
    BY <2>2, <1>3, <1>4 DEF MaxGrown, Alive
  <2>6. At(d)'
    BY <2>2, <2>4, <2>5, <1>2, <1>3, <1>4 DEF At
  <2>7. QED
    BY <2>1, <2>6, <1>1, <1>2, <1>3, <1>5, InsertStep
<1>7. CASE ~ (regions[i].min[d] < query.max[d])
  <2>1. UNCHANGED <<minList, maxList, currMaxAtMinList, currMinAtMaxList, resultList>>
    BY <1>3, <1>7
  <2>2. In(d)' = In(d) /\ In(d + 1)' = In(d + 1)
    BY <2>1, <1>3, SameRegions
  <2>3. MinShrunk(d)' /\ MaxGrown(d)'
    BY <2>1, <2>2, <1>3, <1>4 DEF MinShrunk, Below, Above, MaxGrown, Alive
  <2>4. At(d)'
    BY <2>1, <2>2, <2>3, <1>2, <1>3, <1>4 DEF At
  <2>5. QED
    BY <2>1, <2>4, <1>1, <1>2, <1>3, <1>5, LoopHolds, MoveStep
<1>8. QED
  BY <1>6, <1>7

-----------------------------------------------------------------------------
(* The steps between the loops *)

\* The bounds of the query are kept, and the next node's turn comes.
LEMMA NextNodeKeeps ==
  ASSUME TreeInv, NextNode
  PROVE  TreeInv'
<1>1. PICK d \in Dims : d = dimNo
  BY DEF TreeInv, TypeOK
<1>2. pc = "minGrows" /\ pc \in Loops
  BY DEF NextNode, Loops
<1>3. /\ UNCHANGED <<regions, minList, maxList, currMaxAtMinList, currMinAtMaxList, resultList,
                     query, ids>>
      /\ oldMax' = [oldMax EXCEPT ![d] = query.max[d]]
      /\ oldMin' = [oldMin EXCEPT ![d] = query.min[d]]
      /\ IF d = NumOfDims THEN pc' = "answered" /\ dimNo' = 1
         ELSE pc' = "maxShrinks" /\ dimNo' = d + 1
  BY <1>1 DEF NextNode, nodes
<1>4. /\ TypeOK /\ Listed /\ Nested /\ Cursors /\ query # NULL
      /\ MinShrunk(d) /\ query.min[d] \in Nat
  BY <1>1, <1>2, LoopHolds DEF At
<1>5. /\ oldMin \in [Dims -> Nodes \cup {NULL}] /\ oldMax \in [Dims -> Nodes \cup {NULL}]
      /\ query.min[d] \in Nodes /\ query.max[d] \in Nodes
  BY <1>4, Kinds DEF TypeOK
<1>6. /\ oldMin'[d] = query.min[d] /\ oldMax'[d] = query.max[d]
      /\ oldMin'[d] # NULL /\ oldMax'[d] # NULL
      /\ \A e \in Dims : e # d => oldMin'[e] = oldMin[e] /\ oldMax'[e] = oldMax[e]
      /\ oldMin' \in [Dims -> Nodes \cup {NULL}] /\ oldMax' \in [Dims -> Nodes \cup {NULL}]
  BY <1>3, <1>5, Kinds
<1>7. Listed' /\ Nested' /\ Cursors' /\ \A e : In(e)' = In(e)
  <2>1. Listed' /\ Nested' /\ \A e : In(e)' = In(e)
    BY <1>3, <1>4, SameRegions
  <2>2. Cursors'
    BY <1>3, <1>4 DEF Cursors, MaxAt, MinAt
  <2>3. QED
    BY <2>1, <2>2
<1>8. /\ dimNo' \in Dims /\ pc' \in {"answered", "maxShrinks"}
      /\ pc' = "answered" => \A e \in Dims : e <= d
      /\ pc' = "maxShrinks" => dimNo' = d + 1
  <2>1. d \in Nat /\ d <= NumOfDims /\ NumOfDims \in Nat /\ NumOfDims >= 1
    BY Kinds DEF Dims
  <2>2. QED
    BY <2>1, <1>3 DEF Dims
<1>9. TypeOK'
  BY <1>3, <1>4, <1>6, <1>8 DEF TypeOK
<1>10. ASSUME NEW e \in Dims
       PROVE  Settled(e)'
  <2>1. CASE e # d
    <3>1. Settled(e)
      BY <2>1, <1>1, <1>2 DEF TreeInv, Stepwise
    <3>2. In(e + 1)' \subseteq In(e + 1)
      BY <1>7
    <3>3. oldMin'[e] = oldMin[e] /\ oldMax'[e] = oldMax[e]
      BY <2>1, <1>6
    <3>4. QED
      BY <3>1, <3>2, <3>3, <1>3, SettledKept
  <2>2. CASE e = d
    <3>1. ASSUME NEW i \in In(d + 1)
          PROVE  /\ regions[i].min[d] <= currMaxAtMinList[d]
                 /\ currMinAtMaxList[d] <= regions[i].max[d]
      <4>1. regions[i].min[d] <= currMaxAtMinList[d] /\ query.min[d] < regions[i].max[d]
        BY <1>4 DEF MinShrunk
      <4>2. regions[i].max[d] \in Alive(maxList[d]) /\ regions[i].max[d] \in Nat
        BY <1>1, <1>2, LoopHolds, NodeHolds
      <4>3. /\ maxList[d] \in Lists /\ Sound(maxList[d])
            /\ currMinAtMaxList[d] \in Alive(maxList[d]) \cup {Tail}
        BY <1>1, <1>2, <1>4, LoopHolds, NodeHolds DEF MinShrunk, Above
      <4>4. LET n == maxList[d].bck[1][currMinAtMaxList[d]]
            IN  /\ n \in Alive(maxList[d]) \cup {Head} /\ n < currMinAtMaxList[d]
                /\ \A j \in Alive(maxList[d]) : j <= n \/ currMinAtMaxList[d] <= j
        BY <4>3, PrevHolds
      <4>5. LET n == maxList[d].bck[1][currMinAtMaxList[d]]
            IN  n = Head \/ query.min[d] >= n
        BY <1>1 DEF NextNode
      <4>6. \A j \in Alive(maxList[d]) : j \in Nat /\ Head < j /\ Head \in Nat
        BY <1>1, <1>2, LoopHolds, NodeHolds
      <4>7. QED
        BY <4>1, <4>2, <4>4, <4>5, <4>6, <1>4
    <3>2. Inside(d)'
      BY <3>1, <1>3, <1>7 DEF Inside
    <3>3. Below(d, oldMax[d])' /\ Above(d, oldMin[d])'
      BY <1>3, <1>4, <1>6 DEF MinShrunk, Below, Above
    <3>4. Settled(d)'
      BY <3>2, <3>3, <1>6 DEF Settled
    <3>5. QED
      BY <3>4, <2>2
  <2>3. QED
    BY <2>1, <2>2
<1>11. \A e \in Dims : e <= d => Asked(e)'
  <2>1. ASSUME NEW e \in Dims, e < d
        PROVE  Asked(e)'
    <3>1. Asked(e) /\ e # d
      BY <2>1, <1>1, <1>2, Kinds DEF TreeInv, Stepwise
    <3>2. QED
      BY <3>1, <1>3, <1>6 DEF Asked
  <2>2. Asked(d)'
    BY <1>3, <1>6 DEF Asked
  <2>3. \A e \in Dims : e <= d => e < d \/ e = d
    BY Kinds
  <2>4. QED
    BY <2>1, <2>2, <2>3
<1>12. Stepwise'
  <2>1. CASE pc' = "answered"
    <3>1. \A e \in Dims : Asked(e)'
      BY <2>1, <1>8, <1>11
    <3>2. QED
      BY <2>1, <3>1, <1>3, <1>4, <1>10 DEF Stepwise, Loops
  <2>2. CASE pc' = "maxShrinks"
    <3>1. \A e \in Dims : e < dimNo' => e <= d
      BY <2>2, <1>8, Kinds
    <3>2. \A e \in Dims : At(e)'
      BY <2>2, <1>10 DEF At
    <3>3. QED
      BY <2>2, <3>1, <3>2, <1>3, <1>4, <1>10, <1>11 DEF Stepwise
  <2>3. QED
    BY <2>1, <2>2, <1>8
<1>13. StopsEmpty'
  BY <1>8 DEF StopsEmpty
<1>14. QED
  BY <1>7, <1>9, <1>12, <1>13 DEF TreeInv

\* A query begins at the first node.
LEMMA WindowQueryKeeps ==
  ASSUME TreeInv, WindowQuery
  PROVE  TreeInv'
<1>1. /\ UNCHANGED <<regions, minList, maxList, currMaxAtMinList, currMinAtMaxList, resultList,
                     oldMin, oldMax, ids>>
      /\ pc \in {"idle", "answered"} /\ pc' = "maxShrinks" /\ query' \in Windows /\ dimNo' = 1
  BY DEF WindowQuery, nodes, old
<1>2. Listed' /\ Nested' /\ \A e : In(e)' = In(e)
  BY <1>1, SameRegions DEF TreeInv
<1>3. Cursors'
  BY <1>1 DEF TreeInv, Cursors, MaxAt, MinAt
<1>4. 1 \in Dims /\ \A e \in Dims : ~ (e < 1)
  BY Kinds DEF Dims
<1>5. TypeOK'
  BY <1>1, <1>4 DEF TreeInv, TypeOK
<1>6. ASSUME NEW e \in Dims
      PROVE  Settled(e)'
  <2>1. Settled(e) /\ In(e + 1)' \subseteq In(e + 1)
    BY <1>1, <1>2 DEF TreeInv, Stepwise
  <2>2. QED
    BY <2>1, <1>1, SettledKept
<1>7. \A e \in Dims : At(e)'
  BY <1>1, <1>6 DEF At
<1>8. Stepwise' /\ StopsEmpty'
  BY <1>1, <1>4, <1>6, <1>7, Kinds DEF Stepwise, StopsEmpty
<1>9. QED
  BY <1>2, <1>3, <1>5, <1>8 DEF TreeInv

LEMMA InsertRegionKeeps ==
  ASSUME TreeInv, NEW i \in Ids, InsertRegion(i)
  PROVE  TreeInv'
<1>1. /\ UNCHANGED <<oldMin, oldMax, query, dimNo, ids>>
      /\ pc \in {"idle", "answered"} /\ pc' = "idle" /\ regions[i] = NULL
  BY DEF InsertRegion, old
<1>2. PICK r \in Boxes : regions' = [regions EXCEPT ![i] = r] /\ Insert(i, r, 1)
  BY DEF InsertRegion
<1>3. 1 \in 1..(NumOfDims + 1) /\ \A e \in 1..(NumOfDims + 1) : ~ (e < 1)
  BY Kinds
<1>4. /\ Listed' /\ Nested' /\ Cursors'
      /\ regions' \in [Ids -> Boxes \cup {NULL}]
      /\ minList' \in [Dims -> Lists] /\ maxList' \in [Dims -> Lists]
      /\ UNCHANGED <<currMaxAtMinList, currMinAtMaxList>> /\ resultList' \subseteq Ids
      /\ \A e \in Dims : /\ e + 1 # 1
                         /\ oldMin'[e] = oldMin[e] /\ oldMax'[e] = oldMax[e]
                         /\ Settled(e)
                         => Settled(e)'
  BY <1>1, <1>2, <1>3, InsertKeeps DEF TreeInv
<1>5. TypeOK'
  BY <1>1, <1>4 DEF TreeInv, TypeOK
<1>6. \A e \in Dims : Settled(e)'
  <2>1. \A e \in Dims : e + 1 # 1 /\ Settled(e)
    BY <1>1, Kinds DEF TreeInv, Stepwise, Dims
  <2>2. QED
    BY <2>1, <1>1, <1>4
<1>7. Stepwise' /\ StopsEmpty'
  BY <1>1, <1>6 DEF Stepwise, StopsEmpty, Loops
<1>8. QED
  BY <1>4, <1>5, <1>7 DEF TreeInv

-----------------------------------------------------------------------------
(* The theorems *)

LEMMA EmptySound ==
  EmptyList \in Lists /\ Sound(EmptyList) /\ \A k \in Keys : EmptyList.obj[k] = {}
<1>1. /\ Head \in Nodes /\ Tail \in Nodes /\ Head # Tail /\ Head < Tail
      /\ 1 \in Levels
  BY Numbers, SizesAssumption DEF Levels
<1>2. EmptyList \in Lists
  BY <1>1 DEF EmptyList, Lists
<1>3. \A k \in Keys : EmptyList.obj[k] = {}
  BY DEF EmptyList
<1>4. \A h \in Levels : OnLevel(EmptyList, h) = {}
  BY <1>3 DEF OnLevel
<1>5. ASSUME NEW h \in Levels
      PROVE  Chained(EmptyList.fwd[h], EmptyList.bck[h], {})
  <2>1. /\ \A n \in Nodes : EmptyList.fwd[h][n] = IF n = Head THEN Tail ELSE Nil
        /\ \A n \in Nodes : EmptyList.bck[h][n] = IF n = Tail THEN Head ELSE Nil
    BY DEF EmptyList
  <2>2. QED
    BY <2>1, <1>1 DEF Chained
<1>6. QED
  BY <1>2, <1>3, <1>4, <1>5 DEF Sound

\* A tree with no region.
LEMMA InitHolds ==
  ASSUME Init
  PROVE  TreeInv
<1>1. EmptyList \in Lists /\ Sound(EmptyList) /\ \A k \in Keys : EmptyList.obj[k] = {}
  BY EmptySound
<1>2. /\ Head \in Nodes /\ Tail \in Nodes /\ Head # Tail /\ 1 \in Dims
      /\ \A k \in Keys : k \in Nodes
  BY Numbers, Kinds DEF Dims
<1>3. \A e \in 1..(NumOfDims + 1) : In(e) = {}
  BY DEF Init, In
<1>4. TypeOK
  BY <1>1, <1>2 DEF Init, TypeOK
<1>5. Listed
  BY <1>1, <1>3, Kinds DEF Init, Listed
<1>6. Nested
  BY <1>3 DEF Nested
<1>7. Cursors
  BY DEF Init, Cursors, MaxAt, MinAt
<1>8. \A e \in Dims : Settled(e)
  BY <1>3, Kinds DEF Init, Settled, Inside
<1>9. Stepwise /\ StopsEmpty
  BY <1>8 DEF Init, Stepwise, StopsEmpty, Loops
<1>10. QED
  BY <1>4, <1>5, <1>6, <1>7, <1>9 DEF TreeInv

\* Every state of the tree, whatever was inserted and asked for before: the lists hold each
\* region at its coordinates, the cursors are at nodes of the lists, the regions of the next
\* node are between them, and the cursors of the nodes asked are within the query's bounds.
THEOREM TreeInvariant == Spec => []TreeInv
<1>1. Init => TreeInv
  BY InitHolds
<1>2. ASSUME TreeInv, [Next]_vars
      PROVE  TreeInv'
  <2>1. CASE WindowQuery
    BY <1>2, <2>1, WindowQueryKeeps
  <2>2. CASE MaxShrinks
    BY <1>2, <2>2, MaxShrinksKeeps
  <2>3. CASE MaxMoves
    BY <1>2, <2>3, MaxMovesKeeps
  <2>4. CASE MinShrinks
    BY <1>2, <2>4, MinShrinksKeeps
  <2>5. CASE MinMoves
    BY <1>2, <2>5, MinMovesKeeps
  <2>6. CASE MaxGrows
    BY <1>2, <2>6, MaxGrowsKeeps
  <2>7. CASE MaxEntered
    BY <1>2, <2>7, MaxEnteredKeeps
  <2>8. CASE MinGrows
    BY <1>2, <2>8, MinGrowsKeeps
  <2>9. CASE MinEntered
    BY <1>2, <2>9, MinEnteredKeeps
  <2>10. CASE NextNode
    BY <1>2, <2>10, NextNodeKeeps
  <2>11. ASSUME NEW i \in Ids,
                MaxLeaves(i) \/ MinLeaves(i) \/ MaxEnters(i) \/ MinEnters(i) \/ InsertRegion(i)
         PROVE  TreeInv'
    <3>1. CASE MaxLeaves(i)
      BY <1>2, <3>1, MaxLeavesKeeps
    <3>2. CASE MinLeaves(i)
      BY <1>2, <3>2, MinLeavesKeeps
    <3>3. CASE MaxEnters(i)
      BY <1>2, <3>3, MaxEntersKeeps
    <3>4. CASE MinEnters(i)
      BY <1>2, <3>4, MinEntersKeeps
    <3>5. CASE InsertRegion(i)
      BY <1>2, <3>5, InsertRegionKeeps
    <3>6. QED
      BY <2>11, <3>1, <3>2, <3>3, <3>4, <3>5
  <2>12. CASE UNCHANGED vars
    <3>1. UNCHANGED <<regions, minList, maxList, currMaxAtMinList, currMinAtMaxList,
                      resultList, oldMin, oldMax, pc, query, dimNo, ids>>
      BY <2>12 DEF vars, nodes, old, local
    <3>2. Listed' /\ Nested' /\ \A e : In(e)' = In(e)
      BY <3>1, <1>2, SameRegions DEF TreeInv
    <3>3. TypeOK' /\ Cursors'
      BY <3>1, <1>2 DEF TreeInv, TypeOK, Cursors, MaxAt, MinAt
    <3>4. ASSUME NEW e \in Dims
          PROVE  /\ Settled(e) => Settled(e)'
                 /\ Asked(e) => Asked(e)'
                 /\ At(e) => At(e)'
      <4>1. /\ Settled(e) <=> Settled(e)'
            /\ MaxShrunk(e) <=> MaxShrunk(e)'
            /\ MinShrunk(e) <=> MinShrunk(e)'
            /\ MaxGrown(e) <=> MaxGrown(e)'
            /\ Asked(e) => Asked(e)'
        BY <3>1, <3>2 DEF Settled, MaxShrunk, MinShrunk, MaxGrown, Inside, Below, Above, Alive,
                          Asked
      <4>2. At(e) => At(e)'
        BY <4>1, <3>1, <3>2 DEF At
      <4>3. QED
        BY <4>1, <4>2
    <3>5. Stepwise' /\ StopsEmpty'
      BY <3>1, <3>4, <1>2 DEF TreeInv, Stepwise, StopsEmpty, Alive
    <3>6. QED
      BY <3>2, <3>3, <3>5 DEF TreeInv
  <2>13. QED
    BY <1>2, <2>1, <2>2, <2>3, <2>4, <2>5, <2>6, <2>7, <2>8, <2>9, <2>10, <2>11, <2>12
       DEF Next, Query
<1>3. QED
  BY <1>1, <1>2, PTL DEF Spec

\* Every variable of the tree keeps its kind: in particular the cursor into the minima never
\* gets to the tail, which has no object.
THEOREM TypeCorrect == Spec => []TypeOK
<1>1. TreeInv => TypeOK
  BY DEF TreeInv
<1>2. QED
  BY <1>1, TreeInvariant, PTL

\* insert and removeWithKey leave sound skip lists, and the lists of a node have the same
\* regions, each at its own coordinates.
THEOREM ListsAlwaysSound == Spec => []ListsSound
<1>1. ASSUME TreeInv
      PROVE  ListsSound
  <2>1. TypeOK /\ Listed
    BY <1>1 DEF TreeInv
  <2>2. ASSUME NEW d \in Dims, NEW i \in Ids, NEW k \in Keys
        PROVE  /\ i \in minList[d].obj[k] => /\ regions[i] # NULL /\ k = regions[i].min[d]
                                             /\ i \in maxList[d].obj[regions[i].max[d]]
               /\ i \in maxList[d].obj[k] => /\ regions[i] # NULL /\ k = regions[i].max[d]
                                             /\ i \in minList[d].obj[regions[i].min[d]]
    <3>1. /\ minList[d].obj[k] = {j \in In(d) : regions[j].min[d] = k}
          /\ maxList[d].obj[k] = {j \in In(d) : regions[j].max[d] = k}
      BY <2>1 DEF Listed
    <3>2. ASSUME i \in In(d)
          PROVE  /\ regions[i] # NULL
                 /\ i \in maxList[d].obj[regions[i].max[d]]
                 /\ i \in minList[d].obj[regions[i].min[d]]
      <4>1. regions[i] \in Boxes
        BY <2>1, <3>2, Kinds, RegionsOf
      <4>2. regions[i].min[d] \in Keys /\ regions[i].max[d] \in Keys /\ regions[i] # NULL
        BY <4>1, Kinds
      <4>3. QED
        BY <4>2, <3>2, <2>1 DEF Listed
    <3>3. QED
      BY <3>1, <3>2
  <2>3. \A d \in Dims : Sound(minList[d]) /\ Sound(maxList[d])
    BY <2>1 DEF Listed
  <2>4. QED
    BY <2>2, <2>3 DEF ListsSound
<1>2. QED
  BY <1>1, TreeInvariant, PTL

\* The cascadeDelete of a query at the node before frees nodes of the lists under the cursors:
\* a cursor is never left at a node that is freed.
THEOREM CursorsAreAlive == Spec => []CursorsAlive
<1>1. TreeInv => CursorsAlive
  BY DEF TreeInv, Cursors, MaxAt, MinAt, Alive, CursorsAlive
<1>2. QED
  BY <1>1, TreeInvariant, PTL

\* The regions of the result node intersect the query just answered: what the queries before
\* have left there is deleted, and what the insertions between them have passed on is inside.
THEOREM AnswersIntersect == Spec => []AnswerIntersects
<1>1. ASSUME TreeInv
      PROVE  AnswerIntersects
  <2>1. SUFFICES ASSUME pc = "answered", NEW i \in resultList, NEW d \in Dims
                 PROVE  regions[i].min[d] < query.max[d] /\ regions[i].max[d] > query.min[d]
    BY DEF AnswerIntersects, Intersects
  <2>2. /\ TypeOK /\ Listed /\ Nested /\ Cursors /\ query # NULL
        /\ Settled(d) /\ Asked(d)
    BY <1>1, <2>1 DEF TreeInv, Stepwise
  <2>3. i \in In(d + 1) /\ i \in In(d)
    <3>1. /\ i \in In(NumOfDims + 1) /\ NumOfDims + 1 \in 1..(NumOfDims + 1)
          /\ d + 1 \in 1..(NumOfDims + 1) /\ d + 1 <= NumOfDims + 1
      BY <2>1, Kinds DEF In
    <3>2. In(NumOfDims + 1) \subseteq In(d + 1)
      BY <3>1, <2>2 DEF Nested
    <3>3. In(d + 1) \subseteq In(d)
      BY <2>2, NodeHolds
    <3>4. QED
      BY <3>1, <3>2, <3>3
  <2>4. /\ regions[i].min[d] \in Nat /\ Head < regions[i].min[d]
        /\ regions[i].max[d] \in Nat /\ regions[i].max[d] < Tail
        /\ Head \in Nat /\ Tail \in Nat
        /\ currMaxAtMinList[d] \in Nat /\ currMinAtMaxList[d] \in Nat
        /\ query.min[d] \in Nat /\ query.max[d] \in Nat
    BY <2>2, <2>3, NodeHolds
  <2>5. /\ regions[i].min[d] <= currMaxAtMinList[d] /\ currMinAtMaxList[d] <= regions[i].max[d]
        /\ currMaxAtMinList[d] = Head \/ currMaxAtMinList[d] < query.max[d]
        /\ currMinAtMaxList[d] = Tail \/ query.min[d] < currMinAtMaxList[d]
    <3>1. oldMin[d] # NULL
      BY <2>2, <2>4, Kinds, Numbers DEF Asked, TypeOK
    <3>2. QED
      BY <3>1, <2>2, <2>3 DEF Settled, Inside, Below, Above, Asked
  <2>6. QED
    BY <2>4, <2>5
<1>2. QED
  BY <1>1, TreeInvariant, PTL

\* A query that finds no coordinate in the list of maxima moves its cursor to the tail and
\* takes the object there, which does not exist: it does so only in the first query to come
\* to a node, when no region has come to it.
THEOREM StopsOnlyEmpty == Spec => []StopsOnlyWhenEmpty
<1>1. TreeInv => StopsOnlyWhenEmpty
  BY DEF TreeInv, TypeOK, StopsEmpty, StopsOnlyWhenEmpty, Alive
<1>2. QED
  BY <1>1, TreeInvariant, PTL

-----------------------------------------------------------------------------
(* What an answer misses *)

\* A region is between the cursors of a node.
Within(e, i) == /\ regions[i].min[e] <= currMaxAtMinList[e]
                /\ currMinAtMaxList[e] <= regions[i].max[e]

\* The loop at the node of the query is not done with a region at its cursor.
Pending(i) ==
  \/ pc = "maxLeaves" /\ regions[i].min[dimNo] = currMaxAtMinList[dimNo]
  \/ pc = "minLeaves" /\ regions[i].max[dimNo] = currMinAtMaxList[dimNo]
  \/ pc \in {"maxEnters", "minEnters"} /\ i \in ids

\* The regions between the cursors of a node are those of the next.
Full(e) == \A i \in In(e) : /\ Within(e, i) /\ ~ Tied(i)
                            /\ ~ (e = dimNo /\ Pending(i))
                            => i \in In(e + 1)

\* The cursors of a node have come to the bounds of the query.
Grown(e) == /\ \A k \in Alive(minList[e]) : k <= currMaxAtMinList[e] \/ query.max[e] <= k
            /\ \A k \in Alive(maxList[e]) : currMinAtMaxList[e] <= k \/ k <= query.min[e]

CompleteInv ==
  /\ \A i \in Ids : regions[i] # NULL => i \in In(1)
  /\ pc # "crashed" => \A e \in Dims : Full(e)
  /\ pc \in Loops => \A e \in Dims : e < dimNo => Grown(e)
  /\ pc = "answered" => \A e \in Dims : Grown(e)
  /\ \A e \in Dims : \A i \in ids :
       /\ e = dimNo /\ pc = "maxLeaves" => regions[i].min[e] = currMaxAtMinList[e]
       /\ e = dimNo /\ pc = "minLeaves" => regions[i].max[e] = currMinAtMaxList[e]

LEMMA StillTied ==
  ASSUME NEW i \in Ids, regions[i] # NULL, Tied(i),
         \A j \in Ids : regions[j] # NULL => regions'[j] = regions[j]
  PROVE  Tied(i)'
<1>1. PICK d \in Dims, j \in Ids \ {i} : regions[j] # NULL /\ regions[j].max[d] = regions[i].max[d]
  BY DEF Tied
<1>2. /\ j \in Ids \ {i} /\ regions'[j] # NULL
      /\ regions'[j].max[d] = regions'[i].max[d]
  BY <1>1
<1>3. QED
  BY <1>2 DEF Tied

\* A node that a step does not touch, or where a region leaves that node and the next.
LEMMA FullKept ==
  ASSUME TypeOK, Listed, NEW e \in Dims, Full(e), e # dimNo, regions' = regions,
         \A j \in In(e)' : j \in In(e) /\ (j \in In(e + 1) => j \in In(e + 1)'),
         currMaxAtMinList'[e] \in Nat, currMinAtMaxList'[e] \in Nat,
         currMaxAtMinList'[e] <= currMaxAtMinList[e],
         currMinAtMaxList[e] <= currMinAtMaxList'[e]
  PROVE  Full(e)'
<1>1. SUFFICES ASSUME NEW i \in In(e)', Within(e, i)', ~ Tied(i)'
               PROVE  i \in In(e + 1)'
  BY DEF Full
<1>2. i \in In(e) /\ i \in Ids /\ regions[i] \in Boxes
  BY Kinds, RegionsOf
<1>3. ~ Tied(i)
  BY <1>1 DEF Tied
<1>4. /\ regions[i].min[e] \in Nat /\ regions[i].max[e] \in Nat
      /\ currMaxAtMinList[e] \in Nat /\ currMinAtMaxList[e] \in Nat
  BY <1>2, Kinds, Numbers DEF TypeOK
<1>5. Within(e, i)
  BY <1>1, <1>4 DEF Within
<1>6. QED
  BY <1>2, <1>3, <1>5 DEF Full

\* A region that comes to a node between its cursors goes on to the next, but for one whose
\* maximum is the cursor's: that of another region.
LEMMA FullInserted ==
  ASSUME TypeOK, Listed, Nested, Cursors, NEW i \in Ids, NEW r \in Boxes,
         NEW f \in 1..(NumOfDims + 1), regions[i] \in {NULL, r},
         regions' = [regions EXCEPT ![i] = r], Insert(i, r, f),
         NEW e \in Dims, e + 1 # f, Settled(e), Full(e),
         e # dimNo \/ pc \in {"idle", "answered"}
  PROVE  Full(e)'
<1>1. SUFFICES ASSUME NEW j \in In(e)', Within(e, j)', ~ Tied(j)'
               PROVE  j \in In(e + 1)'
  BY DEF Full
<1>2. /\ \A g \in 1..(NumOfDims + 1) :
           In(g)' = IF g \in Reached(r, f) THEN In(g) \cup {i} ELSE In(g)
      /\ regions'[i] = r
  <2>1. /\ TypeOK /\ Listed /\ i \in Ids /\ r \in Boxes /\ f \in 1..(NumOfDims + 1)
        /\ regions[i] \in {NULL, r} /\ regions' = [regions EXCEPT ![i] = r]
        /\ Insert(i, r, f)
    OBVIOUS
  <2>2. \A g \in 1..(NumOfDims + 1) :
          In(g)' = IF g \in Reached(r, f) THEN In(g) \cup {i} ELSE In(g)
    BY ONLY <2>1, InsertHolds, ZenonT(120)
  <2>3. regions'[i] = r
    BY DEF TypeOK
  <2>4. QED
    BY <2>2, <2>3
<1>3. /\ e \in 1..(NumOfDims + 1) /\ e + 1 \in 1..(NumOfDims + 1) /\ e \in Nat
      /\ f \in Nat /\ NumOfDims \in Nat
  BY Kinds
<1>4. \A j0 \in Ids : regions[j0] # NULL => regions'[j0] = regions[j0]
  BY Kinds DEF TypeOK
<1>5. UNCHANGED <<currMaxAtMinList, currMinAtMaxList>>
  BY DEF Insert
<1>6. CASE j \in In(e)
  <2>1. j \in Ids /\ regions[j] \in Boxes /\ regions[j] # NULL
    BY <1>6, <1>3, Kinds, RegionsOf
  <2>2. ~ Tied(j)
    BY <1>1, <1>4, <2>1, StillTied
  <2>3. Within(e, j)
    BY <1>1, <1>4, <1>5, <2>1 DEF Within
  <2>4. ~ (e = dimNo /\ Pending(j))
    BY DEF Pending
  <2>5. j \in In(e + 1)
    BY <1>6, <2>2, <2>3, <2>4 DEF Full
  <2>6. QED
    BY <2>5, <1>2, <1>3
<1>7. CASE j \notin In(e)
  <2>1. j = i /\ e \in Reached(r, f)
    BY <1>7, <1>2, <1>3
  <2>2. /\ Reached(r, f) \subseteq f..(NumOfDims + 1)
        /\ Reached(r, f) = {g \in f..(NumOfDims + 1) : \A h \in f..(g - 1) : Between(r, h)}
    BY DEF Reached
  <2>3. CASE Between(r, e)
    <3>1. PICK g \in f..(NumOfDims + 1) : g = e + 1
      BY <2>1, <2>2, <1>3
    <3>2. \A h \in f..(g - 1) : Between(r, h)
      <4>1. \A h \in f..(g - 1) : h \in f..(e - 1) \/ h = e
        BY <1>3, <3>1
      <4>2. QED
        BY <4>1, <2>1, <2>2, <2>3
    <3>3. e + 1 \in Reached(r, f)
      BY <3>1, <3>2, <2>2
    <3>4. QED
      BY <3>3, <2>1, <1>2, <1>3
  <2>4. CASE ~ Between(r, e)
    <3>1. /\ r.min[e] \in Nat /\ r.max[e] \in Keys /\ r.max[e] \in Nat
          /\ Head < r.min[e] /\ r.max[e] < Tail /\ Head \in Nat /\ Tail \in Nat
          /\ currMaxAtMinList[e] \in Nat /\ currMinAtMaxList[e] \in Nat
          /\ currMinAtMaxList[e] \in Alive(maxList[e]) \cup {Head, Tail}
      BY Kinds, Numbers, NodeHolds
    <3>2. r.min[e] <= currMaxAtMinList[e] /\ currMinAtMaxList[e] <= r.max[e]
      BY <1>1, <1>2, <1>5, <2>1 DEF Within
    <3>3. currMaxAtMinList[e] # Head /\ currMinAtMaxList[e] # Head
      BY <3>1, <3>2 DEF Settled, Above
    <3>4. currMinAtMaxList[e] = r.max[e]
      BY <3>1, <3>2, <3>3, <2>4 DEF Between
    <3>5. r.max[e] \in Alive(maxList[e])
      BY <3>1, <3>3, <3>4
    <3>6. maxList[e].obj[r.max[e]] = {h \in In(e) : regions[h].max[e] = r.max[e]}
      BY <3>1 DEF Listed
    <3>7. PICK h \in In(e) : regions[h].max[e] = r.max[e]
      BY <3>5, <3>6 DEF Alive
    <3>8. h \in Ids \ {i} /\ regions[h] # NULL
      BY <1>3, <1>7, <2>1, Kinds, RegionsOf
    <3>9. regions'[h] # NULL /\ regions'[h].max[e] = regions'[i].max[e]
      BY <3>7, <3>8, <1>2, <1>4
    <3>10. Tied(i)'
      BY <3>8, <3>9 DEF Tied
    <3>11. QED
      BY <3>10, <1>1, <2>1
  <2>5. QED
    BY <2>3, <2>4
<1>8. QED
  BY <1>6, <1>7

\* The steps of a loop that leave the lists as they are.
LEMMA MoveComplete ==
  ASSUME TreeInv, CompleteInv, pc \in Loops, pc' \in Loops,
         UNCHANGED <<regions, minList, maxList, resultList, query, dimNo>>,
         NEW d \in Dims, d = dimNo,
         \A e \in Dims : e # d => /\ currMaxAtMinList'[e] = currMaxAtMinList[e]
                                  /\ currMinAtMaxList'[e] = currMinAtMaxList[e],
         Full(d)',
         \A i \in ids' : /\ pc' = "maxLeaves" => regions[i].min[d] = currMaxAtMinList'[d]
                         /\ pc' = "minLeaves" => regions[i].max[d] = currMinAtMaxList'[d]
  PROVE  CompleteInv'
<1>1. TypeOK /\ Listed /\ \A e : In(e)' = In(e)
  BY SameRegions DEF TreeInv
<1>2. \A i \in Ids : regions'[i] # NULL => i \in In(1)'
  BY <1>1 DEF CompleteInv
<1>3. ASSUME NEW e \in Dims, e # d
      PROVE  Full(e)' /\ (e < dimNo => Grown(e)')
  <2>1. /\ currMaxAtMinList[e] \in Nat /\ currMinAtMaxList[e] \in Nat
        /\ currMaxAtMinList'[e] = currMaxAtMinList[e]
        /\ currMinAtMaxList'[e] = currMinAtMaxList[e]
    BY <1>1, <1>3, Numbers DEF TypeOK
  <2>2. Full(e)
    BY DEF CompleteInv, Loops
  <2>3. Full(e)'
    BY <1>1, <1>3, <2>1, <2>2, FullKept
  <2>4. e < dimNo => Grown(e)'
    BY <2>1 DEF CompleteInv, Grown, Alive
  <2>5. QED
    BY <2>3, <2>4
<1>4. pc' \notin {"idle", "answered", "crashed"} /\ ~ (d < dimNo')
  BY Kinds DEF Loops
<1>5. QED
  BY <1>2, <1>3, <1>4 DEF CompleteInv

\* The steps in which a region leaves the nodes after that of d.
LEMMA DeleteComplete ==
  ASSUME TreeInv, CompleteInv, pc \in Loops, pc' = pc, ids' \subseteq ids,
         UNCHANGED <<regions, query, dimNo>>,
         NEW d \in Dims, d = dimNo, NEW i \in In(d), Delete(i, d + 1),
         Full(d)'
  PROVE  CompleteInv'
<1>0. TypeOK /\ Listed /\ Nested /\ Cursors
  BY DEF TreeInv
<1>1. /\ d + 1 \in 2..(NumOfDims + 1) /\ d \in Nat /\ NumOfDims \in Nat /\ d >= 1
      /\ d \in 1..(NumOfDims + 1)
  BY Kinds DEF Dims
<1>2. i \in Ids /\ regions[i] \in Boxes
  BY <1>0, <1>1, RegionsOf
<1>3. /\ \A e \in 1..(NumOfDims + 1) : In(e)' = IF d + 1 <= e THEN In(e) \ {i} ELSE In(e)
      /\ \A e \in Dims : ~ (d + 1 <= e) =>
           /\ minList'[e] = minList[e] /\ maxList'[e] = maxList[e]
           /\ currMaxAtMinList'[e] = currMaxAtMinList[e]
           /\ currMinAtMaxList'[e] = currMinAtMaxList[e]
  BY <1>0, <1>1, <1>2, DeleteHolds
<1>4. /\ currMaxAtMinList' \in [Dims -> Nodes \ {Tail}]
      /\ currMinAtMaxList' \in [Dims -> Nodes]
      /\ \A e \in Dims : /\ currMaxAtMinList'[e] <= currMaxAtMinList[e]
                         /\ currMinAtMaxList[e] <= currMinAtMaxList'[e]
  BY <1>0, <1>1, <1>2, DeleteHolds
<1>5. \A j \in Ids : regions'[j] # NULL => j \in In(1)'
  <2>1. ~ (d + 1 <= 1) /\ 1 \in 1..(NumOfDims + 1)
    BY <1>1
  <2>2. QED
    BY <2>1, <1>3 DEF CompleteInv
<1>6. ASSUME NEW e \in Dims, e # d
      PROVE  Full(e)'
  <2>1. e \in 1..(NumOfDims + 1) /\ e + 1 \in 1..(NumOfDims + 1) /\ e \in Nat
    BY Kinds
  <2>2. d + 1 <= e + 1 <=> d + 1 <= e
    BY <2>1, <1>1, <1>6
  <2>3. \A j \in In(e)' : j \in In(e) /\ (j \in In(e + 1) => j \in In(e + 1)')
    BY <2>1, <2>2, <1>3
  <2>4. currMaxAtMinList'[e] \in Nat /\ currMinAtMaxList'[e] \in Nat
    BY <1>4, Numbers
  <2>5. Full(e)
    BY DEF CompleteInv, Loops
  <2>6. QED
    BY <2>3, <2>4, <2>5, <1>0, <1>4, <1>6, FullKept
<1>7. ASSUME NEW e \in Dims, e < dimNo
      PROVE  Grown(e)'
  <2>1. Grown(e) /\ ~ (d + 1 <= e)
    BY <1>1, <1>7, Kinds DEF CompleteInv
  <2>2. QED
    BY <2>1, <1>3 DEF Grown, Alive
<1>8. ASSUME NEW e \in Dims, NEW j \in ids', e = dimNo
      PROVE  /\ pc' = "maxLeaves" => regions'[j].min[e] = currMaxAtMinList'[e]
             /\ pc' = "minLeaves" => regions'[j].max[e] = currMinAtMaxList'[e]
  <2>1. ~ (d + 1 <= e)
    BY <1>1, <1>8
  <2>2. QED
    BY <2>1, <1>3, <1>8 DEF CompleteInv
<1>9. pc' \notin {"idle", "answered", "crashed"}
  BY DEF Loops
<1>10. QED
  BY <1>5, <1>6, <1>7, <1>8, <1>9 DEF CompleteInv

\* The steps in which a region comes to the node after that of d.
LEMMA InsertComplete ==
  ASSUME TreeInv, CompleteInv, pc \in Loops, pc' = pc, ids' \subseteq ids,
         pc \notin {"maxLeaves", "minLeaves"}, UNCHANGED <<regions, query, dimNo>>,
         NEW d \in Dims, d = dimNo, NEW i \in In(d), Insert(i, regions[i], d + 1),
         Full(d)'
  PROVE  CompleteInv'
<1>0. TypeOK /\ Listed /\ Nested /\ Cursors
  BY DEF TreeInv
<1>1. /\ d + 1 \in 1..(NumOfDims + 1) /\ d \in Nat /\ NumOfDims \in Nat /\ d >= 1
      /\ d \in 1..(NumOfDims + 1) /\ 1 \in 1..(NumOfDims + 1)
  BY Kinds DEF Dims
<1>2. i \in Ids /\ regions[i] \in Boxes
  BY <1>0, <1>1, RegionsOf
<1>3. PICK r \in Boxes : r = regions[i]
  BY <1>2
<1>4. PICK f \in 1..(NumOfDims + 1) : f = d + 1
  BY <1>1
<1>5. /\ i \in Ids /\ regions[i] \in {NULL, r}
      /\ regions' = [regions EXCEPT ![i] = r] /\ Insert(i, r, f)
  BY <1>0, <1>2, <1>3, <1>4 DEF TypeOK
<1>6. \A e \in 1..(NumOfDims + 1) :
        In(e)' = IF e \in Reached(r, f) THEN In(e) \cup {i} ELSE In(e)
  <2>1. TypeOK /\ Listed /\ r \in Boxes /\ f \in 1..(NumOfDims + 1)
    BY <1>0
  <2>2. QED
    BY ONLY <2>1, <1>5, InsertHolds, ZenonT(120)
<1>7. \A e \in Dims : e < f => minList'[e] = minList[e] /\ maxList'[e] = maxList[e]
  <2>1. TypeOK /\ Listed /\ r \in Boxes /\ f \in 1..(NumOfDims + 1)
    BY <1>0
  <2>2. QED
    BY ONLY <2>1, <1>5, InsertHolds, ZenonT(120)
<1>8. UNCHANGED <<currMaxAtMinList, currMinAtMaxList>>
  BY DEF Insert
<1>9. \A j \in Ids : regions'[j] # NULL => j \in In(1)'
  BY <1>1, <1>6 DEF CompleteInv
<1>10. ASSUME NEW e \in Dims, e # d
       PROVE  Full(e)'
  <2>1. Full(e) /\ Settled(e)
    BY <1>10 DEF CompleteInv, TreeInv, Stepwise, Loops
  <2>2. e + 1 # f /\ e # dimNo
    BY <1>1, <1>4, <1>10, Kinds
  <2>3. QED
    BY <2>1, <2>2, <1>0, <1>5, FullInserted
<1>11. ASSUME NEW e \in Dims, e < dimNo
       PROVE  Grown(e)'
  <2>1. Grown(e)
    BY <1>11 DEF CompleteInv
  <2>2. e < f
    BY <1>1, <1>4, <1>11, Kinds
  <2>3. QED
    BY <2>1, <2>2, <1>7, <1>8 DEF Grown, Alive
<1>12. pc' \notin {"idle", "answered", "crashed", "maxLeaves", "minLeaves"}
  BY DEF Loops
<1>13. QED
  BY <1>9, <1>10, <1>11, <1>12 DEF CompleteInv

LEMMA MaxShrinksComplete ==
  ASSUME TreeInv, CompleteInv, MaxShrinks
  PROVE  CompleteInv'
<1>1. PICK d \in Dims : d = dimNo
  BY DEF TreeInv, TypeOK
<1>2. pc = "maxShrinks" /\ pc \in Loops /\ pc' \in {"maxLeaves", "minShrinks"} /\ pc' \in Loops
  BY DEF MaxShrinks, Loops
<1>3. UNCHANGED <<regions, minList, maxList, currMaxAtMinList, currMinAtMaxList, resultList,
                  query, dimNo>>
  BY DEF MaxShrinks, nodes
<1>4. Full(d) /\ In(d)' = In(d) /\ In(d + 1)' = In(d + 1)
  BY <1>2, <1>3, SameRegions DEF CompleteInv, TreeInv
<1>5. Full(d)'
  BY <1>2, <1>3, <1>4 DEF Full, Within, Tied, Pending
<1>6. \A i \in ids' : /\ pc' = "maxLeaves" => regions[i].min[d] = currMaxAtMinList'[d]
                      /\ pc' = "minLeaves" => regions[i].max[d] = currMinAtMaxList'[d]
  <2>1. CASE pc' = "maxLeaves"
    <3>1. currMaxAtMinList[d] # Head /\ ids' = minList[d].obj[currMaxAtMinList[d]]
      BY <1>1, <2>1 DEF MaxShrinks
    <3>2. ids' = {i \in In(d) : regions[i].min[d] = currMaxAtMinList[d]}
      BY <1>1, <1>2, <3>1, LoopHolds DEF MaxAt
    <3>3. QED
      BY <2>1, <3>2, <1>3
  <2>2. CASE pc' = "minShrinks"
    BY <2>2
  <2>3. QED
    BY <2>1, <2>2, <1>2
<1>7. QED
  BY <1>1, <1>2, <1>3, <1>5, <1>6, MoveComplete

LEMMA MaxMovesComplete ==
  ASSUME TreeInv, CompleteInv, MaxMoves
  PROVE  CompleteInv'
<1>1. PICK d \in Dims : d = dimNo
  BY DEF TreeInv, TypeOK
<1>2. pc = "maxLeaves" /\ pc \in Loops /\ pc' = "maxShrinks" /\ pc' \in Loops
  BY DEF MaxMoves, Loops
<1>3. /\ UNCHANGED <<regions, minList, maxList, currMinAtMaxList, resultList, query, dimNo>>
      /\ currMaxAtMinList' =
           [currMaxAtMinList EXCEPT ![d] = minList[d].bck[1][currMaxAtMinList[d]]]
  BY <1>1 DEF MaxMoves
<1> DEFINE k == currMaxAtMinList[d]
           n == minList[d].bck[1][k]
<1>4. /\ currMaxAtMinList[d] # Head /\ Full(d)
      /\ In(d)' = In(d) /\ In(d + 1)' = In(d + 1)
  BY <1>1, <1>2, <1>3, LoopHolds, SameRegions DEF At, CompleteInv
<1>5. k \in Alive(minList[d]) /\ k \in Nat
  BY <1>1, <1>2, <1>4, LoopHolds, NodeHolds DEF MaxAt
<1>6. n \in Alive(minList[d]) \cup {Head} /\ n < k
  BY <1>1, <1>2, <1>5, LoopHolds, NodeHolds, PrevHolds
<1>7. n \in Nat /\ \A i \in In(d) : regions[i].min[d] \in Nat
  BY <1>1, <1>2, <1>6, LoopHolds, NodeHolds
<1>8. /\ currMaxAtMinList'[d] = n
      /\ \A e \in Dims : e # d => currMaxAtMinList'[e] = currMaxAtMinList[e]
  BY <1>1, <1>2, <1>3, LoopHolds
<1> HIDE DEF n
<1>9. Full(d)'
  <2>1. ASSUME NEW i \in In(d), regions[i].min[d] <= n,
               currMinAtMaxList[d] <= regions[i].max[d], ~ Tied(i)
        PROVE  i \in In(d + 1)
    <3>1. regions[i].min[d] < k
      BY <2>1, <1>5, <1>6, <1>7
    <3>2. Within(d, i) /\ ~ Pending(i)
      BY <3>1, <2>1, <1>1, <1>2, <1>5, <1>7 DEF Within, Pending
    <3>3. QED
      BY <3>2, <2>1, <1>4 DEF Full
  <2>2. QED
    BY <2>1, <1>3, <1>4, <1>8 DEF Full, Within, Tied
<1>10. QED
  BY <1>1, <1>2, <1>3, <1>8, <1>9, MoveComplete

LEMMA MinShrinksComplete ==
  ASSUME TreeInv, CompleteInv, MinShrinks
  PROVE  CompleteInv'
<1>1. PICK d \in Dims : d = dimNo
  BY DEF TreeInv, TypeOK
<1>2. pc = "minShrinks" /\ pc \in Loops
  BY DEF MinShrinks, Loops
<1> DEFINE k == currMinAtMaxList[d]
           first == IF k = Head THEN maxList[d].fwd[1][Head] ELSE k
           moves == k = Head \/ (k # Tail /\ query.min[d] >= k)
<1>3. /\ UNCHANGED <<regions, minList, maxList, currMaxAtMinList, resultList, query, dimNo>>
      /\ moves => /\ currMinAtMaxList' = [currMinAtMaxList EXCEPT ![d] = first]
                  /\ IF first = Tail THEN pc' = "crashed" /\ ids' = ids
                     ELSE pc' = "minLeaves" /\ ids' = maxList[d].obj[first]
      /\ ~ moves => pc' = "maxGrows" /\ ids' = ids /\ currMinAtMaxList' = currMinAtMaxList
  BY <1>1 DEF MinShrinks
<1>4. MaxShrunk(d) /\ Full(d) /\ In(d)' = In(d) /\ In(d + 1)' = In(d + 1)
  BY <1>1, <1>2, <1>3, LoopHolds, SameRegions DEF At, CompleteInv
<1> HIDE DEF first, moves
<1>5. CASE moves /\ first # Tail
  <2>1. /\ currMinAtMaxList' = [currMinAtMaxList EXCEPT ![d] = first]
        /\ pc' = "minLeaves" /\ ids' = maxList[d].obj[first] /\ pc' \in Loops
    BY <1>3, <1>5 DEF Loops
  <2>2. /\ currMinAtMaxList'[d] = first
        /\ \A e \in Dims : e # d => currMinAtMaxList'[e] = currMinAtMaxList[e]
    BY <2>1, <1>1, <1>2, LoopHolds
  <2>3. first \in Alive(maxList[d])
    <3>1. CASE k = Head
      BY <3>1, <1>1, <1>2, <1>5, LoopHolds, NodeHolds, NextHolds DEF first
    <3>2. CASE k # Head
      BY <3>2, <1>1, <1>2, <1>5, LoopHolds DEF first, MinAt
    <3>3. QED
      BY <3>1, <3>2
  <2>4. ids' = {i \in In(d) : regions[i].max[d] = first}
    BY <2>1, <2>3, <1>1, <1>2, LoopHolds
  <2>5. Full(d)'
    <3>1. ASSUME NEW i \in In(d), Within(d, i)', ~ Tied(i)
          PROVE  i \in In(d + 1)
      <4>1. /\ regions[i].min[d] <= currMaxAtMinList[d] /\ first <= regions[i].max[d]
            /\ regions[i].min[d] \in Nat /\ Head < regions[i].min[d] /\ Head \in Nat
        BY <3>1, <2>2, <1>1, <1>2, <1>3, LoopHolds, NodeHolds DEF Within
      <4>2. k # Head
        BY <4>1, <1>4 DEF MaxShrunk
      <4>3. Within(d, i)
        BY <4>1, <4>2 DEF Within, first
      <4>4. QED
        BY <4>3, <3>1, <1>2, <1>4 DEF Full, Pending
    <3>2. QED
      BY <3>1, <1>3, <1>4 DEF Full, Tied
  <2>6. QED
    BY <2>1, <2>2, <2>4, <2>5, <1>1, <1>2, <1>3, MoveComplete
<1>6. CASE ~ moves
  <2>1. pc' = "maxGrows" /\ ids' = ids /\ currMinAtMaxList' = currMinAtMaxList /\ pc' \in Loops
    BY <1>3, <1>6 DEF Loops
  <2>2. Full(d)'
    BY <2>1, <1>2, <1>3, <1>4 DEF Full, Within, Tied, Pending
  <2>3. QED
    BY <2>1, <2>2, <1>1, <1>2, <1>3, MoveComplete
<1>7. CASE moves /\ first = Tail
  <2>1. pc' = "crashed"
    BY <1>3, <1>7
  <2>2. \A i \in Ids : regions'[i] # NULL => i \in In(1)'
    BY <1>3, SameRegions DEF CompleteInv
  <2>3. QED
    BY <2>1, <2>2 DEF CompleteInv, Loops
<1>8. QED
  BY <1>5, <1>6, <1>7

LEMMA MinMovesComplete ==
  ASSUME TreeInv, CompleteInv, MinMoves
  PROVE  CompleteInv'
<1>1. PICK d \in Dims : d = dimNo
  BY DEF TreeInv, TypeOK
<1>2. pc = "minLeaves" /\ pc \in Loops /\ pc' = "minShrinks" /\ pc' \in Loops
  BY DEF MinMoves, Loops
<1>3. /\ UNCHANGED <<regions, minList, maxList, currMaxAtMinList, resultList, query, dimNo>>
      /\ currMinAtMaxList' =
           [currMinAtMaxList EXCEPT ![d] = maxList[d].fwd[1][currMinAtMaxList[d]]]
  BY <1>1 DEF MinMoves
<1> DEFINE k == currMinAtMaxList[d]
           n == maxList[d].fwd[1][k]
<1>4. /\ currMinAtMaxList[d] \notin {Head, Tail} /\ Full(d)
      /\ In(d)' = In(d) /\ In(d + 1)' = In(d + 1)
  BY <1>1, <1>2, <1>3, LoopHolds, SameRegions DEF At, CompleteInv
<1>5. k \in Alive(maxList[d]) /\ k \in Nat
  BY <1>1, <1>2, <1>4, LoopHolds, NodeHolds DEF MinAt
<1>6. n \in Alive(maxList[d]) \cup {Tail} /\ k < n
  BY <1>1, <1>2, <1>5, LoopHolds, NodeHolds, NextHolds
<1>7. n \in Nat /\ \A i \in In(d) : regions[i].max[d] \in Nat
  BY <1>1, <1>2, <1>6, LoopHolds, NodeHolds
<1>8. /\ currMinAtMaxList'[d] = n
      /\ \A e \in Dims : e # d => currMinAtMaxList'[e] = currMinAtMaxList[e]
  BY <1>1, <1>2, <1>3, LoopHolds
<1> HIDE DEF n
<1>9. Full(d)'
  <2>1. ASSUME NEW i \in In(d), regions[i].min[d] <= currMaxAtMinList[d],
               n <= regions[i].max[d], ~ Tied(i)
        PROVE  i \in In(d + 1)
    <3>1. k < regions[i].max[d]
      BY <2>1, <1>5, <1>6, <1>7
    <3>2. Within(d, i) /\ ~ Pending(i)
      BY <3>1, <2>1, <1>1, <1>2, <1>5, <1>7 DEF Within, Pending
    <3>3. QED
      BY <3>2, <2>1, <1>4 DEF Full
  <2>2. QED
    BY <2>1, <1>3, <1>4, <1>8 DEF Full, Within, Tied
<1>10. QED
  BY <1>1, <1>2, <1>3, <1>8, <1>9, MoveComplete

\* Between two coordinates that max stops at there is none.
LEMMA MaxGrowsComplete ==
  ASSUME TreeInv, CompleteInv, MaxGrows
  PROVE  CompleteInv'
<1>1. PICK d \in Dims : d = dimNo
  BY DEF TreeInv, TypeOK
<1>2. pc = "maxGrows" /\ pc \in Loops /\ pc' \in {"maxEnters", "minGrows"} /\ pc' \in Loops
  BY DEF MaxGrows, Loops
<1> DEFINE k == currMaxAtMinList[d]
           n == minList[d].fwd[1][k]
<1>3. /\ UNCHANGED <<regions, minList, maxList, currMinAtMaxList, resultList, query, dimNo>>
      /\ IF n < query.max[d]
           THEN /\ pc' = "maxEnters" /\ ids' = minList[d].obj[n]
                /\ currMaxAtMinList' = [currMaxAtMinList EXCEPT ![d] = n]
           ELSE pc' = "minGrows" /\ ids' = ids /\ currMaxAtMinList' = currMaxAtMinList
  BY <1>1 DEF MaxGrows
<1>4. Full(d) /\ In(d)' = In(d) /\ In(d + 1)' = In(d + 1)
  BY <1>2, <1>3, SameRegions DEF CompleteInv, Loops
<1>5. k \in Alive(minList[d]) \cup {Head} /\ k \in Nat
  BY <1>1, <1>2, LoopHolds, NodeHolds
<1>6. n \in Alive(minList[d]) \cup {Tail} /\ k < n /\ \A j \in Alive(minList[d]) : j <= k \/ n <= j
  BY <1>1, <1>2, <1>5, LoopHolds, NodeHolds, NextHolds
<1>7. /\ n \in Nat /\ query.max[d] \in Nat /\ query.max[d] <= Tail /\ Tail \in Nat
      /\ \A i \in In(d) : regions[i].min[d] \in Alive(minList[d]) /\ regions[i].min[d] \in Nat
  BY <1>1, <1>2, <1>6, LoopHolds, NodeHolds
<1> HIDE DEF n
<1>8. CASE n < query.max[d]
  <2>1. n \in Alive(minList[d])
    BY <1>6, <1>7, <1>8
  <2>2. /\ currMaxAtMinList'[d] = n
        /\ \A e \in Dims : e # d => currMaxAtMinList'[e] = currMaxAtMinList[e]
    BY <1>1, <1>2, <1>3, <1>8, LoopHolds
  <2>3. ids' = {i \in In(d) : regions[i].min[d] = n}
    BY <1>1, <1>2, <1>3, <1>8, <2>1, LoopHolds
  <2>4. Full(d)'
    <3>1. ASSUME NEW i \in In(d), Within(d, i)', ~ Tied(i), i \notin ids'
          PROVE  i \in In(d + 1)
      <4>1. /\ regions[i].min[d] <= n /\ regions[i].min[d] # n
            /\ currMinAtMaxList[d] <= regions[i].max[d]
        BY <3>1, <2>2, <2>3, <1>3 DEF Within
      <4>2. regions[i].min[d] <= k
        BY <4>1, <1>6, <1>7
      <4>3. QED
        BY <4>1, <4>2, <3>1, <1>2, <1>4 DEF Full, Within, Pending
    <3>2. \A i \in ids' : Pending(i)'
      BY <1>3, <1>8 DEF Pending
    <3>3. QED
      BY <3>1, <3>2, <1>1, <1>3, <1>4 DEF Full, Tied
  <2>5. pc' \notin {"maxLeaves", "minLeaves"}
    BY <1>2
  <2>6. QED
    BY <2>2, <2>4, <2>5, <1>1, <1>2, <1>3, MoveComplete
<1>9. CASE ~ (n < query.max[d])
  <2>1. currMaxAtMinList' = currMaxAtMinList /\ pc' = "minGrows"
    BY <1>3, <1>9
  <2>2. Full(d)'
    BY <2>1, <1>2, <1>3, <1>4 DEF Full, Within, Tied, Pending
  <2>3. QED
    BY <2>1, <2>2, <1>1, <1>2, <1>3, MoveComplete
<1>10. QED
  BY <1>8, <1>9

LEMMA MinGrowsComplete ==
  ASSUME TreeInv, CompleteInv, MinGrows
  PROVE  CompleteInv'
<1>1. PICK d \in Dims : d = dimNo
  BY DEF TreeInv, TypeOK
<1>2. pc = "minGrows" /\ pc \in Loops /\ pc' = "minEnters" /\ pc' \in Loops
  BY DEF MinGrows, Loops
<1> DEFINE k == currMinAtMaxList[d]
           n == maxList[d].bck[1][k]
<1>3. /\ UNCHANGED <<regions, minList, maxList, currMaxAtMinList, resultList, query, dimNo>>
      /\ n # Head /\ ids' = maxList[d].obj[n]
      /\ currMinAtMaxList' = [currMinAtMaxList EXCEPT ![d] = n]
  BY <1>1 DEF MinGrows
<1>4. MinShrunk(d) /\ Full(d) /\ In(d)' = In(d) /\ In(d + 1)' = In(d + 1)
  BY <1>1, <1>2, <1>3, LoopHolds, SameRegions DEF At, CompleteInv
<1>5. k \in Alive(maxList[d]) \cup {Tail} /\ k \in Nat
  BY <1>1, <1>2, <1>4, LoopHolds, NodeHolds DEF MinShrunk, Above
<1>6. n \in Alive(maxList[d]) /\ \A j \in Alive(maxList[d]) : j <= n \/ k <= j
  BY <1>1, <1>2, <1>3, <1>5, LoopHolds, NodeHolds, PrevHolds
<1>7. /\ n \in Nat
      /\ \A i \in In(d) : regions[i].max[d] \in Alive(maxList[d]) /\ regions[i].max[d] \in Nat
  BY <1>1, <1>2, <1>6, LoopHolds, NodeHolds
<1> HIDE DEF n
<1>8. /\ currMinAtMaxList'[d] = n
      /\ \A e \in Dims : e # d => currMinAtMaxList'[e] = currMinAtMaxList[e]
  BY <1>1, <1>2, <1>3, LoopHolds
<1>9. ids' = {i \in In(d) : regions[i].max[d] = n}
  BY <1>1, <1>2, <1>3, <1>6, LoopHolds
<1>10. Full(d)'
  <2>1. ASSUME NEW i \in In(d), Within(d, i)', ~ Tied(i), i \notin ids'
        PROVE  i \in In(d + 1)
    <3>1. /\ n <= regions[i].max[d] /\ regions[i].max[d] # n
          /\ regions[i].min[d] <= currMaxAtMinList[d]
      BY <2>1, <1>3, <1>8, <1>9 DEF Within
    <3>2. k <= regions[i].max[d]
      BY <3>1, <1>6, <1>7
    <3>3. QED
      BY <3>1, <3>2, <2>1, <1>2, <1>4 DEF Full, Within, Pending
  <2>2. \A i \in ids' : Pending(i)'
    BY <1>2 DEF Pending
  <2>3. QED
    BY <2>1, <2>2, <1>1, <1>3, <1>4 DEF Full, Tied
<1>11. QED
  BY <1>1, <1>2, <1>3, <1>8, <1>10, MoveComplete

\* The loop over the regions at a cursor is done with all of them.
LEMMA EnteredComplete ==
  ASSUME TreeInv, CompleteInv, MaxEntered \/ MinEntered
  PROVE  CompleteInv'
<1>1. PICK d \in Dims : d = dimNo
  BY DEF TreeInv, TypeOK
<1>2. /\ pc \in {"maxEnters", "minEnters"} /\ pc \in Loops /\ ids = {}
      /\ pc' \in {"maxGrows", "minGrows"} /\ pc' \in Loops
  BY DEF MaxEntered, MinEntered, Loops
<1>3. UNCHANGED <<regions, minList, maxList, currMaxAtMinList, currMinAtMaxList, resultList,
                  query, dimNo>>
  BY DEF MaxEntered, MinEntered, nodes
<1>4. Full(d) /\ In(d)' = In(d) /\ In(d + 1)' = In(d + 1)
  BY <1>2, <1>3, SameRegions DEF CompleteInv, Loops
<1>5. Full(d)'
  BY <1>2, <1>3, <1>4 DEF Full, Within, Tied, Pending
<1>6. QED
  BY <1>1, <1>2, <1>3, <1>5, MoveComplete

\* A region at a cursor leaves the next node; the others there are still to come.
LEMMA LeavesComplete ==
  ASSUME TreeInv, CompleteInv, NEW i \in Ids, MaxLeaves(i) \/ MinLeaves(i)
  PROVE  CompleteInv'
<1>1. PICK d \in Dims : d = dimNo
  BY DEF TreeInv, TypeOK
<1>2. pc \in {"maxLeaves", "minLeaves"} /\ pc \in Loops /\ pc' = pc /\ pc' \in Loops
  BY DEF MaxLeaves, MinLeaves, Loops
<1>3. /\ UNCHANGED <<regions, query, dimNo>>
      /\ i \in ids /\ ids' = ids \ {i}
      /\ \/ Delete(i, d + 1)
         \/ UNCHANGED <<minList, maxList, currMaxAtMinList, currMinAtMaxList, resultList>>
  BY <1>1 DEF MaxLeaves, MinLeaves, NextId, nodes
<1>4. Full(d) /\ i \in In(d)
  BY <1>1, <1>2, <1>3, LoopHolds DEF CompleteInv, Loops, At
<1>5. \A j \in ids : /\ pc = "maxLeaves" => regions[j].min[d] = currMaxAtMinList[d]
                     /\ pc = "minLeaves" => regions[j].max[d] = currMinAtMaxList[d]
  BY <1>1 DEF CompleteInv
<1>6. CASE Delete(i, d + 1)
  <2>1. /\ In(d)' = In(d) /\ In(d + 1)' = In(d + 1) \ {i}
        /\ currMaxAtMinList'[d] = currMaxAtMinList[d]
        /\ currMinAtMaxList'[d] = currMinAtMaxList[d]
    BY <1>1, <1>2, <1>3, <1>4, <1>6, NodeDeletes
  <2>2. ASSUME NEW j \in In(d), Within(d, j)', ~ Tied(j), ~ Pending(j)'
        PROVE  j \in In(d + 1) \ {i}
    <3>1. Within(d, j)
      BY <2>1, <2>2, <1>3 DEF Within
    <3>2. ~ Pending(j)
      BY <2>1, <2>2, <1>1, <1>2, <1>3 DEF Pending
    <3>3. j # i
      BY <3>2, <1>1, <1>2, <1>3, <1>5 DEF Pending
    <3>4. QED
      BY <3>1, <3>2, <3>3, <2>2, <1>4 DEF Full
  <2>3. Full(d)'
    BY <2>1, <2>2, <1>1, <1>3 DEF Full, Tied
  <2>4. QED
    BY <2>3, <1>1, <1>2, <1>3, <1>4, <1>6, DeleteComplete
<1>7. CASE UNCHANGED <<minList, maxList, currMaxAtMinList, currMinAtMaxList, resultList>>
  <2>1. In(d)' = In(d) /\ In(d + 1)' = In(d + 1)
    BY <1>3, <1>7, SameRegions
  <2>2. Full(d)'
    BY <2>1, <1>2, <1>3, <1>4, <1>7 DEF Full, Within, Tied, Pending
  <2>3. QED
    BY <2>2, <1>1, <1>2, <1>3, <1>5, <1>7, MoveComplete
<1>8. QED
  BY <1>3, <1>6, <1>7

\* A region at a cursor comes to the next node, unless it is outside the query: then it is
\* not between the cursors.
LEMMA EntersComplete ==
  ASSUME TreeInv, CompleteInv, NEW i \in Ids, MaxEnters(i) \/ MinEnters(i)
  PROVE  CompleteInv'
<1>1. PICK d \in Dims : d = dimNo
  BY DEF TreeInv, TypeOK
<1>2. pc \in {"maxEnters", "minEnters"} /\ pc \in Loops /\ pc' = pc /\ pc' \in Loops
  BY DEF MaxEnters, MinEnters, Loops
<1>3. /\ UNCHANGED <<regions, query, dimNo>>
      /\ i \in ids /\ ids' = ids \ {i}
      /\ \/ Insert(i, regions[i], d + 1)
         \/ /\ UNCHANGED <<minList, maxList, currMaxAtMinList, currMinAtMaxList, resultList>>
            /\ \/ pc = "maxEnters" /\ ~ (regions[i].max[d] > query.min[d])
               \/ pc = "minEnters" /\ ~ (regions[i].min[d] < query.max[d])
  BY <1>1 DEF MaxEnters, MinEnters, NextId, nodes
<1>4. Full(d) /\ MinShrunk(d) /\ i \in In(d)
  BY <1>1, <1>2, <1>3, LoopHolds DEF CompleteInv, Loops, At
<1>5. CASE Insert(i, regions[i], d + 1)
  <2>1. /\ In(d + 1)' = In(d + 1) \cup {i} /\ In(d)' = In(d)
        /\ UNCHANGED <<currMaxAtMinList, currMinAtMaxList>>
    BY <1>1, <1>2, <1>3, <1>4, <1>5, NodeInserts
  <2>2. ASSUME NEW j \in In(d), Within(d, j), ~ Tied(j), j \notin ids'
        PROVE  j \in In(d + 1) \cup {i}
    BY <2>2, <1>2, <1>3, <1>4 DEF Full, Pending
  <2>3. \A j \in ids' : Pending(j)'
    BY <1>2 DEF Pending
  <2>4. Full(d)'
    BY <2>1, <2>2, <2>3, <1>1, <1>3 DEF Full, Within, Tied
  <2>5. QED
    BY <2>4, <1>1, <1>2, <1>3, <1>4, <1>5, InsertComplete
<1>6. CASE /\ UNCHANGED <<minList, maxList, currMaxAtMinList, currMinAtMaxList, resultList>>
           /\ \/ pc = "maxEnters" /\ ~ (regions[i].max[d] > query.min[d])
              \/ pc = "minEnters" /\ ~ (regions[i].min[d] < query.max[d])
  <2>1. In(d)' = In(d) /\ In(d + 1)' = In(d + 1)
    BY <1>3, <1>6, SameRegions
  <2>2. ~ Within(d, i)
    <3>1. /\ regions[i].max[d] \in Nat /\ regions[i].max[d] < Tail /\ Tail \in Nat
          /\ regions[i].min[d] \in Nat /\ Head < regions[i].min[d] /\ Head \in Nat
          /\ query.min[d] \in Nat /\ query.max[d] \in Nat
          /\ currMaxAtMinList[d] \in Nat /\ currMinAtMaxList[d] \in Nat
      BY <1>1, <1>2, <1>4, LoopHolds, NodeHolds
    <3>2. /\ currMaxAtMinList[d] = Head \/ currMaxAtMinList[d] < query.max[d]
          /\ currMinAtMaxList[d] = Tail \/ query.min[d] < currMinAtMaxList[d]
      BY <1>4 DEF MinShrunk, Below, Above
    <3>3. QED
      BY <3>1, <3>2, <1>6 DEF Within
  <2>3. ASSUME NEW j \in In(d), Within(d, j), ~ Tied(j), j \notin ids'
        PROVE  j \in In(d + 1)
    BY <2>2, <2>3, <1>2, <1>3, <1>4 DEF Full, Pending
  <2>4. \A j \in ids' : Pending(j)'
    BY <1>2 DEF Pending
  <2>5. Full(d)'
    BY <2>1, <2>3, <2>4, <1>1, <1>3, <1>6 DEF Full, Within, Tied
  <2>6. QED
    BY <2>5, <1>1, <1>2, <1>3, <1>6, MoveComplete
<1>7. QED
  BY <1>3, <1>5, <1>6

\* The cursors have come to the bounds of the query, and the next node's turn comes.
LEMMA NextNodeComplete ==
  ASSUME TreeInv, CompleteInv, NextNode
  PROVE  CompleteInv'
<1>1. PICK d \in Dims : d = dimNo
  BY DEF TreeInv, TypeOK
<1>2. pc = "minGrows" /\ pc \in Loops
  BY DEF NextNode, Loops
<1>3. /\ UNCHANGED <<regions, minList, maxList, currMaxAtMinList, currMinAtMaxList, resultList,
                     query, ids>>
      /\ IF d = NumOfDims THEN pc' = "answered" /\ dimNo' = 1
         ELSE pc' = "maxShrinks" /\ dimNo' = d + 1
  BY <1>1 DEF NextNode, nodes
<1>4. \A e : In(e)' = In(e)
  BY <1>3, SameRegions
<1>5. \A i \in Ids : regions'[i] # NULL => i \in In(1)'
  BY <1>3, <1>4 DEF CompleteInv
<1>6. pc' \notin {"maxLeaves", "minLeaves", "maxEnters", "minEnters", "crashed"}
  BY <1>3
<1>7. ASSUME NEW e \in Dims
      PROVE  Full(e)'
  <2>1. Full(e) /\ \A i : ~ Pending(i)
    BY <1>2 DEF CompleteInv, Pending
  <2>2. QED
    BY <2>1, <1>3, <1>4 DEF Full, Within, Tied
<1>8. Grown(d)
  <2>1. \A k \in Alive(minList[d]) : k <= currMaxAtMinList[d] \/ query.max[d] <= k
    BY <1>1, <1>2, LoopHolds DEF At, MaxGrown
  <2>2. /\ maxList[d] \in Lists /\ Sound(maxList[d])
        /\ currMinAtMaxList[d] \in Alive(maxList[d]) \cup {Tail}
        /\ query.min[d] \in Nat /\ Head \in Nat
        /\ \A k \in Alive(maxList[d]) : k \in Nat /\ Head < k
    BY <1>1, <1>2, LoopHolds, NodeHolds DEF At, MinShrunk, Above
  <2>3. LET n == maxList[d].bck[1][currMinAtMaxList[d]]
        IN  /\ n \in Alive(maxList[d]) \cup {Head}
            /\ \A j \in Alive(maxList[d]) : j <= n \/ currMinAtMaxList[d] <= j
    BY <2>2, PrevHolds
  <2>4. LET n == maxList[d].bck[1][currMinAtMaxList[d]]
        IN  n = Head \/ query.min[d] >= n
    BY <1>1 DEF NextNode
  <2>5. \A k \in Alive(maxList[d]) : currMinAtMaxList[d] <= k \/ k <= query.min[d]
    BY <2>2, <2>3, <2>4
  <2>6. QED
    BY <2>1, <2>5 DEF Grown
<1>9. ASSUME NEW e \in Dims, e <= d
      PROVE  Grown(e)'
  <2>1. e < d => Grown(e)
    BY <1>1, <1>2 DEF CompleteInv
  <2>2. e < d \/ e = d
    BY <1>9, Kinds
  <2>3. Grown(e)
    BY <2>1, <2>2, <1>8
  <2>4. QED
    BY <2>3, <1>3 DEF Grown, Alive
<1>10. /\ pc' = "answered" => \A e \in Dims : e <= d
       /\ pc' \in Loops => \A e \in Dims : e < dimNo' => e <= d
  <2>1. \A e \in Dims : e <= NumOfDims /\ e \in Nat
    BY Kinds DEF Dims
  <2>2. QED
    BY <2>1, <1>3 DEF Loops
<1>11. QED
  BY <1>5, <1>6, <1>7, <1>9, <1>10 DEF CompleteInv

LEMMA WindowQueryComplete ==
  ASSUME TreeInv, CompleteInv, WindowQuery
  PROVE  CompleteInv'
<1>1. /\ UNCHANGED <<regions, minList, maxList, currMaxAtMinList, currMinAtMaxList, resultList>>
      /\ pc \in {"idle", "answered"} /\ pc' = "maxShrinks" /\ dimNo' = 1
  BY DEF WindowQuery, nodes
<1>2. \A e : In(e)' = In(e)
  BY <1>1, SameRegions
<1>3. \A i \in Ids : regions'[i] # NULL => i \in In(1)'
  BY <1>1, <1>2 DEF CompleteInv
<1>4. ASSUME NEW e \in Dims
      PROVE  Full(e)'
  <2>1. Full(e) /\ \A i : ~ Pending(i)
    BY <1>1 DEF CompleteInv, Pending
  <2>2. QED
    BY <2>1, <1>1, <1>2 DEF Full, Within, Tied
<1>5. \A e \in Dims : ~ (e < 1)
  BY DEF Dims
<1>6. QED
  BY <1>1, <1>3, <1>4, <1>5 DEF CompleteInv

LEMMA InsertRegionComplete ==
  ASSUME TreeInv, CompleteInv, NEW i \in Ids, InsertRegion(i)
  PROVE  CompleteInv'
<1>0. TypeOK /\ Listed /\ Nested /\ Cursors
  BY DEF TreeInv
<1>1. pc \in {"idle", "answered"} /\ pc' = "idle" /\ regions[i] = NULL
  BY DEF InsertRegion
<1>2. PICK r \in Boxes : regions' = [regions EXCEPT ![i] = r] /\ Insert(i, r, 1)
  BY DEF InsertRegion
<1>3. 1 \in 1..(NumOfDims + 1) /\ \A e \in Dims : e + 1 # 1
  BY Kinds DEF Dims
<1>4. \A e \in Dims : Full(e)'
  <2>1. \A e \in Dims : Full(e) /\ Settled(e)
    BY <1>1 DEF CompleteInv, TreeInv, Stepwise
  <2>2. QED
    BY <2>1, <1>0, <1>1, <1>2, <1>3, FullInserted
<1>5. \A j \in Ids : regions'[j] # NULL => j \in In(1)'
  <2>1. In(1)' = IF 1 \in Reached(r, 1) THEN In(1) \cup {i} ELSE In(1)
    <3>1. PICK f \in 1..(NumOfDims + 1) : f = 1
      BY <1>3
    <3>2. TypeOK /\ Listed /\ i \in Ids /\ r \in Boxes /\ f \in 1..(NumOfDims + 1)
      BY <1>0
    <3>3. /\ regions[i] \in {NULL, r} /\ regions' = [regions EXCEPT ![i] = r]
          /\ Insert(i, r, f)
      BY <1>1, <1>2, <3>1
    <3>4. \A e \in 1..(NumOfDims + 1) :
            In(e)' = IF e \in Reached(r, f) THEN In(e) \cup {i} ELSE In(e)
      BY ONLY <3>2, <3>3, InsertHolds, ZenonT(120)
    <3>5. QED
      BY <3>1, <3>4, <1>3
  <2>2. 1 \in Reached(r, 1)
    BY <1>3, ReachedNodes
  <2>3. \A j \in Ids \ {i} : regions'[j] = regions[j]
    BY <1>0, <1>2 DEF TypeOK
  <2>4. QED
    BY <2>1, <2>2, <2>3 DEF CompleteInv
<1>6. QED
  BY <1>1, <1>4, <1>5 DEF CompleteInv, Loops

\* What insertRegion and the loops of a query pass on: the regions between the cursors of a
\* node, but for ties, are those of the next; and a query moves the cursors past every
\* coordinate within its bounds.
THEOREM CompleteInvariant == Spec => []CompleteInv
<1>1. Init => CompleteInv
  <2>1. SUFFICES ASSUME Init PROVE CompleteInv
    OBVIOUS
  <2>2. \A e \in 1..(NumOfDims + 1) : In(e) = {}
    BY <2>1 DEF Init, In
  <2>3. \A e \in Dims : Full(e)
    BY <2>2, Kinds DEF Full
  <2>4. pc = "idle" /\ ids = {} /\ \A i \in Ids : regions[i] = NULL
    BY <2>1 DEF Init
  <2>5. QED
    BY <2>3, <2>4 DEF CompleteInv, Loops
<1>2. ASSUME TreeInv, CompleteInv, [Next]_vars
      PROVE  CompleteInv'
  <2>1. CASE WindowQuery
    BY <1>2, <2>1, WindowQueryComplete
  <2>2. CASE MaxShrinks
    BY <1>2, <2>2, MaxShrinksComplete
  <2>3. CASE MaxMoves
    BY <1>2, <2>3, MaxMovesComplete
  <2>4. CASE MinShrinks
    BY <1>2, <2>4, MinShrinksComplete
  <2>5. CASE MinMoves
    BY <1>2, <2>5, MinMovesComplete
  <2>6. CASE MaxGrows
    BY <1>2, <2>6, MaxGrowsComplete
  <2>7. CASE MaxEntered \/ MinEntered
    BY <1>2, <2>7, EnteredComplete
  <2>8. CASE MinGrows
    BY <1>2, <2>8, MinGrowsComplete
  <2>9. CASE NextNode
    BY <1>2, <2>9, NextNodeComplete
  <2>10. ASSUME NEW i \in Ids,
                MaxLeaves(i) \/ MinLeaves(i) \/ MaxEnters(i) \/ MinEnters(i) \/ InsertRegion(i)
         PROVE  CompleteInv'
    <3>1. CASE MaxLeaves(i) \/ MinLeaves(i)
      BY <1>2, <3>1, LeavesComplete
    <3>2. CASE MaxEnters(i) \/ MinEnters(i)
      BY <1>2, <3>2, EntersComplete
    <3>3. CASE InsertRegion(i)
      BY <1>2, <3>3, InsertRegionComplete
    <3>4. QED
      BY <2>10, <3>1, <3>2, <3>3
  <2>11. CASE UNCHANGED vars
    <3>1. UNCHANGED <<regions, minList, maxList, currMaxAtMinList, currMinAtMaxList, resultList,
                      oldMin, oldMax, pc, query, dimNo, ids>>
      BY <2>11 DEF vars, nodes, old, local
    <3>2. \A e : In(e)' = In(e)
      BY <3>1, SameRegions
    <3>3. ASSUME NEW e \in Dims
          PROVE  (Full(e) => Full(e)') /\ (Grown(e) => Grown(e)')
      BY <3>1, <3>2 DEF Full, Within, Tied, Pending, Grown, Alive
    <3>4. QED
      BY <3>1, <3>2, <3>3, <1>2 DEF CompleteInv
  <2>12. QED
    BY <1>2, <2>1, <2>2, <2>3, <2>4, <2>5, <2>6, <2>7, <2>8, <2>9, <2>10, <2>11
       DEF Next, Query
<1>3. QED
  BY <1>1, <1>2, TreeInvariant, PTL DEF Spec

\* An answer misses no region that intersects the query, but one whose maximum in some
\* dimension is another's: for any regions, in whatever order they were inserted between
\* whatever queries.
THEOREM OnlyTiesMissed == Spec => []AnswerMissesOnlyTies
<1>1. ASSUME TreeInv, CompleteInv
      PROVE  AnswerMissesOnlyTies
  <2>1. SUFFICES ASSUME pc = "answered", NEW i \in Ids, regions[i] # NULL,
                        Intersects(regions[i], query), ~ Tied(i)
                 PROVE  i \in resultList
    BY DEF AnswerMissesOnlyTies
  <2>2. TypeOK /\ Listed /\ Nested /\ Cursors /\ query # NULL
    BY <1>1, <2>1 DEF TreeInv, Stepwise
  <2>3. ASSUME NEW e \in Dims, i \in In(e)
        PROVE  i \in In(e + 1)
    <3>1. Full(e) /\ Grown(e) /\ ~ Pending(i)
      BY <1>1, <2>1 DEF CompleteInv, Pending
    <3>2. /\ regions[i].min[e] \in Alive(minList[e]) /\ regions[i].min[e] \in Nat
          /\ regions[i].max[e] \in Alive(maxList[e]) /\ regions[i].max[e] \in Nat
          /\ query.min[e] \in Nat /\ query.max[e] \in Nat
      BY <2>2, <2>3, NodeHolds
    <3>3. regions[i].min[e] < query.max[e] /\ regions[i].max[e] > query.min[e]
      BY <2>1 DEF Intersects
    <3>4. Within(e, i)
      BY <3>1, <3>2, <3>3 DEF Grown, Within
    <3>5. QED
      BY <3>1, <3>4, <2>1, <2>3 DEF Full
  <2>4. i \in In(NumOfDims + 1)
    <3>1. i \in In(1)
      BY <1>1, <2>1 DEF CompleteInv
    <3>2. \A e \in Dims : i \in In(e) => i \in In(e + 1)
      BY <2>3
    <3>3. NumOfDims \in Nat /\ NumOfDims >= 1 /\ Dims = 1..NumOfDims
      BY Kinds DEF Dims
    <3> DEFINE without == {e \in 1..(NumOfDims + 1) : i \notin In(e)}
    <3>4. SUFFICES ASSUME without # {} PROVE FALSE
      BY <3>3
    <3>5. PICK e \in without : \A f \in without : e <= f
      <4>1. without \subseteq Nat
        BY <3>3
      <4> HIDE DEF without
      <4>2. QED
        BY <4>1, <3>4, Least
    <3>6. e # 1 /\ e \in 1..(NumOfDims + 1) /\ i \notin In(e)
      BY <3>1
    <3>7. PICK f \in Dims : f + 1 = e
      <4>1. e - 1 \in Dims /\ (e - 1) + 1 = e
        BY <3>3, <3>6
      <4>2. QED
        BY <4>1
    <3>8. f \in 1..(NumOfDims + 1) /\ ~ (e <= f)
      BY <3>3, <3>7
    <3>9. i \in In(f)
      BY <3>5, <3>8
    <3>10. QED
      BY <3>2, <3>6, <3>7, <3>9
  <2>5. QED
    BY <2>4 DEF In
<1>2. QED
  BY <1>1, TreeInvariant, CompleteInvariant, PTL
=============================================================================
