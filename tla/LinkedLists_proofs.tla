------------------------- MODULE LinkedLists_proofs -------------------------
(***************************************************************************)
(* What the operations of ll.c do to a sound list, and that they leave     *)
(* every other list alone whose items they have no link to.                *)
(***************************************************************************)
EXTENDS LinkedLists, TLAPS

\* q without its i-th item.
Without(q, i) == [k \in 1 .. Len(q) - 1 |-> IF k < i THEN q[k] ELSE q[k + 1]]

Apart(q, r) == \A j \in 1 .. Len(q), k \in 1 .. Len(r) : q[j] # r[k]

-----------------------------------------------------------------------------
(* Types *)

LEMMA LinkType ==
  ASSUME NEW S, NEW Ls, NEW m \in Memory(S, Ls), NEW l \in Ls, NEW c \in S
  PROVE  Link(m, l, c) \in Memory(S, Ls)
  BY DEF Memory, Link

LEMMA UnlinkType ==
  ASSUME NEW S, NEW Ls, NEW m \in Memory(S, Ls), NEW l \in Ls, NEW c \in S
  PROVE  Unlink(m, l, c) \in Memory(S, Ls)
  BY DEF Memory, Unlink

LEMMA ShiftType ==
  ASSUME NEW S, NEW Ls, NEW m \in Memory(S, Ls), NEW l \in Ls, ~Empty(m, l)
  PROVE  m.head[l] \in S /\ Shift(m, l) \in Memory(S, Ls)
  BY DEF Memory, Shift, Empty

-----------------------------------------------------------------------------
(* Sequences *)

LEMMA AppendItems ==
  ASSUME NEW S, NEW q \in Seq(S), Distinct(q), NEW c \in S, ~In(c, q)
  PROVE  /\ Append(q, c) \in Seq(S)
         /\ Distinct(Append(q, c))
         /\ \A x : In(x, Append(q, c)) <=> In(x, q) \/ x = c
<1> DEFINE r == Append(q, c)
<1>1. /\ r \in Seq(S) /\ Len(r) = Len(q) + 1 /\ r[Len(q) + 1] = c
      /\ \A k \in 1 .. Len(q) : r[k] = q[k]
  OBVIOUS
<1>2. Len(q) \in Nat
  OBVIOUS
<1> HIDE DEF r
<1>3. Distinct(r)
  BY <1>1, <1>2 DEF Distinct, In
<1>4. ASSUME NEW x PROVE In(x, r) <=> In(x, q) \/ x = c
  BY <1>1, <1>2 DEF In
<1>5. QED
  BY <1>1, <1>3, <1>4 DEF r

LEMMA TailItems ==
  ASSUME NEW S, NEW q \in Seq(S), Distinct(q), q # <<>>
  PROVE  /\ Tail(q) \in Seq(S) /\ Distinct(Tail(q)) /\ q[1] \in S
         /\ \A x : In(x, Tail(q)) <=> In(x, q) /\ x # q[1]
<1> DEFINE r == Tail(q)
<1>1. /\ r \in Seq(S) /\ Len(r) = Len(q) - 1 /\ q[1] \in S
      /\ \A k \in 1 .. Len(r) : r[k] = q[k + 1]
  OBVIOUS
<1>2. Len(q) \in Nat /\ Len(q) > 0
  OBVIOUS
<1> HIDE DEF r
<1>3. Distinct(r)
  BY <1>1, <1>2 DEF Distinct
<1>4. ASSUME NEW x PROVE In(x, r) <=> In(x, q) /\ x # q[1]
  <2>1. ASSUME In(x, r) PROVE In(x, q) /\ x # q[1]
    BY <1>1, <1>2, <2>1 DEF In, Distinct
  <2>2. ASSUME In(x, q), x # q[1] PROVE In(x, r)
    <3>1. PICK k \in 1 .. Len(q) : q[k] = x
      BY <2>2 DEF In
    <3>2. k - 1 \in 1 .. Len(r) /\ r[k - 1] = x
      BY <1>1, <1>2, <2>2, <3>1
    <3>3. QED
      BY <3>2 DEF In
  <2>3. QED
    BY <2>1, <2>2
<1>5. QED
  BY <1>1, <1>3, <1>4 DEF r

LEMMA WithoutItems ==
  ASSUME NEW S, NEW q \in Seq(S), Distinct(q), NEW i \in 1 .. Len(q)
  PROVE  /\ Without(q, i) \in Seq(S) /\ Distinct(Without(q, i))
         /\ Len(Without(q, i)) = Len(q) - 1
         /\ \A x : In(x, Without(q, i)) <=> In(x, q) /\ x # q[i]
<1> DEFINE r == Without(q, i)
<1>1. Len(q) \in Nat /\ Len(q) > 0 /\ \A k \in 1 .. Len(q) : q[k] \in S
  OBVIOUS
<1>2. /\ r \in Seq(S) /\ Len(r) = Len(q) - 1
      /\ \A k \in 1 .. Len(r) : r[k] = IF k < i THEN q[k] ELSE q[k + 1]
  <2>1. r \in [1 .. Len(q) - 1 -> S]
    BY <1>1 DEF Without
  <2>2. r \in Seq(S) /\ Len(r) = Len(q) - 1
    BY <1>1, <2>1
  <2>3. QED
    BY <2>2 DEF Without
<1> HIDE DEF r
<1>3. Distinct(r)
  BY <1>1, <1>2 DEF Distinct
<1>4. ASSUME NEW x PROVE In(x, r) <=> In(x, q) /\ x # q[i]
  <2>1. ASSUME In(x, r) PROVE In(x, q) /\ x # q[i]
    <3>1. PICK k \in 1 .. Len(r) : r[k] = x
      BY <2>1 DEF In
    <3>2. CASE k < i
      BY <1>1, <1>2, <3>1, <3>2 DEF In, Distinct
    <3>3. CASE ~(k < i)
      <4>1. k + 1 \in 1 .. Len(q) /\ q[k + 1] = x /\ k + 1 # i
        BY <1>1, <1>2, <3>1, <3>3
      <4>2. QED
        BY <4>1 DEF In, Distinct
    <3>4. QED
      BY <3>2, <3>3
  <2>2. ASSUME In(x, q), x # q[i] PROVE In(x, r)
    <3>1. PICK k \in 1 .. Len(q) : q[k] = x
      BY <2>2 DEF In
    <3>2. CASE k < i
      BY <1>1, <1>2, <3>1, <3>2 DEF In
    <3>3. CASE k > i
      <4>1. k - 1 \in 1 .. Len(r) /\ r[k - 1] = x
        BY <1>1, <1>2, <3>1, <3>3
      <4>2. QED
        BY <4>1 DEF In
    <3>4. QED
      BY <2>2, <3>1, <3>2, <3>3
  <2>3. QED
    BY <2>1, <2>2
<1>5. QED
  BY <1>2, <1>3, <1>4 DEF r

-----------------------------------------------------------------------------
(* What an operation does to the list it is given *)

\* A list memory with types; q is what list l holds.
Holds(S, Ls, m, l, q) ==
  /\ NULL \notin S /\ m \in Memory(S, Ls) /\ l \in Ls
  /\ q \in Seq(S) /\ Distinct(q) /\ IsList(m, l, q)

\* ll_link puts the item at the end.
LEMMA LinkAppends ==
  ASSUME NEW S, NEW Ls, NEW m, NEW l, NEW q, Holds(S, Ls, m, l, q),
         NEW c \in S, ~In(c, q)
  PROVE  IsList(Link(m, l, c), l, Append(q, c))
<1> DEFINE n == Link(m, l, c)
           r == Append(q, c)
<1>1. /\ NULL \notin S /\ l \in Ls /\ q \in Seq(S) /\ Distinct(q) /\ IsList(m, l, q)
      /\ m \in Memory(S, Ls) /\ Len(q) \in Nat /\ \A k \in 1 .. Len(q) : q[k] \in S
  BY DEF Holds
<1>2. /\ r \in Seq(S) /\ Len(r) = Len(q) + 1 /\ r[Len(q) + 1] = c
      /\ \A k \in 1 .. Len(q) : r[k] = q[k]
  BY <1>1
<1>3. (q = <<>> <=> Len(q) = 0) /\ r # <<>>
  <2>1. ASSUME NEW s \in Seq(S) PROVE s = <<>> <=> Len(s) = 0
    OBVIOUS
  <2>2. QED
    BY <1>1, <1>2, <2>1
<1>4. \A k \in 1 .. Len(q) : q[k] # c
  BY DEF In
<1>5. /\ n.head[l] = IF m.tail[l] = NULL THEN c ELSE m.head[l]
      /\ n.tail[l] = c
      /\ \A x \in S : n.prev[x] = IF x = c THEN m.tail[l] ELSE m.prev[x]
      /\ \A x \in S : n.next[x] = IF x = m.tail[l] THEN c
                                  ELSE IF x = c THEN NULL ELSE m.next[x]
  <2>1. DOMAIN m.prev = S /\ DOMAIN m.next = S /\ DOMAIN m.head = Ls /\ DOMAIN m.tail = Ls
    BY <1>1 DEF Memory
  <2>2. QED
    BY <1>1, <2>1 DEF Link
<1> HIDE DEF n, r
<1>6. /\ m.tail[l] = IF Len(q) = 0 THEN NULL ELSE q[Len(q)]
      /\ m.head[l] = IF Len(q) = 0 THEN NULL ELSE q[1]
      /\ \A k \in 1 .. Len(q) : /\ m.prev[q[k]] = IF k = 1 THEN NULL ELSE q[k - 1]
                                /\ m.next[q[k]] = IF k = Len(q) THEN NULL ELSE q[k + 1]
  BY <1>1, <1>3 DEF IsList
<1>7. n.head[l] = r[1] /\ n.tail[l] = r[Len(r)]
  BY <1>1, <1>2, <1>5, <1>6
<1>8. ASSUME NEW k \in 1 .. Len(r)
      PROVE  /\ n.prev[r[k]] = IF k = 1 THEN NULL ELSE r[k - 1]
             /\ n.next[r[k]] = IF k = Len(r) THEN NULL ELSE r[k + 1]
  <2>1. CASE k = Len(q) + 1
    BY <1>1, <1>2, <1>4, <1>5, <1>6, <2>1
  <2>2. CASE k \in 1 .. Len(q)
    <3>1. r[k] = q[k] /\ q[k] \in S /\ q[k] # c
      BY <1>1, <1>2, <1>4, <2>2
    <3>2. n.prev[r[k]] = IF k = 1 THEN NULL ELSE r[k - 1]
      <4>1. n.prev[r[k]] = IF k = 1 THEN NULL ELSE q[k - 1]
        BY <1>5, <1>6, <2>2, <3>1
      <4>2. k = 1 \/ k - 1 \in 1 .. Len(q)
        BY <1>1, <2>2
      <4>3. QED
        BY <1>2, <4>1, <4>2
    <3>3. CASE k = Len(q)
      BY <1>1, <1>2, <1>5, <1>6, <2>2, <3>1, <3>2, <3>3
    <3>4. CASE k < Len(q)
      <4>1. q[k] # q[Len(q)]
        BY <1>1, <2>2, <3>4 DEF Distinct
      <4>2. n.next[q[k]] = m.next[q[k]] /\ r[k + 1] = q[k + 1]
        BY <1>1, <1>2, <1>5, <1>6, <3>1, <3>4, <4>1
      <4>3. m.next[q[k]] = q[k + 1] /\ k # Len(r)
        BY <1>1, <1>2, <1>6, <2>2, <3>4
      <4>4. QED
        BY <3>1, <3>2, <4>2, <4>3
    <3>5. QED
      BY <1>1, <2>2, <3>3, <3>4
  <2>3. QED
    BY <1>1, <1>2, <2>1, <2>2
<1>9. QED
  BY <1>3, <1>7, <1>8 DEF IsList, n, r

\* ll_shift takes the first item off.
LEMMA ShiftTails ==
  ASSUME NEW S, NEW Ls, NEW m, NEW l, NEW q, Holds(S, Ls, m, l, q), q # <<>>
  PROVE  m.head[l] = q[1] /\ IsList(Shift(m, l), l, Tail(q))
<1> DEFINE n == Shift(m, l)
           r == Tail(q)
<1>1. /\ NULL \notin S /\ l \in Ls /\ q \in Seq(S) /\ Distinct(q) /\ IsList(m, l, q)
      /\ m \in Memory(S, Ls) /\ Len(q) \in Nat /\ \A k \in 1 .. Len(q) : q[k] \in S
  BY DEF Holds
<1>2. /\ r \in Seq(S) /\ Len(r) = Len(q) - 1 /\ Len(q) > 0
      /\ \A k \in 1 .. Len(r) : r[k] = q[k + 1]
  BY <1>1
<1> HIDE DEF r
<1>3. r = <<>> <=> Len(r) = 0
  BY <1>2
<1>6. /\ m.tail[l] = q[Len(q)] /\ m.head[l] = q[1] /\ q[1] \in S
      /\ \A k \in 1 .. Len(q) : /\ m.prev[q[k]] = IF k = 1 THEN NULL ELSE q[k - 1]
                                /\ m.next[q[k]] = IF k = Len(q) THEN NULL ELSE q[k + 1]
  BY <1>1, <1>2 DEF IsList
<1>5. /\ n.head[l] = m.next[q[1]]
      /\ n.tail[l] = IF m.tail[l] = q[1] THEN NULL ELSE m.tail[l]
      /\ \A x \in S : n.prev[x] = IF x = q[1] \/ x = m.next[q[1]] THEN NULL ELSE m.prev[x]
      /\ \A x \in S : n.next[x] = IF x = q[1] THEN NULL ELSE m.next[x]
  <2>1. DOMAIN m.prev = S /\ DOMAIN m.next = S /\ DOMAIN m.head = Ls /\ DOMAIN m.tail = Ls
    BY <1>1 DEF Memory
  <2>2. QED
    BY <1>1, <1>6, <2>1 DEF Shift
<1> HIDE DEF n
<1>4. \A k \in 2 .. Len(q) : q[k] # q[1]
  BY <1>1 DEF Distinct
<1>7. /\ n.head[l] = IF Len(r) = 0 THEN NULL ELSE r[1]
      /\ n.tail[l] = IF Len(r) = 0 THEN NULL ELSE r[Len(r)]
  BY <1>1, <1>2, <1>4, <1>5, <1>6
<1>8. ASSUME NEW k \in 1 .. Len(r)
      PROVE  /\ n.prev[r[k]] = IF k = 1 THEN NULL ELSE r[k - 1]
             /\ n.next[r[k]] = IF k = Len(r) THEN NULL ELSE r[k + 1]
  <2>1. r[k] = q[k + 1] /\ q[k + 1] \in S /\ q[k + 1] # q[1] /\ k + 1 \in 1 .. Len(q)
    BY <1>1, <1>2, <1>4
  <2>2. n.next[r[k]] = IF k = Len(r) THEN NULL ELSE r[k + 1]
    BY <1>1, <1>2, <1>5, <1>6, <2>1
  <2>3. CASE k = 1
    BY <1>1, <1>2, <1>5, <1>6, <2>1, <2>2, <2>3
  <2>4. CASE k > 1
    <3>1. q[k + 1] # q[2] /\ m.next[q[1]] = q[2]
      BY <1>1, <1>2, <1>6, <2>1, <2>4 DEF Distinct
    <3>2. n.prev[r[k]] = m.prev[q[k + 1]] /\ r[k - 1] = q[k]
      BY <1>1, <1>2, <1>5, <2>1, <2>4, <3>1
    <3>3. QED
      BY <1>1, <1>2, <1>6, <2>1, <2>2, <2>4, <3>2
  <2>5. QED
    BY <1>2, <2>3, <2>4
<1>9. QED
  BY <1>3, <1>6, <1>7, <1>8 DEF IsList, n, r

\* ll_unlink takes an item out of the list it is in.
LEMMA UnlinkRemoves ==
  ASSUME NEW S, NEW Ls, NEW m, NEW l, NEW q, Holds(S, Ls, m, l, q),
         NEW i \in 1 .. Len(q)
  PROVE  IsList(Unlink(m, l, q[i]), l, Without(q, i))
<1> DEFINE n == Unlink(m, l, q[i])
           r == Without(q, i)
           before == IF i = 1 THEN NULL ELSE q[i - 1]
           after  == IF i = Len(q) THEN NULL ELSE q[i + 1]
<1>1. /\ NULL \notin S /\ l \in Ls /\ q \in Seq(S) /\ Distinct(q) /\ IsList(m, l, q)
      /\ m \in Memory(S, Ls) /\ Len(q) \in Nat /\ Len(q) > 0
      /\ \A k \in 1 .. Len(q) : q[k] \in S
  BY DEF Holds
<1>2. /\ r \in Seq(S) /\ Len(r) = Len(q) - 1
      /\ \A k \in 1 .. Len(r) : r[k] = IF k < i THEN q[k] ELSE q[k + 1]
  BY <1>1, WithoutItems DEF Without
<1> HIDE DEF r
<1>3. (r = <<>> <=> Len(r) = 0) /\ q # <<>>
  BY <1>1, <1>2
<1>4. \A j, k \in 1 .. Len(q) : q[j] = q[k] <=> j = k
  BY <1>1 DEF Distinct
<1>5. /\ m.tail[l] = q[Len(q)] /\ m.head[l] = q[1]
      /\ \A k \in 1 .. Len(q) : /\ m.prev[q[k]] = IF k = 1 THEN NULL ELSE q[k - 1]
                                /\ m.next[q[k]] = IF k = Len(q) THEN NULL ELSE q[k + 1]
  BY <1>1, <1>3 DEF IsList
<1>6. m.prev[q[i]] = before /\ m.next[q[i]] = after
  BY <1>5
<1> HIDE DEF before, after
<1>7. /\ n.head[l] = IF m.head[l] = q[i] THEN after ELSE m.head[l]
      /\ n.tail[l] = IF m.tail[l] = q[i] THEN before ELSE m.tail[l]
      /\ \A x \in S : n.prev[x] = IF x = q[i] THEN NULL
                                  ELSE IF x = after THEN before ELSE m.prev[x]
      /\ \A x \in S : n.next[x] = IF x = q[i] THEN NULL
                                  ELSE IF x = before THEN after ELSE m.next[x]
  <2>1. DOMAIN m.prev = S /\ DOMAIN m.next = S /\ DOMAIN m.head = Ls /\ DOMAIN m.tail = Ls
    BY <1>1 DEF Memory
  <2>2. QED
    BY <1>1, <1>6, <2>1 DEF Unlink
<1> HIDE DEF n
<1>8. ASSUME NEW k \in 1 .. Len(q), k # i
      PROVE  /\ n.prev[q[k]] = IF k = i + 1 THEN before ELSE IF k = 1 THEN NULL ELSE q[k - 1]
             /\ n.next[q[k]] = IF k = i - 1 THEN after
                               ELSE IF k = Len(q) THEN NULL ELSE q[k + 1]
  <2>1. q[k] \in S /\ q[k] # q[i] /\ q[k] # NULL
    BY <1>1, <1>4, <1>8
  <2>2. q[k] = after <=> k = i + 1
    BY <1>1, <1>4, <1>8, <2>1 DEF after
  <2>3. q[k] = before <=> k = i - 1
    BY <1>1, <1>4, <1>8, <2>1 DEF before
  <2>4. QED
    BY <1>5, <1>7, <1>8, <2>1, <2>2, <2>3
<1>9. /\ n.head[l] = IF Len(r) = 0 THEN NULL ELSE r[1]
      /\ n.tail[l] = IF Len(r) = 0 THEN NULL ELSE r[Len(r)]
  <2>1. (q[1] = q[i] <=> i = 1) /\ (q[Len(q)] = q[i] <=> i = Len(q))
    BY <1>1, <1>4
  <2>2. n.head[l] = IF Len(r) = 0 THEN NULL ELSE r[1]
    BY <1>1, <1>2, <1>5, <1>7, <2>1 DEF after
  <2>3. n.tail[l] = IF Len(r) = 0 THEN NULL ELSE r[Len(r)]
    BY <1>1, <1>2, <1>5, <1>7, <2>1 DEF before
  <2>4. QED
    BY <2>2, <2>3
<1>10. ASSUME NEW k \in 1 .. Len(r)
       PROVE  /\ n.prev[r[k]] = IF k = 1 THEN NULL ELSE r[k - 1]
              /\ n.next[r[k]] = IF k = Len(r) THEN NULL ELSE r[k + 1]
  <2>1. CASE k < i
    <3>1. k \in 1 .. Len(q) /\ k # i /\ r[k] = q[k]
      BY <1>1, <1>2, <2>1
    <3>2. n.prev[r[k]] = IF k = 1 THEN NULL ELSE r[k - 1]
      <4>1. n.prev[r[k]] = IF k = 1 THEN NULL ELSE q[k - 1]
        BY <1>8, <2>1, <3>1
      <4>2. k = 1 \/ r[k - 1] = q[k - 1]
        BY <1>1, <1>2, <2>1
      <4>3. QED
        BY <4>1, <4>2
    <3>3. n.next[r[k]] = IF k = Len(r) THEN NULL ELSE r[k + 1]
      <4>1. n.next[r[k]] = IF k = i - 1 THEN after ELSE q[k + 1]
        BY <1>1, <1>8, <2>1, <3>1
      <4>2. k = Len(r) \/ r[k + 1] = IF k + 1 < i THEN q[k + 1] ELSE q[k + 2]
        BY <1>1, <1>2
      <4>3. CASE k = i - 1
        BY <1>1, <1>2, <4>1, <4>2, <4>3 DEF after
      <4>4. CASE k < i - 1
        BY <1>1, <1>2, <4>1, <4>2, <4>4
      <4>5. QED
        BY <2>1, <4>3, <4>4
    <3>4. QED
      BY <3>2, <3>3
  <2>2. CASE k >= i
    <3>1. k + 1 \in 1 .. Len(q) /\ k + 1 # i /\ r[k] = q[k + 1]
      BY <1>1, <1>2, <2>2
    <3>2. n.prev[r[k]] = IF k = 1 THEN NULL ELSE r[k - 1]
      <4>1. n.prev[r[k]] = IF k = i THEN before ELSE q[k]
        BY <1>1, <1>8, <2>2, <3>1
      <4>2. k = 1 \/ r[k - 1] = IF k - 1 < i THEN q[k - 1] ELSE q[k]
        BY <1>1, <1>2
      <4>3. CASE k = i
        BY <1>1, <4>1, <4>2, <4>3 DEF before
      <4>4. CASE k > i
        BY <1>1, <4>1, <4>2, <4>4
      <4>5. QED
        BY <2>2, <4>3, <4>4
    <3>3. n.next[r[k]] = IF k = Len(r) THEN NULL ELSE r[k + 1]
      <4>1. n.next[r[k]] = IF k + 1 = Len(q) THEN NULL ELSE q[k + 2]
        BY <1>1, <1>8, <2>2, <3>1
      <4>2. k = Len(r) \/ r[k + 1] = q[k + 2]
        BY <1>1, <1>2, <2>2
      <4>3. QED
        BY <1>1, <1>2, <4>1, <4>2
    <3>4. QED
      BY <3>2, <3>3
  <2>3. QED
    BY <1>2, <2>1, <2>2
<1>11. QED
  BY <1>3, <1>9, <1>10 DEF IsList, n, r

-----------------------------------------------------------------------------
(* What an operation does to another list *)

LEMMA SameList ==
  ASSUME NEW m, NEW n, NEW k, NEW r, IsList(m, k, r),
         n.head[k] = m.head[k], n.tail[k] = m.tail[k],
         \A j \in 1 .. Len(r) : n.prev[r[j]] = m.prev[r[j]] /\ n.next[r[j]] = m.next[r[j]]
  PROVE  IsList(n, k, r)
  BY DEF IsList

\* The items a list has links to are its own.
LEMMA LinksInside ==
  ASSUME NEW S, NEW Ls, NEW m, NEW l, NEW q, Holds(S, Ls, m, l, q)
  PROVE  /\ m.head[l] # NULL => In(m.head[l], q)
         /\ m.tail[l] # NULL => In(m.tail[l], q)
         /\ \A i \in 1 .. Len(q) : /\ m.prev[q[i]] # NULL => In(m.prev[q[i]], q)
                                   /\ m.next[q[i]] # NULL => In(m.next[q[i]], q)
<1>1. q \in Seq(S) /\ Len(q) \in Nat /\ IsList(m, l, q)
  BY DEF Holds
<1>2. q = <<>> <=> Len(q) = 0
  BY <1>1
<1>3. QED
  BY <1>1, <1>2 DEF IsList, In

LEMMA LinkOther ==
  ASSUME NEW S, NEW Ls, NEW m, NEW l, NEW q, Holds(S, Ls, m, l, q),
         NEW k, NEW r, Holds(S, Ls, m, k, r), k # l, Apart(q, r),
         NEW c \in S, ~In(c, r)
  PROVE  IsList(Link(m, l, c), k, r)
<1> DEFINE n == Link(m, l, c)
<1>1. /\ NULL \notin S /\ l \in Ls /\ k \in Ls /\ m \in Memory(S, Ls) /\ IsList(m, k, r)
      /\ \A j \in 1 .. Len(r) : r[j] \in S
  BY DEF Holds
<1>2. DOMAIN m.prev = S /\ DOMAIN m.next = S /\ DOMAIN m.head = Ls /\ DOMAIN m.tail = Ls
  BY <1>1 DEF Memory
<1>3. \A j \in 1 .. Len(r) : r[j] # c /\ r[j] # m.tail[l]
  BY <1>1, LinksInside DEF In, Apart
<1>4. \A j \in 1 .. Len(r) : n.prev[r[j]] = m.prev[r[j]] /\ n.next[r[j]] = m.next[r[j]]
  BY <1>1, <1>2, <1>3 DEF Link
<1>5. n.head[k] = m.head[k] /\ n.tail[k] = m.tail[k]
  BY <1>1, <1>2 DEF Link
<1> HIDE DEF n
<1>6. IsList(n, k, r)
  BY <1>1, <1>4, <1>5, SameList
<1>7. QED
  BY <1>6 DEF n

LEMMA ShiftOther ==
  ASSUME NEW S, NEW Ls, NEW m, NEW l, NEW q, Holds(S, Ls, m, l, q), q # <<>>,
         NEW k, NEW r, Holds(S, Ls, m, k, r), k # l, Apart(q, r)
  PROVE  IsList(Shift(m, l), k, r)
<1> DEFINE n == Shift(m, l)
<1>1. /\ NULL \notin S /\ l \in Ls /\ k \in Ls /\ m \in Memory(S, Ls) /\ IsList(m, k, r)
      /\ q \in Seq(S) /\ \A j \in 1 .. Len(r) : r[j] \in S
  BY DEF Holds
<1>2. DOMAIN m.prev = S /\ DOMAIN m.next = S /\ DOMAIN m.head = Ls /\ DOMAIN m.tail = Ls
  BY <1>1 DEF Memory
<1>3. m.head[l] = q[1] /\ 1 \in 1 .. Len(q)
  BY <1>1, ShiftTails
<1>4. \A j \in 1 .. Len(r) : r[j] # q[1] /\ r[j] # m.next[q[1]]
  BY <1>1, <1>3, LinksInside DEF In, Apart
<1>5. \A j \in 1 .. Len(r) : n.prev[r[j]] = m.prev[r[j]] /\ n.next[r[j]] = m.next[r[j]]
  BY <1>1, <1>2, <1>3, <1>4 DEF Shift
<1>6. n.head[k] = m.head[k] /\ n.tail[k] = m.tail[k]
  BY <1>1, <1>2 DEF Shift
<1> HIDE DEF n
<1>7. IsList(n, k, r)
  BY <1>1, <1>5, <1>6, SameList
<1>8. QED
  BY <1>7 DEF n

LEMMA UnlinkOther ==
  ASSUME NEW S, NEW Ls, NEW m, NEW l, NEW q, Holds(S, Ls, m, l, q),
         NEW k, NEW r, Holds(S, Ls, m, k, r), k # l, Apart(q, r),
         NEW i \in 1 .. Len(q)
  PROVE  IsList(Unlink(m, l, q[i]), k, r)
<1> DEFINE n == Unlink(m, l, q[i])
<1>1. /\ NULL \notin S /\ l \in Ls /\ k \in Ls /\ m \in Memory(S, Ls) /\ IsList(m, k, r)
      /\ q[i] \in S /\ \A j \in 1 .. Len(r) : r[j] \in S
  BY DEF Holds
<1>2. DOMAIN m.prev = S /\ DOMAIN m.next = S /\ DOMAIN m.head = Ls /\ DOMAIN m.tail = Ls
  BY <1>1 DEF Memory
<1>3. \A j \in 1 .. Len(r) :
        r[j] # q[i] /\ r[j] # m.prev[q[i]] /\ r[j] # m.next[q[i]]
  BY <1>1, LinksInside DEF In, Apart
<1>4. \A j \in 1 .. Len(r) : n.prev[r[j]] = m.prev[r[j]] /\ n.next[r[j]] = m.next[r[j]]
  BY <1>1, <1>2, <1>3 DEF Unlink
<1>5. n.head[k] = m.head[k] /\ n.tail[k] = m.tail[k]
  BY <1>1, <1>2 DEF Unlink
<1> HIDE DEF n
<1>6. IsList(n, k, r)
  BY <1>1, <1>4, <1>5, SameList
<1>7. QED
  BY <1>6 DEF n

-----------------------------------------------------------------------------
(* Both together *)

LEMMA LinkHolds ==
  ASSUME NEW S, NEW Ls, NEW m, NEW l, NEW q, Holds(S, Ls, m, l, q),
         NEW k, NEW r, Holds(S, Ls, m, k, r), k # l, Apart(q, r),
         NEW c \in S, ~In(c, q), ~In(c, r)
  PROVE  /\ Holds(S, Ls, Link(m, l, c), l, Append(q, c))
         /\ Holds(S, Ls, Link(m, l, c), k, r)
<1>1. /\ NULL \notin S /\ m \in Memory(S, Ls) /\ l \in Ls /\ k \in Ls
      /\ q \in Seq(S) /\ Distinct(q) /\ r \in Seq(S) /\ Distinct(r)
  BY DEF Holds
<1>2. IsList(Link(m, l, c), l, Append(q, c)) /\ IsList(Link(m, l, c), k, r)
  BY LinkAppends, LinkOther
<1>3. Link(m, l, c) \in Memory(S, Ls)
  BY <1>1, LinkType
<1>4. Append(q, c) \in Seq(S) /\ Distinct(Append(q, c))
  BY <1>1, AppendItems
<1>5. QED
  BY <1>1, <1>2, <1>3, <1>4 DEF Holds

LEMMA ShiftHolds ==
  ASSUME NEW S, NEW Ls, NEW m, NEW l, NEW q, Holds(S, Ls, m, l, q), q # <<>>,
         NEW k, NEW r, Holds(S, Ls, m, k, r), k # l, Apart(q, r)
  PROVE  /\ Holds(S, Ls, Shift(m, l), l, Tail(q))
         /\ Holds(S, Ls, Shift(m, l), k, r)
<1>1. /\ NULL \notin S /\ m \in Memory(S, Ls) /\ l \in Ls /\ k \in Ls
      /\ q \in Seq(S) /\ Distinct(q) /\ r \in Seq(S) /\ Distinct(r)
  BY DEF Holds
<1>2. m.head[l] = q[1] /\ IsList(Shift(m, l), l, Tail(q)) /\ IsList(Shift(m, l), k, r)
  BY ShiftTails, ShiftOther
<1>3. Tail(q) \in Seq(S) /\ Distinct(Tail(q)) /\ q[1] \in S
  BY <1>1, TailItems
<1>4. Shift(m, l) \in Memory(S, Ls)
  BY <1>1, <1>2, <1>3, ShiftType DEF Empty
<1>5. QED
  BY <1>1, <1>2, <1>3, <1>4 DEF Holds

LEMMA UnlinkHolds ==
  ASSUME NEW S, NEW Ls, NEW m, NEW l, NEW q, Holds(S, Ls, m, l, q),
         NEW k, NEW r, Holds(S, Ls, m, k, r), k # l, Apart(q, r),
         NEW i \in 1 .. Len(q)
  PROVE  /\ Holds(S, Ls, Unlink(m, l, q[i]), l, Without(q, i))
         /\ Holds(S, Ls, Unlink(m, l, q[i]), k, r)
<1>1. /\ NULL \notin S /\ m \in Memory(S, Ls) /\ l \in Ls /\ k \in Ls /\ q[i] \in S
      /\ q \in Seq(S) /\ Distinct(q) /\ r \in Seq(S) /\ Distinct(r)
  BY DEF Holds
<1>2. /\ IsList(Unlink(m, l, q[i]), l, Without(q, i))
      /\ IsList(Unlink(m, l, q[i]), k, r)
  BY UnlinkRemoves, UnlinkOther
<1>3. Unlink(m, l, q[i]) \in Memory(S, Ls)
  BY <1>1, UnlinkType
<1>4. Without(q, i) \in Seq(S) /\ Distinct(Without(q, i))
  BY <1>1, WithoutItems
<1>5. QED
  BY <1>1, <1>2, <1>3, <1>4 DEF Holds
=============================================================================
