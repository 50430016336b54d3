-------------------------- MODULE ImageStream_proofs --------------------------
(***************************************************************************)
(* The proofs that the viewer gets the rows the server sent: each once, in *)
(* order, whole, at its place and after its frame.                         *)
(*                                                                         *)
(* The inductive invariant ties the three places a row can be, the images  *)
(* notified, the image held and the wire, to the rows written, by counting *)
(* the rows on the wire up to a position.                                  *)
(*                                                                         *)
(* At the end: what of StreamEnds is a safety property, that the reader is *)
(* never stuck and that its steps run out.                                 *)
(***************************************************************************)
EXTENDS ImageStream, FiniteSetTheorems, TLAPS

-----------------------------------------------------------------------------
(* The inductive invariant *)

\* The rows among the first k items.
Count(items, k) == Cardinality({j \in RowsIn(items) : j <= k})

\* The rows that the reader has taken from the wire.
Taken == Len(images) + Len(basicImage)

\* Every row is either taken or on the wire; text cut by the end of the stream
\* has one more, at its end.
RowsCounted ==
  \/ Taken + Count(wire, Len(wire)) = Len(arriving)
  \/ /\ ~Binary /\ link = "eof"
     /\ Taken + Count(wire, Len(wire)) = Len(arriving) + 1

\* Wherever a row is, it is the one the count of those before it says.
RowsInPlace ==
  /\ \A i \in DOMAIN images : i <= Len(arriving) => images[i].image = OfStream(arriving[i])
  /\ \A i \in DOMAIN basicImage :
       Len(images) + i <= Len(arriving) => basicImage[i] = OfStream(arriving[Len(images) + i])
  /\ \A k \in RowsIn(wire) :
       Taken + Count(wire, k) <= Len(arriving) =>
         wire[k].image = arriving[Taken + Count(wire, k)]

\* What is written is a row the request wants, clipped.
RowsClipped ==
  \A i \in DOMAIN arriving :
    \E p \in DOMAIN Rows : Wanted(Rows[p]) /\ arriving[i] = Clipped(Rows[p])

\* The stream is one reference space, channel definitions, then frames and rows,
\* as far as it was not read yet; what a break left of an item is the last.
WireInOrder ==
  /\ \A k \in DOMAIN wire :
       /\ wire[k].tag = "RS" => k = 1 /\ stage = "RS"
       /\ wire[k].tag = "CH" =>
            stage # "images" /\ \A j \in 1 .. k - 1 : wire[j].tag \in {"RS", "CH"}
       /\ wire[k].tag \in {"half", "bad"} => k = Len(wire) /\ link \in {"eof", "reset"}
  /\ stage = "RS" /\ wire # <<>> => wire[1].tag \in {"RS", "half", "bad"}
  /\ stage = "RS" /\ server = "rows" /\ link = "open" => wire # <<>>
  /\ server = "header" => wire = <<>> /\ stage = "RS"

\* The tag read ahead is that of the first item, unless the item was cut since.
\* A reader that met the end has left no row behind, but for the line a reset cost it.
TagAhead ==
  /\ reader = "next" /\ tag # "EOF" =>
       wire # <<>> /\ wire[1].tag \in {tag, "bad"}
  /\ ~split /\ (reader = "done" \/ (reader = "next" /\ tag = "EOF")) =>
       /\ link # "open"
       /\ RowsIn(wire) = {} \/ (~Binary /\ link = "reset" /\ Len(wire) <= 1)
  /\ reader = "done" /\ (outcome # "exception" \/ ~Binary) => basicImage = <<>>

\* The frame definition that is read last before position k of the items is of
\* frame f or a later one: the one told last, or one among the items.
Announced(items, last, k, f) ==
  \E j \in 0 .. k - 1 :
    /\ IF j = 0 THEN last >= f ELSE items[j].tag = "FR"
    /\ \A m \in 1 .. k - 1 : m >= j /\ items[m].tag = "FR" => items[m].f >= f

FramesAnnounced ==
  /\ \A k \in RowsIn(wire) : Announced(wire, told, k, wire[k].image.f)
  /\ server = "rows" /\ link = "open" /\ prevFrameId # NoFrame =>
       Announced(wire, told, Len(wire) + 1, prevFrameId)
  /\ server = "header" => prevFrameId = NoFrame
  /\ \A i \in DOMAIN basicImage : told >= basicImage[i].f
  /\ FrameToldFirst

IInv == /\ TypeOK /\ RowsCounted /\ RowsInPlace /\ RowsClipped
        /\ WireInOrder /\ TagAhead /\ FramesAnnounced

-----------------------------------------------------------------------------
(* Sequences *)

LEMMA Appended ==
  ASSUME NEW S, NEW s \in Seq(S), NEW t \in Seq(S), NEW u, u = s \o t
  PROVE  /\ u \in Seq(S) /\ Len(u) = Len(s) + Len(t)
         /\ Len(s) \in Nat /\ Len(t) \in Nat
         /\ \A k \in 1 .. Len(s) : u[k] = s[k]
         /\ \A k \in 1 .. Len(t) : u[Len(s) + k] = t[k]
  OBVIOUS

LEMMA Beheaded ==
  ASSUME NEW S, NEW s \in Seq(S), s # <<>>, NEW t, t = Tail(s)
  PROVE  /\ t \in Seq(S) /\ Len(s) = Len(t) + 1 /\ Len(t) \in Nat
         /\ \A k \in 1 .. Len(t) : t[k] = s[k + 1]
         /\ Head(s) = s[1] /\ s[1] \in S /\ 1 \in DOMAIN s
  OBVIOUS

LEMMA OneItem ==
  ASSUME NEW S, NEW x \in S
  PROVE  <<x>> \in Seq(S) /\ Len(<<x>>) = 1 /\ <<x>>[1] = x
  OBVIOUS

-----------------------------------------------------------------------------
(* Counting the rows of a sequence of items *)

\* The rows of a finite sequence are some of its positions.
LEMMA RowsAreItems ==
  ASSUME NEW s \in Seq(Item)
  PROVE  /\ RowsIn(s) \subseteq 1 .. Len(s)
         /\ Len(s) \in Nat
         /\ \A k \in 1 .. Len(s) : k \in RowsIn(s) <=> s[k].tag = "RW"
  BY DEF RowsIn

\* There are finitely many of them up to any position.
LEMMA CountType ==
  ASSUME NEW s \in Seq(Item), NEW k \in Int
  PROVE  /\ IsFiniteSet({j \in RowsIn(s) : j <= k})
         /\ Count(s, k) \in Nat
<1>1. IsFiniteSet(1 .. Len(s))
  BY FS_Interval, RowsAreItems
<1>2. {j \in RowsIn(s) : j <= k} \in SUBSET (1 .. Len(s))
  BY RowsAreItems
<1>3. IsFiniteSet({j \in RowsIn(s) : j <= k})
  BY <1>1, <1>2, FS_Subset
<1>4. QED
  BY <1>3, FS_CardinalityType DEF Count

\* No row is among the first 0 items, and none in a sequence without rows.
LEMMA CountNone ==
  ASSUME NEW s \in Seq(Item), NEW k \in Int, k = 0 \/ RowsIn(s) = {}
  PROVE  Count(s, k) = 0
<1>1. {j \in RowsIn(s) : j <= k} = {}
  BY RowsAreItems
<1>2. QED
  BY <1>1, FS_EmptySet DEF Count

\* The count goes up by one at a row and nowhere else.
LEMMA CountNext ==
  ASSUME NEW s \in Seq(Item), NEW k \in Nat
  PROVE  Count(s, k + 1) = IF k + 1 \in RowsIn(s) THEN Count(s, k) + 1 ELSE Count(s, k)
<1> DEFINE S == {j \in RowsIn(s) : j <= k}
           T == {j \in RowsIn(s) : j <= k + 1}
<1>1. IsFiniteSet(S) /\ k + 1 \notin S
  BY CountType, RowsAreItems
<1>2. CASE k + 1 \in RowsIn(s)
  <2>1. T = S \cup {k + 1}
    BY <1>2, RowsAreItems
  <2>2. Cardinality(S \cup {k + 1}) = Cardinality(S) + 1
    <3> HIDE DEF S
    <3> QED BY <1>1, FS_AddElement
  <2>3. QED
    BY <2>1, <2>2, <1>2 DEF Count
<1>3. CASE k + 1 \notin RowsIn(s)
  <2>1. T = S
    BY <1>3, RowsAreItems
  <2>2. QED
    BY <2>1, <1>3 DEF Count
<1>4. QED
  BY <1>2, <1>3

\* A row is counted at its own position.
LEMMA CountAtRow ==
  ASSUME NEW s \in Seq(Item), NEW k \in RowsIn(s)
  PROVE  Count(s, k) = Count(s, k - 1) + 1 /\ Count(s, k) >= 1
<1>1. k - 1 \in Nat /\ k - 1 \in Int /\ (k - 1) + 1 = k
  BY RowsAreItems
<1>2. Count(s, k) = Count(s, k - 1) + 1
  BY <1>1, CountNext
<1>3. Count(s, k - 1) \in Nat
  <2> DEFINE n == k - 1
  <2>1. n \in Int
    BY <1>1
  <2> HIDE DEF n
  <2>2. Count(s, n) \in Nat
    BY <2>1, CountType
  <2>3. QED
    BY <2>2 DEF n
<1>4. QED
  BY <1>2, <1>3

\* Further on there are no fewer.
LEMMA CountGrows ==
  ASSUME NEW s \in Seq(Item), NEW j \in Int, NEW k \in Int, j <= k
  PROVE  Count(s, j) <= Count(s, k)
<1> DEFINE S == {i \in RowsIn(s) : i <= j}
           T == {i \in RowsIn(s) : i <= k}
<1>1. IsFiniteSet(T)
  BY CountType
<1>2. S \in SUBSET T
  BY RowsAreItems
<1>3. Cardinality(S) <= Cardinality(T)
  <2> HIDE DEF S, T
  <2> QED BY <1>1, <1>2, FS_Subset
<1>4. QED
  BY <1>3 DEF Count

\* Two sequences with their rows at the same positions count the same.
LEMMA CountSame ==
  ASSUME NEW s \in Seq(Item), NEW t \in Seq(Item), NEW j \in Int, NEW k \in Int,
         \A i \in Int : i \in RowsIn(s) /\ i <= j <=> i \in RowsIn(t) /\ i <= k
  PROVE  Count(s, j) = Count(t, k)
<1>1. {i \in RowsIn(s) : i <= j} = {i \in RowsIn(t) : i <= k}
  BY RowsAreItems
<1>2. QED
  BY <1>1 DEF Count

\* Reading the first item moves the others up by one.
LEMMA CountTail ==
  ASSUME NEW s \in Seq(Item), NEW t \in Seq(Item), Len(s) = Len(t) + 1,
         \A i \in 1 .. Len(t) : t[i] = s[i + 1],
         NEW k \in Nat
  PROVE  Count(s, k + 1) = Count(t, k) + (IF s[1].tag = "RW" THEN 1 ELSE 0)
<1> DEFINE S == {j \in RowsIn(t) : j <= k}
           T == {j \in RowsIn(s) : j <= k + 1 /\ j # 1}
           f == [j \in S |-> j + 1]
<1>1. \A j \in Int : j \in S <=> j + 1 \in T
  <2>1. \A j \in Int : j \in RowsIn(t) <=> j \in 1 .. Len(t) /\ t[j].tag = "RW"
    BY RowsAreItems
  <2>2. \A j \in Int : j \in RowsIn(s) <=> j \in 1 .. Len(s) /\ s[j].tag = "RW"
    BY RowsAreItems
  <2>3. Len(t) \in Nat
    BY RowsAreItems
  <2>4. \A j \in Int : j \in RowsIn(t) <=> j + 1 \in RowsIn(s) /\ j + 1 # 1
    BY <2>1, <2>2, <2>3
  <2>5. QED
    BY <2>4
<1>2. IsFiniteSet(S)
  BY CountType
<1>3. S \subseteq Nat /\ T \subseteq Nat
  BY RowsAreItems
<1>4. f \in Bijection(S, T)
  <2>1. \A j \in S : f[j] \in T
    BY <1>1, <1>3
  <2>2. \A j \in T : j - 1 \in S /\ f[j - 1] = j
    BY <1>1, <1>3
  <2>3. \A i, j \in S : f[i] = f[j] => i = j
    BY <1>3
  <2>4. f \in [S -> T]
    BY <2>1
  <2> HIDE DEF S, T, f
  <2>5. QED
    BY <2>2, <2>3, <2>4, Zenon DEF Bijection, Injection, Surjection, IsInjective
<1>5. Cardinality(T) = Cardinality(S) /\ IsFiniteSet(T) /\ Cardinality(S) \in Nat
  <2> HIDE DEF S, T, f
  <2> QED BY <1>2, <1>4, FS_Bijection, FS_CardinalityType DEF ExistsBijection
<1>6. CASE s[1].tag = "RW"
  <2>1. {j \in RowsIn(s) : j <= k + 1} = T \cup {1} /\ 1 \notin T
    BY <1>6, RowsAreItems
  <2>2. Cardinality(T \cup {1}) = Cardinality(T) + 1
    <3> HIDE DEF T
    <3> QED BY <1>5, <2>1, FS_AddElement
  <2>3. QED
    BY <2>1, <2>2, <1>5, <1>6 DEF Count
<1>7. CASE s[1].tag # "RW"
  <2>1. {j \in RowsIn(s) : j <= k + 1} = T
    BY <1>7, RowsAreItems
  <2>2. Count(s, k + 1) = Cardinality(T) /\ Count(t, k) = Cardinality(S)
    BY <2>1 DEF Count
  <2> HIDE DEF S, T
  <2>3. QED
    BY <2>2, <1>5, <1>7
<1>8. QED
  BY <1>6, <1>7

\* The rows behind a position are those not counted up to it.
LEMMA CountBehind ==
  ASSUME NEW s \in Seq(Item), NEW n \in 0 .. Len(s)
  PROVE  Cardinality({k \in RowsIn(s) : k > n}) = Count(s, Len(s)) - Count(s, n)
<1> DEFINE S == {k \in RowsIn(s) : k <= n}
           B == {k \in RowsIn(s) : k > n}
           A == {k \in RowsIn(s) : k <= Len(s)}
<1>1. IsFiniteSet(A) /\ IsFiniteSet(S)
  BY CountType, RowsAreItems
<1>2. A = S \cup B /\ S \cap B = {} /\ B \in SUBSET A
  BY RowsAreItems
<1>3. IsFiniteSet(B)
  <2> HIDE DEF A, B
  <2> QED BY <1>1, <1>2, FS_Subset
<1>4. Cardinality(A) = Cardinality(S) + Cardinality(B)
  <2>1. Cardinality(S \cup B) = Cardinality(S) + Cardinality(B) - Cardinality(S \cap B)
    <3> HIDE DEF S, B
    <3> QED BY <1>1, <1>3, FS_Union
  <2>2. Cardinality(S \cap B) = 0 /\ Cardinality(S) \in Nat /\ Cardinality(B) \in Nat
    <3> HIDE DEF S, B
    <3> QED BY <1>1, <1>2, <1>3, FS_EmptySet, FS_CardinalityType
  <2> HIDE DEF S, A, B
  <2>3. QED
    BY <1>2, <2>1, <2>2
<1>5. Cardinality(S) \in Nat /\ Cardinality(B) \in Nat
  <2> HIDE DEF S, B
  <2> QED BY <1>1, <1>3, FS_CardinalityType
<1>6. QED
  BY <1>4, <1>5 DEF Count

-----------------------------------------------------------------------------
(* What an item, a row and a request are *)

LEMMA ItemKinds ==
  ASSUME NEW i \in Item
  PROVE  /\ i.tag \in {"RS", "CH", "half", "bad", "FR", "RW"}
         /\ i.tag = "FR" => i.f \in Nat
         /\ i.tag = "RW" => i.image \in Image
  BY DEF Item

LEMMA ItemsMade ==
  /\ \A t \in {"RS", "CH", "half", "bad"} : [tag |-> t] \in Item
  /\ \A f \in Nat : [tag |-> "FR", f |-> f] \in Item
  /\ \A i \in Image : [tag |-> "RW", image |-> i] \in Item
<1>1. \A t \in {"RS", "CH", "half", "bad"} : [tag |-> t] \in Item
  BY DEF Item
<1>2. \A f \in Nat : [tag |-> "FR", f |-> f] \in Item
  BY DEF Item
<1>3. \A i \in Image : [tag |-> "RW", image |-> i] \in Item
  BY DEF Item
<1>4. QED
  BY <1>1, <1>2, <1>3

LEMMA ImageFields ==
  ASSUME NEW i \in Image
  PROVE  /\ i.f \in Nat /\ i.c \in DOMAIN XRes /\ i.x \in Nat /\ i.y \in Nat
         /\ i.v \in Seq(Nat \union {Stray, Missing, Garbled})
  BY DEF Image

\* The image made of a row differs in its channel only.
LEMMA ImageOfStream ==
  ASSUME NEW i \in Image, request \in Requests
  PROVE  OfStream(i) \in Image /\ OfStream(i).f = i.f
<1>1. request.channelID \in DOMAIN XRes
  BY RequestsAssumption DEF Request
<1>2. QED
  BY <1>1 DEF OfStream, Image

LEMMA RowFields ==
  ASSUME NEW p \in DOMAIN Rows
  PROVE  /\ Rows[p].f \in Nat /\ Rows[p].c \in DOMAIN XRes
         /\ Rows[p].x \in Nat /\ Rows[p].y \in Nat /\ Rows[p].w \in Nat \ {0}
         /\ XRes[Rows[p].c] \in Nat \ {0}
<1> DEFINE Row == [f : Nat, c : DOMAIN XRes, x : Nat, y : Nat, w : Nat \ {0}]
<1>1. Rows[p] \in Row
  <2>1. Rows \in Seq(Row)
    BY RowsAssumption
  <2> HIDE DEF Row
  <2>2. QED
    BY <2>1
<1>2. QED
  BY <1>1, ResolutionAssumption

LEMMA RequestFields ==
  ASSUME request \in Requests
  PROVE  /\ request.isChannelRequested \subseteq DOMAIN XRes
         /\ request.bbox.x \in Nat /\ request.bbox.y \in Nat
         /\ request.bbox.width \in Nat /\ request.bbox.height \in Nat
         /\ request.nodata \in BOOLEAN
         /\ Left \in Nat /\ Right \in Nat
<1>1. request \in Request
  BY RequestsAssumption
<1>2. request.bbox \in Box /\ request.isChannelRequested \subseteq DOMAIN XRes
      /\ request.nodata \in BOOLEAN
  BY <1>1 DEF Request
<1>3. QED
  BY <1>2 DEF Box, Left, Right

-----------------------------------------------------------------------------
(* The row clipped to the box *)

LEMMA Division ==
  ASSUME NEW r \in Nat \ {0}, NEW d \in Int
  PROVE  /\ d \div r \in Int
         /\ (d \div r) * r <= d /\ d < (d \div r) * r + r
         /\ d >= 0 => d \div r >= 0
<1>1. /\ d = r * (d \div r) + (d % r)
      /\ d % r \in 0 .. r - 1
      /\ d \div r \in Int
  OBVIOUS
<1>2. (d \div r) * r = r * (d \div r)
  BY <1>1
<1>3. d >= 0 => d \div r >= 0
  OBVIOUS
<1>4. QED
  BY <1>1, <1>2, <1>3

LEMMA Product ==
  ASSUME NEW r \in Nat \ {0}, NEW a \in Int, NEW b \in Int
  PROVE  /\ a * r \in Int /\ b * r \in Int
         /\ (a + b) * r = a * r + b * r
         /\ (a - b) * r = a * r - b * r
         /\ a * r < b * r + r => a <= b
         /\ a >= 0 => a <= a * r
<1>1. a * r \in Int /\ b * r \in Int
  OBVIOUS
<1>2. (a + b) * r = a * r + b * r /\ (a - b) * r = a * r - b * r
  OBVIOUS
<1>3. a * r < b * r + r => a <= b
  <2> SUFFICES ASSUME a >= b + 1 PROVE a * r >= b * r + r
    BY <1>1
  <2>1. (a - b - 1) * r >= 0
    OBVIOUS
  <2>2. (a - b - 1) * r = a * r - b * r - r
    OBVIOUS
  <2>3. QED
    BY <1>1, <2>1, <2>2
<1>4. a >= 0 => a <= a * r
  OBVIOUS
<1>5. QED
  BY <1>1, <1>2, <1>3, <1>4

\* The image starts at the row or to the right of it, and its width is a number.
LEMMA ClippedEdges ==
  ASSUME request \in Requests, NEW p \in DOMAIN Rows
  PROVE  /\ FinalX(Rows[p]) \in Nat /\ FinalX(Rows[p]) >= Rows[p].x
         /\ FinalWidth(Rows[p]) \in Int
<1> DEFINE row == Rows[p]
           r   == XRes[row.c]
<1>1. FinalX(row) \in Nat /\ FinalX(row) >= row.x
  BY RowFields, RequestFields DEF FinalX
<1>2. (Right + 1 - FinalX(row)) \div r \in Int
  <2> DEFINE d == Right + 1 - FinalX(row)
  <2>1. d \in Int /\ r \in Nat \ {0}
    BY <1>1, RequestFields, RowFields
  <2> HIDE DEF d, r
  <2>2. QED
    BY <2>1, Division DEF d
<1>3. row.x + row.w + 1 - FinalX(row) \in Int /\ row.w \in Int
  BY <1>1, RowFields
<1>4. FinalWidth(row) \in Int
  BY <1>2, <1>3 DEF FinalWidth
<1>5. QED
  BY <1>1, <1>4

\* Clipping takes at most one pixel from behind the row's last.
LEMMA ClippedEnd ==
  ASSUME request \in Requests, NEW p \in DOMAIN Rows, FinalWidth(Rows[p]) > 0
  PROVE  (FinalX(Rows[p]) - Rows[p].x) \div XRes[Rows[p].c] + FinalWidth(Rows[p])
           <= Rows[p].w + 1
<1> DEFINE row   == Rows[p]
           r     == XRes[row.c]
           d     == FinalX(row) - row.x
           first == d \div r
           e     == Right + 1 - FinalX(row)
<1>1. r \in Nat \ {0} /\ row.w \in Nat \ {0} /\ row.x \in Nat /\ Right \in Nat
  BY RowFields, RequestFields
<1>2. d \in Nat /\ e \in Int /\ d + e = Right + 1 - row.x
  BY <1>1, ClippedEdges
<1>3. first \in Nat /\ first * r <= d /\ first * r \in Int
  <2> HIDE DEF d, r
  <2>1. d \in Int /\ d >= 0
    BY <1>2
  <2>2. d \div r \in Int /\ (d \div r) * r <= d /\ d \div r >= 0
    BY <1>1, <2>1, Division
  <2> HIDE DEF first
  <2>3. first \in Int /\ first * r <= d /\ first >= 0
    BY <2>2 DEF first
  <2>4. QED
    BY <1>1, <2>3, Product
<1>4. CASE ~HasBox
  <2>1. FinalX(row) = row.x /\ FinalWidth(row) = row.w
    BY <1>4 DEF FinalX, FinalWidth
  <2>2. d = 0
    BY <1>1, <2>1
  <2>3. first = 0
    BY <1>1, <2>2
  <2>4. QED
    BY <1>1, <2>1, <2>3
<1>5. CASE HasBox /\ row.x + row.w * r > Right
  <2>1. FinalWidth(row) = e \div r
    BY <1>5 DEF FinalWidth
  <2>2. e \div r \in Int /\ (e \div r) * r <= e
    <3> HIDE DEF e, r
    <3> QED BY <1>1, <1>2, Division
  <2> DEFINE q == e \div r
  <2> HIDE DEF q, first, e, d
  <2>3. (first + q) * r = first * r + q * r /\ q * r \in Int
    <3> HIDE DEF r
    <3> QED BY <1>1, <1>3, <2>2, Product DEF q
  <2>4. row.w * r \in Int
    <3> HIDE DEF r
    <3> QED BY <1>1
  <2>5. (first + q) * r < row.w * r + r
    <3> HIDE DEF r
    <3> QED BY <1>1, <1>2, <1>3, <1>5, <2>2, <2>3, <2>4 DEF q
  <2>6. first + q <= row.w
    <3> DEFINE n == first + q
    <3>1. n \in Int /\ n * r < row.w * r + r
      BY <1>3, <2>2, <2>5 DEF q
    <3> HIDE DEF r, n
    <3>2. n <= row.w
      BY <1>1, <3>1, Product
    <3>3. QED
      BY <3>2 DEF n
  <2>7. QED
    BY <1>1, <1>3, <2>1, <2>2, <2>6 DEF q, first, d
<1>6. CASE HasBox /\ ~(row.x + row.w * r > Right)
  <2>1. FinalWidth(row) = row.x + row.w + 1 - FinalX(row)
    BY <1>6 DEF FinalWidth
  <2>2. FinalWidth(row) = row.w + 1 - d
    BY <1>1, <2>1, ClippedEdges
  <2>3. first <= d
    <3> HIDE DEF first, d, r
    <3> QED BY <1>1, <1>2, <1>3, Product
  <2>4. QED
    BY <1>1, <1>2, <1>3, <2>2, <2>3
<1>7. QED
  BY <1>4, <1>5, <1>6

\* What the image sent for a row is made of.
LEMMA ClippedParts ==
  ASSUME request \in Requests, NEW p \in DOMAIN Rows, Wanted(Rows[p])
  PROVE  LET row   == Rows[p]
             image == Clipped(row)
             first == (FinalX(row) - row.x) \div XRes[row.c]
         IN  /\ image.f = row.f /\ image.c = row.c /\ image.y = row.y
             /\ image.x = FinalX(row)
             /\ request.nodata => image.v = <<>>
             /\ ~request.nodata =>
                  /\ Len(image.v) = FinalWidth(row) /\ DOMAIN image.v = 1 .. FinalWidth(row)
                  /\ \A k \in 1 .. FinalWidth(row) : image.v[k] = Pixel(row, first + k - 1)
             /\ FinalWidth(row) \in Nat \ {0} /\ first \in Nat
             /\ image \in Image
<1> DEFINE row   == Rows[p]
           image == Clipped(row)
           r     == XRes[row.c]
           d     == FinalX(row) - row.x
           first == d \div r
           width == FinalWidth(row)
           v     == [k \in 1 .. width |-> Pixel(row, first + k - 1)]
<1>1. width \in Nat \ {0}
  BY ClippedEdges DEF Wanted
<1>2. r \in Nat \ {0} /\ row.x \in Nat /\ row.w \in Nat \ {0}
  BY RowFields
<1>3. first \in Nat
  <2>1. d \in Int /\ d >= 0
    BY <1>2, ClippedEdges
  <2> HIDE DEF d, r
  <2>2. d \div r \in Int /\ d \div r >= 0
    BY <1>2, <2>1, Division
  <2>3. QED
    BY <2>2
<1>4. \A k \in 1 .. width : Pixel(row, first + k - 1) \in Nat \union {Stray}
  <2> SUFFICES ASSUME NEW k \in 1 .. width
               PROVE  Pixel(row, first + k - 1) \in Nat \union {Stray}
    OBVIOUS
  <2> DEFINE n == first + k - 1
  <2>1. n \in Nat
    BY <1>1, <1>3
  <2> HIDE DEF n, first
  <2>2. n * r \in Nat
    <3> HIDE DEF r
    <3> QED BY <1>2, <2>1
  <2>3. Pixel(row, n) \in Nat \union {Stray}
    BY <1>2, <2>2 DEF Pixel
  <2>4. QED
    BY <2>3 DEF n
<1>5. v \in Seq(Nat \union {Stray, Missing, Garbled}) /\ Len(v) = width /\ DOMAIN v = 1 .. width
  <2> HIDE DEF width, first
  <2> QED BY <1>1, <1>4
<1>6. image = [f |-> row.f, c |-> row.c, x |-> FinalX(row), y |-> row.y,
               v |-> IF request.nodata THEN <<>> ELSE v]
  BY DEF Clipped
<1>7. /\ image.f = row.f /\ image.c = row.c /\ image.y = row.y /\ image.x = FinalX(row)
      /\ image.v = IF request.nodata THEN <<>> ELSE v
  <2> HIDE DEF v
  <2> QED BY <1>6
<1>8. image \in Image
  <2> HIDE DEF v, row
  <2>1. row.f \in Nat /\ row.c \in DOMAIN XRes /\ row.y \in Nat /\ FinalX(row) \in Nat
    BY RowFields, ClippedEdges DEF row
  <2>2. QED
    BY <1>5, <1>6, <2>1 DEF Image
<1>9. ~request.nodata => \A k \in 1 .. width : image.v[k] = Pixel(row, first + k - 1)
  <2> HIDE DEF image, first, width
  <2> QED BY <1>7
<1>10. QED
  <2> HIDE DEF image, v
  <2> QED BY <1>1, <1>3, <1>5, <1>7, <1>8, <1>9 DEF image

\* A frame has one row of a channel at a line, so an image has one source.
LEMMA SourceOfClipped ==
  ASSUME request \in Requests, NEW p \in DOMAIN Rows, Wanted(Rows[p])
  PROVE  Source(Clipped(Rows[p])) = Rows[p]
<1> DEFINE image == Clipped(Rows[p])
<1>1. image.f = Rows[p].f /\ image.c = Rows[p].c /\ image.y = Rows[p].y
  BY ClippedParts
<1> HIDE DEF image
<1>2. DOMAIN Rows \subseteq Int
  BY RowsAssumption
<1>3. \A q \in DOMAIN Rows :
        <<Rows[q].f, Rows[q].c, Rows[q].y>> = <<image.f, image.c, image.y>> => q = p
  BY <1>1, <1>2, ScanAssumption
<1>4. \A row \in {Rows[q] : q \in DOMAIN Rows} :
        <<row.f, row.c, row.y>> = <<image.f, image.c, image.y>> => row = Rows[p]
  BY <1>3
<1>5. Rows[p] \in {Rows[q] : q \in DOMAIN Rows}
      /\ <<Rows[p].f, Rows[p].c, Rows[p].y>> = <<image.f, image.c, image.y>>
  BY <1>1
<1>6. Source(image) = Rows[p]
  BY <1>4, <1>5 DEF Source
<1>7. QED
  BY <1>6 DEF image

\* Each pixel of a clipped row is at the column it was seen at, and only the
\* last may be stray.
LEMMA ClippedPixelsInPlace ==
  ASSUME request \in Requests, NEW p \in DOMAIN Rows, Wanted(Rows[p]), ~request.nodata,
         NEW k \in 1 .. FinalWidth(Rows[p])
  PROVE  LET row    == Rows[p]
             image  == Clipped(row)
             res    == XRes[row.c]
             column == FinalX(row) + (k - 1) * res
         IN  IF image.v[k] = Stray
             THEN k = FinalWidth(row) /\ column + res > row.x + row.w * res
             ELSE image.v[k] <= column /\ column < image.v[k] + res
<1> DEFINE row    == Rows[p]
           image  == Clipped(row)
           r      == XRes[row.c]
           d      == FinalX(row) - row.x
           first  == d \div r
           column == FinalX(row) + (k - 1) * r
           n      == first + k - 1
<1>1. /\ image.v[k] = Pixel(row, n) /\ FinalWidth(row) \in Nat \ {0} /\ first \in Nat
  BY ClippedParts
<1>2. r \in Nat \ {0} /\ row.x \in Nat /\ row.w \in Nat \ {0}
  BY RowFields
<1>3. d \in Nat /\ FinalX(row) = row.x + d
  BY <1>2, ClippedEdges
<1>4. first + FinalWidth(row) <= row.w + 1
  BY <1>1, ClippedEnd
<1>5. first * r <= d /\ d < first * r + r /\ first * r \in Int
  <2> HIDE DEF d, r
  <2>1. (d \div r) * r <= d /\ d < (d \div r) * r + r
    BY <1>2, <1>3, Division
  <2>2. first * r <= d /\ d < first * r + r
    BY <2>1
  <2> HIDE DEF first
  <2>3. QED
    BY <1>1, <1>2, <2>2
<1>6. n \in Nat /\ k - 1 \in Nat /\ k <= FinalWidth(row)
  BY <1>1
<1> HIDE DEF first, d, r
<1>7. n * r = first * r + (k - 1) * r /\ (k - 1) * r \in Int /\ n * r \in Int
  <2>1. \A a, b \in Int : (a + b) * r = a * r + b * r /\ a * r \in Int
    BY <1>2, Product
  <2>2. n = first + (k - 1)
    BY <1>1, <1>6
  <2>3. QED
    BY <1>1, <1>6, <2>1, <2>2
<1>8. CASE n < row.w
  <2>1. image.v[k] = row.x + n * r
    BY <1>1, <1>8 DEF Pixel, r
  <2>2. image.v[k] # Stray
    <3>1. n * r >= 0
      BY <1>2, <1>6
    <3> HIDE DEF n
    <3>2. QED
      BY <1>2, <1>7, <2>1, <3>1 DEF Stray
  <2>3. image.v[k] <= column /\ column < image.v[k] + r
    <3> HIDE DEF n, row, image
    <3> DEFINE a == first * r
               b == (k - 1) * r
               c == n * r
    <3> HIDE DEF a, b, c
    <3>1. c = a + b /\ a \in Int /\ b \in Int /\ a <= d /\ d < a + r
      BY <1>5, <1>7 DEF a, b, c
    <3>2. image.v[k] = row.x + c /\ column = row.x + d + b
      BY <1>3, <2>1 DEF b, c
    <3> HIDE DEF column
    <3>3. QED
      BY <1>2, <1>3, <3>1, <3>2
  <2>4. QED
    BY <2>2, <2>3 DEF r
<1>9. CASE ~(n < row.w)
  <2>1. image.v[k] = Stray
    BY <1>1, <1>9 DEF Pixel, r
  <2>2. k = FinalWidth(row)
    BY <1>1, <1>2, <1>4, <1>6, <1>9
  <2>3. row.w * r <= n * r /\ row.w * r \in Int
    <3> HIDE DEF n, row
    <3>1. (n - row.w) * r >= 0
      BY <1>2, <1>6, <1>9
    <3>2. (n - row.w) * r = n * r - row.w * r /\ row.w * r \in Int
      BY <1>2, <1>6, Product
    <3>3. QED
      BY <1>7, <3>1, <3>2
  <2>4. column + r > row.x + row.w * r
    <3> HIDE DEF n, row, image
    <3> DEFINE a == first * r
               b == (k - 1) * r
               c == n * r
               e == row.w * r
    <3> HIDE DEF a, b, c, e
    <3>1. c = a + b /\ a \in Int /\ b \in Int /\ a <= d /\ e <= c /\ e \in Int
      BY <1>5, <1>7, <2>3 DEF a, b, c, e
    <3>2. column = row.x + d + b
      BY <1>3 DEF b
    <3> HIDE DEF column
    <3>3. column + r > row.x + e
      BY <1>2, <1>3, <3>1, <3>2
    <3>4. QED
      BY <3>3 DEF e
  <2>5. QED
    BY <2>1, <2>2, <2>4 DEF r
<1>10. QED
  BY <1>8, <1>9

\* At full resolution no column of the row that is in the box is missing.
LEMMA ClippedColumnsThere ==
  ASSUME request \in Requests, NEW p \in DOMAIN Rows, Wanted(Rows[p]), ~request.nodata,
         XRes[Rows[p].c] = 1,
         NEW column \in Rows[p].x .. Rows[p].x + Rows[p].w - 1,
         ~HasBox \/ column \in Left .. Right - 1
  PROVE  \E k \in 1 .. FinalWidth(Rows[p]) : Clipped(Rows[p]).v[k] = column
<1> DEFINE row   == Rows[p]
           first == (FinalX(row) - row.x) \div XRes[row.c]
           k     == column - FinalX(row) + 1
<1>1. /\ row.x \in Nat /\ row.w \in Nat \ {0} /\ Left \in Nat /\ Right \in Nat
      /\ FinalX(row) \in Nat /\ FinalX(row) >= row.x /\ FinalWidth(row) \in Nat \ {0}
  BY RowFields, RequestFields, ClippedEdges, ClippedParts
<1>2. FinalX(row) <= column
  BY <1>1 DEF FinalX
<1>3. first = FinalX(row) - row.x
  BY <1>1
<1>4. k <= FinalWidth(row)
  <2>1. CASE ~HasBox
    BY <1>1, <2>1 DEF FinalWidth, FinalX
  <2>2. CASE HasBox /\ row.x + row.w * XRes[row.c] > Right
    <3>1. FinalWidth(row) = Right + 1 - FinalX(row)
      BY <1>1, <2>2 DEF FinalWidth
    <3>2. QED
      BY <1>1, <2>2, <3>1
  <2>3. CASE HasBox /\ ~(row.x + row.w * XRes[row.c] > Right)
    <3>1. FinalWidth(row) = row.x + row.w + 1 - FinalX(row)
      BY <1>1, <2>3 DEF FinalWidth
    <3>2. QED
      BY <1>1, <3>1
  <2>4. QED
    BY <2>1, <2>2, <2>3
<1>5. k \in 1 .. FinalWidth(row)
  BY <1>1, <1>2, <1>4
<1>6. Clipped(row).v[k] = Pixel(row, first + k - 1)
  <2> HIDE DEF k
  <2> QED BY <1>5, ClippedParts
<1>7. first + k - 1 = column - row.x
  BY <1>1, <1>3
<1>8. Pixel(row, column - row.x) = column
  BY <1>1 DEF Pixel
<1>9. QED
  <2> HIDE DEF k, first
  <2> QED BY <1>5, <1>6, <1>7, <1>8

\* Every row sent is in place.
LEMMA RowsClippedInPlace ==
  ASSUME request \in Requests, RowsClipped
  PROVE  PixelsInPlace
<1> SUFFICES ASSUME NEW i \in DOMAIN arriving
             PROVE  LET image == arriving[i]
                        row   == Source(image)
                        res   == XRes[image.c]
                    IN  /\ \A k \in DOMAIN image.v :
                             LET column == image.x + (k - 1) * res
                             IN  IF image.v[k] = Stray
                                 THEN k = Len(image.v) /\ column + res > row.x + row.w * res
                                 ELSE image.v[k] <= column /\ column < image.v[k] + res
                        /\ res = 1 /\ ~request.nodata =>
                             \A column \in row.x .. row.x + row.w - 1 :
                               ~HasBox \/ column \in Left .. Right - 1 =>
                                 \E k \in DOMAIN image.v : image.v[k] = column
  BY DEF PixelsInPlace
<1>1. PICK p \in DOMAIN Rows : Wanted(Rows[p]) /\ arriving[i] = Clipped(Rows[p])
  BY DEF RowsClipped
<1>2. Source(arriving[i]) = Rows[p]
  BY <1>1, SourceOfClipped
<1> DEFINE image == arriving[i]
           row   == Rows[p]
           res   == XRes[row.c]
<1>3. /\ image.c = row.c /\ image.x = FinalX(row)
      /\ request.nodata => image.v = <<>>
      /\ ~request.nodata => Len(image.v) = FinalWidth(row) /\ DOMAIN image.v = 1 .. FinalWidth(row)
  BY <1>1, ClippedParts
<1>4. ASSUME NEW k \in DOMAIN image.v
      PROVE  LET column == image.x + (k - 1) * res
             IN  IF image.v[k] = Stray
                 THEN k = Len(image.v) /\ column + res > row.x + row.w * res
                 ELSE image.v[k] <= column /\ column < image.v[k] + res
  <2>1. ~request.nodata
    BY <1>3
  <2>2. QED
    BY <1>1, <1>3, <2>1, ClippedPixelsInPlace
<1>5. ASSUME res = 1, ~request.nodata, NEW column \in row.x .. row.x + row.w - 1,
             ~HasBox \/ column \in Left .. Right - 1
      PROVE  \E k \in DOMAIN image.v : image.v[k] = column
  BY <1>1, <1>3, <1>5, ClippedColumnsThere
<1> HIDE DEF image, row
<1>6. QED
  BY <1>2, <1>3, <1>4, <1>5 DEF image, row

-----------------------------------------------------------------------------
(* Types *)

\* A row of text is cut at a pixel, or before the first.
LEMMA ShortenedCases ==
  ASSUME NEW image, NEW i \in Shortened(image)
  PROVE  \/ \E p \in 0 .. Len(image.v) - 1, g \in {Missing, Garbled} :
               i = CutAt(image, p, g)
         \/ \E n \in {Len(image.v) \div 10} \ {0} : i = NarrowTo(image, n)
<1> DEFINE A == {CutAt(image, p, g) : p \in 0 .. Len(image.v) - 1, g \in {Missing, Garbled}}
           B == {NarrowTo(image, n) : n \in {Len(image.v) \div 10} \ {0}}
<1>1. i \in A \/ i \in B
  <2>1. Shortened(image) = A \union B
    BY DEF Shortened
  <2> HIDE DEF A, B
  <2>2. QED
    BY <2>1
<1>2. i \in A => \E p \in 0 .. Len(image.v) - 1, g \in {Missing, Garbled} : i = CutAt(image, p, g)
  BY DEF Missing, Garbled
<1>3. i \in B => \E n \in {Len(image.v) \div 10} \ {0} : i = NarrowTo(image, n)
  OBVIOUS
<1> HIDE DEF A, B
<1>4. QED
  BY <1>1, <1>2, <1>3

\* A row of text that lost its end is an image still, of the same frame.
LEMMA ShortenedType ==
  ASSUME NEW image \in Image, NEW i \in Shortened(image)
  PROVE  i \in Image /\ i.f = image.f
<1> DEFINE V == Nat \union {Stray, Missing, Garbled}
           w == Len(image.v)
<1>1. image.v \in Seq(V) /\ w \in Nat
  <2>1. image.v \in Seq(V)
    BY ImageFields
  <2> HIDE DEF V
  <2>2. QED
    BY <2>1
<1>2. \E v \in Seq(V) : i = [image EXCEPT !.v = v]
  <2>1. CASE \E p \in 0 .. w - 1, g \in {Missing, Garbled} :
               i = CutAt(image, p, g)
    <3>1. PICK p \in 0 .. w - 1, g \in {Missing, Garbled} :
               i = CutAt(image, p, g)
      BY <2>1
    <3>2. g \in V /\ Missing \in V
      OBVIOUS
    <3> DEFINE v == [k \in DOMAIN image.v |-> IF k <= p THEN image.v[k]
                                              ELSE IF k = p + 1 THEN g ELSE Missing]
    <3>3. i = [image EXCEPT !.v = v]
      BY <3>1, Zenon DEF CutAt
    <3>4. v \in Seq(V)
      <4> HIDE DEF V
      <4>1. \A k \in DOMAIN image.v : image.v[k] \in V
        BY <1>1
      <4>2. v \in [1 .. w -> V]
        BY <1>1, <3>2, <4>1
      <4> HIDE DEF v
      <4>3. QED
        BY <1>1, <4>2
    <3> HIDE DEF v
    <3>5. QED
      BY <3>3, <3>4
  <2>2. CASE \E n \in {w \div 10} \ {0} : i = NarrowTo(image, n)
    <3>1. PICK n \in {w \div 10} \ {0} : i = NarrowTo(image, n)
      BY <2>2
    <3>2. n \in Nat
      <4> HIDE DEF w
      <4> QED BY <1>1, <3>1
    <3> DEFINE v == [k \in 1 .. n |-> Missing]
    <3>3. v \in Seq(V)
      BY <3>2
    <3> HIDE DEF V, v
    <3>4. i = [image EXCEPT !.v = v]
      BY <3>1, Zenon DEF v, NarrowTo
    <3>5. QED
      BY <3>3, <3>4
  <2>3. \/ \E p \in 0 .. w - 1, g \in {Missing, Garbled} :
               i = CutAt(image, p, g)
        \/ \E n \in {w \div 10} \ {0} : i = NarrowTo(image, n)
    BY ShortenedCases
  <2>4. QED
    BY <2>1, <2>2, <2>3
<1>3. PICK v \in Seq(V) : i = [image EXCEPT !.v = v]
  BY <1>2
<1> HIDE DEF V
<1>4. i \in Image
  BY <1>3 DEF Image, V
<1>5. i.f = image.f
  BY <1>3 DEF Image
<1>6. QED
  BY <1>4, <1>5

\* What may come of an item: at most one item, which is cut, the same, or a row
\* of text of the same frame.
LEMMA BrokenItem ==
  ASSUME NEW item \in Item, NEW how \in {"eof", "reset"}, NEW rest \in Broken(item, how)
  PROVE  /\ rest \in Seq(Item) /\ Len(rest) \in {0, 1}
         /\ Len(rest) = 1 =>
              \/ rest[1].tag \in {"half", "bad"}
              \/ /\ ~Binary /\ how = "eof"
                 /\ rest[1].tag = item.tag
                 /\ item.tag # "RW" => rest[1] = item
                 /\ item.tag = "RW" => rest[1].image.f = item.image.f
<1>1. CASE rest = <<>>
  BY <1>1
<1>2. CASE rest \in {<<[tag |-> "half"]>>, <<[tag |-> "bad"]>>}
  <2>1. PICK t \in {"half", "bad"} : rest = <<[tag |-> t]>>
    BY <1>2
  <2>2. [tag |-> t] \in Item
    BY ItemsMade
  <2>3. QED
    BY <2>1, <2>2
<1>3. CASE ~Binary /\ how = "eof" /\ item.tag # "RW" /\ rest = <<item>>
  BY <1>3
<1>4. CASE ~Binary /\ how = "eof" /\ item.tag = "RW"
           /\ \E i \in Shortened(item.image) : rest = <<[tag |-> "RW", image |-> i]>>
  <2>1. PICK i \in Shortened(item.image) : rest = <<[tag |-> "RW", image |-> i]>>
    BY <1>4
  <2>2. i \in Image /\ i.f = item.image.f
    BY <1>4, ItemKinds, ShortenedType
  <2>3. [tag |-> "RW", image |-> i] \in Item
    BY <2>2, ItemsMade
  <2>4. QED
    BY <1>4, <2>1, <2>2, <2>3
<1>5. QED
  BY <1>1, <1>2, <1>3, <1>4 DEF Broken

\* The rows that are kept are the first of those that were there.
LEMMA ArrivingCut ==
  ASSUME TypeOK, NEW n \in 0 .. Len(wire)
  PROVE  LET m    == Cardinality({k \in RowsIn(wire) : k > n})
             kept == SubSeq(arriving, 1, Len(arriving) - m)
         IN  /\ m \in Nat
             /\ kept \in Seq(Image)
             /\ m <= Len(arriving) => Len(kept) = Len(arriving) - m
             /\ DOMAIN kept \subseteq DOMAIN arriving
             /\ \A i \in DOMAIN kept : kept[i] = arriving[i]
<1> DEFINE m == Cardinality({k \in RowsIn(wire) : k > n})
<1>1. wire \in Seq(Item) /\ arriving \in Seq(Image)
  BY DEF TypeOK
<1>2. m \in Nat
  <2>1. n \in Int /\ Len(wire) \in Int /\ n <= Len(wire)
    BY <1>1, RowsAreItems
  <2>2. Count(wire, Len(wire)) \in Nat /\ Count(wire, n) \in Nat
    BY <1>1, <2>1, CountType
  <2>3. Count(wire, n) <= Count(wire, Len(wire))
    BY <1>1, <2>1, CountGrows
  <2>4. m = Count(wire, Len(wire)) - Count(wire, n)
    BY <1>1, CountBehind
  <2>5. QED
    BY <2>2, <2>3, <2>4
<1>3. \A s \in Seq(Image), j \in Nat :
        LET kept == SubSeq(s, 1, Len(s) - j)
        IN  /\ kept \in Seq(Image)
            /\ j <= Len(s) => Len(kept) = Len(s) - j
            /\ DOMAIN kept \subseteq DOMAIN s
            /\ \A i \in DOMAIN kept : kept[i] = s[i]
  OBVIOUS
<1> HIDE DEF m
<1>4. QED
  BY <1>1, <1>2, <1>3 DEF m

-----------------------------------------------------------------------------
(* What the steps do to the wire, the rows written and the images *)

\* A new row is written behind what is on the wire, and behind its frame.
LEMMA RowWritten ==
  ASSUME TypeOK, WriteRow
  PROVE  LET row == Rows[pos + 1]
             fr  == IF NewFrame(row) THEN 1 ELSE 0
             rw  == IF Wanted(row) THEN 1 ELSE 0
         IN  /\ pos + 1 \in DOMAIN Rows /\ pos + 1 \in Nat
             /\ wire' \in Seq(Item) /\ Len(wire') = Len(wire) + fr + rw
             /\ \A k \in 1 .. Len(wire) : wire'[k] = wire[k]
             /\ NewFrame(row) =>
                  /\ wire'[Len(wire) + 1].tag = "FR"
                  /\ wire'[Len(wire) + 1].f \in Nat /\ wire'[Len(wire) + 1].f >= row.f
             /\ Wanted(row) =>
                  /\ wire'[Len(wire) + fr + 1].tag = "RW"
                  /\ wire'[Len(wire) + fr + 1].image = Clipped(row)
             /\ arriving' \in Seq(Image) /\ Len(arriving') = Len(arriving) + rw
             /\ \A i \in 1 .. Len(arriving) : arriving'[i] = arriving[i]
             /\ Wanted(row) => arriving'[Len(arriving) + 1] = Clipped(row)
<1> DEFINE row == Rows[pos + 1]
           fr  == IF NewFrame(row) THEN 1 ELSE 0
           rw  == IF Wanted(row) THEN 1 ELSE 0
           rws == IF Wanted(row) THEN <<Clipped(row)>> ELSE <<>>
           its == [k \in DOMAIN rws |-> [tag |-> "RW", image |-> rws[k]]]
<1>1. wire \in Seq(Item) /\ arriving \in Seq(Image) /\ request \in Requests
  BY DEF TypeOK
<1>2. pos + 1 \in DOMAIN Rows /\ pos \in Nat /\ Len(Rows) \in Nat
  <2>1. pos \in 0 .. Len(Rows) /\ pos < Len(Rows)
    BY DEF TypeOK, WriteRow
  <2>2. Len(Rows) \in Nat /\ DOMAIN Rows = 1 .. Len(Rows)
    BY RowsAssumption
  <2>3. QED
    BY <2>1, <2>2
<1>3. PICK i \in pos + 1 .. Len(Rows) :
        wire' = wire \o (IF NewFrame(row) THEN <<[tag |-> "FR", f |-> Rows[i].f]>> ELSE <<>>)
                     \o its
  BY Zenon DEF WriteRow
<1>4. arriving' = arriving \o rws
  BY DEF WriteRow
<1>5. i \in DOMAIN Rows /\ Rows[i].f \in Nat /\ row.f \in Nat /\ Rows[i].f >= row.f
  <2>1. i \in DOMAIN Rows
    BY <1>2, RowsAssumption
  <2>2. Rows[i].f \in Nat /\ row.f \in Nat
    BY <1>2, <2>1, RowFields
  <2>3. i > pos + 1 => Rows[pos + 1].f <= Rows[i].f
    BY <1>2, <2>1, ScanAssumption
  <2>4. QED
    BY <1>2, <2>1, <2>2, <2>3
<1> DEFINE frame == [tag |-> "FR", f |-> Rows[i].f]
           frs   == IF NewFrame(row) THEN <<frame>> ELSE <<>>
<1>6. frame \in Item /\ frame.tag = "FR" /\ frame.f = Rows[i].f
  BY <1>5, ItemsMade
<1>7. Wanted(row) => Clipped(row) \in Image
  BY <1>1, <1>2, ClippedParts
<1> HIDE DEF frame, row
<1>8. frs \in Seq(Item) /\ Len(frs) = fr /\ (NewFrame(row) => frs[1] = frame)
  BY <1>6, OneItem
<1>9. rws \in Seq(Image) /\ Len(rws) = rw /\ (Wanted(row) => rws[1] = Clipped(row))
  BY <1>7, OneItem
<1>10. its \in Seq(Item) /\ Len(its) = rw
       /\ (Wanted(row) => its[1].tag = "RW" /\ its[1].image = Clipped(row))
  <2>1. CASE Wanted(row)
    <3> DEFINE item == [tag |-> "RW", image |-> Clipped(row)]
    <3>1. item \in Item /\ item.tag = "RW" /\ item.image = Clipped(row)
      BY <1>7, <2>1, ItemsMade
    <3>2. its = <<item>>
      BY <2>1
    <3> HIDE DEF item
    <3>3. QED
      BY <2>1, <3>1, <3>2
  <2>2. CASE ~Wanted(row)
    BY <2>2
  <2>3. QED
    BY <2>1, <2>2
<1>11. wire' = wire \o frs \o its
  BY <1>3 DEF frame
<1> DEFINE w1 == wire \o frs
<1> HIDE DEF frs, rws, its, fr, rw
<1>12. /\ wire' \in Seq(Item) /\ Len(wire') = Len(wire) + fr + rw
       /\ \A k \in 1 .. Len(wire) : wire'[k] = wire[k]
       /\ NewFrame(row) => wire'[Len(wire) + 1] = frs[1]
       /\ Wanted(row) => wire'[Len(wire) + fr + 1] = its[1]
  <2>1. /\ w1 \in Seq(Item) /\ Len(w1) = Len(wire) + fr
        /\ Len(wire) \in Nat /\ fr \in Nat
        /\ \A k \in 1 .. Len(wire) : w1[k] = wire[k]
        /\ \A k \in 1 .. fr : w1[Len(wire) + k] = frs[k]
    BY <1>1, <1>8, Appended
  <2>2. wire' = w1 \o its
    BY <1>11
  <2> HIDE DEF w1
  <2>3. /\ wire' \in Seq(Item) /\ Len(wire') = Len(w1) + rw /\ rw \in Nat
        /\ \A k \in 1 .. Len(w1) : wire'[k] = w1[k]
        /\ \A k \in 1 .. rw : wire'[Len(w1) + k] = its[k]
    <3>1. /\ wire' \in Seq(Item) /\ Len(wire') = Len(w1) + Len(its)
          /\ \A k \in 1 .. Len(w1) : wire'[k] = w1[k]
          /\ \A k \in 1 .. Len(its) : wire'[Len(w1) + k] = its[k]
      <4>1. w1 \in Seq(Item) /\ its \in Seq(Item) /\ wire' = w1 \o its
        BY <1>10, <2>1, <2>2
      <4>2. QED
        BY ONLY <4>1, Appended
    <3>2. rw \in Nat
      BY DEF rw
    <3>3. QED
      BY <1>10, <3>1, <3>2
  <2>4. NewFrame(row) => wire'[Len(wire) + 1] = frs[1]
    BY <2>1, <2>3 DEF fr
  <2>5. Wanted(row) => wire'[Len(wire) + fr + 1] = its[1]
    BY <2>1, <2>3 DEF rw
  <2>6. QED
    BY <2>1, <2>3, <2>4, <2>5
<1>13. /\ arriving' \in Seq(Image) /\ Len(arriving') = Len(arriving) + rw
       /\ \A k \in 1 .. Len(arriving) : arriving'[k] = arriving[k]
       /\ Wanted(row) => arriving'[Len(arriving) + 1] = rws[1]
  <2>1. /\ arriving' \in Seq(Image) /\ Len(arriving') = Len(arriving) + rw
        /\ \A k \in 1 .. Len(arriving) : arriving'[k] = arriving[k]
        /\ \A k \in 1 .. rw : arriving'[Len(arriving) + k] = rws[k]
    <3>1. /\ arriving' \in Seq(Image) /\ Len(arriving') = Len(arriving) + Len(rws)
          /\ \A k \in 1 .. Len(arriving) : arriving'[k] = arriving[k]
          /\ \A k \in 1 .. Len(rws) : arriving'[Len(arriving) + k] = rws[k]
      <4>1. arriving \in Seq(Image) /\ rws \in Seq(Image) /\ arriving' = arriving \o rws
        BY <1>1, <1>4, <1>9
      <4>2. QED
        BY ONLY <4>1, Appended
    <3>2. QED
      BY <1>9, <3>1
  <2>2. Wanted(row) => arriving'[Len(arriving) + 1] = rws[1]
    BY <2>1 DEF rw
  <2>3. QED
    BY <2>1, <2>2
<1>14. /\ NewFrame(row) => /\ wire'[Len(wire) + 1].tag = "FR"
                           /\ wire'[Len(wire) + 1].f \in Nat /\ wire'[Len(wire) + 1].f >= row.f
       /\ Wanted(row) => /\ wire'[Len(wire) + fr + 1].tag = "RW"
                         /\ wire'[Len(wire) + fr + 1].image = Clipped(row)
                         /\ arriving'[Len(arriving) + 1] = Clipped(row)
  BY <1>5, <1>6, <1>8, <1>9, <1>10, <1>12, <1>13
<1>15. /\ pos + 1 \in DOMAIN Rows /\ pos + 1 \in Nat
       /\ wire' \in Seq(Item) /\ Len(wire') = Len(wire) + fr + rw
       /\ \A k \in 1 .. Len(wire) : wire'[k] = wire[k]
       /\ NewFrame(row) =>
            /\ wire'[Len(wire) + 1].tag = "FR"
            /\ wire'[Len(wire) + 1].f \in Nat /\ wire'[Len(wire) + 1].f >= row.f
       /\ Wanted(row) =>
            /\ wire'[Len(wire) + fr + 1].tag = "RW"
            /\ wire'[Len(wire) + fr + 1].image = Clipped(row)
       /\ arriving' \in Seq(Image) /\ Len(arriving') = Len(arriving) + rw
       /\ \A k \in 1 .. Len(arriving) : arriving'[k] = arriving[k]
       /\ Wanted(row) => arriving'[Len(arriving) + 1] = Clipped(row)
  BY <1>2, <1>12, <1>13, <1>14
<1>16. QED
  BY <1>15, Zenon DEF row, fr, rw

\* The header is one reference space and channel definitions.
LEMMA HeaderWritten ==
  ASSUME TypeOK, WriteHeader
  PROVE  /\ wire' \in Seq(Item) /\ Len(wire') >= Len(wire) + 1
         /\ \A k \in 1 .. Len(wire) : wire'[k] = wire[k]
         /\ wire'[Len(wire) + 1].tag = "RS"
         /\ \A k \in Len(wire) + 2 .. Len(wire') : wire'[k].tag = "CH"
<1> DEFINE n   == Cardinality(request.isChannelRequested)
           chs == [i \in 1 .. n |-> [tag |-> "CH"]]
           rs  == [tag |-> "RS"]
<1>1. wire \in Seq(Item) /\ request \in Requests
  BY DEF TypeOK
<1>2. n \in Nat
  <2>1. IsFiniteSet(request.isChannelRequested)
    BY <1>1, RequestFields, ResolutionAssumption, FS_Subset
  <2>2. QED
    BY <2>1, FS_CardinalityType
<1>3. rs \in Item /\ rs.tag = "RS" /\ [tag |-> "CH"] \in Item
  BY ItemsMade
<1>4. chs \in Seq(Item) /\ Len(chs) = n /\ \A k \in 1 .. n : chs[k].tag = "CH"
  <2> HIDE DEF n
  <2> QED BY <1>2, <1>3
<1>5. wire' = wire \o <<rs>> \o chs
  BY DEF WriteHeader
<1> HIDE DEF n, chs, rs
<1>6. /\ wire' \in Seq(Item) /\ Len(wire') = Len(wire) + 1 + n
      /\ \A k \in 1 .. Len(wire) : wire'[k] = wire[k]
      /\ wire'[Len(wire) + 1] = rs
      /\ \A k \in 1 .. n : wire'[Len(wire) + 1 + k] = chs[k]
  <2> DEFINE w1 == wire \o <<rs>>
             r1 == <<rs>>
  <2>1. r1 \in Seq(Item) /\ Len(r1) = 1 /\ r1[1] = rs
    BY <1>3, OneItem
  <2>2. w1 = wire \o r1 /\ wire' = w1 \o chs
    BY <1>5
  <2> HIDE DEF w1, r1
  <2>3. /\ w1 \in Seq(Item) /\ Len(w1) = Len(wire) + 1 /\ Len(wire) \in Nat
        /\ \A k \in 1 .. Len(wire) : w1[k] = wire[k]
        /\ w1[Len(wire) + 1] = rs
    <3>1. /\ w1 \in Seq(Item) /\ Len(w1) = Len(wire) + Len(r1) /\ Len(wire) \in Nat
          /\ \A k \in 1 .. Len(wire) : w1[k] = wire[k]
          /\ \A k \in 1 .. Len(r1) : w1[Len(wire) + k] = r1[k]
      <4>1. wire \in Seq(Item) /\ r1 \in Seq(Item) /\ w1 = wire \o r1
        BY <1>1, <2>1, <2>2
      <4>2. QED
        BY ONLY <4>1, Appended
    <3>2. QED
      BY <2>1, <3>1
  <2>4. /\ wire' \in Seq(Item) /\ Len(wire') = Len(w1) + n
        /\ \A k \in 1 .. Len(w1) : wire'[k] = w1[k]
        /\ \A k \in 1 .. n : wire'[Len(w1) + k] = chs[k]
    <3>1. /\ wire' \in Seq(Item) /\ Len(wire') = Len(w1) + Len(chs)
          /\ \A k \in 1 .. Len(w1) : wire'[k] = w1[k]
          /\ \A k \in 1 .. Len(chs) : wire'[Len(w1) + k] = chs[k]
      <4>1. w1 \in Seq(Item) /\ chs \in Seq(Item) /\ wire' = w1 \o chs
        BY <1>4, <2>2, <2>3
      <4>2. QED
        BY ONLY <4>1, Appended
    <3>2. QED
      BY <1>4, <3>1
  <2>5. QED
    BY <2>3, <2>4
<1>7. \A k \in Len(wire) + 2 .. Len(wire') : wire'[k].tag = "CH"
  <2> SUFFICES ASSUME NEW k \in Len(wire) + 2 .. Len(wire') PROVE wire'[k].tag = "CH"
    OBVIOUS
  <2>1. k - Len(wire) - 1 \in 1 .. n /\ k = Len(wire) + 1 + (k - Len(wire) - 1)
    BY <1>1, <1>2, <1>6, RowsAreItems
  <2>2. wire'[k] = chs[k - Len(wire) - 1]
    BY <1>6, <2>1
  <2>3. QED
    BY <1>4, <2>1, <2>2
<1>8. QED
  BY <1>1, <1>2, <1>3, <1>6, <1>7

\* A break leaves the first items, and perhaps something of the next.
LEMMA WireCut ==
  ASSUME TypeOK, NEW n \in 0 .. Len(wire), NEW how \in {"eof", "reset"}, BreakAfter(n, how)
  PROVE  /\ wire' \in Seq(Item)
         /\ n \in Nat /\ Len(wire) \in Nat /\ Len(wire') \in Nat
         /\ n <= Len(wire') /\ Len(wire') <= n + 1 /\ Len(wire') <= Len(wire)
         /\ \A k \in 1 .. n : wire'[k] = wire[k]
         /\ Len(wire') = n + 1 =>
              /\ n < Len(wire)
              /\ \/ wire'[n + 1].tag \in {"half", "bad"}
                 \/ /\ ~Binary /\ how = "eof" /\ ~(n = 0 /\ TagTaken)
                    /\ wire'[n + 1].tag = wire[n + 1].tag
                    /\ wire[n + 1].tag # "RW" => wire'[n + 1] = wire[n + 1]
                    /\ wire[n + 1].tag = "RW" => wire'[n + 1].image.f = wire[n + 1].image.f
         /\ n = 0 /\ TagTaken => Len(wire') = 1 /\ wire'[1].tag = "bad"
<1>1. wire \in Seq(Item) /\ Len(wire) \in Nat
  BY RowsAreItems DEF TypeOK
<1>2. PICK rest \in (IF n = Len(wire) THEN {<<>>}
                     ELSE IF n = 0 /\ TagTaken THEN {<<[tag |-> "bad"]>>}
                     ELSE Broken(wire[n + 1], how) \ (IF n < Begun THEN {<<>>} ELSE {})) :
        wire' = SubSeq(wire, 1, n) \o rest
  BY DEF BreakAfter
<1>3. /\ SubSeq(wire, 1, n) \in Seq(Item) /\ Len(SubSeq(wire, 1, n)) = n
      /\ \A k \in 1 .. n : SubSeq(wire, 1, n)[k] = wire[k]
  BY <1>1
<1>4. ASSUME rest \in Seq(Item), Len(rest) \in {0, 1}
      PROVE  /\ wire' \in Seq(Item) /\ Len(wire') = n + Len(rest)
             /\ \A k \in 1 .. n : wire'[k] = wire[k]
             /\ Len(rest) = 1 => wire'[n + 1] = rest[1]
  <2> DEFINE kept == SubSeq(wire, 1, n)
  <2> HIDE DEF kept
  <2>1. wire' = kept \o rest /\ kept \in Seq(Item) /\ Len(kept) = n
        /\ \A k \in 1 .. n : kept[k] = wire[k]
    BY <1>2, <1>3 DEF kept
  <2>2. /\ wire' \in Seq(Item) /\ Len(wire') = n + Len(rest)
        /\ \A k \in 1 .. n : wire'[k] = kept[k]
        /\ \A k \in 1 .. Len(rest) : wire'[n + k] = rest[k]
    <3>1. /\ wire' \in Seq(Item) /\ Len(wire') = Len(kept) + Len(rest)
          /\ \A k \in 1 .. Len(kept) : wire'[k] = kept[k]
          /\ \A k \in 1 .. Len(rest) : wire'[Len(kept) + k] = rest[k]
      <4>1. kept \in Seq(Item) /\ rest \in Seq(Item) /\ wire' = kept \o rest
        BY <1>4, <2>1
      <4>2. QED
        BY ONLY <4>1, Appended
    <3>2. QED
      BY <2>1, <3>1
  <2>3. QED
    BY <2>1, <2>2
<1>5. CASE n = Len(wire)
  <2>1. rest = <<>>
    BY <1>2, <1>5
  <2>2. rest \in Seq(Item) /\ Len(rest) = 0
    BY <2>1
  <2>3. ~(n = 0 /\ TagTaken)
    BY <1>1, <1>5 DEF TagTaken
  <2>4. QED
    BY <1>1, <1>4, <2>2, <2>3
<1>6. CASE n # Len(wire) /\ n = 0 /\ TagTaken
  <2>1. rest = <<[tag |-> "bad"]>>
    BY <1>2, <1>6
  <2>2. [tag |-> "bad"] \in Item
    BY ItemsMade
  <2>3. rest \in Seq(Item) /\ Len(rest) = 1 /\ rest[1].tag = "bad"
    BY <2>1, <2>2
  <2>4. /\ wire' \in Seq(Item) /\ Len(wire') = n + Len(rest)
        /\ Len(rest) = 1 => wire'[n + 1] = rest[1]
    BY <1>4, <2>3
  <2>5. Len(wire') = 1 /\ wire'[1].tag = "bad" /\ n = 0
    BY <1>6, <2>3, <2>4
  <2>6. Len(wire) > 0 /\ Len(wire) \in Nat /\ n < Len(wire)
    BY <1>1, <1>6
  <2>7. \A k \in 1 .. n : wire'[k] = wire[k]
    BY <2>5
  <2>8. wire'[n + 1].tag \in {"half", "bad"} /\ n + 1 = 1
    BY <2>5
  <2>9. n <= Len(wire') /\ Len(wire') <= n + 1 /\ Len(wire') <= Len(wire) /\ Len(wire') \in Nat
    BY <2>5, <2>6
  <2>10. QED
    BY <2>4, <2>5, <2>6, <2>7, <2>8, <2>9
<1>7. CASE n # Len(wire) /\ ~(n = 0 /\ TagTaken)
  <2>1. rest \in Broken(wire[n + 1], how)
    BY <1>2, <1>7
  <2>2. n + 1 \in 1 .. Len(wire) /\ wire[n + 1] \in Item /\ n < Len(wire)
    BY <1>1, <1>7
  <2> DEFINE item == wire[n + 1]
  <2> HIDE DEF item
  <2>3. /\ rest \in Seq(Item) /\ Len(rest) \in {0, 1}
        /\ Len(rest) = 1 =>
             \/ rest[1].tag \in {"half", "bad"}
             \/ /\ ~Binary /\ how = "eof"
                /\ rest[1].tag = item.tag
                /\ item.tag # "RW" => rest[1] = item
                /\ item.tag = "RW" => rest[1].image.f = item.image.f
    <3>1. item \in Item /\ rest \in Broken(item, how)
      BY <2>1, <2>2 DEF item
    <3>2. QED
      BY <3>1, BrokenItem
  <2>4. /\ wire' \in Seq(Item) /\ Len(wire') = n + Len(rest)
        /\ \A k \in 1 .. n : wire'[k] = wire[k]
        /\ Len(rest) = 1 => wire'[n + 1] = rest[1]
    BY <1>4, <2>3
  <2>5. Len(wire') \in {n, n + 1} /\ (Len(wire') = n + 1 <=> Len(rest) = 1)
    <3>1. CASE Len(rest) = 0
      BY <1>1, <2>4, <3>1
    <3>2. CASE Len(rest) = 1
      BY <1>1, <2>4, <3>2
    <3>3. QED
      BY <2>3, <3>1, <3>2
  <2>6. Len(wire') = n + 1 =>
          \/ wire'[n + 1].tag \in {"half", "bad"}
          \/ /\ ~Binary /\ how = "eof"
             /\ wire'[n + 1].tag = item.tag
             /\ item.tag # "RW" => wire'[n + 1] = item
             /\ item.tag = "RW" => wire'[n + 1].image.f = item.image.f
    BY <2>3, <2>4, <2>5
  <2>7. QED
    BY <1>7, <2>2, <2>4, <2>5, <2>6 DEF item
<1>8. QED
  BY <1>5, <1>6, <1>7

\* The reader takes the first item.
LEMMA ItemTaken ==
  ASSUME TypeOK, wire # <<>>, wire' = Tail(wire)
  PROVE  /\ wire' \in Seq(Item) /\ Len(wire) = Len(wire') + 1 /\ Len(wire') \in Nat
         /\ \A i \in 1 .. Len(wire') : wire'[i] = wire[i + 1]
         /\ Head(wire) = wire[1] /\ wire[1] \in Item /\ 1 \in DOMAIN wire
<1>1. wire \in Seq(Item)
  BY DEF TypeOK
<1>2. QED
  BY <1>1, Beheaded

\* The image held becomes the last one notified.
LEMMA ImageReturned ==
  ASSUME TypeOK, Return
  PROVE  /\ images' \in Seq([image : Image, told : Nat \union {NoFrame}])
         /\ Len(images') = Len(images) + Len(basicImage)
         /\ \A i \in 1 .. Len(images) : images'[i] = images[i]
         /\ \A i \in 1 .. Len(basicImage) :
              images'[Len(images) + i] = [image |-> basicImage[i], told |-> told]
         /\ basicImage' = <<>>
<1> DEFINE T  == [image : Image, told : Nat \union {NoFrame}]
           ns == [k \in DOMAIN basicImage |-> [image |-> basicImage[k], told |-> told]]
<1>1. basicImage \in Seq(Image) /\ told \in Nat \union {NoFrame} /\ images \in Seq(T)
  BY DEF TypeOK
<1>2. \A i \in Image : [image |-> i, told |-> told] \in T
  BY <1>1
<1>3. images' = images \o ns /\ basicImage' = <<>>
  BY DEF Return
<1>4. /\ ns \in Seq(T) /\ Len(ns) = Len(basicImage)
      /\ \A i \in 1 .. Len(basicImage) : ns[i] = [image |-> basicImage[i], told |-> told]
  <2> HIDE DEF T
  <2> QED BY <1>1, <1>2
<1> HIDE DEF T, ns
<1>5. /\ images' \in Seq(T) /\ Len(images') = Len(images) + Len(basicImage)
      /\ \A i \in 1 .. Len(images) : images'[i] = images[i]
      /\ \A i \in 1 .. Len(basicImage) : images'[Len(images) + i] = ns[i]
  <2>1. /\ images' \in Seq(T) /\ Len(images') = Len(images) + Len(ns)
        /\ \A i \in 1 .. Len(images) : images'[i] = images[i]
        /\ \A i \in 1 .. Len(ns) : images'[Len(images) + i] = ns[i]
    <3>1. images \in Seq(T) /\ ns \in Seq(T) /\ images' = images \o ns
      BY <1>1, <1>3, <1>4
    <3>2. QED
      BY ONLY <3>1, Appended, SMTT(30)
  <2>2. QED
    BY <2>1, <1>4
<1>6. QED
  BY <1>3, <1>4, <1>5 DEF T

-----------------------------------------------------------------------------
(* The type invariant *)

LEMMA RowsSequence == Len(Rows) \in Nat /\ DOMAIN Rows = 1 .. Len(Rows)
  BY RowsAssumption

LEMMA TypeInit ==
  ASSUME Init
  PROVE  TypeOK
<1>1. <<>> \in Seq(Item) /\ <<>> \in Seq(Image) /\ Len(<<>>) <= 1
      /\ <<>> \in Seq([image : Image, told : Nat \union {NoFrame}])
  OBVIOUS
<1>2. 0 \in 0 .. Len(Rows)
  BY RowsSequence
<1>3. QED
  BY <1>1, <1>2 DEF Init, TypeOK

LEMMA TypeKeptByHeader ==
  ASSUME TypeOK, WriteHeader
  PROVE  TypeOK'
<1>1. wire' \in Seq(Item)
  BY HeaderWritten
<1>2. QED
  BY <1>1 DEF TypeOK, WriteHeader, readerVars

LEMMA TypeKeptByRow ==
  ASSUME TypeOK, WriteRow
  PROVE  TypeOK'
<1>1. wire' \in Seq(Item) /\ arriving' \in Seq(Image) /\ pos + 1 \in DOMAIN Rows
  BY RowWritten
<1>2. prevFrameId' \in Nat
  BY <1>1, RowFields DEF WriteRow
<1>3. pos' \in 0 .. Len(Rows)
  <2>1. pos' = pos + 1
    BY DEF WriteRow
  <2>2. pos + 1 \in 1 .. Len(Rows)
    BY <1>1, RowsSequence
  <2>3. QED
    BY <2>1, <2>2
<1>4. QED
  BY <1>1, <1>2, <1>3 DEF TypeOK, WriteRow, readerVars

LEMMA TypeKeptByServerEnd ==
  ASSUME TypeOK, FifoEnds \/ WriteFails
  PROVE  TypeOK'
  BY DEF TypeOK, FifoEnds, WriteFails, readerVars

\* A break is a break of one kind at one item.
LEMMA BreakCases ==
  ASSUME TypeOK, ConnectionBreaks
  PROVE  \E how \in {"eof", "reset"}, n \in 0 .. Len(wire) :
           /\ BreakAfter(n, how)
           /\ link' = how
           /\ TagTaken /\ ~Binary => n >= 1
<1>1. PICK how \in {"eof", "reset"} :
        /\ link' = how
        /\ \E n \in (IF TagTaken /\ ~Binary THEN 1 ELSE 0) .. Len(wire) : BreakAfter(n, how)
  BY DEF ConnectionBreaks
<1>2. PICK n \in (IF TagTaken /\ ~Binary THEN 1 ELSE 0) .. Len(wire) : BreakAfter(n, how)
  BY <1>1
<1>3. n \in 0 .. Len(wire) /\ (TagTaken /\ ~Binary => n >= 1)
  BY <1>2
<1>4. QED
  BY <1>1, <1>2, <1>3

LEMMA TypeKeptByBreak ==
  ASSUME TypeOK, ConnectionBreaks
  PROVE  TypeOK'
<1>1. PICK how \in {"eof", "reset"}, n \in 0 .. Len(wire) : BreakAfter(n, how) /\ link' = how
  BY BreakCases
<1>2. wire' \in Seq(Item)
  BY <1>1, WireCut
<1>3. arriving' \in Seq(Image)
  BY <1>1, ArrivingCut DEF BreakAfter
<1>4. QED
  <2>1. link' \in {"open", "closed", "eof", "reset"}
    BY <1>1
  <2>2. /\ request' = request /\ server' = server /\ pos' = pos
        /\ prevFrameId' = prevFrameId /\ reader' = reader /\ stage' = stage /\ tag' = tag
        /\ basicImage' = basicImage /\ told' = told /\ images' = images
        /\ split' = split /\ outcome' = outcome
    BY DEF ConnectionBreaks, serverVars, readerVars
  <2>3. /\ server' \in {"header", "rows", "done"} /\ reader' \in {"look", "next", "done"}
        /\ stage' \in {"RS", "CH", "images"}
    BY <2>2 DEF TypeOK
  <2>4. tag' \in {"none", "RS", "CH", "FR", "RW", "bad", "EOF"}
    BY <2>2 DEF TypeOK
  <2>5. QED
    BY <1>2, <1>3, <2>1, <2>2, <2>3, <2>4 DEF TypeOK

LEMMA TypeKeptByLook ==
  ASSUME TypeOK, ReadAhead \/ ReadHalfTag \/ ReadEnd \/ ReadBreaksOff
  PROVE  TypeOK'
<1>1. Return
  BY DEF ReadAhead, ReadHalfTag, ReadEnd, ReadBreaksOff
<1>2. /\ images' \in Seq([image : Image, told : Nat \union {NoFrame}])
      /\ basicImage' = <<>>
  BY <1>1, ImageReturned
<1>3. tag' \in {"none", "RS", "CH", "FR", "RW", "bad", "EOF"}
  <2>1. CASE ReadAhead
    <3>1. wire # <<>> /\ Head(wire).tag # "half" /\ tag' = Head(wire).tag
      BY <2>1 DEF ReadAhead
    <3>2. Head(wire) \in Item
      <4>1. wire \in Seq(Item)
        BY DEF TypeOK
      <4>2. QED
        BY <3>1, <4>1, Beheaded
    <3>3. QED
      BY <3>1, <3>2, ItemKinds
  <2>2. QED
    BY <2>1 DEF ReadHalfTag, ReadEnd, ReadBreaksOff
<1>4. split' \in BOOLEAN
  BY DEF ReadAhead, ReadHalfTag, ReadEnd, ReadBreaksOff, TypeOK
<1>5. basicImage' \in Seq(Image) /\ Len(basicImage') <= 1
  BY <1>2
<1>6. QED
  BY <1>2, <1>3, <1>4, <1>5 DEF TypeOK, ReadAhead, ReadHalfTag, ReadEnd, ReadBreaksOff, serverVars

LEMMA TypeKeptByItem ==
  ASSUME TypeOK, ReadReferenceSpace \/ SkipChannelDef \/ ReadFrameDef \/ ReadRow
  PROVE  TypeOK'
<1>1. wire # <<>> /\ wire' = Tail(wire) /\ reader = "next"
  BY DEF ReadReferenceSpace, SkipChannelDef, ReadFrameDef, ReadRow, Has
<1>2. wire' \in Seq(Item) /\ Head(wire) \in Item
  BY <1>1, ItemTaken
<1>3. CASE ReadReferenceSpace \/ SkipChannelDef
  BY <1>2, <1>3 DEF TypeOK, ReadReferenceSpace, SkipChannelDef, Has, serverVars
<1>4. CASE ReadFrameDef
  <2>1. told' \in Nat
    BY <1>2, <1>4, ItemKinds DEF ReadFrameDef, Has
  <2>2. QED
    BY <1>2, <1>4, <2>1 DEF TypeOK, ReadFrameDef, Has, serverVars
<1>5. CASE ReadRow
  <2>1. Head(wire).image \in Image
    BY <1>2, <1>5, ItemKinds DEF ReadRow, Has
  <2>2. OfStream(Head(wire).image) \in Image
    BY <2>1, ImageOfStream DEF TypeOK
  <2>3. basicImage' \in Seq(Image) /\ Len(basicImage') <= 1
    BY <1>5, <2>2 DEF ReadRow
  <2>4. QED
    BY <1>2, <1>5, <2>3 DEF TypeOK, ReadRow, Has, serverVars
<1>6. QED
  BY <1>3, <1>4, <1>5

LEMMA TypeKeptByEnd ==
  ASSUME TypeOK, ReadAheadThrows \/ EndOfStream \/ Unexpected
  PROVE  TypeOK'
  BY DEF TypeOK, ReadAheadThrows, EndOfStream, Unexpected, serverVars

LEMMA TypeKept ==
  ASSUME TypeOK, [Next]_vars
  PROVE  TypeOK'
<1>1. CASE UNCHANGED vars
  <2>1. /\ request' = request /\ server' = server /\ pos' = pos
        /\ prevFrameId' = prevFrameId /\ link' = link /\ wire' = wire
        /\ arriving' = arriving /\ reader' = reader /\ stage' = stage /\ tag' = tag
        /\ basicImage' = basicImage /\ told' = told /\ images' = images
        /\ split' = split /\ outcome' = outcome
    BY <1>1 DEF vars, serverVars, readerVars
  <2>2. QED
    <3>1. /\ server' \in {"header", "rows", "done"} /\ reader' \in {"look", "next", "done"}
          /\ link' \in {"open", "closed", "eof", "reset"} /\ stage' \in {"RS", "CH", "images"}
      BY <2>1 DEF TypeOK
    <3>2. tag' \in {"none", "RS", "CH", "FR", "RW", "bad", "EOF"}
      BY <2>1 DEF TypeOK
    <3>3. QED
      BY <2>1, <3>1, <3>2 DEF TypeOK
<1>2. CASE Server
  BY <1>2, TypeKeptByHeader, TypeKeptByRow, TypeKeptByServerEnd DEF Server
<1>3. CASE ConnectionBreaks
  BY <1>3, TypeKeptByBreak
<1>4. CASE Reader
  BY <1>4, TypeKeptByLook, TypeKeptByItem, TypeKeptByEnd DEF Reader
<1>5. QED
  BY <1>1, <1>2, <1>3, <1>4 DEF Next

\* Every behaviour keeps the types of the variables: the reader is done exactly
\* when the observers were told how it ended, and an image is held only until
\* the next tag is read.
THEOREM TypeInvariant == Spec => []TypeOK
<1>1. Init => TypeOK
  BY TypeInit
<1>2. TypeOK /\ [Next]_vars => TypeOK'
  BY TypeKept
<1>3. QED
  BY <1>1, <1>2, PTL DEF Spec

-----------------------------------------------------------------------------
(* The stream is read and written in order *)

LEMMA ItemsDomain ==
  ASSUME NEW s \in Seq(Item)
  PROVE  /\ Len(s) \in Nat /\ DOMAIN s = 1 .. Len(s)
         /\ s = <<>> <=> Len(s) = 0
         /\ \A k \in 1 .. Len(s) : s[k] \in Item
  OBVIOUS

LEMMA OrderKeptByHeader ==
  ASSUME TypeOK, WireInOrder, WriteHeader
  PROVE  WireInOrder'
<1>1. wire \in Seq(Item) /\ wire' \in Seq(Item)
  BY HeaderWritten DEF TypeOK
<1>2. wire = <<>> /\ stage = "RS" /\ Len(wire) = 0
  BY <1>1, ItemsDomain DEF WireInOrder, WriteHeader
<1>3. /\ Len(wire') >= 1 /\ wire'[1].tag = "RS"
      /\ \A k \in 2 .. Len(wire') : wire'[k].tag = "CH"
  BY <1>2, HeaderWritten
<1>4. DOMAIN wire' = 1 .. Len(wire') /\ Len(wire') \in Nat /\ wire' # <<>>
  BY <1>1, <1>3, ItemsDomain
<1>5. stage' = "RS" /\ server' = "rows"
  BY <1>2 DEF WriteHeader, readerVars
<1>6. \A k \in DOMAIN wire' : (k = 1 /\ wire'[k].tag = "RS") \/ (k >= 2 /\ wire'[k].tag = "CH")
  BY <1>3, <1>4
<1>7. \A k \in DOMAIN wire' : \A j \in 1 .. k - 1 : wire'[j].tag \in {"RS", "CH"}
  BY <1>4, <1>6
<1>8. QED
  BY <1>3, <1>4, <1>5, <1>6, <1>7 DEF WireInOrder

LEMMA OrderKeptByRow ==
  ASSUME TypeOK, WireInOrder, WriteRow
  PROVE  WireInOrder'
<1>1. wire \in Seq(Item) /\ wire' \in Seq(Item)
  BY RowWritten DEF TypeOK
<1>2. /\ DOMAIN wire = 1 .. Len(wire) /\ Len(wire) \in Nat /\ (wire = <<>> <=> Len(wire) = 0)
      /\ DOMAIN wire' = 1 .. Len(wire') /\ Len(wire') \in Nat /\ (wire' = <<>> <=> Len(wire') = 0)
  BY <1>1, ItemsDomain
<1>3. /\ stage' = stage /\ server' = server /\ server = "rows" /\ link = "open" /\ link' = link
  BY DEF WriteRow, readerVars
<1>4. /\ Len(wire') >= Len(wire)
      /\ \A k \in 1 .. Len(wire) : wire'[k] = wire[k]
      /\ \A k \in Len(wire) + 1 .. Len(wire') : wire'[k].tag \in {"FR", "RW"}
  <2> DEFINE fr == IF NewFrame(Rows[pos + 1]) THEN 1 ELSE 0
             rw == IF Wanted(Rows[pos + 1]) THEN 1 ELSE 0
  <2>1. /\ Len(wire') = Len(wire) + fr + rw
        /\ \A k \in 1 .. Len(wire) : wire'[k] = wire[k]
        /\ NewFrame(Rows[pos + 1]) => wire'[Len(wire) + 1].tag = "FR"
        /\ Wanted(Rows[pos + 1]) => wire'[Len(wire) + fr + 1].tag = "RW"
    BY RowWritten
  <2>2. fr \in {0, 1} /\ rw \in {0, 1} /\ (fr = 1 => NewFrame(Rows[pos + 1]))
        /\ (rw = 1 => Wanted(Rows[pos + 1]))
    OBVIOUS
  <2> HIDE DEF fr, rw
  <2>3. \A k \in Len(wire) + 1 .. Len(wire') :
          (fr = 1 /\ k = Len(wire) + 1) \/ (rw = 1 /\ k = Len(wire) + fr + 1)
    BY <1>2, <2>1, <2>2
  <2>4. QED
    BY <1>2, <2>1, <2>2, <2>3
<1>5. stage = "RS" => Len(wire) >= 1 /\ wire'[1].tag \in {"RS", "half", "bad"}
  BY <1>2, <1>3, <1>4 DEF WireInOrder
<1>6. ASSUME NEW k \in DOMAIN wire'
      PROVE  /\ wire'[k].tag = "RS" => k = 1 /\ stage = "RS"
             /\ wire'[k].tag = "CH" =>
                  stage # "images" /\ \A j \in 1 .. k - 1 : wire'[j].tag \in {"RS", "CH"}
             /\ wire'[k].tag \notin {"half", "bad"}
  <2>1. CASE k \in 1 .. Len(wire)
    <3>1. wire'[k] = wire[k] /\ \A j \in 1 .. k - 1 : wire'[j] = wire[j]
      BY <1>2, <1>4, <2>1
    <3>2. QED
      BY <1>2, <1>3, <2>1, <3>1 DEF WireInOrder
  <2>2. CASE k \in Len(wire) + 1 .. Len(wire')
    BY <1>4, <2>2
  <2>3. QED
    BY <1>2, <2>1, <2>2
<1>7. stage = "RS" => wire' # <<>>
  BY <1>2, <1>4, <1>5
<1>8. QED
  BY <1>3, <1>5, <1>6, <1>7 DEF WireInOrder

LEMMA OrderKeptByBreak ==
  ASSUME TypeOK, WireInOrder, ConnectionBreaks
  PROVE  WireInOrder'
<1>1. PICK how \in {"eof", "reset"}, n \in 0 .. Len(wire) : BreakAfter(n, how) /\ link' = how
  BY BreakCases
<1>2. wire \in Seq(Item) /\ wire' \in Seq(Item)
  BY <1>1, WireCut DEF TypeOK
<1>3. /\ DOMAIN wire = 1 .. Len(wire) /\ Len(wire) \in Nat /\ (wire = <<>> <=> Len(wire) = 0)
      /\ DOMAIN wire' = 1 .. Len(wire') /\ Len(wire') \in Nat /\ (wire' = <<>> <=> Len(wire') = 0)
  BY <1>2, ItemsDomain
<1>4. stage' = stage /\ server' = server /\ link' \in {"eof", "reset"}
  BY <1>1 DEF ConnectionBreaks, readerVars, serverVars
<1>5. /\ n \in Nat /\ Len(wire) \in Nat /\ Len(wire') \in Nat
      /\ n <= Len(wire') /\ Len(wire') <= n + 1 /\ Len(wire') <= Len(wire)
      /\ \A k \in 1 .. n : wire'[k] = wire[k]
      /\ Len(wire') = n + 1 =>
           /\ n < Len(wire)
           /\ wire'[n + 1].tag \in {"half", "bad"} \/ wire'[n + 1].tag = wire[n + 1].tag
  BY <1>1, WireCut
<1>6. \A k \in 1 .. Len(wire') :
        /\ k \in 1 .. Len(wire)
        /\ wire'[k].tag = wire[k].tag \/ (k = Len(wire') /\ wire'[k].tag \in {"half", "bad"})
        /\ k < Len(wire') => wire'[k].tag = wire[k].tag
  <2> SUFFICES ASSUME NEW k \in 1 .. Len(wire')
               PROVE  /\ k \in 1 .. Len(wire)
                      /\ \/ wire'[k].tag = wire[k].tag
                         \/ k = Len(wire') /\ wire'[k].tag \in {"half", "bad"}
                      /\ k < Len(wire') => wire'[k].tag = wire[k].tag
    OBVIOUS
  <2>1. Len(wire) \in Nat /\ Len(wire') \in Nat /\ n \in Nat /\ n <= Len(wire)
        /\ k \in Nat /\ 1 <= k /\ k <= Len(wire') /\ k <= n + 1
    <3>1. Len(wire') \in Nat /\ n \in Nat /\ Len(wire') <= n + 1
      BY <1>5
    <3>2. k \in Nat /\ 1 <= k /\ k <= Len(wire')
      BY <3>1
    <3>3. QED
      BY <1>5, <3>1, <3>2
  <2>2. CASE k <= n
    BY <1>5, <2>1, <2>2
  <2>3. CASE k = n + 1
    <3>1. Len(wire') = n + 1
      BY <1>5, <2>1, <2>3
    <3>2. k \in 1 .. Len(wire) /\ ~(k < Len(wire'))
      BY <1>5, <2>1, <2>3, <3>1
    <3>3. wire'[k].tag \in {"half", "bad"} \/ wire'[k].tag = wire[k].tag
      BY <1>5, <2>3, <3>1
    <3>4. k = Len(wire')
      BY <2>3, <3>1
    <3>5. QED
      BY <3>2, <3>3, <3>4
  <2>4. QED
    BY <2>1, <2>2, <2>3
<1> DEFINE m == Len(wire')
<1>7. m \in Nat /\ Len(wire) \in Nat /\ DOMAIN wire' = 1 .. m /\ m <= Len(wire)
  BY <1>3, <1>5, Zenon
<1>8. ASSUME NEW k \in DOMAIN wire'
      PROVE  /\ wire'[k].tag = "RS" => k = 1 /\ stage = "RS"
             /\ wire'[k].tag = "CH" =>
                  stage # "images" /\ \A j \in 1 .. k - 1 : wire'[j].tag \in {"RS", "CH"}
             /\ wire'[k].tag \in {"half", "bad"} => k = Len(wire')
  <2>1. k \in 1 .. Len(wire') /\ k \in DOMAIN wire /\ k \in Nat /\ 1 <= k /\ k <= m
    <3>1. k \in 1 .. Len(wire')
      BY <1>3
    <3>2. k \in 1 .. Len(wire)
      BY <1>6, <3>1
    <3>3. k \in Nat /\ 1 <= k /\ k <= m
      BY <1>7
    <3>4. QED
      BY <1>3, <3>1, <3>2, <3>3
  <2>2. wire'[k].tag = "RS" => k = 1 /\ stage = "RS"
    BY <1>6, <2>1 DEF WireInOrder
  <2>3. wire'[k].tag = "CH" =>
          stage # "images" /\ \A j \in 1 .. k - 1 : wire'[j].tag \in {"RS", "CH"}
    <3> SUFFICES ASSUME wire'[k].tag = "CH"
                 PROVE  stage # "images" /\ \A j \in 1 .. k - 1 : wire'[j].tag \in {"RS", "CH"}
      OBVIOUS
    <3>1. wire[k].tag = "CH"
      BY <1>6, <2>1
    <3>2. stage # "images" /\ \A j \in 1 .. k - 1 : wire[j].tag \in {"RS", "CH"}
      BY <2>1, <3>1 DEF WireInOrder
    <3>3. \A j \in 1 .. k - 1 : j \in 1 .. Len(wire') /\ j < Len(wire')
      BY <1>7, <2>1
    <3>4. \A j \in 1 .. k - 1 : wire'[j].tag = wire[j].tag
      BY <1>6, <3>3
    <3>5. QED
      BY <3>2, <3>4
  <2>4. wire'[k].tag \in {"half", "bad"} => k = Len(wire')
    <3> SUFFICES ASSUME wire'[k].tag \in {"half", "bad"}, k < Len(wire') PROVE FALSE
      BY <1>3, <2>1
    <3>1. wire[k].tag \in {"half", "bad"}
      BY <1>6, <2>1
    <3>2. k < Len(wire)
      BY <1>7, <2>1
    <3>3. QED
      BY <2>1, <3>1, <3>2, <1>7 DEF WireInOrder
  <2>5. QED
    BY <2>2, <2>3, <2>4
<1>9. stage = "RS" /\ wire' # <<>> => wire'[1].tag \in {"RS", "half", "bad"}
  <2> SUFFICES ASSUME stage = "RS", wire' # <<>> PROVE wire'[1].tag \in {"RS", "half", "bad"}
    OBVIOUS
  <2>1. m >= 1
    BY <1>3, <1>7
  <2>2. 1 \in 1 .. Len(wire') /\ wire # <<>>
    BY <1>3, <1>7, <2>1
  <2>3. wire[1].tag \in {"RS", "half", "bad"}
    BY <2>2 DEF WireInOrder
  <2>4. QED
    BY <1>6, <2>2, <2>3
<1>10. server = "header" => wire' = <<>> /\ stage = "RS"
  <2> SUFFICES ASSUME server = "header" PROVE wire' = <<>> /\ stage = "RS"
    OBVIOUS
  <2>1. wire = <<>> /\ stage = "RS"
    BY DEF WireInOrder
  <2>2. m = 0
    BY <1>3, <1>7, <2>1
  <2>3. QED
    BY <1>3, <2>1, <2>2
<1>11. QED
  BY <1>4, <1>8, <1>9, <1>10 DEF WireInOrder

LEMMA OrderKeptByItem ==
  ASSUME TypeOK, WireInOrder, ReadReferenceSpace \/ SkipChannelDef \/ ReadFrameDef \/ ReadRow
  PROVE  WireInOrder'
<1>1. /\ wire # <<>> /\ wire' = Tail(wire) /\ server' = server /\ link' = link
      /\ stage' \in {"CH", "images"}
      /\ stage' = "CH" => Head(wire).tag \in {"RS", "CH"}
      /\ stage' = "images" => Head(wire).tag \in {"FR", "RW"}
  BY DEF ReadReferenceSpace, SkipChannelDef, ReadFrameDef, ReadRow, Has, serverVars
<1>2. /\ wire' \in Seq(Item) /\ Len(wire) = Len(wire') + 1 /\ Len(wire') \in Nat
      /\ \A i \in 1 .. Len(wire') : wire'[i] = wire[i + 1]
      /\ Head(wire) = wire[1]
  BY <1>1, ItemTaken
<1>3. DOMAIN wire = 1 .. Len(wire) /\ DOMAIN wire' = 1 .. Len(wire')
  BY <1>2, ItemsDomain DEF TypeOK
<1>4. server # "header"
  BY <1>1 DEF WireInOrder
<1>5. ASSUME NEW k \in DOMAIN wire'
      PROVE  /\ wire'[k].tag # "RS"
             /\ wire'[k].tag = "CH" =>
                  stage' # "images" /\ \A j \in 1 .. k - 1 : wire'[j].tag \in {"RS", "CH"}
             /\ wire'[k].tag \in {"half", "bad"} => k = Len(wire') /\ link' \in {"eof", "reset"}
  <2>1. k + 1 \in DOMAIN wire /\ wire'[k] = wire[k + 1] /\ k \in Int /\ k >= 1
    BY <1>2, <1>3
  <2>2. wire'[k].tag # "RS"
    BY <2>1 DEF WireInOrder
  <2>3. ASSUME wire'[k].tag = "CH"
        PROVE  stage' # "images" /\ \A j \in 1 .. k - 1 : wire'[j].tag \in {"RS", "CH"}
    <3>1. \A j \in 1 .. k : wire[j].tag \in {"RS", "CH"}
      BY <2>1, <2>3 DEF WireInOrder
    <3>2. wire[1].tag \in {"RS", "CH"}
      BY <2>1, <3>1
    <3>3. \A j \in 1 .. k - 1 : wire'[j] = wire[j + 1] /\ j + 1 \in 1 .. k
      BY <1>2, <1>3, <2>1
    <3>4. QED
      BY <1>1, <1>2, <3>1, <3>2, <3>3
  <2>4. wire'[k].tag \in {"half", "bad"} => k = Len(wire') /\ link' \in {"eof", "reset"}
    BY <1>1, <1>2, <2>1 DEF WireInOrder
  <2>5. QED
    BY <2>2, <2>3, <2>4
<1>6. QED
  BY <1>1, <1>4, <1>5 DEF WireInOrder

LEMMA OrderKept ==
  ASSUME TypeOK, WireInOrder, [Next]_vars
  PROVE  WireInOrder'
<1>1. CASE UNCHANGED <<wire, stage, server, link>>
  BY <1>1 DEF WireInOrder
<1>2. CASE FifoEnds \/ WriteFails
  <2>1. wire' = wire /\ stage' = stage /\ server' = "done"
        /\ (link \in {"eof", "reset"} => link' = link)
    BY <1>2 DEF FifoEnds, WriteFails, readerVars
  <2>2. QED
    BY <2>1 DEF WireInOrder
<1>3. CASE Server
  BY <1>2, <1>3, OrderKeptByHeader, OrderKeptByRow DEF Server
<1>4. CASE ConnectionBreaks
  BY <1>4, OrderKeptByBreak
<1>5. CASE \/ ReadAhead \/ ReadHalfTag \/ ReadEnd \/ ReadBreaksOff \/ ReadAheadThrows
           \/ EndOfStream \/ Unexpected
  <2>1. UNCHANGED <<wire, stage, server, link>>
    BY <1>5 DEF ReadAhead, ReadHalfTag, ReadEnd, ReadBreaksOff, ReadAheadThrows, EndOfStream,
                Unexpected, serverVars
  <2>2. QED
    BY <1>1, <2>1
<1>6. CASE Reader
  BY <1>5, <1>6, OrderKeptByItem DEF Reader
<1>7. CASE UNCHANGED vars
  BY <1>1, <1>7 DEF vars, serverVars, readerVars
<1>8. QED
  BY <1>3, <1>4, <1>6, <1>7 DEF Next

-----------------------------------------------------------------------------
(* The reader is one tag ahead *)

\* A cut does not put a row on a wire that had none.
LEMMA NoRowsAfterCut ==
  ASSUME TypeOK, ConnectionBreaks, RowsIn(wire) = {}
  PROVE  RowsIn(wire') = {}
<1>1. PICK how \in {"eof", "reset"}, n \in 0 .. Len(wire) : BreakAfter(n, how) /\ link' = how
  BY BreakCases
<1>2. wire \in Seq(Item) /\ wire' \in Seq(Item)
  BY <1>1, WireCut DEF TypeOK
<1>3. /\ n \in Nat /\ Len(wire) \in Nat /\ Len(wire') \in Nat
      /\ n <= Len(wire') /\ Len(wire') <= n + 1 /\ Len(wire') <= Len(wire)
      /\ \A k \in 1 .. n : wire'[k] = wire[k]
      /\ Len(wire') = n + 1 =>
           \/ wire'[n + 1].tag \in {"half", "bad"}
           \/ wire'[n + 1].tag = wire[n + 1].tag
  BY <1>1, WireCut
<1>4. SUFFICES ASSUME NEW k \in RowsIn(wire') PROVE FALSE
  OBVIOUS
<1>5. k \in Nat /\ 1 <= k /\ k <= Len(wire') /\ wire'[k].tag = "RW"
  BY <1>2, RowsAreItems
<1>6. wire[k].tag = "RW"
  <2>1. CASE k <= n
    BY <1>3, <1>5, <2>1
  <2>2. CASE k = n + 1
    <3>1. Len(wire') = n + 1
      BY <1>3, <1>5, <2>2
    <3>2. QED
      BY <1>3, <1>5, <2>2, <3>1
  <2>3. QED
    BY <1>3, <1>5, <2>1, <2>2
<1>7. k \in RowsIn(wire)
  <2>1. k \in 1 .. Len(wire)
    BY <1>3, <1>5
  <2>2. QED
    BY <1>2, <1>6, <2>1, RowsAreItems
<1>8. QED
  BY <1>7

\* An item of which a break left nothing readable is the last: behind it is no row.
LEMMA NoRowsBehindCut ==
  ASSUME TypeOK, WireInOrder, wire # <<>>, wire[1].tag \in {"half", "bad"}
  PROVE  RowsIn(wire) = {} /\ link \in {"eof", "reset"}
<1>1. wire \in Seq(Item) /\ 1 \in DOMAIN wire
  <2>1. wire \in Seq(Item)
    BY DEF TypeOK
  <2>2. QED
    BY <2>1, Beheaded
<1>2. Len(wire) = 1 /\ link \in {"eof", "reset"}
  BY <1>1 DEF WireInOrder
<1>3. RowsIn(wire) \subseteq 1 .. 1
  BY <1>1, <1>2, RowsAreItems
<1>4. 1 \notin RowsIn(wire)
  BY <1>1, <1>2, RowsAreItems
<1>5. QED
  BY <1>2, <1>3, <1>4

\* The server writes behind the item whose tag was read, and to an open
\* connection only.
LEMMA TagKeptByServer ==
  ASSUME TypeOK, WireInOrder, TagAhead, Server
  PROVE  TagAhead'
<1>1. reader' = reader /\ tag' = tag /\ split' = split /\ outcome' = outcome
      /\ basicImage' = basicImage /\ (Binary' <=> Binary)
  BY DEF Server, WriteHeader, WriteRow, FifoEnds, WriteFails, readerVars, Binary
<1>2. CASE FifoEnds \/ WriteFails
  <2>1. wire' = wire /\ (link # "open" => link' = link)
    BY <1>2 DEF FifoEnds, WriteFails
  <2>2. QED
    BY <1>1, <2>1 DEF TagAhead
<1>3. CASE WriteHeader \/ WriteRow
  <2>1. link = "open"
    BY <1>3 DEF WriteHeader, WriteRow
  <2>2. wire # <<>> => wire' # <<>> /\ wire'[1] = wire[1]
    <3> SUFFICES ASSUME wire # <<>> PROVE wire' # <<>> /\ wire'[1] = wire[1]
      OBVIOUS
    <3>1. WriteRow
      BY <1>3 DEF WriteHeader, WireInOrder
    <3>2. wire \in Seq(Item) /\ wire' \in Seq(Item) /\ Len(wire') >= Len(wire)
      <4> DEFINE fr == IF NewFrame(Rows[pos + 1]) THEN 1 ELSE 0
                 rw == IF Wanted(Rows[pos + 1]) THEN 1 ELSE 0
      <4>1. wire' \in Seq(Item) /\ Len(wire') = Len(wire) + fr + rw
        BY <3>1, RowWritten
      <4>2. wire \in Seq(Item) /\ Len(wire) \in Nat
        BY ItemsDomain DEF TypeOK
      <4>3. fr \in Nat /\ rw \in Nat
        OBVIOUS
      <4> HIDE DEF fr, rw
      <4>4. QED
        BY <4>1, <4>2, <4>3
    <3>3. \A k \in 1 .. Len(wire) : wire'[k] = wire[k]
      BY <3>1, RowWritten
    <3>4. Len(wire) \in Nat /\ Len(wire) >= 1
      BY <3>2, ItemsDomain
    <3>5. QED
      BY <3>2, <3>3, <3>4, ItemsDomain
  <2>3. QED
    BY <1>1, <2>1, <2>2 DEF TagAhead
<1>4. QED
  BY <1>2, <1>3 DEF Server

\* A break leaves the item whose tag was read, or what cannot be read.
LEMMA TagKeptByBreak ==
  ASSUME TypeOK, WireInOrder, TagAhead, ConnectionBreaks
  PROVE  TagAhead'
<1>1. reader' = reader /\ tag' = tag /\ split' = split /\ outcome' = outcome
      /\ basicImage' = basicImage /\ (Binary' <=> Binary) /\ link # "reset"
  BY DEF ConnectionBreaks, readerVars, Binary
<1>2. PICK how \in {"eof", "reset"}, n \in 0 .. Len(wire) :
        BreakAfter(n, how) /\ link' = how /\ (TagTaken /\ ~Binary => n >= 1)
  BY BreakCases
<1>3. /\ wire' \in Seq(Item)
      /\ n \in Nat /\ Len(wire) \in Nat /\ Len(wire') \in Nat
      /\ n <= Len(wire') /\ Len(wire') <= n + 1 /\ Len(wire') <= Len(wire)
      /\ \A k \in 1 .. n : wire'[k] = wire[k]
      /\ n = 0 /\ TagTaken => Len(wire') = 1 /\ wire'[1].tag = "bad"
  BY <1>2, WireCut
<1>4. reader = "next" /\ tag # "EOF" => wire' # <<>> /\ wire'[1].tag \in {tag, "bad"}
  <2> SUFFICES ASSUME reader = "next", tag # "EOF"
               PROVE  wire' # <<>> /\ wire'[1].tag \in {tag, "bad"}
    OBVIOUS
  <2>1. wire # <<>> /\ wire[1].tag \in {tag, "bad"} /\ TagTaken
    BY DEF TagAhead, TagTaken
  <2>2. CASE n = 0
    <3>1. Len(wire') = 1 /\ wire'[1].tag = "bad"
      BY <1>3, <2>1, <2>2
    <3>2. QED
      BY <1>3, <3>1, ItemsDomain
  <2>3. CASE n >= 1
    <3>1. wire'[1] = wire[1] /\ Len(wire') >= 1
      BY <1>3, <2>3
    <3>2. QED
      BY <1>3, <2>1, <3>1, ItemsDomain
  <2>4. QED
    BY <1>3, <2>2, <2>3
<1>5. RowsIn(wire) = {} => RowsIn(wire') = {}
  BY NoRowsAfterCut
<1>6. link' # "open"
  BY <1>2
<1>7. QED
  BY <1>1, <1>4, <1>5, <1>6 DEF TagAhead

LEMMA TagKeptByLook ==
  ASSUME TypeOK, WireInOrder, TagAhead,
         ReadAhead \/ ReadHalfTag \/ ReadEnd \/ ReadBreaksOff \/ ReadAheadThrows
  PROVE  TagAhead'
<1>1. CASE ReadAhead
  <2>1. /\ wire # <<>> /\ wire' = wire /\ reader' = "next" /\ tag' = Head(wire).tag
    BY <1>1 DEF ReadAhead
  <2>2. wire \in Seq(Item) /\ Head(wire) = wire[1] /\ wire[1] \in Item
    BY <2>1, Beheaded DEF TypeOK
  <2>3. tag' = wire[1].tag /\ tag' # "EOF"
    BY <2>1, <2>2, ItemKinds
  <2>4. QED
    BY <2>1, <2>3 DEF TagAhead
<1>2. CASE ReadHalfTag
  <2>1. /\ wire # <<>> /\ wire' = wire /\ reader' = "next" /\ tag' = "EOF" /\ link' = link
        /\ split' = (Head(wire).tag # "half")
    BY <1>2 DEF ReadHalfTag
  <2>2. wire \in Seq(Item) /\ Head(wire) = wire[1]
    BY <2>1, Beheaded DEF TypeOK
  <2>3. ~split' => wire[1].tag = "half"
    BY <2>1, <2>2
  <2>4. ~split' => RowsIn(wire') = {} /\ link' # "open"
    BY <2>1, <2>3, NoRowsBehindCut
  <2>5. QED
    BY <2>1, <2>4 DEF TagAhead
<1>3. CASE ReadEnd \/ ReadAheadThrows
  <2>1. /\ wire = <<>> /\ wire' = wire /\ link' = link /\ link # "open" /\ reader' # "look"
        /\ reader' = "next" => tag' = "EOF"
        /\ reader' = "done" => outcome' = "exception" /\ Binary'
    BY <1>3 DEF ReadEnd, ReadAheadThrows, Binary
  <2>2. RowsIn(wire') = {}
    BY <2>1 DEF RowsIn
  <2>3. QED
    BY <2>1, <2>2 DEF TagAhead
<1>4. CASE ReadBreaksOff
  <2>1. /\ wire' = wire /\ link' = link /\ link = "reset" /\ Len(wire) <= 1 /\ ~Binary'
        /\ reader' = "next" /\ tag' = "EOF"
    BY <1>4 DEF ReadBreaksOff, Binary
  <2>2. QED
    BY <2>1 DEF TagAhead
<1>5. QED
  BY <1>1, <1>2, <1>3, <1>4

LEMMA TagKeptByEnd ==
  ASSUME TypeOK, WireInOrder, TagAhead, EndOfStream \/ Unexpected
  PROVE  TagAhead'
<1>1. /\ reader = "next" /\ reader' = "done" /\ wire' = wire /\ link' = link /\ split' = split
      /\ basicImage' = basicImage /\ (Binary' <=> Binary)
  BY DEF EndOfStream, Unexpected, Binary
<1>2. basicImage = <<>>
  BY <1>1 DEF TypeOK
<1>3. ~split => /\ link # "open"
                /\ RowsIn(wire) = {} \/ (~Binary /\ link = "reset" /\ Len(wire) <= 1)
  <2>1. CASE tag = "EOF"
    BY <1>1, <2>1 DEF TagAhead
  <2>2. CASE tag # "EOF"
    <3>1. Unexpected
      BY <2>2 DEF EndOfStream
    <3>2. wire # <<>> /\ wire[1].tag \in {tag, "bad"}
      BY <1>1, <2>2 DEF TagAhead
    <3>3. wire \in Seq(Item) /\ Head(wire) = wire[1] /\ 1 \in DOMAIN wire
      BY <3>2, Beheaded DEF TypeOK
    <3>4. wire[1].tag = "bad"
      <4> SUFFICES ASSUME wire[1].tag = tag, tag # "bad" PROVE FALSE
        BY <3>2
      <4>1. tag \in {"none", "RS", "CH", "FR", "RW"}
        BY <2>2 DEF TypeOK
      <4>2. Has(tag)
        BY <1>1, <3>2, <3>3 DEF Has
      <4>3. tag \in {"RS", "CH", "FR", "RW"}
        <5>1. wire[1] \in Item
          BY <3>3, ItemsDomain
        <5>2. QED
          BY <4>1, <5>1, ItemKinds
      <4>4. tag = "RS" => stage = "RS"
        BY <3>3 DEF WireInOrder
      <4>5. stage = "RS" => tag = "RS"
        BY <3>2, <4>3 DEF WireInOrder
      <4>6. tag = "CH" => stage = "CH"
        BY <3>3, <4>5 DEF WireInOrder, TypeOK
      <4>7. Expected
        BY <4>2, <4>3, <4>4, <4>5, <4>6 DEF Expected
      <4>8. QED
        BY <3>1, <4>7 DEF Unexpected
    <3>5. RowsIn(wire) = {} /\ link \in {"eof", "reset"}
      BY <3>2, <3>4, NoRowsBehindCut
    <3>6. QED
      BY <3>5
  <2>3. QED
    BY <2>1, <2>2
<1>4. QED
  BY <1>1, <1>2, <1>3 DEF TagAhead

LEMMA TagKept ==
  ASSUME TypeOK, WireInOrder, TagAhead, [Next]_vars
  PROVE  TagAhead'
<1>1. CASE ReadReferenceSpace \/ SkipChannelDef \/ ReadFrameDef \/ ReadRow
  <2>1. reader' = "look"
    BY <1>1 DEF ReadReferenceSpace, SkipChannelDef, ReadFrameDef, ReadRow
  <2>2. QED
    BY <2>1 DEF TagAhead
<1>2. CASE Reader
  BY <1>1, <1>2, TagKeptByLook, TagKeptByEnd DEF Reader
<1>3. CASE UNCHANGED vars
  <2>1. UNCHANGED <<request, reader, tag, split, outcome, basicImage, wire, link>>
    BY <1>3 DEF vars, readerVars
  <2>2. QED
    BY <2>1 DEF TagAhead, Binary
<1>4. QED
  BY <1>2, <1>3, TagKeptByServer, TagKeptByBreak DEF Next

-----------------------------------------------------------------------------
(* Only rows that are wanted are written, clipped *)

\* The request does not change, and so neither does what is made of a row.
LEMMA ClippedUnchanged ==
  ASSUME request' = request, NEW row
  PROVE  (Wanted(row) <=> Wanted(row)') /\ Clipped(row)' = Clipped(row)
<1>1. FinalX(row)' = FinalX(row)
  BY DEF FinalX, HasBox, Left
<1>2. FinalWidth(row)' = FinalWidth(row)
  BY <1>1 DEF FinalWidth, HasBox, InBox, Right
<1>3. Wanted(row) <=> Wanted(row)'
  BY <1>2 DEF Wanted
<1>4. Clipped(row)' = Clipped(row)
  BY <1>1, <1>2 DEF Clipped
<1>5. QED
  BY <1>3, <1>4

LEMMA ClippedKept ==
  ASSUME TypeOK, RowsClipped, [Next]_vars
  PROVE  RowsClipped'
<1>1. request' = request
  BY DEF Next, Server, WriteHeader, WriteRow, FifoEnds, WriteFails, ConnectionBreaks, Reader,
         ReadAhead, ReadHalfTag, ReadEnd, ReadBreaksOff, ReadAheadThrows,
         ReadReferenceSpace, SkipChannelDef, ReadFrameDef, ReadRow, EndOfStream, Unexpected, vars
<1>2. \A i \in DOMAIN arriving' :
        \E p \in DOMAIN Rows : Wanted(Rows[p]) /\ arriving'[i] = Clipped(Rows[p])
  <2>1. CASE UNCHANGED arriving
    BY <2>1 DEF RowsClipped
  <2>2. CASE WriteRow
    <3> DEFINE row == Rows[pos + 1]
    <3>1. /\ pos + 1 \in DOMAIN Rows
          /\ arriving' \in Seq(Image)
          /\ Len(arriving') = Len(arriving) + (IF Wanted(row) THEN 1 ELSE 0)
          /\ \A i \in 1 .. Len(arriving) : arriving'[i] = arriving[i]
          /\ Wanted(row) => arriving'[Len(arriving) + 1] = Clipped(row)
      BY <2>2, RowWritten
    <3>2. arriving \in Seq(Image)
      BY DEF TypeOK
    <3>3. DOMAIN arriving = 1 .. Len(arriving) /\ Len(arriving) \in Nat
          /\ DOMAIN arriving' = 1 .. Len(arriving')
      BY <3>1, <3>2
    <3> SUFFICES ASSUME NEW i \in DOMAIN arriving'
                 PROVE  \E p \in DOMAIN Rows : Wanted(Rows[p]) /\ arriving'[i] = Clipped(Rows[p])
      OBVIOUS
    <3>4. CASE i \in DOMAIN arriving
      BY <3>1, <3>3, <3>4 DEF RowsClipped
    <3>5. CASE i \notin DOMAIN arriving
      <4>1. Wanted(row) /\ i = Len(arriving) + 1
        BY <3>1, <3>3, <3>5
      <4>2. QED
        BY <3>1, <4>1
    <3>6. QED
      BY <3>4, <3>5
  <2>3. CASE ConnectionBreaks
    <3>1. PICK how \in {"eof", "reset"}, n \in 0 .. Len(wire) : BreakAfter(n, how)
      BY <2>3, BreakCases
    <3>2. /\ DOMAIN arriving' \subseteq DOMAIN arriving
          /\ \A i \in DOMAIN arriving' : arriving'[i] = arriving[i]
      BY <3>1, ArrivingCut DEF BreakAfter
    <3>3. QED
      BY <3>2 DEF RowsClipped
  <2>4. QED
    BY <2>1, <2>2, <2>3
       DEF Next, Server, WriteHeader, FifoEnds, WriteFails, Reader,
           ReadAhead, ReadHalfTag, ReadEnd, ReadBreaksOff, ReadAheadThrows,
           ReadReferenceSpace, SkipChannelDef, ReadFrameDef, ReadRow, EndOfStream, Unexpected, vars
<1>3. QED
  BY <1>1, <1>2, ClippedUnchanged DEF RowsClipped

-----------------------------------------------------------------------------
(* Every row is in its place *)

Delivery == RowsCounted /\ RowsInPlace

\* What is written behind leaves the rows there were and their counts.
LEMMA CountPrefix ==
  ASSUME NEW s \in Seq(Item), NEW t \in Seq(Item), NEW n \in Nat,
         n <= Len(s), n <= Len(t), \A k \in 1 .. n : t[k] = s[k]
  PROVE  /\ \A k \in 1 .. n : k \in RowsIn(t) <=> k \in RowsIn(s)
         /\ \A k \in 0 .. n : Count(t, k) = Count(s, k)
<1>1. \A k \in 1 .. n : k \in RowsIn(t) <=> k \in RowsIn(s)
  <2> SUFFICES ASSUME NEW k \in 1 .. n PROVE k \in RowsIn(t) <=> k \in RowsIn(s)
    OBVIOUS
  <2>1. k \in 1 .. Len(s) /\ k \in 1 .. Len(t) /\ t[k] = s[k]
    BY RowsAreItems
  <2>2. QED
    BY <2>1, RowsAreItems
<1>2. ASSUME NEW k \in 0 .. n
      PROVE  Count(t, k) = Count(s, k)
  <2>1. k \in Int
    OBVIOUS
  <2>2. \A i \in Int : i \in RowsIn(t) /\ i <= k <=> i \in RowsIn(s) /\ i <= k
    <3> SUFFICES ASSUME NEW i \in Int, i <= k PROVE i \in RowsIn(t) <=> i \in RowsIn(s)
      OBVIOUS
    <3>1. CASE i >= 1
      BY <1>1, <3>1
    <3>2. CASE i < 1
      BY <3>2, RowsAreItems
    <3>3. QED
      BY <3>1, <3>2
  <2>3. QED
    BY <2>1, <2>2, CountSame
<1>3. QED
  BY <1>1, <1>2

\* Where there are no rows the count stands still.
LEMMA CountStill ==
  ASSUME NEW s \in Seq(Item), NEW j \in Nat, NEW k \in Nat, j <= k,
         \A i \in j + 1 .. k : i \notin RowsIn(s)
  PROVE  Count(s, k) = Count(s, j)
<1>1. \A i \in Int : i \in RowsIn(s) /\ i <= k <=> i \in RowsIn(s) /\ i <= j
  OBVIOUS
<1>2. QED
  BY <1>1, CountSame

\* A row's count is one of 1 .. the number of rows.
LEMMA CountBounds ==
  ASSUME NEW s \in Seq(Item)
  PROVE  /\ Len(s) \in Nat /\ Count(s, Len(s)) \in Nat
         /\ \A k \in RowsIn(s) :
              /\ k \in 1 .. Len(s) /\ Count(s, k) \in Nat
              /\ 1 <= Count(s, k) /\ Count(s, k) <= Count(s, Len(s))
<1>1. Len(s) \in Nat /\ Len(s) \in Int
  BY RowsAreItems
<1>2. Count(s, Len(s)) \in Nat
  BY <1>1, CountType
<1>3. ASSUME NEW k \in RowsIn(s)
      PROVE  /\ k \in 1 .. Len(s) /\ Count(s, k) \in Nat
             /\ 1 <= Count(s, k) /\ Count(s, k) <= Count(s, Len(s))
  <2>1. k \in 1 .. Len(s) /\ k \in Int /\ k <= Len(s)
    BY <1>1, RowsAreItems
  <2>2. Count(s, k) \in Nat
    BY <2>1, CountType
  <2>3. Count(s, k) <= Count(s, Len(s))
    BY <1>1, <2>1, CountGrows
  <2>4. Count(s, k) >= 1
    BY CountAtRow
  <2>5. QED
    BY <2>1, <2>2, <2>3, <2>4
<1>4. QED
  BY <1>1, <1>2, <1>3

\* All sizes are numbers.
LEMMA DeliverySizes ==
  ASSUME TypeOK
  PROVE  /\ wire \in Seq(Item) /\ Len(wire) \in Nat /\ Len(arriving) \in Nat
         /\ Len(images) \in Nat /\ Len(basicImage) \in {0, 1} /\ Taken \in Nat
         /\ DOMAIN images = 1 .. Len(images) /\ DOMAIN basicImage = 1 .. Len(basicImage)
         /\ DOMAIN arriving = 1 .. Len(arriving)
<1>1. /\ wire \in Seq(Item) /\ arriving \in Seq(Image) /\ basicImage \in Seq(Image)
      /\ Len(basicImage) <= 1
      /\ images \in Seq([image : Image, told : Nat \union {NoFrame}])
  BY DEF TypeOK
<1> DEFINE T == [image : Image, told : Nat \union {NoFrame}]
<1>2. Len(images) \in Nat /\ DOMAIN images = 1 .. Len(images)
  <2>1. images \in Seq(T)
    BY <1>1
  <2> HIDE DEF T
  <2>2. QED
    BY <2>1
<1>3. /\ Len(wire) \in Nat /\ Len(arriving) \in Nat /\ Len(basicImage) \in Nat
      /\ DOMAIN basicImage = 1 .. Len(basicImage) /\ DOMAIN arriving = 1 .. Len(arriving)
  BY <1>1
<1>4. Len(basicImage) \in {0, 1}
  BY <1>1, <1>3
<1>5. QED
  BY <1>1, <1>2, <1>3, <1>4 DEF Taken

LEMMA DeliveryKeptByHeader ==
  ASSUME TypeOK, Delivery, WriteHeader
  PROVE  Delivery'
<1>1. /\ wire \in Seq(Item) /\ Len(wire) \in Nat
      /\ wire' \in Seq(Item) /\ Len(wire') \in Nat /\ Len(wire') >= Len(wire) + 1
      /\ \A k \in 1 .. Len(wire) : wire'[k] = wire[k]
  BY DeliverySizes, HeaderWritten, RowsAreItems
<1>2. \A k \in Len(wire) + 1 .. Len(wire') : wire'[k].tag # "RW"
  <2>1. wire'[Len(wire) + 1].tag = "RS"
        /\ \A k \in Len(wire) + 2 .. Len(wire') : wire'[k].tag = "CH"
    BY HeaderWritten
  <2>2. QED
    BY <1>1, <2>1
<1>3. UNCHANGED <<request, link, arriving, images, basicImage>>
  BY DEF WriteHeader, readerVars
<1>4. \A k \in Len(wire) + 1 .. Len(wire') : k \notin RowsIn(wire')
  BY <1>1, <1>2, RowsAreItems
<1>5. /\ \A k \in 1 .. Len(wire) : k \in RowsIn(wire') <=> k \in RowsIn(wire)
      /\ \A k \in 0 .. Len(wire) : Count(wire', k) = Count(wire, k)
  BY <1>1, CountPrefix
<1>6. Count(wire', Len(wire')) = Count(wire, Len(wire))
  <2>1. Count(wire', Len(wire')) = Count(wire', Len(wire))
    <3>1. Len(wire) <= Len(wire')
      BY <1>1
    <3>2. QED
      BY <1>1, <1>4, <3>1, CountStill
  <2>2. QED
    BY <1>1, <1>5, <2>1
<1>7. Taken' = Taken /\ (Binary' <=> Binary) /\ link' = link /\ Len(arriving') = Len(arriving)
  BY <1>3 DEF Taken, Binary
<1>8. RowsCounted'
  BY <1>6, <1>7 DEF Delivery, RowsCounted
<1>9. RowsIn(wire') = RowsIn(wire)
  <2>1. \A k \in RowsIn(wire') : k \in 1 .. Len(wire)
    <3>1. \A k \in RowsIn(wire') : k \in 1 .. Len(wire')
      BY <1>1, RowsAreItems
    <3>2. QED
      BY <1>1, <1>4, <3>1
  <2>2. \A k \in RowsIn(wire) : k \in 1 .. Len(wire)
    BY <1>1, RowsAreItems
  <2>3. QED
    BY <1>5, <2>1, <2>2
<1>10. \A k \in RowsIn(wire') : wire'[k] = wire[k] /\ Count(wire', k) = Count(wire, k)
  BY <1>1, <1>5, <1>9, RowsAreItems
<1>11. RowsInPlace'
  BY <1>3, <1>7, <1>9, <1>10 DEF Delivery, RowsInPlace, OfStream
<1>12. QED
  BY <1>8, <1>11 DEF Delivery

LEMMA DeliveryKeptByRow ==
  ASSUME TypeOK, Delivery, WriteRow
  PROVE  Delivery'
<1> DEFINE row == Rows[pos + 1]
           fr  == IF NewFrame(row) THEN 1 ELSE 0
           rw  == IF Wanted(row) THEN 1 ELSE 0
           L   == Len(wire)
           A   == Len(arriving)
<1>1. /\ wire \in Seq(Item) /\ L \in Nat /\ A \in Nat /\ Taken \in Nat
      /\ Len(images) \in Nat
      /\ DOMAIN images = 1 .. Len(images) /\ DOMAIN basicImage = 1 .. Len(basicImage)
  BY DeliverySizes
<1>2. /\ wire' \in Seq(Item) /\ Len(wire') = L + fr + rw
      /\ \A k \in 1 .. L : wire'[k] = wire[k]
      /\ NewFrame(row) => wire'[L + 1].tag = "FR"
      /\ Wanted(row) =>
           /\ wire'[L + fr + 1].tag = "RW"
           /\ wire'[L + fr + 1].image = Clipped(row)
      /\ Len(arriving') = A + rw
      /\ \A i \in 1 .. A : arriving'[i] = arriving[i]
      /\ Wanted(row) => arriving'[A + 1] = Clipped(row)
  BY RowWritten, Zenon
<1>3. UNCHANGED <<request, link, images, basicImage>> /\ link = "open"
  BY DEF WriteRow, readerVars
<1>4. Taken' = Taken /\ (Binary' <=> Binary)
  BY <1>3 DEF Taken, Binary
<1>5. /\ fr \in {0, 1} /\ rw \in {0, 1}
      /\ fr = 1 <=> NewFrame(row)
      /\ rw = 1 <=> Wanted(row)
  OBVIOUS
<1> HIDE DEF fr, rw, row
<1>6. Taken + Count(wire, L) = A
  BY <1>3 DEF Delivery, RowsCounted
<1>7. /\ \A k \in 1 .. L : k \in RowsIn(wire') <=> k \in RowsIn(wire)
      /\ \A k \in 0 .. L : Count(wire', k) = Count(wire, k)
  <2>1. L <= Len(wire) /\ L <= Len(wire')
    BY <1>1, <1>2, <1>5
  <2> HIDE DEF L
  <2>2. QED
    BY <1>1, <1>2, <2>1, CountPrefix
<1>8. \A k \in RowsIn(wire') : k \in 1 .. L \/ (rw = 1 /\ k = L + fr + 1)
  <2> SUFFICES ASSUME NEW k \in RowsIn(wire'), k > L PROVE rw = 1 /\ k = L + fr + 1
    BY <1>1, <1>2, RowsAreItems
  <2>1. k \in Nat /\ k <= L + fr + rw /\ wire'[k].tag = "RW"
    BY <1>1, <1>2, RowsAreItems
  <2>2. CASE fr = 1 /\ k = L + 1
    BY <1>2, <1>5, <2>1, <2>2
  <2>3. CASE ~(fr = 1 /\ k = L + 1)
    BY <1>1, <1>5, <2>1, <2>3
  <2>4. QED
    BY <2>2, <2>3
<1>9. Count(wire', L + fr) = Count(wire, L)
  <2>1. \A i \in L + 1 .. L + fr : i \notin RowsIn(wire')
    BY <1>1, <1>5, <1>8
  <2>2. L \in Nat /\ L + fr \in Nat /\ L <= L + fr
    BY <1>1, <1>5
  <2>3. Count(wire', L + fr) = Count(wire', L)
    <3> DEFINE m == L + fr
    <3> HIDE DEF m, L
    <3>1. QED
      BY <1>2, <2>1, <2>2, CountStill DEF m
  <2>4. QED
    BY <1>1, <1>7, <2>3
<1>10. rw = 1 => L + fr + 1 \in RowsIn(wire')
  <2> SUFFICES ASSUME rw = 1 PROVE L + fr + 1 \in RowsIn(wire')
    OBVIOUS
  <2>1. L + fr + 1 \in 1 .. Len(wire') /\ wire'[L + fr + 1].tag = "RW"
    BY <1>1, <1>2, <1>5
  <2>2. QED
    BY <1>2, <2>1, RowsAreItems
<1>11. rw = 1 => Count(wire', L + fr + 1) = Count(wire, L) + 1
  <2> DEFINE m == L + fr
  <2>1. m \in Nat
    BY <1>1, <1>5
  <2> HIDE DEF m
  <2>2. Count(wire', m + 1) = IF m + 1 \in RowsIn(wire') THEN Count(wire', m) + 1
                                                        ELSE Count(wire', m)
    BY <1>2, <2>1, CountNext
  <2>3. QED
    BY <1>9, <1>10, <2>2 DEF m
<1>12. Count(wire', Len(wire')) = Count(wire, L) + rw
  <2>1. Count(wire, L) \in Nat
    BY <1>1, CountBounds
  <2>2. CASE rw = 1
    BY <1>2, <1>11, <2>2
  <2>3. CASE rw = 0
    <3>1. Len(wire') = L + fr
      BY <1>1, <1>2, <1>5, <2>3
    <3>2. QED
      BY <1>9, <2>1, <2>3, <3>1
  <2>4. QED
    BY <1>5, <2>2, <2>3
<1>13. RowsCounted'
  <2>1. Count(wire, L) \in Nat
    BY <1>1, CountBounds
  <2>2. Taken + (Count(wire, L) + rw) = A + rw
    BY <1>1, <1>5, <1>6, <2>1
  <2>3. (Taken + Count(wire, Len(wire)) = Len(arriving))'
    BY <1>2, <1>4, <1>12, <2>2
  <2>4. QED
    BY <2>3 DEF RowsCounted
<1>14. \A i \in DOMAIN images : i <= A + rw => i <= A
  <2>1. Taken >= Len(images) /\ Taken <= A
    <3>1. Count(wire, L) \in Nat
      BY <1>1, CountBounds
    <3>2. QED
      BY <1>1, <1>6, <3>1, DeliverySizes DEF Taken
  <2>2. QED
    BY <1>1, <2>1
<1>15. \A i \in DOMAIN basicImage : Len(images) + i <= A /\ Len(images) + i >= 1
  <2>1. Taken = Len(images) + Len(basicImage) /\ Taken <= A /\ Len(basicImage) \in Nat
    <3>1. Count(wire, L) \in Nat
      BY <1>1, CountBounds
    <3>2. QED
      BY <1>1, <1>6, <3>1, DeliverySizes DEF Taken
  <2>2. QED
    BY <1>1, <2>1
<1>16. \A k \in RowsIn(wire') :
         Taken + Count(wire', k) <= A + rw =>
           wire'[k].image = arriving'[Taken + Count(wire', k)]
  <2> SUFFICES ASSUME NEW k \in RowsIn(wire')
               PROVE  wire'[k].image = arriving'[Taken + Count(wire', k)]
    OBVIOUS
  <2>1. CASE k \in 1 .. L
    <3>1. k \in RowsIn(wire) /\ wire'[k] = wire[k] /\ Count(wire', k) = Count(wire, k)
      BY <1>1, <1>2, <1>7, <2>1
    <3>2. Count(wire, k) <= Count(wire, L) /\ Count(wire, k) >= 1
          /\ Count(wire, k) \in Nat /\ Count(wire, L) \in Nat
      BY <1>1, <3>1, CountBounds
    <3>3. Taken + Count(wire, k) \in 1 .. A
      BY <1>1, <1>6, <3>2
    <3>4. wire[k].image = arriving[Taken + Count(wire, k)]
      BY <3>1, <3>3 DEF Delivery, RowsInPlace
    <3>5. QED
      BY <1>2, <3>1, <3>3, <3>4
  <2>2. CASE rw = 1 /\ k = L + fr + 1
    <3>1. Count(wire', k) = Count(wire, L) + 1
      BY <1>11, <2>2
    <3>2. Taken + Count(wire', k) = A + 1
      <4>1. Count(wire, L) \in Nat
        BY <1>1, CountBounds
      <4>2. QED
        BY <1>1, <1>6, <3>1, <4>1
    <3>3. QED
      BY <1>2, <1>5, <2>2, <3>2
  <2>3. QED
    BY <1>8, <2>1, <2>2
<1>17. RowsInPlace'
  <2>1. \A i \in DOMAIN images' : i <= Len(arriving') => images'[i].image = OfStream(arriving'[i])
    BY <1>1, <1>2, <1>3, <1>14 DEF Delivery, RowsInPlace
  <2>2. \A i \in DOMAIN basicImage' :
          Len(images') + i <= Len(arriving') =>
            basicImage'[i] = OfStream(arriving'[Len(images') + i])
    BY <1>1, <1>2, <1>3, <1>15 DEF Delivery, RowsInPlace
  <2>3. \A k \in RowsIn(wire') :
          Taken' + Count(wire', k) <= Len(arriving') =>
            wire'[k].image = arriving'[Taken' + Count(wire', k)]
    BY <1>2, <1>4, <1>16
  <2>4. request' = request
    BY DEF WriteRow
  <2>5. QED
    BY <2>1, <2>2, <2>3, <2>4 DEF RowsInPlace, Count, OfStream
<1>18. QED
  BY <1>13, <1>17 DEF Delivery

\* A break takes the rows behind it out of those that arrive.  Text that just
\* ends may leave a part of one of them, at the end of the wire.
LEMMA DeliveryKeptByBreak ==
  ASSUME TypeOK, Delivery, ConnectionBreaks
  PROVE  Delivery'
<1> DEFINE L == Len(wire)
           A == Len(arriving)
<1>1. PICK how \in {"eof", "reset"}, n \in 0 .. Len(wire) : BreakAfter(n, how) /\ link' = how
  BY BreakCases
<1>2. /\ wire \in Seq(Item) /\ wire' \in Seq(Item)
      /\ n \in Nat /\ L \in Nat /\ Len(wire') \in Nat
      /\ n \in Int /\ L \in Int
      /\ n <= L /\ n <= Len(wire') /\ Len(wire') <= n + 1
      /\ \A k \in 1 .. n : wire'[k] = wire[k]
      /\ Len(wire') = n + 1 /\ wire'[n + 1].tag = "RW" => ~Binary /\ how = "eof"
  <2>1. wire \in Seq(Item) /\ L \in Nat
    BY DeliverySizes
  <2>2. QED
    BY <1>1, <2>1, WireCut
<1>3. /\ A \in Nat /\ Taken \in Nat /\ Len(images) \in Nat
      /\ DOMAIN images = 1 .. Len(images) /\ DOMAIN basicImage = 1 .. Len(basicImage)
      /\ DOMAIN arriving = 1 .. A
  BY DeliverySizes
<1>4. UNCHANGED <<request, images, basicImage>> /\ link \in {"open", "closed"}
  BY DEF ConnectionBreaks, readerVars
<1>5. Taken' = Taken /\ (Binary' <=> Binary)
  BY <1>4 DEF Taken, Binary
<1>6. Taken + Count(wire, L) = A
  BY <1>4 DEF Delivery, RowsCounted
<1>7. /\ Count(wire, L) \in Nat /\ Count(wire, n) \in Nat
      /\ Count(wire, n) <= Count(wire, L)
  BY <1>2, CountType, CountGrows
<1>8. /\ arriving' \in Seq(Image) /\ Len(arriving') = Taken + Count(wire, n)
      /\ DOMAIN arriving' \subseteq DOMAIN arriving
      /\ \A i \in DOMAIN arriving' : arriving'[i] = arriving[i]
  <2> DEFINE m == Cardinality({k \in RowsIn(wire) : k > n})
  <2>1. m = Count(wire, L) - Count(wire, n)
    BY <1>2, CountBehind
  <2>2. arriving' = SubSeq(arriving, 1, A - m)
    BY <1>1 DEF BreakAfter
  <2>3. /\ arriving' \in Seq(Image)
        /\ m <= A => Len(arriving') = A - m
        /\ DOMAIN arriving' \subseteq DOMAIN arriving
        /\ \A i \in DOMAIN arriving' : arriving'[i] = arriving[i]
    BY <2>2, ArrivingCut
  <2> HIDE DEF m
  <2>4. m <= A /\ A - m = Taken + Count(wire, n)
    BY <1>3, <1>6, <1>7, <2>1
  <2>5. QED
    BY <2>3, <2>4
<1> DEFINE a == Len(arriving')
<1>9. a \in Nat /\ DOMAIN arriving' = 1 .. a
  BY <1>8
<1>10. /\ \A k \in 1 .. n : k \in RowsIn(wire') <=> k \in RowsIn(wire)
       /\ \A k \in 0 .. n : Count(wire', k) = Count(wire, k)
  <2> HIDE DEF L
  <2>1. n <= Len(wire)
    BY <1>2 DEF L
  <2>2. QED
    BY <1>2, <2>1, CountPrefix
<1>11. Taken + Count(wire', n) = a
  BY <1>2, <1>8, <1>10
<1>12. /\ n + 1 \in RowsIn(wire') => Taken + Count(wire', n + 1) = a + 1
       /\ n + 1 \notin RowsIn(wire') => Taken + Count(wire', n + 1) = a
  <2>1. Count(wire', n) \in Nat
    BY <1>2, CountType
  <2>2. Count(wire', n + 1) = IF n + 1 \in RowsIn(wire') THEN Count(wire', n) + 1
                                                        ELSE Count(wire', n)
    BY <1>2, CountNext
  <2> HIDE DEF a
  <2>3. QED
    BY <1>3, <1>11, <2>1, <2>2
<1>13. RowsCounted'
  <2>1. CASE Len(wire') = n
    <3>1. (Taken + Count(wire, Len(wire)) = Len(arriving))'
      BY <1>5, <1>11, <2>1
    <3>2. QED
      BY <3>1 DEF RowsCounted
  <2>2. CASE Len(wire') = n + 1 /\ n + 1 \notin RowsIn(wire')
    <3>1. (Taken + Count(wire, Len(wire)) = Len(arriving))'
      BY <1>5, <1>12, <2>2
    <3>2. QED
      BY <3>1 DEF RowsCounted
  <2>3. CASE Len(wire') = n + 1 /\ n + 1 \in RowsIn(wire')
    <3>1. (Taken + Count(wire, Len(wire)) = Len(arriving) + 1)'
      BY <1>5, <1>12, <2>3
    <3>2. wire'[n + 1].tag = "RW"
      BY <1>2, <2>3, RowsAreItems
    <3>3. (~Binary /\ link = "eof")'
      BY <1>1, <1>2, <1>5, <2>3, <3>2
    <3>4. QED
      BY <3>1, <3>3 DEF RowsCounted
  <2>4. QED
    BY <1>2, <2>1, <2>2, <2>3
<1>14. \A k \in RowsIn(wire') :
         Taken + Count(wire', k) <= a =>
           wire'[k].image = arriving'[Taken + Count(wire', k)]
  <2> SUFFICES ASSUME NEW k \in RowsIn(wire'), Taken + Count(wire', k) <= a
               PROVE  wire'[k].image = arriving'[Taken + Count(wire', k)]
    OBVIOUS
  <2>1. k \in Nat /\ 1 <= k /\ k <= Len(wire')
        /\ Count(wire', k) \in Nat /\ 1 <= Count(wire', k)
    BY <1>2, CountBounds
  <2>2. k # n + 1
    <3> SUFFICES ASSUME k = n + 1 PROVE FALSE
      OBVIOUS
    <3>1. Taken + Count(wire', k) = a + 1
      BY <1>12
    <3> HIDE DEF a
    <3>2. QED
      BY <1>9, <3>1
  <2>3. k <= n
    BY <1>2, <2>1, <2>2
  <2>4. k \in RowsIn(wire) /\ wire'[k] = wire[k] /\ Count(wire', k) = Count(wire, k)
    BY <1>2, <1>10, <2>1, <2>3
  <2> DEFINE q == Taken + Count(wire, k)
  <2>5. q \in DOMAIN arriving'
    BY <1>3, <1>9, <2>1, <2>4
  <2>6. q \in DOMAIN arriving /\ arriving'[q] = arriving[q]
    BY <1>8, <2>5
  <2>7. q <= A
    <3> HIDE DEF q
    <3> QED BY <1>3, <2>6
  <2>8. wire[k].image = arriving[q]
    BY <2>4, <2>7 DEF Delivery, RowsInPlace
  <2> HIDE DEF q
  <2>9. QED
    BY <2>4, <2>6, <2>8 DEF q
<1>15. \A i \in Nat : 1 <= i /\ i <= a => i <= A /\ arriving'[i] = arriving[i]
  <2> SUFFICES ASSUME NEW i \in Nat, 1 <= i, i <= a
               PROVE  i <= A /\ arriving'[i] = arriving[i]
    OBVIOUS
  <2>1. i \in DOMAIN arriving'
    BY <1>9
  <2>2. QED
    BY <1>3, <1>8, <2>1
<1>16. RowsInPlace'
  <2>1. \A i \in DOMAIN images' : i <= Len(arriving') => images'[i].image = OfStream(arriving'[i])
    <3> SUFFICES ASSUME NEW i \in DOMAIN images, i <= a
                 PROVE  images[i].image = OfStream(arriving'[i])
      BY <1>4
    <3>1. i \in Nat /\ 1 <= i
      BY <1>3
    <3>2. i <= A /\ arriving'[i] = arriving[i]
      BY <1>15, <3>1
    <3>3. QED
      BY <3>2 DEF Delivery, RowsInPlace
  <2>2. \A i \in DOMAIN basicImage' :
          Len(images') + i <= Len(arriving') =>
            basicImage'[i] = OfStream(arriving'[Len(images') + i])
    <3> SUFFICES ASSUME NEW i \in DOMAIN basicImage, Len(images) + i <= a
                 PROVE  basicImage[i] = OfStream(arriving'[Len(images) + i])
      BY <1>4
    <3>1. Len(images) + i \in Nat /\ 1 <= Len(images) + i
      BY <1>3
    <3>2. Len(images) + i <= A /\ arriving'[Len(images) + i] = arriving[Len(images) + i]
      BY <1>15, <3>1
    <3>3. QED
      BY <3>2 DEF Delivery, RowsInPlace
  <2>3. \A k \in RowsIn(wire') :
          Taken' + Count(wire', k) <= Len(arriving') =>
            wire'[k].image = arriving'[Taken' + Count(wire', k)]
    BY <1>5, <1>14
  <2>4. QED
    BY <1>4, <2>1, <2>2, <2>3 DEF RowsInPlace, Count, OfStream
<1>17. QED
  BY <1>13, <1>16 DEF Delivery

\* An image that is notified was the one held, and stays in its place.
LEMMA DeliveryKeptByLook ==
  ASSUME TypeOK, Delivery, ReadAhead \/ ReadHalfTag \/ ReadEnd \/ ReadBreaksOff
  PROVE  Delivery'
<1> DEFINE n == Len(images)
           b == Len(basicImage)
<1>1. Return /\ UNCHANGED <<request, link, wire, arriving>>
  BY DEF ReadAhead, ReadHalfTag, ReadEnd, ReadBreaksOff
<1>2. /\ images' \in Seq([image : Image, told : Nat \union {NoFrame}])
      /\ Len(images') = n + b
      /\ \A i \in 1 .. n : images'[i] = images[i]
      /\ \A i \in 1 .. b : images'[n + i] = [image |-> basicImage[i], told |-> told]
      /\ basicImage' = <<>>
  BY <1>1, ImageReturned
<1>3. /\ n \in Nat /\ b \in {0, 1} /\ Len(arriving) \in Nat
      /\ DOMAIN images = 1 .. n /\ DOMAIN basicImage = 1 .. b
  BY DeliverySizes
<1>4. DOMAIN images' = 1 .. n + b /\ Len(basicImage') = 0 /\ DOMAIN basicImage' = {}
  <2> DEFINE T == [image : Image, told : Nat \union {NoFrame}]
  <2>1. images' \in Seq(T)
    BY <1>2
  <2> HIDE DEF T
  <2>2. DOMAIN images' = 1 .. Len(images')
    BY <2>1
  <2>3. QED
    BY <1>2, <2>2
<1>5. Taken' = Taken /\ (Binary' <=> Binary)
  <2>1. Len(images') + Len(basicImage') = n + b
    BY <1>2, <1>3, <1>4
  <2>2. QED
    BY <1>1, <2>1 DEF Taken, Binary
<1>6. RowsCounted'
  BY <1>1, <1>5 DEF Delivery, RowsCounted, Count
<1>7. \A i \in DOMAIN images' : i <= Len(arriving) => images'[i].image = OfStream(arriving[i])
  <2> SUFFICES ASSUME NEW i \in DOMAIN images', i <= Len(arriving)
               PROVE  images'[i].image = OfStream(arriving[i])
    OBVIOUS
  <2>1. CASE i <= n
    <3>1. i \in DOMAIN images /\ images'[i] = images[i]
      BY <1>2, <1>3, <1>4, <2>1
    <3>2. QED
      BY <3>1 DEF Delivery, RowsInPlace
  <2>2. CASE i > n
    <3>1. i = n + 1 /\ b = 1
      <4> HIDE DEF n, b
      <4>1. i \in Nat /\ i <= n + b
        BY <1>3, <1>4
      <4>2. CASE b = 0
        BY <1>3, <2>2, <4>1, <4>2
      <4>3. CASE b = 1
        BY <1>3, <2>2, <4>1, <4>3
      <4>4. QED
        BY <1>3, <4>2, <4>3
    <3>2. 1 \in DOMAIN basicImage
      BY <1>3, <3>1
    <3>3. images'[i].image = basicImage[1]
      BY <1>2, <1>3, <3>1
    <3>4. basicImage[1] = OfStream(arriving[i])
      BY <3>1, <3>2 DEF Delivery, RowsInPlace
    <3>5. QED
      BY <3>3, <3>4
  <2>3. QED
    BY <1>3, <1>4, <2>1, <2>2
<1>8. RowsInPlace'
  <2>1. \A i \in DOMAIN basicImage' :
          Len(images') + i <= Len(arriving') =>
            basicImage'[i] = OfStream(arriving'[Len(images') + i])
    BY <1>4
  <2>2. \A k \in RowsIn(wire') :
          Taken' + Count(wire', k) <= Len(arriving') =>
            wire'[k].image = arriving'[Taken' + Count(wire', k)]
    BY <1>1, <1>5 DEF Delivery, RowsInPlace
  <2>3. QED
    BY <1>1, <1>7, <2>1, <2>2 DEF RowsInPlace, Count, OfStream
<1>9. QED
  BY <1>6, <1>8 DEF Delivery

\* The reader takes what the wire begins with: a row goes to where it waits for
\* the tag that follows, in the place the count gave it.
LEMMA DeliveryKeptByItem ==
  ASSUME TypeOK, Delivery, ReadReferenceSpace \/ SkipChannelDef \/ ReadFrameDef \/ ReadRow
  PROVE  Delivery'
<1> DEFINE r == IF wire[1].tag = "RW" THEN 1 ELSE 0
           A == Len(arriving)
<1>1. /\ wire # <<>> /\ wire' = Tail(wire) /\ reader = "next"
      /\ UNCHANGED <<request, link, arriving, images>>
  BY DEF ReadReferenceSpace, SkipChannelDef, ReadFrameDef, ReadRow, Has
<1>2. /\ wire \in Seq(Item) /\ wire' \in Seq(Item)
      /\ Len(wire) = Len(wire') + 1 /\ Len(wire') \in Nat
      /\ \A i \in 1 .. Len(wire') : wire'[i] = wire[i + 1]
      /\ Head(wire) = wire[1] /\ wire[1] \in Item /\ 1 \in DOMAIN wire
  BY <1>1, ItemTaken DEF TypeOK
<1>3. /\ Taken \in Nat /\ Len(images) \in Nat /\ A \in Nat
      /\ DOMAIN basicImage = 1 .. Len(basicImage)
  BY DeliverySizes
<1>4. basicImage = <<>> /\ Taken = Len(images)
  <2>1. basicImage = <<>>
    BY <1>1 DEF TypeOK
  <2>2. QED
    BY <1>3, <2>1 DEF Taken
<1>5. /\ r = 0 => basicImage' = <<>>
      /\ r = 1 => basicImage' = <<OfStream(wire[1].image)>>
  <2>1. CASE ReadRow
    BY <1>2, <2>1 DEF ReadRow, Has
  <2>2. CASE ReadReferenceSpace \/ SkipChannelDef \/ ReadFrameDef
    BY <1>2, <1>4, <2>2 DEF ReadReferenceSpace, SkipChannelDef, ReadFrameDef, Has
  <2>3. QED
    BY <2>1, <2>2
<1>6. r \in {0, 1} /\ (r = 1 <=> wire[1].tag = "RW")
  OBVIOUS
<1>7. \A k \in Nat : Count(wire, k + 1) = Count(wire', k) + r
  BY <1>2, CountTail
<1> HIDE DEF r
<1>8. Taken' = Taken + r /\ Len(basicImage') = r
  <2>1. Len(basicImage') = r
    <3>1. Len(<<>>) = 0 /\ Len(<<OfStream(wire[1].image)>>) = 1
      OBVIOUS
    <3>2. QED
      BY <1>5, <1>6, <3>1
  <2>2. QED
    BY <1>1, <1>4, <2>1 DEF Taken
<1>9. /\ Count(wire', Len(wire')) \in Nat
      /\ \A k \in Nat : Count(wire', k) \in Nat
  <2>1. \A k \in Nat : k \in Int
    OBVIOUS
  <2>2. \A k \in Nat : Count(wire', k) \in Nat
    BY <1>2, <2>1, CountType
  <2>3. QED
    BY <1>2, <2>2
<1>10. RowsCounted'
  <2>1. Count(wire, Len(wire)) = Count(wire', Len(wire')) + r
    BY <1>2, <1>7
  <2>2. Taken' + Count(wire', Len(wire')) = Taken + Count(wire, Len(wire))
    BY <1>3, <1>6, <1>8, <1>9, <2>1
  <2>3. (Taken + Count(wire, Len(wire)))' = Taken + Count(wire, Len(wire))
    BY <2>2 DEF Count
  <2>4. (Binary' <=> Binary) /\ link' = link /\ arriving' = arriving
    BY <1>1 DEF Binary
  <2>5. QED
    BY <2>3, <2>4 DEF Delivery, RowsCounted
<1>11. \A i \in DOMAIN basicImage' :
         Len(images) + i <= A => basicImage'[i] = OfStream(arriving[Len(images) + i])
  <2>1. CASE r = 0
    BY <1>5, <2>1
  <2>2. CASE r = 1
    <3>1. 1 \in RowsIn(wire)
      BY <1>2, <1>6, <2>2 DEF RowsIn
    <3>2. Count(wire, 1) = 1
      <4>1. Count(wire, 0 + 1) = Count(wire', 0) + 1
        BY <1>7, <2>2
      <4>2. Count(wire', 0) = 0
        BY <1>2, CountNone
      <4>3. QED
        BY <4>1, <4>2
    <3>3. Taken + 1 <= A => wire[1].image = arriving[Taken + 1]
      BY <3>1, <3>2 DEF Delivery, RowsInPlace
    <3>4. basicImage' = <<OfStream(wire[1].image)>>
      BY <1>5, <2>2
    <3>5. DOMAIN basicImage' = {1} /\ basicImage'[1] = OfStream(wire[1].image)
      BY <3>4
    <3>6. QED
      BY <1>4, <3>3, <3>5
  <2>3. QED
    BY <1>6, <2>1, <2>2
<1>12. \A k \in RowsIn(wire') :
         Taken' + Count(wire', k) <= A => wire'[k].image = arriving[Taken' + Count(wire', k)]
  <2> SUFFICES ASSUME NEW k \in RowsIn(wire'), Taken' + Count(wire', k) <= A
               PROVE  wire'[k].image = arriving[Taken' + Count(wire', k)]
    OBVIOUS
  <2>1. k \in Nat /\ k \in 1 .. Len(wire') /\ wire'[k].tag = "RW" /\ Count(wire', k) \in Nat
    <3>1. k \in Nat /\ k \in 1 .. Len(wire') /\ wire'[k].tag = "RW"
      BY <1>2, RowsAreItems
    <3>2. QED
      BY <1>9, <3>1
  <2>2. wire'[k] = wire[k + 1] /\ k + 1 \in 1 .. Len(wire)
    BY <1>2, <2>1
  <2>3. k + 1 \in RowsIn(wire)
    BY <1>2, <2>1, <2>2, RowsAreItems
  <2>4. Taken' + Count(wire', k) = Taken + Count(wire, k + 1)
    <3> DEFINE c == Count(wire', k)
    <3>1. Count(wire, k + 1) = c + r /\ c \in Nat
      BY <1>7, <2>1
    <3> HIDE DEF c
    <3>2. (Taken + r) + c = Taken + (c + r)
      BY <1>3, <1>6, <3>1
    <3>3. QED
      BY <1>8, <3>1, <3>2 DEF c
  <2>5. wire[k + 1].image = arriving[Taken + Count(wire, k + 1)]
    BY <2>3, <2>4 DEF Delivery, RowsInPlace
  <2>6. QED
    BY <2>2, <2>4, <2>5
<1>13. RowsInPlace'
  <2>1. \A i \in DOMAIN images' : i <= Len(arriving') => images'[i].image = OfStream(arriving'[i])
    BY <1>1 DEF Delivery, RowsInPlace
  <2>2. \A i \in DOMAIN basicImage' :
          Len(images') + i <= Len(arriving') =>
            basicImage'[i] = OfStream(arriving'[Len(images') + i])
    BY <1>1, <1>11
  <2>3. \A k \in RowsIn(wire') :
          Taken' + Count(wire', k) <= Len(arriving') =>
            wire'[k].image = arriving'[Taken' + Count(wire', k)]
    BY <1>1, <1>12
  <2>4. QED
    BY <1>1, <2>1, <2>2, <2>3 DEF RowsInPlace, Count, OfStream
<1>14. QED
  BY <1>10, <1>13 DEF Delivery

\* The other steps move no row.
LEMMA DeliveryKeptByOthers ==
  ASSUME TypeOK, Delivery,
         FifoEnds \/ WriteFails \/ ReadAheadThrows \/ EndOfStream \/ Unexpected
                  \/ UNCHANGED vars
  PROVE  Delivery'
<1>1. UNCHANGED <<request, wire, arriving, images, basicImage>>
  BY DEF FifoEnds, WriteFails, ReadAheadThrows, EndOfStream, Unexpected, vars, readerVars
<1>2. link = "eof" => link' = "eof"
  BY DEF FifoEnds, WriteFails, ReadAheadThrows, EndOfStream, Unexpected, vars
<1>3. Taken' = Taken /\ (Binary' <=> Binary)
  BY <1>1 DEF Taken, Binary
<1>4. RowsCounted'
  BY <1>1, <1>2, <1>3 DEF Delivery, RowsCounted, Count
<1>5. RowsInPlace'
  BY <1>1, <1>3 DEF Delivery, RowsInPlace, Count, OfStream
<1>6. QED
  BY <1>4, <1>5 DEF Delivery

LEMMA DeliveryKept ==
  ASSUME TypeOK, Delivery, [Next]_vars
  PROVE  Delivery'
  BY DeliveryKeptByHeader, DeliveryKeptByRow, DeliveryKeptByBreak, DeliveryKeptByLook,
     DeliveryKeptByItem, DeliveryKeptByOthers DEF Next, Server, Reader

-----------------------------------------------------------------------------
(* Every image comes after its frame *)

\* What follows on the wire takes nothing from what was announced.
LEMMA AnnouncedPrefix ==
  ASSUME NEW s, NEW t, NEW last, NEW k \in Nat, NEW f,
         \A i \in 1 .. k - 1 : t[i] = s[i], Announced(s, last, k, f)
  PROVE  Announced(t, last, k, f)
  BY DEF Announced

\* A frame is announced beyond an item that is not a frame definition.
LEMMA AnnouncedOn ==
  ASSUME NEW s, NEW last, NEW k \in Nat \ {0}, NEW f, s[k].tag # "FR",
         Announced(s, last, k, f)
  PROVE  Announced(s, last, k + 1, f)
<1>1. PICK j \in 0 .. k - 1 :
        /\ IF j = 0 THEN last >= f ELSE s[j].tag = "FR"
        /\ \A m \in 1 .. k - 1 : m >= j /\ s[m].tag = "FR" => s[m].f >= f
  BY DEF Announced
<1>2. j \in 0 .. (k + 1) - 1
  OBVIOUS
<1>3. \A m \in 1 .. (k + 1) - 1 : m >= j /\ s[m].tag = "FR" => s[m].f >= f
  <2> SUFFICES ASSUME NEW m \in 1 .. (k + 1) - 1, m >= j, s[m].tag = "FR"
               PROVE  s[m].f >= f
    OBVIOUS
  <2>1. m # k
    OBVIOUS
  <2>2. m \in 1 .. k - 1
    BY <2>1
  <2>3. QED
    BY <1>1, <2>2
<1>4. QED
  BY <1>1, <1>2, <1>3 DEF Announced

\* A frame definition announces its frame and those before.
LEMMA AnnouncedNow ==
  ASSUME NEW s, NEW last, NEW k \in Nat \ {0}, NEW f, s[k].tag = "FR", s[k].f >= f
  PROVE  Announced(s, last, k + 1, f)
<1>1. k \in 0 .. (k + 1) - 1 /\ k # 0
  OBVIOUS
<1>2. \A m \in 1 .. (k + 1) - 1 : m >= k => m = k
  OBVIOUS
<1>3. QED
  BY <1>1, <1>2 DEF Announced

\* What was announced still is when the first item is read: a frame definition
\* becomes the frame told.
LEMMA AnnouncedTail ==
  ASSUME NEW s, NEW t, NEW last, NEW next, NEW k \in Nat \ {0}, NEW f,
         Announced(s, last, k + 1, f),
         \A i \in 1 .. k - 1 : t[i] = s[i + 1],
         next = IF s[1].tag = "FR" THEN s[1].f ELSE last
  PROVE  Announced(t, next, k, f)
<1>1. PICK j \in 0 .. (k + 1) - 1 :
        /\ IF j = 0 THEN last >= f ELSE s[j].tag = "FR"
        /\ \A m \in 1 .. (k + 1) - 1 : m >= j /\ s[m].tag = "FR" => s[m].f >= f
  BY DEF Announced
<1>2. \A m \in 1 .. k - 1 : m + 1 >= j /\ t[m].tag = "FR" => t[m].f >= f
  <2> SUFFICES ASSUME NEW m \in 1 .. k - 1, m + 1 >= j, t[m].tag = "FR"
               PROVE  t[m].f >= f
    OBVIOUS
  <2>1. m + 1 \in 1 .. (k + 1) - 1 /\ t[m] = s[m + 1]
    OBVIOUS
  <2>2. QED
    BY <1>1, <2>1
<1>3. CASE j = 0 \/ j = 1
  <2>1. next >= f
    <3>1. CASE s[1].tag = "FR"
      <4>1. 1 \in 1 .. (k + 1) - 1 /\ 1 >= j
        BY <1>3
      <4>2. QED
        BY <1>1, <3>1, <4>1
    <3>2. CASE s[1].tag # "FR"
      BY <1>1, <1>3, <3>2
    <3>3. QED
      BY <3>1, <3>2
  <2>2. \A m \in 1 .. k - 1 : m >= 0 /\ t[m].tag = "FR" => t[m].f >= f
    <3>1. \A m \in 1 .. k - 1 : m + 1 >= j
      BY <1>3
    <3>2. QED
      BY <1>2, <3>1
  <2>3. 0 \in 0 .. k - 1
    OBVIOUS
  <2>4. QED
    BY <2>1, <2>2, <2>3 DEF Announced
<1>4. CASE j > 1
  <2>1. j - 1 \in 0 .. k - 1 /\ j - 1 # 0 /\ j - 1 \in 1 .. k - 1 /\ (j - 1) + 1 = j
    BY <1>1, <1>4
  <2>2. t[j - 1].tag = "FR"
    BY <1>1, <1>4, <2>1
  <2>3. \A m \in 1 .. k - 1 : m >= j - 1 /\ t[m].tag = "FR" => t[m].f >= f
    BY <1>1, <1>2
  <2>4. QED
    BY <2>1, <2>2, <2>3 DEF Announced
<1>5. QED
  BY <1>1, <1>3, <1>4

LEMMA FramesKeptByHeader ==
  ASSUME TypeOK, WireInOrder, FramesAnnounced, WriteHeader
  PROVE  FramesAnnounced'
<1>1. wire \in Seq(Item) /\ wire' \in Seq(Item)
  BY HeaderWritten DEF TypeOK
<1>2. wire = <<>> /\ Len(wire) = 0 /\ prevFrameId = NoFrame
  BY <1>1, ItemsDomain DEF WireInOrder, FramesAnnounced, WriteHeader
<1>3. wire'[1].tag = "RS" /\ \A k \in 2 .. Len(wire') : wire'[k].tag = "CH"
  BY <1>2, HeaderWritten
<1>4. RowsIn(wire') = {}
  <2>1. \A k \in 1 .. Len(wire') : wire'[k].tag # "RW"
    BY <1>1, <1>3, ItemsDomain
  <2>2. QED
    BY <1>1, <2>1, RowsAreItems
<1>5. /\ prevFrameId' = NoFrame /\ server' = "rows"
      /\ UNCHANGED <<basicImage, told, images>>
  BY <1>2 DEF WriteHeader, readerVars
<1>6. QED
  BY <1>4, <1>5 DEF FramesAnnounced, FrameToldFirst

\* A row is written behind the definition of its frame: a new one, or the one
\* its predecessor was written behind.
LEMMA FramesKeptByRow ==
  ASSUME TypeOK, FramesAnnounced, WriteRow
  PROVE  FramesAnnounced'
<1> DEFINE row == Rows[pos + 1]
           fr  == IF NewFrame(row) THEN 1 ELSE 0
           rw  == IF Wanted(row) THEN 1 ELSE 0
           L   == Len(wire)
           w   == wire'
           f   == row.f
           e   == L + fr + 1
<1>1. /\ w \in Seq(Item) /\ Len(w) = L + fr + rw
      /\ \A k \in 1 .. L : w[k] = wire[k]
      /\ NewFrame(row) => w[L + 1].tag = "FR" /\ w[L + 1].f >= f
      /\ Wanted(row) => w[e].tag = "RW" /\ w[e].image = Clipped(row)
      /\ pos + 1 \in DOMAIN Rows
  BY RowWritten, Zenon
<1>2. wire \in Seq(Item) /\ L \in Nat
  BY DeliverySizes
<1>3. /\ server = "rows" /\ server' = "rows" /\ link = "open" /\ link' = "open"
      /\ prevFrameId' = f
      /\ UNCHANGED <<basicImage, told, images>>
  BY DEF WriteRow, readerVars
<1>4. f \in Nat /\ (Wanted(row) => Clipped(row).f = f)
  BY <1>1, RowFields DEF Clipped
<1>5. /\ fr \in {0, 1} /\ rw \in {0, 1}
      /\ fr = 1 <=> NewFrame(row)
      /\ rw = 1 <=> Wanted(row)
  OBVIOUS
<1>6. fr = 0 => f = prevFrameId /\ prevFrameId # NoFrame
  BY <1>4 DEF NewFrame, NoFrame
<1> HIDE DEF fr, rw, row, w, f
<1>7. Announced(w, told, e, f)
  <2>1. CASE fr = 1
    <3> DEFINE k == L + 1
    <3>1. k \in Nat \ {0} /\ w[k].tag = "FR" /\ w[k].f >= f /\ e = k + 1
      BY <1>1, <1>2, <1>5, <2>1
    <3> HIDE DEF k, e
    <3>2. Announced(w, told, k + 1, f)
      BY <3>1, AnnouncedNow
    <3>3. QED
      BY <3>1, <3>2
  <2>2. CASE fr = 0
    <3>1. Announced(wire, told, L + 1, f) /\ e = L + 1
      BY <1>2, <1>3, <1>6, <2>2 DEF FramesAnnounced
    <3>2. e \in Nat /\ \A i \in 1 .. e - 1 : w[i] = wire[i]
      BY <1>1, <1>2, <3>1
    <3> HIDE DEF e, L
    <3>3. Announced(wire, told, e, f)
      BY <3>1
    <3>4. QED
      BY <3>2, <3>3, AnnouncedPrefix
  <2>3. QED
    BY <1>5, <2>1, <2>2
<1>8. Announced(w, told, Len(w) + 1, f)
  <2>1. CASE rw = 0
    <3>1. Len(w) + 1 = e
      BY <1>1, <1>2, <1>5, <2>1
    <3>2. QED
      BY <1>7, <3>1
  <2>2. CASE rw = 1
    <3>1. Len(w) + 1 = e + 1 /\ e \in Nat \ {0} /\ w[e].tag # "FR"
      BY <1>1, <1>2, <1>5, <2>2
    <3> HIDE DEF e
    <3>2. Announced(w, told, e + 1, f)
      BY <1>7, <3>1, AnnouncedOn
    <3>3. QED
      BY <3>1, <3>2
  <2>3. QED
    BY <1>5, <2>1, <2>2
<1>9. \A k \in RowsIn(w) : Announced(w, told, k, w[k].image.f)
  <2> SUFFICES ASSUME NEW k \in RowsIn(w) PROVE Announced(w, told, k, w[k].image.f)
    OBVIOUS
  <2>1. k \in Nat /\ 1 <= k /\ k <= L + fr + rw /\ w[k].tag = "RW"
    BY <1>1, RowsAreItems
  <2>2. CASE k <= L
    <3>1. w[k] = wire[k] /\ k \in 1 .. L
      BY <1>1, <1>2, <2>1, <2>2
    <3>2. k \in RowsIn(wire)
      BY <1>2, <2>1, <3>1, RowsAreItems
    <3> DEFINE g == wire[k].image.f
    <3>3. Announced(wire, told, k, g) /\ w[k].image.f = g
      BY <3>1, <3>2 DEF FramesAnnounced
    <3>4. \A i \in 1 .. k - 1 : w[i] = wire[i]
      BY <1>1, <1>2, <2>1, <2>2
    <3> HIDE DEF g
    <3>5. Announced(w, told, k, g)
      BY <2>1, <3>3, <3>4, AnnouncedPrefix
    <3>6. QED
      BY <3>3, <3>5
  <2>3. CASE k > L
    <3>1. k = e /\ rw = 1
      <4>1. ~(fr = 1 /\ k = L + 1)
        BY <1>1, <1>5, <2>1
      <4>2. CASE fr = 0
        BY <1>2, <1>5, <2>1, <2>3, <4>2
      <4>3. CASE fr = 1
        BY <1>2, <1>5, <2>1, <2>3, <4>1, <4>3
      <4>4. QED
        BY <1>5, <4>2, <4>3
    <3>2. w[k].image.f = f
      BY <1>1, <1>4, <1>5, <3>1
    <3>3. QED
      BY <1>7, <3>1, <3>2
  <2>4. QED
    BY <1>2, <2>1, <2>2, <2>3
<1>10. \A k \in RowsIn(wire') : Announced(wire', told', k, wire'[k].image.f)
  BY <1>3, <1>9 DEF w
<1>11. Announced(wire', told', Len(wire') + 1, prevFrameId')
  BY <1>3, <1>8 DEF w
<1>12. QED
  BY <1>3, <1>10, <1>11 DEF FramesAnnounced, FrameToldFirst

\* A break leaves what announced the rows that are left.
LEMMA FramesKeptByBreak ==
  ASSUME TypeOK, FramesAnnounced, ConnectionBreaks
  PROVE  FramesAnnounced'
<1>1. PICK how \in {"eof", "reset"}, n \in 0 .. Len(wire) : BreakAfter(n, how) /\ link' = how
  BY BreakCases
<1>2. wire \in Seq(Item) /\ wire' \in Seq(Item)
  BY <1>1, WireCut DEF TypeOK
<1>3. /\ n \in Nat /\ Len(wire) \in Nat /\ Len(wire') \in Nat
      /\ n <= Len(wire') /\ Len(wire') <= n + 1 /\ Len(wire') <= Len(wire)
      /\ \A k \in 1 .. n : wire'[k] = wire[k]
      /\ Len(wire') = n + 1 =>
           \/ wire'[n + 1].tag \in {"half", "bad"}
           \/ /\ wire'[n + 1].tag = wire[n + 1].tag
              /\ wire[n + 1].tag = "RW" => wire'[n + 1].image.f = wire[n + 1].image.f
  BY <1>1, WireCut
<1>4. UNCHANGED <<basicImage, told, images, server, prevFrameId>> /\ link' # "open"
  BY <1>1 DEF ConnectionBreaks, serverVars, readerVars
<1>5. \A k \in RowsIn(wire') : Announced(wire', told', k, wire'[k].image.f)
  <2> SUFFICES ASSUME NEW k \in RowsIn(wire')
               PROVE  Announced(wire', told', k, wire'[k].image.f)
    OBVIOUS
  <2>1. k \in Nat /\ 1 <= k /\ k <= Len(wire') /\ wire'[k].tag = "RW"
    BY <1>2, RowsAreItems
  <2>2. wire[k].tag = "RW" /\ wire'[k].image.f = wire[k].image.f
    <3>1. CASE k <= n
      BY <1>3, <2>1, <3>1
    <3>2. CASE k = n + 1
      <4>1. Len(wire') = n + 1
        BY <1>3, <2>1, <3>2
      <4>2. QED
        BY <1>3, <2>1, <3>2, <4>1
    <3>3. QED
      BY <1>3, <2>1, <3>1, <3>2
  <2>3. k \in RowsIn(wire)
    <3>1. k \in 1 .. Len(wire)
      BY <1>3, <2>1
    <3>2. QED
      BY <1>2, <2>2, <3>1, RowsAreItems
  <2> DEFINE g == wire[k].image.f
             w == wire'
  <2>4. Announced(wire, told, k, g)
    BY <2>3 DEF FramesAnnounced
  <2>5. \A i \in 1 .. k - 1 : w[i] = wire[i]
    BY <1>3, <2>1
  <2> HIDE DEF g, w
  <2>6. Announced(w, told, k, g)
    BY <2>1, <2>4, <2>5, AnnouncedPrefix
  <2>7. QED
    BY <1>4, <2>2, <2>6 DEF g, w
<1>6. QED
  BY <1>4, <1>5 DEF FramesAnnounced, FrameToldFirst

\* The image that is notified had its frame told.
LEMMA FramesKeptByLook ==
  ASSUME TypeOK, FramesAnnounced, ReadAhead \/ ReadHalfTag \/ ReadEnd \/ ReadBreaksOff
  PROVE  FramesAnnounced'
<1> DEFINE n == Len(images)
           b == Len(basicImage)
<1>1. Return /\ UNCHANGED <<request, serverVars, link, wire, told>>
  BY DEF ReadAhead, ReadHalfTag, ReadEnd, ReadBreaksOff
<1>2. /\ images' \in Seq([image : Image, told : Nat \union {NoFrame}])
      /\ Len(images') = n + b
      /\ \A i \in 1 .. n : images'[i] = images[i]
      /\ \A i \in 1 .. b : images'[n + i] = [image |-> basicImage[i], told |-> told]
      /\ basicImage' = <<>>
  BY <1>1, ImageReturned
<1>3. /\ n \in Nat /\ b \in Nat
      /\ DOMAIN images = 1 .. n /\ DOMAIN basicImage = 1 .. b
      /\ basicImage \in Seq(Image)
  <2>1. basicImage \in Seq(Image)
    BY DEF TypeOK
  <2>2. QED
    BY <2>1, DeliverySizes
<1>4. DOMAIN images' = 1 .. n + b /\ DOMAIN basicImage' = {}
  <2> DEFINE T == [image : Image, told : Nat \union {NoFrame}]
  <2>1. images' \in Seq(T)
    BY <1>2
  <2> HIDE DEF T
  <2>2. DOMAIN images' = 1 .. Len(images')
    BY <2>1
  <2>3. QED
    BY <1>2, <2>2
<1>5. \A i \in DOMAIN images' :
        images'[i].told # NoFrame /\ images'[i].told >= images'[i].image.f
  <2> SUFFICES ASSUME NEW i \in DOMAIN images'
               PROVE  images'[i].told # NoFrame /\ images'[i].told >= images'[i].image.f
    OBVIOUS
  <2>1. CASE i \in 1 .. n
    <3>1. i \in DOMAIN images /\ images'[i] = images[i]
      BY <1>2, <1>3, <2>1
    <3>2. QED
      BY <3>1 DEF FramesAnnounced, FrameToldFirst
  <2>2. CASE i - n \in 1 .. b
    <3> DEFINE j == i - n
    <3>1. j \in DOMAIN basicImage /\ i = n + j /\ j \in 1 .. b
      BY <1>3, <1>4, <2>2
    <3> HIDE DEF j
    <3>2. images'[i] = [image |-> basicImage[j], told |-> told]
      BY <1>2, <3>1
    <3>3. told >= basicImage[j].f
      BY <3>1 DEF FramesAnnounced
    <3>4. basicImage[j].f \in Nat
      BY <1>3, <3>1, ImageFields
    <3>5. told # NoFrame
      BY <3>3, <3>4 DEF NoFrame
    <3>6. QED
      BY <3>2, <3>3, <3>5
  <2>3. QED
    BY <1>3, <1>4, <2>1, <2>2
<1>6. FrameToldFirst'
  BY <1>5 DEF FrameToldFirst
<1>7. QED
  BY <1>1, <1>4, <1>6 DEF FramesAnnounced, serverVars

\* The reader tells the frame it takes, and holds a row its frame was told of.
LEMMA FramesKeptByItem ==
  ASSUME TypeOK, WireInOrder, FramesAnnounced,
         ReadReferenceSpace \/ SkipChannelDef \/ ReadFrameDef \/ ReadRow
  PROVE  FramesAnnounced'
<1>1. /\ wire # <<>> /\ wire' = Tail(wire) /\ reader = "next"
      /\ UNCHANGED <<serverVars, link, images>>
  BY DEF ReadReferenceSpace, SkipChannelDef, ReadFrameDef, ReadRow, Has
<1>2. /\ wire \in Seq(Item) /\ wire' \in Seq(Item)
      /\ Len(wire) = Len(wire') + 1 /\ Len(wire') \in Nat
      /\ \A i \in 1 .. Len(wire') : wire'[i] = wire[i + 1]
      /\ Head(wire) = wire[1] /\ wire[1] \in Item /\ 1 \in DOMAIN wire
  BY <1>1, ItemTaken DEF TypeOK
<1>3. basicImage = <<>>
  BY <1>1 DEF TypeOK
<1>4. told' = IF wire[1].tag = "FR" THEN wire[1].f ELSE told
  BY <1>2 DEF ReadReferenceSpace, SkipChannelDef, ReadFrameDef, ReadRow, Has
<1>5. \/ basicImage' = <<>>
      \/ wire[1].tag = "RW" /\ basicImage' = <<OfStream(wire[1].image)>>
  BY <1>2, <1>3 DEF ReadReferenceSpace, SkipChannelDef, ReadFrameDef, ReadRow, Has
<1>6. ASSUME NEW k \in Nat \ {0}, k <= Len(wire') + 1, NEW f, Announced(wire, told, k + 1, f)
      PROVE  Announced(wire', told', k, f)
  <2> DEFINE w == wire'
             t == told'
  <2>1. \A i \in 1 .. k - 1 : w[i] = wire[i + 1]
    <3>1. \A i \in 1 .. k - 1 : i \in 1 .. Len(wire')
      BY <1>2, <1>6
    <3>2. QED
      BY <1>2, <3>1
  <2>2. t = IF wire[1].tag = "FR" THEN wire[1].f ELSE told
    BY <1>4
  <2> HIDE DEF w, t
  <2>3. Announced(w, t, k, f)
    BY ONLY <1>6, <2>1, <2>2, AnnouncedTail, SMTT(30)
  <2>4. QED
    BY <2>3 DEF w, t
<1>7. \A k \in RowsIn(wire') : Announced(wire', told', k, wire'[k].image.f)
  <2> SUFFICES ASSUME NEW k \in RowsIn(wire')
               PROVE  Announced(wire', told', k, wire'[k].image.f)
    OBVIOUS
  <2>1. k \in Nat \ {0} /\ k \in 1 .. Len(wire') /\ wire'[k].tag = "RW" /\ k <= Len(wire') + 1
    BY <1>2, RowsAreItems
  <2>2. wire'[k] = wire[k + 1] /\ k + 1 \in 1 .. Len(wire)
    BY <1>2, <2>1
  <2>3. k + 1 \in RowsIn(wire)
    BY <1>2, <2>1, <2>2, RowsAreItems
  <2> DEFINE g == wire[k + 1].image.f
  <2>4. Announced(wire, told, k + 1, g) /\ wire'[k].image.f = g
    BY <2>2, <2>3 DEF FramesAnnounced
  <2> HIDE DEF g
  <2>5. Announced(wire', told', k, g)
    BY <1>6, <2>1, <2>4
  <2>6. QED
    BY <2>4, <2>5
<1>8. server' = "rows" /\ link' = "open" /\ prevFrameId' # NoFrame =>
        Announced(wire', told', Len(wire') + 1, prevFrameId')
  <2> SUFFICES ASSUME server = "rows", link = "open", prevFrameId # NoFrame
               PROVE  Announced(wire', told', Len(wire') + 1, prevFrameId)
    BY <1>1 DEF serverVars
  <2> DEFINE k == Len(wire') + 1
  <2>1. Announced(wire, told, Len(wire) + 1, prevFrameId)
    BY DEF FramesAnnounced
  <2>2. k \in Nat \ {0} /\ k <= Len(wire') + 1 /\ Len(wire) + 1 = k + 1
    BY <1>2
  <2> HIDE DEF k
  <2>3. Announced(wire', told', k, prevFrameId)
    BY <1>6, <2>1, <2>2
  <2>4. QED
    BY <2>3 DEF k
<1>9. \A i \in DOMAIN basicImage' : told' >= basicImage'[i].f
  <2> SUFFICES ASSUME wire[1].tag = "RW", basicImage' = <<OfStream(wire[1].image)>>
               PROVE  told' >= OfStream(wire[1].image).f
    BY <1>5
  <2>1. 1 \in RowsIn(wire)
    BY <1>2 DEF RowsIn
  <2>2. Announced(wire, told, 1, wire[1].image.f)
    BY <2>1 DEF FramesAnnounced
  <2>3. told >= wire[1].image.f
    BY <2>2 DEF Announced
  <2>4. OfStream(wire[1].image).f = wire[1].image.f
    <3>1. wire[1].image \in Image
      BY <1>2, ItemKinds
    <3>2. QED
      BY <3>1, ImageOfStream DEF TypeOK
  <2>5. QED
    BY <1>4, <2>3, <2>4
<1>10. server' = "header" => prevFrameId' = NoFrame
  BY <1>1 DEF FramesAnnounced, serverVars
<1>11. FrameToldFirst'
  BY <1>1 DEF FramesAnnounced, FrameToldFirst
<1>12. QED
  BY <1>7, <1>8, <1>9, <1>10, <1>11 DEF FramesAnnounced

LEMMA FramesKept ==
  ASSUME TypeOK, WireInOrder, FramesAnnounced, [Next]_vars
  PROVE  FramesAnnounced'
<1>1. CASE FifoEnds \/ WriteFails
  <2>1. server' = "done" /\ UNCHANGED <<wire, told, basicImage, images>>
    BY <1>1 DEF FifoEnds, WriteFails, readerVars
  <2>2. QED
    BY <2>1 DEF FramesAnnounced, FrameToldFirst
<1>2. CASE ReadAheadThrows \/ EndOfStream \/ Unexpected \/ UNCHANGED vars
  <2>1. UNCHANGED <<server, prevFrameId, link, wire, told, basicImage, images>>
    BY <1>2 DEF ReadAheadThrows, EndOfStream, Unexpected, vars, serverVars, readerVars
  <2>2. QED
    BY <2>1 DEF FramesAnnounced, FrameToldFirst
<1>3. QED
  BY <1>1, <1>2, FramesKeptByHeader, FramesKeptByRow, FramesKeptByBreak, FramesKeptByLook,
     FramesKeptByItem DEF Next, Server, Reader

-----------------------------------------------------------------------------
(* The theorems *)

LEMMA InvariantInit ==
  ASSUME Init
  PROVE  IInv
<1>1. /\ wire = <<>> /\ arriving = <<>> /\ images = <<>> /\ basicImage = <<>>
      /\ server = "header" /\ stage = "RS" /\ reader = "look" /\ prevFrameId = NoFrame
  BY DEF Init
<1>2. TypeOK
  BY TypeInit
<1>3. RowsIn(wire) = {} /\ Len(wire) = 0 /\ Taken = 0
  BY <1>1 DEF RowsIn, Taken
<1>4. RowsCounted
  <2>1. wire \in Seq(Item) /\ Len(wire) \in Int
    BY <1>1
  <2>2. Count(wire, Len(wire)) = 0
    BY <1>3, <2>1, CountNone
  <2>3. Len(arriving) = 0
    BY <1>1
  <2>4. QED
    BY <1>3, <2>2, <2>3 DEF RowsCounted
<1>5. RowsInPlace /\ RowsClipped /\ WireInOrder
  BY <1>1, <1>3 DEF RowsInPlace, RowsClipped, WireInOrder
<1>6. TagAhead /\ FramesAnnounced
  BY <1>1, <1>3 DEF TagAhead, FramesAnnounced, FrameToldFirst
<1>7. QED
  BY <1>2, <1>4, <1>5, <1>6 DEF IInv

LEMMA InvariantKept ==
  ASSUME IInv, [Next]_vars
  PROVE  IInv'
<1>1. TypeOK' /\ RowsClipped' /\ WireInOrder' /\ TagAhead' /\ FramesAnnounced'
  BY TypeKept, ClippedKept, OrderKept, TagKept, FramesKept DEF IInv
<1>2. RowsCounted' /\ RowsInPlace'
  BY DeliveryKept DEF IInv, Delivery
<1>3. QED
  BY <1>1, <1>2 DEF IInv

\* Every row the server wrote and the break did not take is notified, held or
\* on the wire, in the place that the count of those before it gives it, behind
\* its frame; what is written is a clipped row; the tag read ahead is the wire's.
THEOREM InductiveInvariant == Spec => []IInv
<1>1. Init => IInv
  BY InvariantInit
<1>2. IInv /\ [Next]_vars => IInv'
  BY InvariantKept
<1>3. QED
  BY <1>1, <1>2, PTL DEF Spec

\* The observers of StreamReaderThread get the rows that convert sent, each
\* once, whole and in order; only text that ends in the middle of a row gives
\* them one image more.
THEOREM RowsDelivered == Spec => []ImagesAreRowsSent
<1>1. IInv => ImagesAreRowsSent
  <2> SUFFICES ASSUME IInv PROVE ImagesAreRowsSent
    OBVIOUS
  <2>1. \A i \in DOMAIN images : i <= Len(arriving) => images[i].image = OfStream(arriving[i])
    BY DEF IInv, RowsInPlace
  <2>2. /\ wire \in Seq(Item) /\ Len(arriving) \in Nat /\ Len(images) \in Nat
        /\ Len(basicImage) \in Nat
    BY DeliverySizes DEF IInv
  <2>3. Count(wire, Len(wire)) \in Nat
    BY <2>2, CountBounds
  <2>4. Len(images) <= Taken + Count(wire, Len(wire)) /\ Taken + Count(wire, Len(wire)) \in Nat
    BY <2>2, <2>3 DEF Taken
  <2>5. CASE Taken + Count(wire, Len(wire)) = Len(arriving)
    BY <2>1, <2>2, <2>4, <2>5 DEF ImagesAreRowsSent
  <2>6. CASE /\ ~Binary /\ link = "eof"
             /\ Taken + Count(wire, Len(wire)) = Len(arriving) + 1
    BY <2>1, <2>2, <2>4, <2>6 DEF ImagesAreRowsSent
  <2>7. QED
    BY <2>5, <2>6 DEF IInv, RowsCounted
<1>2. QED
  BY <1>1, InductiveInvariant, PTL

\* A reader that ends has passed on every row that came whole, but for half a
\* tag taken for the end, and but for one row at the most: the one that waited
\* for its next tag when the exception left nextImage, or the line of text that
\* a reset met the reader behind and that _readTokenLine dropped.
THEOREM RowsNotLost == Spec => []LastRowLostAtMost
<1>1. IInv => LastRowLostAtMost
  <2> DEFINE lost == IF outcome = "exception" \/ (~Binary /\ link = "reset") THEN 1 ELSE 0
             n == Len(images)
             b == Len(basicImage)
             c == Count(wire, Len(wire))
             a == Len(arriving)
  <2> SUFFICES ASSUME IInv, reader = "done", ~split
               PROVE  n >= a - lost
    BY DEF LastRowLostAtMost
  <2>1. /\ wire \in Seq(Item) /\ a \in Nat /\ n \in Nat /\ b \in {0, 1}
        /\ Len(wire) \in Nat /\ c \in Nat
    <3>1. /\ wire \in Seq(Item) /\ a \in Nat /\ n \in Nat /\ b \in {0, 1}
          /\ Len(wire) \in Nat
      BY DeliverySizes DEF IInv
    <3>2. c \in Nat
      BY <3>1, CountBounds
    <3>3. QED
      BY <3>1, <3>2
  <2>2. n + b + c >= a
    <3>1. Taken + c >= a
      BY <2>1, DeliverySizes DEF IInv, RowsCounted
    <3>2. QED
      BY <3>1 DEF Taken
  <2>3. /\ RowsIn(wire) = {} \/ (~Binary /\ link = "reset" /\ Len(wire) <= 1)
        /\ outcome # "exception" \/ ~Binary => basicImage = <<>>
    BY DEF IInv, TagAhead
  <2>4. RowsIn(wire) = {} => c = 0
    BY <2>1, CountNone
  <2>5. Len(wire) <= 1 => c <= 1
    <3>1. Count(wire, 0) = 0
      BY <2>1, CountNone
    <3>2. Count(wire, 0 + 1) \in {Count(wire, 0), Count(wire, 0) + 1}
      BY <2>1, CountNext
    <3>3. Count(wire, 1) <= 1
      BY <3>1, <3>2
    <3>4. QED
      BY <2>1, <3>1, <3>3 DEF c
  <2>6. basicImage = <<>> => b = 0
    OBVIOUS
  <2>7. lost \in {0, 1}
        /\ (lost = 1 <=> outcome = "exception" \/ (~Binary /\ link = "reset"))
    OBVIOUS
  <2> HIDE DEF lost, n, b, c, a
  <2>8. CASE Binary
    <3>1. c = 0
      BY <2>3, <2>4, <2>8
    <3>2. lost = 1 \/ b = 0
      BY <2>3, <2>6, <2>7, <2>8
    <3>3. QED
      BY <2>1, <2>2, <2>7, <3>1, <3>2
  <2>9. CASE ~Binary
    <3>1. b = 0
      BY <2>3, <2>6, <2>9
    <3>2. c = 0 \/ (c <= 1 /\ lost = 1)
      BY <2>3, <2>4, <2>5, <2>7, <2>9
    <3>3. QED
      BY <2>1, <2>2, <2>7, <3>1, <3>2
  <2>10. QED
    BY <2>8, <2>9
<1>2. QED
  BY <1>1, InductiveInvariant, PTL

\* Clipping to the box, at the resolution of the channel, keeps every pixel over
\* its column, takes at most one from behind the row, and at full resolution
\* leaves no column of the box out.
THEOREM PixelsClippedInPlace == Spec => []PixelsInPlace
<1>1. IInv => PixelsInPlace
  BY RowsClippedInPlace DEF IInv, TypeOK
<1>2. QED
  BY <1>1, InductiveInvariant, PTL

\* No image reaches the observers before notifyFrameStarts of its frame, or of a
\* later one: convert writes the definition before the row, and the reader,
\* although it looks a tag ahead, handles them in that order.
THEOREM FramesToldFirst == Spec => []FrameToldFirst
<1>1. IInv => FrameToldFirst
  BY DEF IInv, FramesAnnounced
<1>2. QED
  BY <1>1, InductiveInvariant, PTL

-----------------------------------------------------------------------------
(* The reader comes to the end of what there is *)

\* What the break left is no tag and no line that ends: a byte of a binary tag, or
\* text before a reset.
HalfTagsRead == \A k \in DOMAIN wire : wire[k].tag = "half" => Binary \/ link = "reset"

\* The steps the reader has left once nothing more is written: two for an item,
\* its tag and the rest of it, and those of the end.
Remaining ==
  2 * Len(wire) + (IF reader = "look" THEN 2 ELSE IF reader = "next" THEN 1 ELSE 0)

\* Some step of the reader is open to it: a tag or a line to read that came whole, one
\* byte of a tag, the line that a reset drops, the end of what came, or the item of the
\* tag it has.
ReaderMayStep ==
  \/ reader = "look" /\ wire # <<>> /\ Head(wire).tag # "half" /\ (Binary \/ LineEnds)
  \/ reader = "look" /\ wire # <<>> /\ Binary
  \/ reader = "look" /\ Len(wire) = 1 /\ ~Binary /\ link = "reset"
  \/ reader = "look" /\ wire = <<>> /\ link # "open"
  \/ reader = "next"

\* A reader whose connection is closed or broken, and that has not told its
\* observers of the end, never waits for anything.
ReaderNotStuck == link # "open" /\ reader # "done" => ReaderMayStep

\* Each step of the reader leaves it fewer, and once the connection is closed or
\* broken it stays so and no step of the server or of the break adds any.
ReaderGetsOn ==
  [][/\ Reader => Remaining' < Remaining
     /\ link # "open" => link' # "open" /\ Remaining' <= Remaining]_vars

LEMMA HalfTagsKeptByBreak ==
  ASSUME TypeOK, HalfTagsRead, ConnectionBreaks
  PROVE  HalfTagsRead'
<1>1. PICK how \in {"eof", "reset"}, n \in 0 .. Len(wire) : BreakAfter(n, how) /\ link' = how
  BY BreakCases
<1>2. /\ wire \in Seq(Item) /\ wire' \in Seq(Item) /\ n \in Nat /\ Len(wire) \in Nat
      /\ Len(wire') \in Nat /\ Len(wire') <= n + 1
      /\ \A k \in 1 .. n : wire'[k] = wire[k]
      /\ Len(wire') = n + 1 => n < Len(wire)
  BY <1>1, WireCut DEF TypeOK
<1>3. Binary' = Binary /\ link # "reset"
  BY DEF ConnectionBreaks, Binary
<1>4. SUFFICES ASSUME ~Binary, how = "eof", NEW k \in DOMAIN wire', wire'[k].tag = "half"
               PROVE  FALSE
  BY <1>1, <1>3 DEF HalfTagsRead
<1>5. k \in 1 .. Len(wire') /\ k \in Nat
  BY <1>2, ItemsDomain
<1>6. CASE k <= n
  <2>1. k \in DOMAIN wire /\ wire'[k] = wire[k]
    BY <1>2, <1>5, <1>6, ItemsDomain
  <2>2. QED
    BY <1>3, <1>4, <2>1 DEF HalfTagsRead
<1>7. CASE k = n + 1
  <2>1. n < Len(wire) /\ n + 1 \in DOMAIN wire /\ Len(wire') = n + 1
    BY <1>2, <1>5, <1>7, ItemsDomain
  <2>2. CASE \E rest \in Broken(wire[n + 1], how) : wire' = SubSeq(wire, 1, n) \o rest
    <3>1. PICK rest \in Broken(wire[n + 1], how) : wire' = SubSeq(wire, 1, n) \o rest
      BY <2>2
    <3>2. wire[n + 1] \in Item /\ rest \in Seq(Item) /\ Len(rest) \in {0, 1}
      BY <1>2, <2>1, <3>1, BrokenItem
    <3>3. SubSeq(wire, 1, n) \in Seq(Item) /\ Len(SubSeq(wire, 1, n)) = n
      BY <1>2, <2>1
    <3>4. Len(rest) = 1 /\ wire'[n + 1] = rest[1]
      <4> DEFINE front == SubSeq(wire, 1, n)
      <4>1. front \in Seq(Item) /\ Len(front) = n /\ wire' = front \o rest
        BY <3>1, <3>3
      <4> HIDE DEF front
      <4>2. QED
        BY ONLY <4>1, <1>2, <2>1, <3>2, Appended, SMT
    <3>5. rest[1].tag \in {"half", "bad"} \/ rest[1].tag = wire[n + 1].tag
      BY <1>1, <3>1, <3>2, <3>4, BrokenItem
    <3>6. rest[1].tag # "half" \/ wire[n + 1].tag = "half"
      <4> DEFINE item == wire[n + 1]
      <4>1. rest \in Broken(item, how)
        BY <3>1
      <4>2. \/ rest \in {<<>>, <<[tag |-> "bad"]>>, <<item>>}
            \/ /\ item.tag = "RW"
               /\ \E i \in Shortened(item.image) : rest = <<[tag |-> "RW", image |-> i]>>
        <5> HIDE DEF item
        <5> QED BY <1>4, <4>1 DEF Broken
      <4>3. CASE rest \in {<<>>, <<[tag |-> "bad"]>>, <<item>>}
        BY <3>4, <4>3
      <4>4. CASE \E i \in Shortened(item.image) : rest = <<[tag |-> "RW", image |-> i]>>
        BY <4>4
      <4>5. QED
        BY <4>2, <4>3, <4>4
    <3>7. QED
      BY <1>3, <1>4, <1>7, <2>1, <3>4, <3>6 DEF HalfTagsRead
  <2>3. CASE n = 0 /\ TagTaken
    BY <1>1, <1>4, <1>7, <2>3, WireCut
  <2>4. QED
    BY <1>1, <2>1, <2>2, <2>3 DEF BreakAfter
<1>8. QED
  BY <1>2, <1>5, <1>6, <1>7

LEMMA HalfTagsKept ==
  ASSUME TypeOK, HalfTagsRead, [Next]_vars
  PROVE  HalfTagsRead'
<1>1. CASE UNCHANGED <<wire, request>> /\ (link = "reset" => link' = "reset")
  BY <1>1 DEF HalfTagsRead, Binary
<1>2. CASE WriteHeader
  <2>1. wire \in Seq(Item) /\ wire' \in Seq(Item) /\ Binary' = Binary /\ link' = link
    BY <1>2, HeaderWritten DEF TypeOK, WriteHeader, Binary
  <2>2. \A k \in DOMAIN wire' :
          \/ k \in DOMAIN wire /\ wire'[k] = wire[k]
          \/ wire'[k].tag \in {"RS", "CH"}
    BY <1>2, <2>1, HeaderWritten, ItemsDomain
  <2>3. QED
    BY <2>1, <2>2 DEF HalfTagsRead
<1>3. CASE WriteRow
  <2>1. wire \in Seq(Item) /\ wire' \in Seq(Item) /\ Binary' = Binary /\ link' = link
    BY <1>3, RowWritten DEF TypeOK, WriteRow, Binary
  <2>2. \A k \in DOMAIN wire' :
          \/ k \in DOMAIN wire /\ wire'[k] = wire[k]
          \/ wire'[k].tag \in {"FR", "RW"}
    <3> DEFINE fr == IF NewFrame(Rows[pos + 1]) THEN 1 ELSE 0
               rw == IF Wanted(Rows[pos + 1]) THEN 1 ELSE 0
    <3>1. /\ Len(wire') = Len(wire) + fr + rw
          /\ \A k \in 1 .. Len(wire) : wire'[k] = wire[k]
          /\ NewFrame(Rows[pos + 1]) => wire'[Len(wire) + 1].tag = "FR"
          /\ Wanted(Rows[pos + 1]) => wire'[Len(wire) + fr + 1].tag = "RW"
      BY <1>3, RowWritten
    <3>2. fr \in {0, 1} /\ rw \in {0, 1} /\ (fr = 1 => NewFrame(Rows[pos + 1]))
          /\ (rw = 1 => Wanted(Rows[pos + 1]))
      OBVIOUS
    <3> HIDE DEF fr, rw
    <3>3. /\ DOMAIN wire = 1 .. Len(wire) /\ Len(wire) \in Nat
          /\ DOMAIN wire' = 1 .. Len(wire')
      BY <2>1, ItemsDomain
    <3>4. \A k \in Len(wire) + 1 .. Len(wire') :
            (fr = 1 /\ k = Len(wire) + 1) \/ (rw = 1 /\ k = Len(wire) + fr + 1)
      BY <3>1, <3>2, <3>3
    <3>5. QED
      BY <3>1, <3>2, <3>3, <3>4
  <2>3. QED
    BY <2>1, <2>2 DEF HalfTagsRead
<1>4. CASE ReadReferenceSpace \/ SkipChannelDef \/ ReadFrameDef \/ ReadRow
  <2>1. wire # <<>> /\ wire' = Tail(wire) /\ Binary' = Binary /\ link' = link /\ wire \in Seq(Item)
    BY <1>4 DEF ReadReferenceSpace, SkipChannelDef, ReadFrameDef, ReadRow, Has, Binary, TypeOK
  <2>2. \A k \in DOMAIN wire' : k + 1 \in DOMAIN wire /\ wire'[k] = wire[k + 1]
    BY <2>1, ItemTaken, ItemsDomain
  <2>3. QED
    BY <2>1, <2>2 DEF HalfTagsRead
<1>5. CASE \/ FifoEnds \/ WriteFails \/ UNCHANGED vars
           \/ ReadAhead \/ ReadHalfTag \/ ReadEnd \/ ReadBreaksOff \/ ReadAheadThrows
           \/ EndOfStream \/ Unexpected
  <2>1. UNCHANGED <<wire, request>> /\ (link = "reset" => link' = "reset")
    BY <1>5 DEF FifoEnds, WriteFails, vars, ReadAhead, ReadHalfTag, ReadEnd, ReadBreaksOff,
                ReadAheadThrows, EndOfStream, Unexpected
  <2>2. QED
    BY <1>1, <2>1
<1>6. QED
  BY <1>2, <1>3, <1>4, <1>5, HalfTagsKeptByBreak DEF Next, Server, Reader

\* When the connection of a stream is closed or broken, wherever it breaks, the
\* reader thread has a step to take until it has told its observers of the end:
\* what is missing from StreamEnds is only that the steps left become fewer.
THEOREM ReaderNeverStuck == Spec => []ReaderNotStuck
<1>1. Init => HalfTagsRead
  BY DEF Init, HalfTagsRead
<1>2. TypeOK /\ HalfTagsRead /\ [Next]_vars => HalfTagsRead'
  BY HalfTagsKept
<1>3. IInv /\ HalfTagsRead => ReaderNotStuck
  <2> SUFFICES ASSUME IInv, HalfTagsRead, link # "open", reader = "look", wire # <<>>
               PROVE  ReaderMayStep
    BY DEF ReaderNotStuck, ReaderMayStep, IInv, TypeOK
  <2>1. /\ 1 \in DOMAIN wire /\ Head(wire) = wire[1] /\ Len(wire) \in Nat /\ Len(wire) >= 1
        /\ link \in {"closed", "eof", "reset"}
    BY Beheaded, ItemsDomain DEF IInv, TypeOK
  <2>2. CASE Binary
    BY <2>2 DEF ReaderMayStep
  <2>3. CASE ~Binary /\ wire[1].tag = "half"
    <3>1. Len(wire) = 1 /\ link = "reset"
      BY <2>1, <2>3 DEF IInv, WireInOrder, HalfTagsRead
    <3>2. QED
      BY <2>3, <3>1 DEF ReaderMayStep
  <2>4. CASE ~Binary /\ wire[1].tag # "half" /\ LineEnds
    BY <2>1, <2>4 DEF ReaderMayStep
  <2>5. CASE ~Binary /\ ~LineEnds
    <3>1. ~(Len(wire) > 1) /\ link \notin {"closed", "eof"}
      BY <2>5 DEF LineEnds
    <3>2. Len(wire) = 1
      <4> DEFINE n == Len(wire)
      <4>1. n \in Nat /\ n >= 1 /\ ~(n > 1)
        BY <2>1, <3>1
      <4> HIDE DEF n
      <4>2. n = 1
        BY <4>1
      <4>3. QED
        BY <4>2 DEF n
    <3>3. link = "reset"
      BY <2>1, <3>1
    <3>4. QED
      BY <2>5, <3>2, <3>3 DEF ReaderMayStep
  <2>6. QED
    BY <2>2, <2>3, <2>4, <2>5
<1>4. QED
  BY <1>1, <1>2, <1>3, TypeInvariant, InductiveInvariant, PTL DEF Spec

\* The reader thread takes no step for nothing: each takes a tag, an item or the
\* end, and after the last one none is left, which bounds the thread's run once
\* the connection is gone.
THEOREM ReaderRunsOut == Spec => ReaderGetsOn
<1> DEFINE Fewer == /\ Reader => Remaining' < Remaining
                    /\ link # "open" => link' # "open" /\ Remaining' <= Remaining
<1>1. ASSUME TypeOK, [Next]_vars
      PROVE  Fewer \/ UNCHANGED vars
  <2> DEFINE n == Len(wire)
             m == Len(wire')
  <2>1. /\ wire \in Seq(Item) /\ n \in Nat /\ reader \in {"look", "next", "done"}
        /\ link \in {"open", "closed", "eof", "reset"}
    BY <1>1, RowsAreItems DEF TypeOK
  <2>2. ASSUME ReadReferenceSpace \/ SkipChannelDef \/ ReadFrameDef \/ ReadRow
        PROVE  Remaining' < Remaining /\ link' = link /\ Remaining' <= Remaining
    <3>1. wire # <<>> /\ wire' = Tail(wire) /\ link' = link /\ reader = "next" /\ reader' = "look"
      BY <2>2 DEF ReadReferenceSpace, SkipChannelDef, ReadFrameDef, ReadRow, Has
    <3>2. n = m + 1 /\ m \in Nat
      BY <1>1, <3>1, ItemTaken
    <3>3. Remaining = 2 * n + 1 /\ Remaining' = 2 * m + 2
      BY <3>1 DEF Remaining
    <3>4. QED
      BY <3>1, <3>2, <3>3
  <2>3. ASSUME \/ ReadAhead \/ ReadHalfTag \/ ReadEnd \/ ReadBreaksOff \/ ReadAheadThrows
               \/ EndOfStream \/ Unexpected
        PROVE  Remaining' < Remaining /\ link' = link /\ Remaining' <= Remaining
    <3>1. UNCHANGED <<wire, link>>
      BY <2>3 DEF ReadAhead, ReadHalfTag, ReadEnd, ReadBreaksOff, ReadAheadThrows, EndOfStream,
                  Unexpected
    <3>2. \/ reader = "look" /\ reader' \in {"next", "done"}
          \/ reader = "next" /\ reader' = "done"
      BY <2>3 DEF ReadAhead, ReadHalfTag, ReadEnd, ReadBreaksOff, ReadAheadThrows, EndOfStream,
                  Unexpected
    <3>3. QED
      BY <2>1, <3>1, <3>2 DEF Remaining
  <2>4. ASSUME ~Reader, [Server \/ ConnectionBreaks]_vars, link # "open"
        PROVE  link' # "open" /\ Remaining' <= Remaining
    <3>1. CASE ConnectionBreaks
      <4>1. PICK how \in {"eof", "reset"}, i \in 0 .. Len(wire) :
              BreakAfter(i, how) /\ link' = how
        BY <1>1, <3>1, BreakCases
      <4>2. m \in Nat /\ m <= n
        BY <1>1, <4>1, WireCut
      <4>3. reader' = reader
        BY <3>1 DEF ConnectionBreaks, readerVars
      <4>4. QED
        BY <2>1, <4>1, <4>2, <4>3 DEF Remaining
    <3>2. CASE FifoEnds \/ WriteFails \/ UNCHANGED vars
      <4>1. wire' = wire /\ link' = link /\ reader' = reader
        BY <2>4, <3>2 DEF FifoEnds, WriteFails, vars, readerVars
      <4>2. QED
        BY <2>1, <2>4, <4>1 DEF Remaining
    <3>3. ~WriteHeader /\ ~WriteRow
      BY <2>4 DEF WriteHeader, WriteRow
    <3>4. QED
      BY <2>4, <3>1, <3>2, <3>3 DEF Server
  <2>5. QED
    BY <1>1, <2>2, <2>3, <2>4 DEF Next, Reader
<1>2. TypeOK /\ [Next]_vars => [Fewer]_vars
  BY <1>1
<1>3. QED
  BY <1>2, TypeInvariant, PTL DEF Spec, ReaderGetsOn
=============================================================================
