------------------------- MODULE ShmRowFifo_proofs -------------------------
(***************************************************************************)
(* Proofs about the row ring, for every ring size, number of reader slots, *)
(* set of clients and bound.                                               *)
(***************************************************************************)
EXTENDS ShmRowFifo, TLAPS

-----------------------------------------------------------------------------
(* Positions in a ring of N slots: that of the n-th item is n % N *)

\* Division with remainder.
LEMMA DivMod ==
  ASSUME NEW N \in Nat \ {0}, NEW n \in Int
  PROVE  /\ n = N * (n \div N) + (n % N)
         /\ n % N \in 0 .. N - 1
         /\ n \div N \in Int
  OBVIOUS

\* A remainder is determined by any quotient that leaves one in range.
LEMMA ModUnique ==
  ASSUME NEW N \in Nat \ {0}, NEW q \in Int, NEW r \in 0 .. N - 1
  PROVE  (N * q + r) % N = r
  OBVIOUS

\* The position after p, without a division.
LEMMA NextPosition ==
  ASSUME NEW N \in Nat \ {0}, NEW p \in 0 .. N - 1
  PROVE  (p + 1) % N = IF p = N - 1 THEN 0 ELSE p + 1
  OBVIOUS

\* The position before p.
LEMMA PreviousPosition ==
  ASSUME NEW N \in Nat \ {0}, NEW p \in 0 .. N - 1
  PROVE  (p + N - 1) % N = IF p = 0 THEN N - 1 ELSE p - 1
<1>1. CASE p = 0
  BY <1>1
<1>2. CASE p # 0
  <2>1. p + N - 1 = N * 1 + (p - 1)
    OBVIOUS
  <2>2. QED
    BY <2>1, <1>2, ModUnique
<1>3. QED
  BY <1>1, <1>2

\* Counting items and moving round the ring agree.
LEMMA ModSuccessor ==
  ASSUME NEW N \in Nat \ {0}, NEW n \in Nat
  PROVE  (n + 1) % N = IF n % N = N - 1 THEN 0 ELSE (n % N) + 1
<1> DEFINE q == n \div N
           r == n % N
<1>1. n = N * q + r /\ r \in 0 .. N - 1 /\ q \in Int
  BY DivMod
<1>2. CASE r = N - 1
  <2>1. n + 1 = N * (q + 1) + 0
    BY <1>1, <1>2
  <2>2. (N * (q + 1) + 0) % N = 0
    <3> HIDE DEF q
    <3> QED BY <1>1, ModUnique
  <2>3. QED
    BY <2>1, <2>2, <1>2
<1>3. CASE r # N - 1
  <2>1. n + 1 = N * q + (r + 1)
    BY <1>1, <1>3
  <2>2. (N * q + (r + 1)) % N = r + 1
    <3> HIDE DEF q, r
    <3> QED BY <1>1, <1>3, ModUnique
  <2>3. QED
    BY <2>1, <2>2, <1>3
<1>4. QED
  BY <1>2, <1>3

\* The position of item n + 1 is the one after the position of item n.
LEMMA AdvanceAgrees ==
  ASSUME NEW N \in Nat \ {0}, NEW n \in Nat
  PROVE  ((n % N) + 1) % N = (n + 1) % N
<1>1. n % N \in 0 .. N - 1
  BY DivMod
<1>2. QED
  BY <1>1, NextPosition, ModSuccessor

\* A position may be taken modulo N before or after a step of k - 1 slots.
LEMMA ModAbsorbs ==
  ASSUME NEW N \in Nat \ {0}, NEW n \in Nat, NEW k \in Nat \ {0}
  PROVE  ((n % N) + k - 1) % N = (n + k - 1) % N
<1> DEFINE q == n \div N
           r == n % N
           m == r + k - 1
           p == m \div N
           s == m % N
<1>1. n = N * q + r /\ r \in 0 .. N - 1 /\ q \in Int
  BY DivMod
<1>2. m = N * p + s /\ s \in 0 .. N - 1 /\ p \in Int
  <2>1. m \in Int
    BY <1>1
  <2> HIDE DEF m
  <2>2. QED
    BY <2>1, DivMod
<1>3. n + k - 1 = N * (q + p) + s
  <2>1. n + k - 1 = N * q + m
    BY <1>1
  <2> HIDE DEF q, r, m, p, s
  <2>2. N * (q + p) = N * q + N * p
    BY <1>1, <1>2
  <2>3. QED
    BY <1>1, <1>2, <2>1, <2>2
<1>4. (N * (q + p) + s) % N = s
  <2>1. q + p \in Int /\ s \in 0 .. N - 1
    BY <1>1, <1>2
  <2> HIDE DEF q, r, m, p, s
  <2>2. QED
    BY <2>1, ModUnique
<1>5. QED
  BY <1>3, <1>4

\* Two items less than a lap apart are in different slots.
LEMMA DistinctWithinLap ==
  ASSUME NEW N \in Nat \ {0}, NEW a \in Nat, NEW b \in Nat, a < b, b < a + N
  PROVE  a % N # b % N
<1> DEFINE qa == a \div N
           qb == b \div N
<1>1. a = N * qa + (a % N) /\ qa \in Int /\ a % N \in Int
  BY DivMod
<1>2. b = N * qb + (b % N) /\ qb \in Int
  BY DivMod
<1>3. SUFFICES ASSUME a % N = b % N
               PROVE  FALSE
  OBVIOUS
<1>4. b - a = N * (qb - qa)
  BY <1>1, <1>2, <1>3
<1> HIDE DEF qa, qb
<1>5. b - a > 0 /\ b - a < N
  OBVIOUS
<1>6. qb - qa > 0
  BY <1>1, <1>2, <1>4, <1>5
<1>7. qb - qa < 1
  BY <1>1, <1>2, <1>4, <1>5
<1>8. QED
  BY <1>1, <1>2, <1>6, <1>7

-----------------------------------------------------------------------------
(* The slots *)

\* The writer holds the lock from WriteLock to WriteUnlock.
LockHeld == readerSemMutex = "free" <=> wpc = "idle"

\* The semaphore the writer is about to post is below the limit.
RoomToPost ==
  /\ wpc \in {"reset", "post"} => scan \in Slots
  /\ wpc = "post" => readerSems[scan] < MaxNumOfItems - 1

\* writerCreated is 0 while a client is in newReader, and one at most is.
InNewReader(c) == rpc[c] \in {"claim", "build", "refused"}
NewReaderSerial ==
  /\ \A c \in Clients : InNewReader(c) => writerCreated = 0
  /\ \A c, d \in Clients : InNewReader(c) /\ InNewReader(d) => c = d

\* The slot of a client that has one is marked used.
SlotsMarked == \A c \in Clients : rpc[c] \in Owning => semPos[c] \in isReaderSemsUsed

ControlInv == TypeOK /\ LockHeld /\ RoomToPost /\ NewReaderSerial /\ SlotExclusive

-----------------------------------------------------------------------------
(* Types *)

\* Moving round the ring, forth or back, stays in the ring.
LEMMA PositionTypes ==
  ASSUME TypeOK, NEW c \in Clients
  PROVE  /\ Advance(writerPos) \in Positions
         /\ Advance(fifo_p[c]) \in Positions
         /\ Held(c) \in Positions
<1>1. writerPos \in Positions /\ fifo_p[c] \in Positions
  BY DEF TypeOK
<1>2. \A p \in Positions : (p + 1) % MaxNumOfItems \in Positions
  BY ItemsAssumption DEF Positions
<1>3. \A p \in Positions : (p + MaxNumOfItems - 1) % MaxNumOfItems \in Positions
  BY ItemsAssumption, PreviousPosition DEF Positions
<1>4. QED
  BY <1>1, <1>2, <1>3 DEF Advance, Held

\* The values the actions assign are in range.
LEMMA RangeFacts ==
  /\ 0 \in Counts
  /\ \A n \in Counts : n < MaxNumOfItems - 1 => n + 1 \in Counts
  /\ \A n \in Counts : n > 0 => n - 1 \in Counts
  /\ 0 \in Positions
  /\ 0 \in 0 .. MaxNumOfReaders
  /\ \A i \in Slots : i \in Nat /\ i \in 0 .. MaxNumOfReaders /\ i + 1 \in 0 .. MaxNumOfReaders
  BY ItemsAssumption, ReadersAssumption DEF Counts, Positions, Slots

LEMMA TypeInit == Init => TypeOK
  BY RangeFacts DEF Init, TypeOK, WriterStates, ReaderStates, NotSent

\* The steps of the writer keep every variable in its type.
LEMMA WriterTypes ==
  ASSUME TypeOK, RoomToPost, Writer
  PROVE  TypeOK'
<1>1. CASE WriteLock
  BY <1>1 DEF WriteLock, TypeOK, readerVars, WriterStates
<1>2. CASE CopyHead
  BY <1>2 DEF CopyHead, TypeOK, readerVars, WriterStates
<1>3. CASE CopyPixels
  <2>1. Advance(writerPos) \in Positions
    BY ItemsAssumption DEF TypeOK, Advance, Positions
  <2>2. QED
    BY <1>3, <2>1, RangeFacts DEF CopyPixels, TypeOK, readerVars, WriterStates
<1>4. CASE ScanSlot
  <2>1. scan' \in 0 .. MaxNumOfReaders
    BY <1>4, RangeFacts DEF ScanSlot, TypeOK
  <2>2. QED
    BY <1>4, <2>1 DEF ScanSlot, TypeOK, readerVars, WriterStates
<1>5. CASE ResetSlow
  <2>1. readerSems' \in [Slots -> Counts]
    BY <1>5, RangeFacts DEF ResetSlow, TypeOK
  <2>2. clean' \subseteq Clients
    BY <1>5 DEF ResetSlow, TypeOK
  <2>3. QED
    BY <1>5, <2>1, <2>2 DEF ResetSlow, TypeOK, readerVars, WriterStates
<1>6. CASE PostSlot
  <2>1. scan \in Slots /\ readerSems[scan] < MaxNumOfItems - 1
    BY <1>6 DEF PostSlot, RoomToPost
  <2>2. readerSems' \in [Slots -> Counts] /\ scan' \in 0 .. MaxNumOfReaders
    BY <1>6, <2>1, RangeFacts DEF PostSlot, TypeOK
  <2>3. QED
    BY <1>6, <2>2 DEF PostSlot, TypeOK, readerVars, WriterStates
<1>7. CASE WriteUnlock
  BY <1>7 DEF WriteUnlock, TypeOK, readerVars, WriterStates
<1>8. QED
  BY <1>1, <1>2, <1>3, <1>4, <1>5, <1>6, <1>7 DEF Writer

\* So do the steps of a client.
LEMMA ClientTypes ==
  ASSUME TypeOK, NewReaderSerial, SlotsMarked, NEW c \in Clients, Client(c)
  PROVE  TypeOK'
<1>1. CASE Connect(c)
  BY <1>1 DEF Connect, TypeOK, writerVars, ReaderStates
<1>2. CASE WaitWriterCreated(c)
  BY <1>2 DEF WaitWriterCreated, TypeOK, writerVars, ReaderStates
<1>3. CASE ClaimSlot(c)
  <2>1. readerSems' \in [Slots -> Counts]
    BY <1>3, RangeFacts DEF ClaimSlot, TypeOK, Unused
  <2>2. isReaderSemsUsed' \subseteq Slots
    BY <1>3 DEF ClaimSlot, TypeOK, Unused
  <2>3. semPos' \in [Clients -> Nat]
    BY <1>3, RangeFacts DEF ClaimSlot, TypeOK, Unused
  <2>4. rpc' \in [Clients -> ReaderStates]
    BY <1>3 DEF ClaimSlot, TypeOK, ReaderStates
  <2>5. QED
    BY <1>3, <2>1, <2>2, <2>3, <2>4 DEF ClaimSlot, TypeOK, writerVars
<1>4. CASE BuildReader(c)
  <2>1. writerCreated' \in {0, 1}
    BY <1>4 DEF BuildReader, TypeOK, NewReaderSerial, InNewReader
  <2>2. clean' \subseteq Clients
    BY <1>4 DEF BuildReader, TypeOK
  <2>3. QED
    BY <1>4, <2>1, <2>2
    DEF BuildReader, TypeOK, writerVars, ReaderStates, NotSent
<1>5. CASE Refuse(c)
  BY <1>5 DEF Refuse, TypeOK, writerVars, ReaderStates, NewReaderSerial, InNewReader
<1>6. CASE Read(c)
  <2>1. semPos[c] \in Slots
    BY <1>6 DEF Read, TypeOK, SlotsMarked, Owning
  <2>2. readerSems' \in [Slots -> Counts]
    BY <1>6, <2>1, RangeFacts DEF Read, TypeOK
  <2>3. fifo_p' \in [Clients -> Positions]
    BY <1>6, PositionTypes DEF Read, TypeOK
  <2>4. QED
    BY <1>6, <2>2, <2>3 DEF Read, TypeOK, writerVars, ReaderStates
<1>7. CASE UseHead(c)
  <2>1. rowHead[Held(c)] \in Int /\ NotSent \in Int
    BY PositionTypes DEF TypeOK, NotSent
  <2>2. QED
    BY <1>7, <2>1 DEF UseHead, TypeOK, writerVars, ReaderStates
<1>8. CASE UsePixels(c)
  <2>1. rowPix[Held(c)] \in Int
    BY PositionTypes DEF TypeOK
  <2>2. QED
    BY <1>8, <2>1 DEF UsePixels, TypeOK, writerVars, ReaderStates
<1>9. CASE RemoveReaderSem(c)
  BY <1>9 DEF RemoveReaderSem, TypeOK, writerVars, ReaderStates
<1>10. QED
  BY <1>1, <1>2, <1>3, <1>4, <1>5, <1>6, <1>7, <1>8, <1>9 DEF Client

-----------------------------------------------------------------------------
(* The lock, the room left in a semaphore, and newReader *)

LEMMA WriterControl ==
  ASSUME TypeOK, LockHeld, RoomToPost, Writer
  PROVE  LockHeld' /\ RoomToPost'
<1>1. CASE WriteLock
  BY <1>1 DEF WriteLock, LockHeld, RoomToPost
<1>2. CASE CopyHead
  BY <1>2 DEF CopyHead, LockHeld, RoomToPost
<1>3. CASE CopyPixels
  BY <1>3 DEF CopyPixels, LockHeld, RoomToPost
<1>4. CASE ScanSlot
  <2>1. wpc' = "post" => readerSems[scan] < MaxNumOfItems - 1
    BY <1>4, ItemsAssumption DEF ScanSlot, TooSlow, TypeOK, Counts
  <2>2. QED
    BY <1>4, <2>1 DEF ScanSlot, LockHeld, RoomToPost
<1>5. CASE ResetSlow
  <2>1. readerSems'[scan'] = 0
    BY <1>5 DEF ResetSlow, RoomToPost, TypeOK
  <2>2. QED
    BY <1>5, <2>1, ItemsAssumption DEF ResetSlow, LockHeld, RoomToPost
<1>6. CASE PostSlot
  BY <1>6 DEF PostSlot, LockHeld, RoomToPost
<1>7. CASE WriteUnlock
  BY <1>7 DEF WriteUnlock, LockHeld, RoomToPost
<1>8. QED
  BY <1>1, <1>2, <1>3, <1>4, <1>5, <1>6, <1>7 DEF Writer

\* A client only ever lowers a semaphore, or claims a slot while no write is on.
LEMMA ClientControl ==
  ASSUME TypeOK, LockHeld, RoomToPost, SlotsMarked, NEW c \in Clients, Client(c)
  PROVE  LockHeld' /\ RoomToPost'
<1>1. CASE ClaimSlot(c)
  BY <1>1 DEF ClaimSlot, LockHeld, RoomToPost, writerVars
<1>2. CASE Read(c)
  <2>1. semPos[c] \in Slots
    BY <1>2 DEF Read, TypeOK, SlotsMarked, Owning
  <2>2. ASSUME NEW i \in Slots
        PROVE  readerSems'[i] <= readerSems[i]
    BY <1>2, <2>1, ItemsAssumption DEF Read, TypeOK, Counts
  <2>3. ASSUME NEW i \in Slots
        PROVE  readerSems[i] \in Int /\ readerSems'[i] \in Int
    BY <1>2, <2>1, ItemsAssumption DEF Read, TypeOK, Counts
  <2>4. wpc' = wpc /\ scan' = scan /\ readerSemMutex' = readerSemMutex
    BY <1>2 DEF Read, writerVars
  <2>5. QED
    BY <2>2, <2>3, <2>4, ItemsAssumption DEF LockHeld, RoomToPost
<1>3. ASSUME \/ Connect(c) \/ WaitWriterCreated(c) \/ BuildReader(c) \/ Refuse(c)
             \/ UseHead(c) \/ UsePixels(c) \/ RemoveReaderSem(c)
      PROVE  LockHeld' /\ RoomToPost'
  BY <1>3 DEF Connect, WaitWriterCreated, BuildReader, Refuse, UseHead, UsePixels,
              RemoveReaderSem, LockHeld, RoomToPost, writerVars
<1>4. QED
  BY <1>1, <1>2, <1>3 DEF Client

LEMMA ClientSerial ==
  ASSUME TypeOK, NewReaderSerial, NEW c \in Clients, Client(c)
  PROVE  NewReaderSerial'
<1>1. \A d \in Clients \ {c} : rpc'[d] = rpc[d]
  BY DEF Client, Connect, WaitWriterCreated, ClaimSlot, BuildReader, Refuse, Read,
         UseHead, UsePixels, RemoveReaderSem, TypeOK
<1>2. CASE WaitWriterCreated(c)
  <2>1. writerCreated = 1 /\ writerCreated' = 0
    BY <1>2 DEF WaitWriterCreated, TypeOK
  <2>2. \A d \in Clients : ~InNewReader(d)
    BY <2>1 DEF NewReaderSerial
  <2>3. QED
    BY <1>1, <2>1, <2>2 DEF NewReaderSerial, InNewReader
<1>3. CASE ClaimSlot(c) \/ BuildReader(c) \/ Refuse(c)
  <2>1. InNewReader(c)
    BY <1>3 DEF ClaimSlot, BuildReader, Refuse, InNewReader
  <2>2. \A d \in Clients \ {c} : ~InNewReader(d)
    BY <2>1 DEF NewReaderSerial
  <2>3. CASE ClaimSlot(c)
    BY <1>1, <2>1, <2>2, <2>3 DEF ClaimSlot, NewReaderSerial, InNewReader
  <2>4. CASE BuildReader(c) \/ Refuse(c)
    <3>1. rpc'[c] \in {"wait", "out"}
      BY <2>4 DEF BuildReader, Refuse, TypeOK
    <3>2. QED
      BY <1>1, <2>2, <3>1 DEF NewReaderSerial, InNewReader
  <2>5. QED
    BY <1>3, <2>3, <2>4
<1>4. CASE \/ Connect(c) \/ Read(c) \/ UseHead(c) \/ UsePixels(c)
           \/ RemoveReaderSem(c)
  <2>1. writerCreated' = writerCreated
    BY <1>4 DEF Connect, Read, UseHead, UsePixels, RemoveReaderSem
  <2>2. rpc'[c] \in {"enter", "hold", "send", "wait", "leave", "out"}
    BY <1>4 DEF Connect, Read, UseHead, UsePixels, RemoveReaderSem, TypeOK
  <2>3. QED
    BY <1>1, <2>1, <2>2 DEF NewReaderSerial, InNewReader
<1>5. QED
  BY <1>2, <1>3, <1>4 DEF Client

-----------------------------------------------------------------------------
(* Reader slots *)

LEMMA ClientSlots ==
  ASSUME TypeOK, SlotExclusive, NEW c \in Clients, Client(c)
  PROVE  SlotExclusive'
<1>1. \A d \in Clients \ {c} : rpc'[d] = rpc[d] /\ semPos'[d] = semPos[d]
  BY DEF Client, Connect, WaitWriterCreated, ClaimSlot, BuildReader, Refuse, Read,
         UseHead, UsePixels, RemoveReaderSem, TypeOK
<1>2. CASE ClaimSlot(c)
  <2>1. CASE Unused = {}
    BY <1>1, <1>2, <2>1 DEF ClaimSlot, SlotExclusive, Owning, TypeOK
  <2>2. CASE Unused # {}
    <3>1. PICK i \in Unused :
            /\ isReaderSemsUsed' = isReaderSemsUsed \cup {i}
            /\ semPos' = [semPos EXCEPT ![c] = i]
      BY <1>2, <2>2 DEF ClaimSlot
    <3>2. i \notin isReaderSemsUsed /\ semPos'[c] = i
      BY <3>1 DEF Unused, TypeOK
    <3>3. QED
      BY <1>1, <3>1, <3>2 DEF SlotExclusive, Owning
  <2>3. QED
    BY <2>1, <2>2
<1>3. CASE RemoveReaderSem(c)
  <2>1. rpc[c] = "leave" /\ rpc'[c] = "out" /\ semPos' = semPos
    BY <1>3 DEF RemoveReaderSem, TypeOK
  <2>2. isReaderSemsUsed' = isReaderSemsUsed \ {semPos[c]}
    BY <1>3 DEF RemoveReaderSem
  <2>3. QED
    BY <1>1, <2>1, <2>2 DEF SlotExclusive, Owning
<1>4. CASE \/ Connect(c) \/ WaitWriterCreated(c) \/ BuildReader(c) \/ Refuse(c)
           \/ Read(c) \/ UseHead(c) \/ UsePixels(c)
  <2>1. isReaderSemsUsed' = isReaderSemsUsed /\ semPos' = semPos
    BY <1>4 DEF Connect, WaitWriterCreated, BuildReader, Refuse, Read, UseHead, UsePixels
  <2>2. rpc'[c] \in Owning => rpc[c] \in Owning
    BY <1>4 DEF Connect, WaitWriterCreated, BuildReader, Refuse, Read, UseHead,
                UsePixels, Owning, TypeOK
  <2>3. QED
    BY <1>1, <2>1, <2>2 DEF SlotExclusive
<1>5. QED
  BY <1>2, <1>3, <1>4 DEF Client

LEMMA ControlStep == ControlInv /\ [Next]_vars => ControlInv'
<1> SUFFICES ASSUME ControlInv, [Next]_vars
             PROVE  ControlInv'
  OBVIOUS
<1>1. SlotsMarked
  BY DEF ControlInv, SlotsMarked, SlotExclusive
<1>2. CASE Writer
  <2>1. TypeOK' /\ LockHeld' /\ RoomToPost'
    BY <1>2, WriterTypes, WriterControl DEF ControlInv
  <2>2. UNCHANGED <<rpc, semPos, writerCreated, isReaderSemsUsed>>
    BY <1>2 DEF Writer, WriteLock, CopyHead, CopyPixels, ScanSlot, ResetSlow,
                PostSlot, WriteUnlock, readerVars
  <2>3. NewReaderSerial' /\ SlotExclusive'
    BY <2>2 DEF ControlInv, NewReaderSerial, InNewReader, SlotExclusive
  <2>4. QED
    BY <2>1, <2>3 DEF ControlInv
<1>3. ASSUME NEW c \in Clients, Client(c)
      PROVE  ControlInv'
  BY <1>1, <1>3, ClientTypes, ClientControl, ClientSerial, ClientSlots DEF ControlInv
<1>4. CASE UNCHANGED vars
  BY <1>4 DEF vars, writerVars, readerVars, ControlInv, TypeOK, LockHeld, RoomToPost,
              NewReaderSerial, InNewReader, SlotExclusive
<1>5. QED
  BY <1>2, <1>3, <1>4 DEF Next

LEMMA ControlInit == Init => ControlInv
  BY TypeInit
  DEF Init, ControlInv, LockHeld, RoomToPost, NewReaderSerial, InNewReader,
      SlotExclusive, Owning

LEMMA ControlAlways == Spec => []ControlInv
  BY ControlInit, ControlStep, PTL DEF Spec

\* Every variable keeps its type; in particular no reader semaphore ever counts
\* more than MAX_NUM_OF_ITEMS - 1 rows (the test of write() for slow readers),
\* and writerCreated stays a binary semaphore.
THEOREM TypeCorrect == Spec => []TypeOK
  BY ControlAlways, PTL DEF ControlInv

\* No two live readers share a semaphore, and the slot of a live reader is
\* marked used (newReader and removeReaderSem under readerSemMutex).
THEOREM SlotsExclusive == Spec => []SlotExclusive
  BY ControlAlways, PTL DEF ControlInv

-----------------------------------------------------------------------------
(* No slot is lost *)

LEMMA LeakStep ==
  ASSUME ControlInv, NoSlotLeaked, [Next]_vars
  PROVE  NoSlotLeaked'
<1> USE DEF NoSlotLeaked
<1>1. CASE Writer \/ UNCHANGED vars
  BY <1>1 DEF Writer, WriteLock, CopyHead, CopyPixels, ScanSlot, ResetSlow, PostSlot,
              WriteUnlock, vars, readerVars
<1>2. ASSUME NEW c \in Clients, Client(c)
      PROVE  NoSlotLeaked'
  <2>1. \A d \in Clients \ {c} : rpc'[d] = rpc[d] /\ semPos'[d] = semPos[d]
    BY <1>2 DEF Client, Connect, WaitWriterCreated, ClaimSlot, BuildReader, Refuse,
                Read, UseHead, UsePixels, RemoveReaderSem, ControlInv, TypeOK
  <2>2. CASE ClaimSlot(c)
    <3>1. rpc[c] = "claim"
      BY <2>2 DEF ClaimSlot
    <3>2. \A i \in isReaderSemsUsed :
            \E d \in Clients \ {c} : rpc[d] \in Owning /\ semPos[d] = i
      BY <3>1 DEF Owning
    <3>3. \A i \in isReaderSemsUsed' \ isReaderSemsUsed :
            rpc'[c] \in Owning /\ semPos'[c] = i
      BY <2>2 DEF ClaimSlot, Owning, ControlInv, TypeOK
    <3>4. QED
      BY <2>1, <3>2, <3>3
  <2>3. CASE RemoveReaderSem(c)
    <3>1. isReaderSemsUsed' = isReaderSemsUsed \ {semPos[c]}
      BY <2>3 DEF RemoveReaderSem
    <3>2. \A i \in isReaderSemsUsed' :
            \E d \in Clients \ {c} : rpc[d] \in Owning /\ semPos[d] = i
      BY <3>1
    <3>3. QED
      BY <2>1, <3>1, <3>2
  <2>4. CASE \/ Connect(c) \/ WaitWriterCreated(c) \/ BuildReader(c) \/ Refuse(c)
             \/ Read(c) \/ UseHead(c) \/ UsePixels(c)
    <3>1. isReaderSemsUsed' = isReaderSemsUsed /\ semPos' = semPos
      BY <2>4 DEF Connect, WaitWriterCreated, BuildReader, Refuse, Read, UseHead,
                  UsePixels
    <3>2. rpc[c] \in Owning => rpc'[c] \in Owning
      BY <2>4 DEF Connect, WaitWriterCreated, BuildReader, Refuse, Read, UseHead,
                  UsePixels, Owning, ControlInv, TypeOK
    <3>3. QED
      BY <2>1, <3>1, <3>2
  <2>5. QED
    BY <1>2, <2>2, <2>3, <2>4 DEF Client
<1>3. QED
  BY <1>1, <1>2 DEF Next

\* A slot that is marked used has an owner: removeReaderSem frees the slot of
\* every reader that goes, whichever way requests interleave.
THEOREM NoSlotIsLeaked == Spec => []NoSlotLeaked
<1>1. Init => NoSlotLeaked
  BY DEF Init, NoSlotLeaked
<1>2. ControlInv /\ NoSlotLeaked /\ [Next]_vars => NoSlotLeaked'
  BY LeakStep
<1>3. QED
  BY <1>1, <1>2, ControlAlways, PTL DEF Spec

-----------------------------------------------------------------------------
(* What the ring holds *)

\* The ring holds the last rows written: a whole lap, but for the header that
\* is overwritten before the row that takes its slot counts as written.
RowsKept ==
  \A k \in 1 .. written :
    /\ k + MaxNumOfItems > written + (IF wpc = "pixels" THEN 1 ELSE 0)
         => rowHead[(k - 1) % MaxNumOfItems] = k
    /\ k + MaxNumOfItems > written => rowPix[(k - 1) % MaxNumOfItems] = k

LastRows ==
  /\ writerPos = written % MaxNumOfItems
  /\ RowsKept
  /\ wpc = "pixels" => rowHead[writerPos] = written + 1

LEMMA WriterLastRows ==
  ASSUME TypeOK, LastRows, Writer
  PROVE  LastRows'
<1> USE ItemsAssumption
<1>1. written \in Nat /\ writerPos \in Positions /\ MaxNumOfItems \in Nat \ {0}
  BY DEF TypeOK
<1>2. \A k \in 1 .. written :
        k + MaxNumOfItems > written + 1 => (k - 1) % MaxNumOfItems # writerPos
  <2> SUFFICES ASSUME NEW k \in 1 .. written, k + MaxNumOfItems > written + 1
               PROVE  (k - 1) % MaxNumOfItems # writerPos
    OBVIOUS
  <2>1. k - 1 \in Nat /\ k - 1 < written /\ written < (k - 1) + MaxNumOfItems
    BY <1>1
  <2>2. QED
    BY <1>1, <2>1, DistinctWithinLap DEF LastRows
<1>3. \A k \in 1 .. written : (k - 1) % MaxNumOfItems \in Positions
  BY <1>1, DivMod DEF Positions
<1>4. CASE CopyHead
  <2>1. rowHead'[writerPos] = written + 1
    BY <1>1, <1>4 DEF CopyHead, TypeOK
  <2>2. writerPos' = writerPos /\ written' = written /\ rowPix' = rowPix
        /\ wpc' = "pixels" /\ wpc = "head"
    BY <1>4 DEF CopyHead
  <2>3. ASSUME NEW k \in 1 .. written
        PROVE  /\ k + MaxNumOfItems > written + 1
                    => rowHead'[(k - 1) % MaxNumOfItems] = k
               /\ k + MaxNumOfItems > written => rowPix[(k - 1) % MaxNumOfItems] = k
    <3>1. k + MaxNumOfItems > written + 1
            => rowHead'[(k - 1) % MaxNumOfItems] = rowHead[(k - 1) % MaxNumOfItems]
      BY <1>2, <1>3, <1>4 DEF CopyHead, TypeOK
    <3>2. k + MaxNumOfItems > written + 1 => k + MaxNumOfItems > written + 0
      BY <1>1
    <3>3. QED
      BY <2>2, <3>1, <3>2 DEF LastRows, RowsKept
  <2>4. QED
    BY <2>1, <2>2, <2>3 DEF LastRows, RowsKept
<1>5. CASE CopyPixels
  <2>1. writerPos' = (written + 1) % MaxNumOfItems
    BY <1>1, <1>5, AdvanceAgrees DEF CopyPixels, LastRows, Advance
  <2>2. rowPix'[writerPos] = written + 1 /\ rowHead'[writerPos] = written + 1
    BY <1>1, <1>5 DEF CopyPixels, TypeOK, LastRows
  <2>3. \A k \in 1 .. written : k + MaxNumOfItems > written + 1
          => rowPix'[(k - 1) % MaxNumOfItems] = rowPix[(k - 1) % MaxNumOfItems]
    BY <1>2, <1>3, <1>5 DEF CopyPixels, TypeOK
  <2>4. rowHead' = rowHead /\ written' = written + 1 /\ wpc' = "scan" /\ wpc = "pixels"
    BY <1>5 DEF CopyPixels
  <2>5. ASSUME NEW k \in 1 .. written + 1, k + MaxNumOfItems > written + 1
        PROVE  /\ rowHead'[(k - 1) % MaxNumOfItems] = k
               /\ rowPix'[(k - 1) % MaxNumOfItems] = k
    <3>1. CASE k = written + 1
      BY <1>1, <2>2, <3>1 DEF LastRows
    <3>2. CASE k # written + 1
      <4>1. k \in 1 .. written
        BY <1>1, <2>5, <3>2
      <4>2. k + MaxNumOfItems > written
        BY <1>1, <2>5, <4>1
      <4>3. QED
        BY <2>3, <2>4, <2>5, <4>1, <4>2 DEF LastRows, RowsKept
    <3>3. QED
      BY <3>1, <3>2
  <2>6. RowsKept'
    <3>1. \A k \in 1 .. written + 1 : k + MaxNumOfItems > written + 1 + 0
            => k + MaxNumOfItems > written + 1
      BY <1>1
    <3>2. QED
      BY <2>4, <2>5, <3>1 DEF RowsKept
  <2>7. QED
    BY <2>1, <2>4, <2>6 DEF LastRows
<1>6. CASE WriteLock \/ ScanSlot \/ ResetSlow \/ PostSlot \/ WriteUnlock
  <2>1. UNCHANGED <<writerPos, written, rowHead, rowPix>>
        /\ wpc # "pixels" /\ wpc' # "pixels"
    BY <1>6 DEF WriteLock, ScanSlot, ResetSlow, PostSlot, WriteUnlock
  <2>2. QED
    BY <2>1 DEF LastRows, RowsKept
<1>7. QED
  BY <1>4, <1>5, <1>6 DEF Writer

\* No client writes into the ring.
LEMMA ClientRing ==
  ASSUME NEW c \in Clients, Client(c)
  PROVE  UNCHANGED writerVars
  BY DEF Client, Connect, WaitWriterCreated, ClaimSlot, BuildReader, Refuse, Read,
         UseHead, UsePixels, RemoveReaderSem

LEMMA LastRowsAlways == Spec => []LastRows
<1>1. Init => LastRows
  BY ItemsAssumption DEF Init, LastRows, RowsKept
<1>2. ControlInv /\ LastRows /\ [Next]_vars => LastRows'
  <2> SUFFICES ASSUME ControlInv, LastRows, [Next]_vars
               PROVE  LastRows'
    OBVIOUS
  <2>1. CASE UNCHANGED writerVars
    BY <2>1 DEF LastRows, RowsKept, writerVars
  <2>2. QED
    BY <2>1, WriterLastRows, ClientRing DEF ControlInv, Next, vars
<1>3. QED
  BY <1>1, <1>2, ControlAlways, PTL DEF Spec

-----------------------------------------------------------------------------
(* Rows announced, rows taken, rows written *)

CleanReads == \A c \in clean : rpc[c] \in Reading

\* The reader whose semaphore is about to be set to 0 is no longer clean.
ResetLost == wpc = "reset" => \A c \in clean : semPos[c] # scan

\* A clean reader is at the position after the last row it took.
ReaderPlaces ==
  \A c \in clean :
    /\ fifo_p[c] = taken[c] % MaxNumOfItems
    /\ rpc[c] \in Holding => taken[c] > 0

LagInv == CleanReads /\ ResetLost /\ LagAccounting /\ ReaderPlaces

\* The types of what concerns one clean reader.
LEMMA CleanTypes ==
  ASSUME ControlInv, LagInv, NEW c \in clean
  PROVE  /\ c \in Clients
         /\ rpc[c] \in Owning
         /\ semPos[c] \in Slots
         /\ semPos[c] \in isReaderSemsUsed
         /\ readerSems[semPos[c]] \in 0 .. MaxNumOfItems - 1
         /\ Announced(semPos[c]) \in 0 .. MaxNumOfItems
         /\ wpc = "pixels" => Announced(semPos[c]) < MaxNumOfItems
         /\ taken[c] \in Nat
         /\ written \in Nat
         /\ taken[c] + Announced(semPos[c]) = written
<1>1. c \in Clients /\ rpc[c] \in Owning /\ taken[c] \in Nat /\ written \in Nat
  BY DEF LagInv, CleanReads, ControlInv, TypeOK, Reading, Owning
<1>2. semPos[c] \in isReaderSemsUsed /\ semPos[c] \in Slots
  BY <1>1 DEF ControlInv, SlotExclusive, TypeOK
<1>3. readerSems[semPos[c]] \in 0 .. MaxNumOfItems - 1
  BY <1>2 DEF ControlInv, TypeOK, Counts
<1>4. /\ Announced(semPos[c]) \in 0 .. MaxNumOfItems
      /\ wpc = "pixels" => Announced(semPos[c]) < MaxNumOfItems
  BY <1>3, ItemsAssumption DEF Announced
<1>5. QED
  BY <1>1, <1>2, <1>3, <1>4 DEF LagInv, LagAccounting

\* The row at the position of a clean reader, and every row announced after it,
\* is the one it has to take.
LEMMA AnnouncedRowsKept ==
  ASSUME ControlInv, LagInv, LastRows, NEW c \in clean,
         NEW k \in 1 .. Announced(semPos[c])
  PROVE  rowHead[(fifo_p[c] + k - 1) % MaxNumOfItems] = taken[c] + k
<1> USE ItemsAssumption
<1> DEFINE n == taken[c]
<1>1. /\ Announced(semPos[c]) \in 0 .. MaxNumOfItems
      /\ wpc = "pixels" => Announced(semPos[c]) < MaxNumOfItems
      /\ n \in Nat /\ written \in Nat /\ n + Announced(semPos[c]) = written
  BY CleanTypes
<1>2. fifo_p[c] = n % MaxNumOfItems
  BY DEF LagInv, ReaderPlaces
<1> HIDE DEF n
<1>3. (fifo_p[c] + k - 1) % MaxNumOfItems = (n + k - 1) % MaxNumOfItems
  BY <1>1, <1>2, ModAbsorbs
<1>4. /\ n + k \in 1 .. written
      /\ n + k + MaxNumOfItems > written + (IF wpc = "pixels" THEN 1 ELSE 0)
  BY <1>1
<1>5. rowHead[((n + k) - 1) % MaxNumOfItems] = n + k
  BY <1>4 DEF LastRows, RowsKept
<1>6. QED
  BY <1>1, <1>3, <1>5 DEF n

\* What the writer announces to a reader changes only as it counts the row.
LEMMA WriterLag ==
  ASSUME ControlInv, LagInv, Writer
  PROVE  LagInv'
<1>1. UNCHANGED <<rpc, semPos, taken, fifo_p>>
  BY DEF Writer, WriteLock, CopyHead, CopyPixels, ScanSlot, ResetSlow, PostSlot,
         WriteUnlock, readerVars
<1>2. clean' \subseteq clean
  BY DEF Writer, WriteLock, CopyHead, CopyPixels, ScanSlot, ResetSlow, PostSlot,
         WriteUnlock
<1>r. ResetLost'
  BY <1>1, <1>2 DEF ResetLost, Writer, WriteLock, CopyHead, CopyPixels, ScanSlot,
         ResetSlow, PostSlot, WriteUnlock
<1>p. CleanReads' /\ ReaderPlaces'
  BY <1>1, <1>2 DEF LagInv, CleanReads, ReaderPlaces
<1>3. SUFFICES ASSUME NEW c \in clean', NEW i, i = semPos[c]
               PROVE  taken[c] + Announced(i)' = written'
  BY <1>1, <1>r, <1>p DEF LagInv, LagAccounting, Announced
<1>4. /\ c \in Clients /\ i \in Slots /\ i \in Nat /\ i < MaxNumOfReaders
      /\ i \in isReaderSemsUsed /\ readerSems[i] \in Nat /\ taken[c] \in Nat
      /\ scan \in Nat /\ written \in Nat
  BY <1>2, <1>3, ReadersAssumption, ItemsAssumption
  DEF LagInv, CleanReads, ControlInv, SlotExclusive, TypeOK, Reading, Owning, Slots,
      Counts
<1> DEFINE Due == IF wpc \in {"scan", "reset", "post"} /\ scan <= i THEN 1 ELSE 0
<1>5. taken[c] + (readerSems[i] + Due) = written
  BY <1>2, <1>3 DEF LagInv, LagAccounting, Announced
<1>6. SUFFICES taken[c] + (readerSems'[i] + Due') = written'
  BY DEF Announced
<1>7. CASE WriteLock \/ CopyHead
  BY <1>4, <1>5, <1>7 DEF WriteLock, CopyHead
<1>8. CASE CopyPixels
  BY <1>4, <1>5, <1>8 DEF CopyPixels
<1>9. CASE ScanSlot
  <2>1. Due' = Due
    BY <1>4, <1>9 DEF ScanSlot
  <2>2. QED
    BY <1>5, <1>9, <2>1 DEF ScanSlot
<1>10. CASE ResetSlow
  <2>1. i # scan
    BY <1>2, <1>3, <1>10 DEF ResetSlow, LagInv, ResetLost
  <2>2. Due' = Due /\ readerSems'[i] = readerSems[i]
    BY <1>4, <1>10, <2>1 DEF ResetSlow, ControlInv, TypeOK
  <2>3. QED
    BY <1>5, <1>10, <2>2 DEF ResetSlow
<1>11. CASE PostSlot
  <2>1. readerSems'[i] + Due' = readerSems[i] + Due
    <3>1. readerSems'[i] = IF i = scan THEN readerSems[i] + 1 ELSE readerSems[i]
      BY <1>4, <1>11 DEF PostSlot, ControlInv, TypeOK
    <3>2. Due = IF scan <= i THEN 1 ELSE 0
      BY <1>11 DEF PostSlot
    <3>3. Due' = IF scan + 1 <= i THEN 1 ELSE 0
      BY <1>11 DEF PostSlot
    <3>4. QED
      BY <1>4, <3>1, <3>2, <3>3
  <2>2. QED
    BY <1>5, <1>11, <2>1 DEF PostSlot
<1>12. CASE WriteUnlock
  <2>1. Due = 0 /\ Due' = 0
    BY <1>4, <1>12, ReadersAssumption DEF WriteUnlock, Slots, ControlInv, TypeOK
  <2>2. QED
    BY <1>5, <1>12, <2>1 DEF WriteUnlock
<1>13. QED
  BY <1>7, <1>8, <1>9, <1>10, <1>11, <1>12 DEF Writer

\* A client changes what is announced to it only by taking a row, and never
\* what is announced to another.
LEMMA ClientLag ==
  ASSUME ControlInv, LagInv, LastRows, NEW c \in Clients, Client(c)
  PROVE  LagInv'
<1>1. wpc' = wpc /\ scan' = scan /\ written' = written
  BY ClientRing DEF writerVars
<1>2. ASSUME NEW d \in clean, d # c
      PROVE  /\ rpc'[d] = rpc[d] /\ semPos'[d] = semPos[d] /\ taken'[d] = taken[d]
             /\ fifo_p'[d] = fifo_p[d]
             /\ readerSems'[semPos[d]] = readerSems[semPos[d]]
  <2>1. d \in Clients /\ rpc[d] \in Owning /\ semPos[d] \in isReaderSemsUsed
    BY <1>2 DEF LagInv, CleanReads, ControlInv, SlotExclusive, TypeOK, Reading, Owning
  <2>2. /\ rpc'[d] = rpc[d] /\ semPos'[d] = semPos[d] /\ taken'[d] = taken[d]
        /\ fifo_p'[d] = fifo_p[d]
    BY <1>2, <2>1 DEF Client, Connect, WaitWriterCreated, ClaimSlot, BuildReader,
           Refuse, Read, UseHead, UsePixels, RemoveReaderSem, ControlInv, TypeOK
  <2>3. CASE ClaimSlot(c)
    BY <2>1, <2>2, <2>3 DEF ClaimSlot, Unused, ControlInv, TypeOK
  <2>4. CASE Read(c)
    <3>1. semPos[d] # semPos[c] /\ semPos[c] \in Slots /\ semPos[d] \in Slots
      BY <1>2, <2>1, <2>4 DEF Read, Owning, ControlInv, SlotExclusive, TypeOK
    <3>2. QED
      BY <2>2, <2>4, <3>1 DEF Read, ControlInv, TypeOK
  <2>5. CASE \/ Connect(c) \/ WaitWriterCreated(c) \/ BuildReader(c) \/ Refuse(c)
             \/ UseHead(c) \/ UsePixels(c) \/ RemoveReaderSem(c)
    BY <2>2, <2>5 DEF Connect, WaitWriterCreated, BuildReader, Refuse, UseHead,
                      UsePixels, RemoveReaderSem
  <2>6. QED
    BY <2>2, <2>3, <2>4, <2>5 DEF Client
\* What LagInv says of one reader.
<1> DEFINE Good(d) == /\ rpc[d] \in Reading
                      /\ wpc = "reset" => semPos[d] # scan
                      /\ taken[d] + Announced(semPos[d]) = written
                      /\ fifo_p[d] = taken[d] % MaxNumOfItems
                      /\ rpc[d] \in Holding => taken[d] > 0
<1>3. ASSUME NEW d \in clean, d # c
      PROVE  Good(d)'
  BY <1>1, <1>2, <1>3
  DEF LagInv, CleanReads, ResetLost, LagAccounting, ReaderPlaces, Announced
<1>4. SUFFICES ASSUME c \in clean'
               PROVE  Good(c)' /\ clean' \subseteq clean \cup {c}
  <2>1. c \notin clean' => clean' \subseteq clean \ {c}
    BY DEF Client, Connect, WaitWriterCreated, ClaimSlot, BuildReader, Refuse, Read,
           UseHead, UsePixels, RemoveReaderSem
  <2>2. clean' \subseteq clean \cup {c} /\ (c \in clean' => Good(c)')
    BY <1>4, <2>1
  <2>3. \A d \in clean' : Good(d)'
    BY <1>3, <2>2
  <2>4. QED
    BY <2>3 DEF LagInv, CleanReads, ResetLost, LagAccounting, ReaderPlaces
<1>5. clean' \subseteq clean \cup {c}
  BY DEF Client, Connect, WaitWriterCreated, ClaimSlot, BuildReader, Refuse, Read,
         UseHead, UsePixels, RemoveReaderSem
<1>6. CASE BuildReader(c)
  <2>1. /\ rpc'[c] = "wait" /\ taken'[c] = written /\ fifo_p'[c] = writerPos
        /\ semPos' = semPos /\ readerSems' = readerSems
    BY <1>6 DEF BuildReader, ControlInv, TypeOK
  <2>2. c \notin clean
    BY <1>6 DEF BuildReader, LagInv, CleanReads, Reading
  <2>3. Announced(semPos[c]) = 0
    BY <1>4, <1>6, <2>2 DEF BuildReader
  <2>4. Announced(semPos[c])' = Announced(semPos[c])
    BY <1>1, <2>1 DEF Announced
  <2>5. wpc = "reset" => semPos[c] # scan
    <3>1. semPos[c] \in Slots
      BY <1>6 DEF BuildReader, Owning, ControlInv, SlotExclusive, TypeOK
    <3>2. semPos[c] \in Nat /\ readerSems[semPos[c]] \in Nat
      BY <3>1, ReadersAssumption, ItemsAssumption DEF Slots, Counts, ControlInv, TypeOK
    <3>3. QED
      BY <2>3, <3>2 DEF Announced
  <2>6. written \in Nat /\ writerPos = written % MaxNumOfItems
    BY DEF ControlInv, TypeOK, LastRows
  <2>7. rpc'[c] \in Reading /\ rpc'[c] \notin Holding
    BY <2>1 DEF Reading, Holding
  <2>8. taken'[c] + Announced(semPos[c])' = written'
    BY <1>1, <2>1, <2>3, <2>4, <2>6
  <2>9. QED
    BY <1>1, <1>5, <2>1, <2>5, <2>6, <2>7, <2>8
<1>7. CASE Read(c)
  <2>1. c \in clean
    BY <1>4, <1>7 DEF Read
  <2>2. /\ semPos[c] \in Slots /\ readerSems[semPos[c]] \in Nat
        /\ Announced(semPos[c]) \in Nat
        /\ taken[c] \in Nat /\ taken[c] + Announced(semPos[c]) = written
    BY <2>1, CleanTypes, ItemsAssumption
  <2>3. 1 \in 1 .. Announced(semPos[c])
    BY <1>7, <2>2 DEF Read, Announced
  <2>4. fifo_p[c] = taken[c] % MaxNumOfItems /\ fifo_p[c] \in Positions
    BY <2>1 DEF LagInv, ReaderPlaces, ControlInv, TypeOK
  <2>5. rowHead[fifo_p[c]] = taken[c] + 1
    <3>1. rowHead[(fifo_p[c] + 1 - 1) % MaxNumOfItems] = taken[c] + 1
      BY <2>1, <2>3, AnnouncedRowsKept
    <3>2. (fifo_p[c] + 1 - 1) % MaxNumOfItems = fifo_p[c]
      BY <2>4, ItemsAssumption DEF Positions
    <3>3. QED
      BY <3>1, <3>2
  <2>6. /\ readerSems'[semPos[c]] = readerSems[semPos[c]] - 1 /\ semPos' = semPos
        /\ taken'[c] = taken[c] + 1 /\ rpc'[c] = "hold"
        /\ fifo_p'[c] = Advance(fifo_p[c])
    BY <1>7, <2>2, <2>5 DEF Read, ControlInv, TypeOK
  <2>7. taken'[c] + Announced(semPos[c])' = written'
    BY <1>1, <2>2, <2>6 DEF Announced
  <2>8. fifo_p'[c] = taken'[c] % MaxNumOfItems
    BY <2>2, <2>4, <2>6, ItemsAssumption, AdvanceAgrees DEF Advance
  <2>9. wpc' = "reset" => semPos'[c] # scan'
    BY <1>1, <2>1, <2>6 DEF LagInv, ResetLost
  <2>10. rpc'[c] \in Reading /\ taken'[c] > 0
    BY <2>2, <2>6 DEF Reading
  <2>11. QED
    BY <1>5, <2>6, <2>7, <2>8, <2>9, <2>10
<1>8. CASE UseHead(c) \/ UsePixels(c)
  <2>1. UNCHANGED <<semPos, taken, readerSems, fifo_p, clean>>
    BY <1>8 DEF UseHead, UsePixels
  <2>2. rpc'[c] \in Reading /\ rpc[c] \in Holding
    BY <1>8 DEF UseHead, UsePixels, Reading, Holding, ControlInv, TypeOK
  <2>3. QED
    BY <1>1, <1>4, <1>5, <2>1, <2>2
    DEF LagInv, ResetLost, LagAccounting, ReaderPlaces, Announced
<1>9. ~(\/ Connect(c) \/ WaitWriterCreated(c) \/ ClaimSlot(c) \/ Refuse(c)
        \/ RemoveReaderSem(c))
  BY <1>4 DEF Connect, WaitWriterCreated, ClaimSlot, Refuse, RemoveReaderSem,
              LagInv, CleanReads, Reading
<1>10. QED
  BY <1>6, <1>7, <1>8, <1>9 DEF Client

LEMMA LagStep ==
  ASSUME ControlInv, LagInv, LastRows, [Next]_vars
  PROVE  LagInv'
<1>1. CASE UNCHANGED vars
  BY <1>1 DEF LagInv, CleanReads, ResetLost, LagAccounting, ReaderPlaces, Announced,
              vars, writerVars, readerVars
<1>2. QED
  BY <1>1, WriterLag, ClientLag DEF Next

LEMMA LagAlways == Spec => []LagInv
<1>1. Init => LagInv
  BY DEF Init, LagInv, CleanReads, ResetLost, LagAccounting, ReaderPlaces
<1>2. ControlInv /\ LagInv /\ LastRows /\ [Next]_vars => LagInv'
  BY LagStep
<1>3. QED
  BY <1>1, <1>2, ControlAlways, LastRowsAlways, PTL DEF Spec

\* A reader that joined between two writes and was never found too slow neither
\* skips a row nor takes one twice: the number in the slot it takes and its
\* semaphore account for every row written since it joined.
THEOREM LagAccounted == Spec => []LagAccounting
  BY LagAlways, PTL DEF LagInv

-----------------------------------------------------------------------------
(* The row a reader holds *)

LEMMA HeldRowFollows ==
  ASSUME ControlInv, LagInv, LastRows
  PROVE  HeldRowIntact
<1> SUFFICES ASSUME NEW c \in clean, rpc[c] \in Holding,
                    Announced(semPos[c]) < MaxNumOfItems - 1
             PROVE  rowHead[Held(c)] = taken[c] /\ rowPix[Held(c)] = taken[c]
  BY DEF HeldRowIntact
<1> USE ItemsAssumption
<1>1. /\ taken[c] \in Nat /\ written \in Nat /\ MaxNumOfItems \in Nat \ {0}
      /\ Announced(semPos[c]) \in Nat /\ taken[c] + Announced(semPos[c]) = written
  BY CleanTypes
<1>2. taken[c] > 0 /\ fifo_p[c] = taken[c] % MaxNumOfItems
  BY DEF LagInv, ReaderPlaces
<1>4. taken[c] \in 1 .. written /\ taken[c] + MaxNumOfItems > written + 1
  BY <1>1, <1>2
<1>5. Held(c) = (taken[c] - 1) % MaxNumOfItems
  <2> DEFINE n == taken[c] - 1
  <2>1. n \in Nat /\ fifo_p[c] = (n + 1) % MaxNumOfItems
    BY <1>1, <1>2
  <2> HIDE DEF n
  <2>2. n % MaxNumOfItems \in 0 .. MaxNumOfItems - 1
    BY <1>1, <2>1, DivMod
  <2>3. fifo_p[c] = IF n % MaxNumOfItems = MaxNumOfItems - 1 THEN 0
                    ELSE (n % MaxNumOfItems) + 1
    BY <1>1, <2>1, ModSuccessor
  <2>4. fifo_p[c] \in 0 .. MaxNumOfItems - 1
    BY <2>2, <2>3
  <2>5. Held(c) = IF fifo_p[c] = 0 THEN MaxNumOfItems - 1 ELSE fifo_p[c] - 1
    BY <1>1, <2>4, PreviousPosition DEF Held
  <2>6. Held(c) = n % MaxNumOfItems
    BY <2>2, <2>3, <2>5
  <2>7. QED
    BY <2>6 DEF n
<1>6. QED
  BY <1>1, <1>4, <1>5 DEF LastRows, RowsKept

\* A row used in place is the row that was taken while fewer than
\* MAX_NUM_OF_ITEMS - 1 others wait for its reader.
THEOREM HeldRowIsIntact == Spec => []HeldRowIntact
  BY ControlAlways, LagAlways, LastRowsAlways, HeldRowFollows, PTL

=============================================================================
