-------------------------- MODULE GvarRelay_proofs --------------------------
(***************************************************************************)
(* Proofs about the relay, for every set of clients, whatever they ask     *)
(* for, every window and every bound.                                      *)
(***************************************************************************)
EXTENDS GvarRelay, TLAPS

\* The line document in hand is one of the block.
BlockInHand ==
  rpc = "rows" => block \in 1 .. 10 /\ lineDocNo \in 1 .. Len(LineDocs(block))

LEMMA LineDocTypes ==
  ASSUME NEW b \in 1 .. 10
  PROVE  /\ LineDocs(b) \in Seq(1 .. 5)
         /\ Len(LineDocs(b)) \in 1 .. 4
<1>1. CASE b = 1
  BY <1>1 DEF LineDocs
<1>2. CASE b = 2
  BY <1>2 DEF LineDocs
<1>3. CASE b # 1 /\ b # 2
  BY <1>3 DEF LineDocs
<1>4. QED
  BY <1>1, <1>2, <1>3

TypeInv == TypeOK /\ BlockInHand

\* What a row in the making is.
LEMMA RowOfBlockType ==
  ASSUME TypeInv, rpc = "rows", NEW y \in Lines
  PROVE  RowOfBlock(y) \in RowSet /\ RowOfBlock(y).f = m_block0
<1>1. block \in 1 .. 10 /\ lineDocNo \in 1 .. Len(LineDocs(block)) /\ m_block0 \in Nat
  BY DEF TypeInv, BlockInHand, TypeOK, ReaderTypeOK
<1>2. LineDocs(block)[lineDocNo] \in 1 .. 5
  <2> DEFINE docs == LineDocs(block)
  <2>1. docs \in Seq(1 .. 5)
    BY <1>1, LineDocTypes
  <2>2. lineDocNo \in 1 .. Len(docs)
    BY <1>1
  <2> HIDE DEF docs
  <2>3. docs[lineDocNo] \in 1 .. 5
    BY <2>1, <2>2
  <2>4. QED
    BY <2>3 DEF docs
<1>3. LineDocs(block)[lineDocNo] - 1 \in 0 .. 4
  BY <1>2
<1>4. QED
  BY <1>1, <1>3 DEF RowOfBlock, RowSet

\* A row of a queue, and the rest of the queue.
LEMMA HeadTail ==
  ASSUME NEW S, NEW q \in Seq(S), q # <<>>
  PROVE  Head(q) \in S /\ Tail(q) \in Seq(S)
  OBVIOUS

-----------------------------------------------------------------------------
(* Types: what a step leaves alone keeps its type *)

LEMMA FeedTypesKept ==
  ASSUME TypeInv, UNCHANGED feedVars, UNCHANGED connVars
  PROVE  FeedTypeOK'
  BY DEF TypeInv, TypeOK, FeedTypeOK, feedVars, connVars

LEMMA WriteTypes ==
  ASSUME TypeInv, UNCHANGED feedVars, NEW c \in Clients, Write(c) \/ WriteFails(c)
  PROVE  FeedTypeOK'
<1>1. /\ onAir' \in Nat /\ server' \in {"up", "down"}
      /\ gone \subseteq Clients /\ aborted \subseteq Clients
      /\ unseen \in [Clients -> Nat]
  BY DEF TypeInv, TypeOK, FeedTypeOK, feedVars
<1>2. CASE UNCHANGED connVars
  BY <1>2, FeedTypesKept
<1>3. CASE unseen' = [unseen EXCEPT ![c] = @ + 1] /\ UNCHANGED <<gone, aborted>>
  BY <1>1, <1>3 DEF FeedTypeOK
<1>4. CASE aborted' = aborted \cup {c} /\ UNCHANGED <<gone, unseen>>
  BY <1>1, <1>4 DEF FeedTypeOK
<1>5. QED
  BY <1>2, <1>3, <1>4 DEF Write, WriteFails

LEMMA ReaderTypesKept ==
  ASSUME TypeInv, UNCHANGED readerVars, UNCHANGED frameDef
  PROVE  ReaderTypeOK' /\ BlockInHand'
  BY DEF TypeInv, TypeOK, ReaderTypeOK, BlockInHand, readerVars

LEMMA FifoTypesKept ==
  ASSUME TypeInv, UNCHANGED fifoVars
  PROVE  FifoTypeOK'
  BY DEF TypeInv, TypeOK, FifoTypeOK, fifoVars

LEMMA HandlerTypesKept ==
  ASSUME TypeInv, UNCHANGED handlerVars
  PROVE  HandlerTypeOK'
  BY DEF TypeInv, TypeOK, HandlerTypeOK, handlerVars

LEMMA HandlerTypesMoved ==
  ASSUME TypeInv, NEW c \in Clients,
         NEW s \in {"out", "reader", "wait", "def", "row", "leave", "lost", "dead"},
         hpc' = [hpc EXCEPT ![c] = s],
         UNCHANGED <<row, copied, parts, prevFrameId, announced, sessions>>
  PROVE  HandlerTypeOK'
  BY DEF TypeInv, TypeOK, HandlerTypeOK

LEMMA PendingCleared ==
  ASSUME TypeInv, NEW c \in Clients, pending' = [pending EXCEPT ![c] = <<>>]
  PROVE  pending' \in [Clients -> Seq(RowSet)]
<1>1. <<>> \in Seq(RowSet)
  OBVIOUS
<1>2. QED
  BY <1>1 DEF TypeInv, TypeOK, FifoTypeOK

-----------------------------------------------------------------------------
(* Types: the reader thread *)

LEMMA NextLineDocTypes ==
  ASSUME TypeInv, rpc = "rows", NextLineDoc
  PROVE  /\ block' \in 0 .. 10 /\ lineDocNo' \in 0 .. 4 /\ rpc' \in {"read", "rows"}
         /\ BlockInHand'
<1> DEFINE n == Len(LineDocs(block))
<1>1. block \in 1 .. 10 /\ n \in 1 .. 4 /\ lineDocNo \in 1 .. n
  BY LineDocTypes DEF TypeInv, BlockInHand
<1>2. CASE lineDocNo < n
  <2>1. lineDocNo' = lineDocNo + 1 /\ rpc' = rpc /\ block' = block
    BY <1>2 DEF NextLineDoc
  <2> HIDE DEF n
  <2>2. lineDocNo + 1 \in 1 .. n /\ lineDocNo + 1 \in 0 .. 4 /\ block \in 0 .. 10
    BY <1>1, <1>2
  <2>3. QED
    BY <1>1, <2>1, <2>2 DEF BlockInHand, n
<1>3. CASE ~(lineDocNo < n)
  <2>1. rpc' = "read" /\ lineDocNo' = 0 /\ block' = 0
    BY <1>3 DEF NextLineDoc
  <2>2. QED
    BY <2>1 DEF BlockInHand
<1>4. QED
  BY <1>2, <1>3

LEMMA ReaderTypes ==
  ASSUME TypeInv, Reader
  PROVE  TypeInv'
<1> USE DEF fifoVars, feedVars, handlerVars
<1>0. sockets \in Nat /\ blocks \in Nat /\ m_block0 \in Nat /\ onAir \in Nat
  BY DEF TypeInv, TypeOK, FeedTypeOK, ReaderTypeOK
<1>1. CASE CreateRing \/ Listen \/ ReadFails \/ WriteDefDone \/ ReadBlock0
  <2>1. UNCHANGED <<feedVars, connVars, fifoVars, handlerVars>>
    BY <1>1 DEF CreateRing, Listen, ReadFails, WriteDefDone, ReadBlock0
  <2> SUFFICES ReaderTypeOK' /\ BlockInHand'
    BY <2>1, FeedTypesKept, FifoTypesKept, HandlerTypesKept DEF TypeInv, TypeOK
  <2>2. CASE CreateRing
    BY <2>2 DEF CreateRing, TypeInv, TypeOK, ReaderTypeOK, BlockInHand
  <2>3. CASE Listen
    <3>1. sockets' = sockets + 1
      BY <2>3 DEF Listen
    <3>2. fd' \in {"closed", "open"} /\ rpc' \in {"listen", "read"}
      BY <2>3 DEF Listen, TypeInv, TypeOK, ReaderTypeOK
    <3>3. UNCHANGED <<blocks, block, lineDocNo, m_block0, m_prevFrameId, ring, frameDef>>
      BY <2>3 DEF Listen
    <3>4. sockets' \in Nat
      BY <1>0, <3>1
    <3>5. QED
      BY <3>2, <3>3, <3>4 DEF TypeInv, TypeOK, ReaderTypeOK, BlockInHand
  <2>4. CASE ReadFails
    BY <2>4 DEF ReadFails, TypeInv, TypeOK, ReaderTypeOK, BlockInHand
  <2>5. CASE WriteDefDone
    <3>1. m_prevFrameId' = m_block0
      BY <2>5 DEF WriteDefDone
    <3>2. rpc' = "read"
          /\ UNCHANGED <<fd, sockets, blocks, block, lineDocNo, m_block0, ring, frameDef>>
      BY <2>5 DEF WriteDefDone
    <3>3. m_prevFrameId' \in Int
      BY <1>0, <3>1
    <3>4. QED
      BY <3>2, <3>3 DEF TypeInv, TypeOK, ReaderTypeOK, BlockInHand
  <2>6. CASE ReadBlock0
    <3>1. blocks' = blocks + 1 /\ m_block0' = onAir
      BY <2>6 DEF ReadBlock0
    <3>2. rpc' \in {"def", "read"}
          /\ UNCHANGED <<fd, sockets, block, lineDocNo, m_prevFrameId, ring, frameDef>>
      BY <2>6 DEF ReadBlock0
    <3>3. blocks' \in Nat /\ m_block0' \in Nat
      BY <1>0, <3>1
    <3>4. QED
      BY <3>2, <3>3 DEF TypeInv, TypeOK, ReaderTypeOK, BlockInHand
  <2>7. QED
    BY <1>1, <2>2, <2>3, <2>4, <2>5, <2>6
<1>2. ASSUME NEW p \in Parts, WriteDefPart(p)
      PROVE  TypeInv'
  <2>1. ReaderTypeOK' /\ BlockInHand'
    BY <1>2 DEF WriteDefPart, readerVars, TypeInv, TypeOK, ReaderTypeOK, BlockInHand
  <2>2. QED
    BY <1>2, <2>1, FeedTypesKept, FifoTypesKept, HandlerTypesKept
    DEF WriteDefPart, TypeInv, TypeOK
<1>3. ASSUME NEW b \in BlockIds, ReadRowBlock(b)
      PROVE  TypeInv'
  <2> SUFFICES ReaderTypeOK' /\ BlockInHand'
    BY <1>3, FeedTypesKept, FifoTypesKept, HandlerTypesKept
    DEF ReadRowBlock, TypeInv, TypeOK
  <2>1. b \in 1 .. 10 /\ b \in 0 .. 10
    BY <1>3, BlocksAssumption DEF ReadRowBlock
  <2> DEFINE n == Len(LineDocs(b))
  <2>2. n \in 1 .. 4
    BY <2>1, LineDocTypes
  <2> HIDE DEF n
  <2>3. 1 \in 1 .. n /\ 1 \in 0 .. 4
    BY <2>2
  <2>10. blocks' = blocks + 1
        /\ UNCHANGED <<fd, sockets, m_block0, m_prevFrameId, ring, frameDef>>
    BY <1>3 DEF ReadRowBlock
  <2>11. blocks' \in Nat
    BY <1>0, <2>10
  <2>4. CASE m_block0 = 0
    <3>1. UNCHANGED <<rpc, block, lineDocNo>>
      BY <1>3, <2>4 DEF ReadRowBlock
    <3>2. QED
      BY <2>10, <2>11, <3>1 DEF TypeInv, TypeOK, ReaderTypeOK, BlockInHand
  <2>5. CASE m_block0 # 0
    <3>1. rpc' = "rows" /\ block' = b /\ lineDocNo' = 1
      BY <1>3, <2>5 DEF ReadRowBlock
    <3>2. BlockInHand'
      BY <2>1, <2>3, <3>1 DEF BlockInHand, n
    <3>3. ReaderTypeOK'
      BY <2>10, <2>11, <2>1, <2>3, <3>1 DEF TypeInv, TypeOK, ReaderTypeOK
    <3>4. QED
      BY <3>2, <3>3
  <2>6. QED
    BY <2>4, <2>5
<1>4. CASE WriteRow \/ SkipLineDoc
  <2>1. rpc = "rows" /\ NextLineDoc
        /\ UNCHANGED <<feedVars, connVars, fd, sockets, blocks, m_block0, m_prevFrameId,
                       ring, frameDef, handlerVars>>
    BY <1>4 DEF WriteRow, SkipLineDoc
  <2>2. ReaderTypeOK' /\ BlockInHand'
    BY <2>1, NextLineDocTypes DEF TypeInv, TypeOK, ReaderTypeOK
  <2>3. CASE WriteRow
    <3>0. PICK y \in Lines : Fifo!Publish(RowOfBlock(y))
      BY <2>3 DEF WriteRow
    <3>1. RowOfBlock(y) \in RowSet
      BY <2>1, RowOfBlockType
    <3>2. /\ pending' = [c \in Clients |-> IF c \in active
                           THEN Append(pending[c], RowOfBlock(y)) ELSE <<>>]
          /\ active' = active /\ leaving' = leaving
      BY <3>0 DEF Fifo!Publish
    <3>3. pending \in [Clients -> Seq(RowSet)]
      BY DEF TypeInv, TypeOK, FifoTypeOK
    <3>4. \A c \in Clients : Append(pending[c], RowOfBlock(y)) \in Seq(RowSet)
      BY <3>1, <3>3
    <3>5. FifoTypeOK'
      BY <3>2, <3>4 DEF TypeInv, TypeOK, FifoTypeOK
    <3>6. QED
      BY <2>1, <2>2, <3>5, FeedTypesKept, HandlerTypesKept DEF TypeInv, TypeOK
  <2>4. CASE SkipLineDoc
    BY <2>1, <2>2, <2>4, FeedTypesKept, FifoTypesKept, HandlerTypesKept
    DEF SkipLineDoc, TypeInv, TypeOK
  <2>5. QED
    BY <1>4, <2>3, <2>4
<1>5. ASSUME NEW c \in Clients, LoseReader(c)
      PROVE  TypeInv'
  <2>1. FifoTypeOK'
    BY <1>5, PendingCleared DEF LoseReader, Fifo!Lose, TypeInv, TypeOK, FifoTypeOK
  <2>2. HandlerTypeOK'
    BY <1>5, HandlerTypesMoved DEF LoseReader
  <2>3. QED
    BY <1>5, <2>1, <2>2, FeedTypesKept, ReaderTypesKept DEF LoseReader, TypeInv, TypeOK
<1>6. QED
  BY <1>1, <1>2, <1>3, <1>4, <1>5 DEF Reader

-----------------------------------------------------------------------------
(* Types: a handler *)

LEMMA HandlerTypes ==
  ASSUME TypeInv, NEW c \in Clients, Handler(c)
  PROVE  TypeInv'
<1>1. CASE Request(c)
  <2>1. NoDef \in [Parts -> Int] /\ NoFrame \in Int
    BY DEF NoDef, NoFrame
  <2>2. HandlerTypeOK'
    BY <1>1, <2>1 DEF Request, TypeInv, TypeOK, HandlerTypeOK
  <2>3. FeedTypeOK'
    <3>1. UNCHANGED <<onAir, server>> /\ gone' = gone \ {c} /\ aborted' = aborted \ {c}
          /\ unseen' = [unseen EXCEPT ![c] = 0]
      BY <1>1 DEF Request, feedVars
    <3>2. QED
      BY <3>1 DEF TypeInv, TypeOK, FeedTypeOK
  <2>4. QED
    BY <1>1, <2>2, <2>3, ReaderTypesKept, FifoTypesKept DEF Request, TypeInv, TypeOK
<1>2. CASE ClientGoes(c)
  <2>1. FeedTypeOK'
    BY <1>2 DEF ClientGoes, feedVars, TypeInv, TypeOK, FeedTypeOK
  <2>2. QED
    BY <1>2, <2>1, ReaderTypesKept, FifoTypesKept, HandlerTypesKept
    DEF ClientGoes, TypeInv, TypeOK
<1>3. CASE NoReader(c) \/ NoFifo(c) \/ IgnoreRow(c)
  BY <1>3, HandlerTypesMoved, FeedTypesKept, ReaderTypesKept, FifoTypesKept
  DEF NoReader, NoFifo, IgnoreRow, TypeInv, TypeOK
<1>11. CASE SendRow(c)
  BY <1>11, HandlerTypesMoved, WriteTypes, ReaderTypesKept, FifoTypesKept
  DEF SendRow, TypeInv, TypeOK
<1>4. CASE NewReader(c)
  <2>1. FifoTypeOK'
    BY <1>4 DEF NewReader, Fifo!Join, TypeInv, TypeOK, FifoTypeOK
  <2>2. QED
    BY <1>4, <2>1, HandlerTypesMoved, FeedTypesKept, ReaderTypesKept
    DEF NewReader, TypeInv, TypeOK
<1>5. CASE SendFails(c)
  <2>1. FifoTypeOK'
    BY <1>5 DEF SendFails, Fifo!Finish, TypeInv, TypeOK, FifoTypeOK
  <2>2. QED
    BY <1>5, <2>1, HandlerTypesMoved, WriteTypes, ReaderTypesKept
    DEF SendFails, TypeInv, TypeOK
<1>6. CASE RemoveReader(c)
  <2>1. FifoTypeOK'
    BY <1>6, PendingCleared DEF RemoveReader, Fifo!Leave, TypeInv, TypeOK, FifoTypeOK
  <2>2. QED
    BY <1>6, <2>1, HandlerTypesMoved, FeedTypesKept, ReaderTypesKept
    DEF RemoveReader, TypeInv, TypeOK
<1>7. CASE TakeRow(c)
  <2>1. /\ pending \in [Clients -> Seq(RowSet)] /\ pending[c] # <<>>
        /\ pending' = [pending EXCEPT ![c] = Tail(pending[c])]
        /\ row' = [row EXCEPT ![c] = Head(pending[c])]
        /\ active' = active /\ leaving' = leaving
    BY <1>7 DEF TakeRow, Fifo!Take, TypeInv, TypeOK, FifoTypeOK
  <2>2. Head(pending[c]) \in RowSet /\ Tail(pending[c]) \in Seq(RowSet)
    BY <2>1, HeadTail
  <2>3. FifoTypeOK'
    BY <2>1, <2>2 DEF TypeInv, TypeOK, FifoTypeOK
  <2>4. row' \in [Clients -> RowSet \cup {NoRow}]
    BY <2>1, <2>2 DEF TypeInv, TypeOK, HandlerTypeOK
  <2>5. HandlerTypeOK'
    BY <1>7, <2>4 DEF TakeRow, TypeInv, TypeOK, HandlerTypeOK
  <2>6. QED
    BY <1>7, <2>3, <2>5, FeedTypesKept, ReaderTypesKept DEF TakeRow, TypeInv, TypeOK
<1>8. ASSUME NEW p \in Parts, CopyDefPart(c, p)
      PROVE  TypeInv'
  <2>1. frameDef[p] \in Int
    <3>1. frameDef \in [Parts -> Nat]
      BY DEF TypeInv, TypeOK, ReaderTypeOK
    <3>2. QED
      BY <1>8, <3>1
  <2>2. HandlerTypeOK'
    BY <1>8, <2>1 DEF CopyDefPart, TypeInv, TypeOK, HandlerTypeOK
  <2>3. QED
    BY <1>8, <2>2, FeedTypesKept, ReaderTypesKept, FifoTypesKept
    DEF CopyDefPart, TypeInv, TypeOK
<1>9. CASE StartFrame(c)
  <2>1. row[c].f \in Int
    <3>1. row[c] \in RowSet \/ row[c] = NoRow
      BY DEF TypeInv, TypeOK, HandlerTypeOK
    <3>2. QED
      BY <3>1 DEF RowSet, NoRow, NoFrame
  <2>2. HandlerTypeOK'
    BY <1>9, <2>1 DEF StartFrame, TypeInv, TypeOK, HandlerTypeOK
  <2>3. QED
    BY <1>9, <2>2, WriteTypes, ReaderTypesKept, FifoTypesKept
    DEF StartFrame, TypeInv, TypeOK
<1>10. QED
  BY <1>1, <1>2, <1>3, <1>4, <1>5, <1>6, <1>7, <1>8, <1>9, <1>11 DEF Handler

LEMMA TypeInit == Init => TypeInv
<1> SUFFICES ASSUME Init PROVE TypeInv
  OBVIOUS
<1>1. FeedTypeOK
  BY DEF Init, FeedTypeOK
<1>2. ReaderTypeOK /\ BlockInHand
  BY DEF Init, ReaderTypeOK, BlockInHand, NoFrame
<1>3. FifoTypeOK
  BY DEF Init, Fifo!BInit, FifoTypeOK
<1>4. HandlerTypeOK
  <2>1. NoDef \in [Parts -> Int] /\ NoFrame \in Int
    BY DEF NoDef, NoFrame
  <2>2. QED
    BY <2>1 DEF Init, HandlerTypeOK
<1>5. QED
  BY <1>1, <1>2, <1>3, <1>4 DEF TypeInv, TypeOK

LEMMA TypeStep == TypeInv /\ [Next]_vars => TypeInv'
<1> SUFFICES ASSUME TypeInv, [Next]_vars
             PROVE  TypeInv'
  OBVIOUS
<1>1. CASE NextFrame \/ ServerUp \/ ServerDown
  <2>1. FeedTypeOK'
    BY <1>1 DEF NextFrame, ServerUp, ServerDown, connVars, TypeInv, TypeOK, FeedTypeOK
  <2>2. QED
    BY <1>1, <2>1, ReaderTypesKept, FifoTypesKept, HandlerTypesKept
    DEF NextFrame, ServerUp, ServerDown, TypeInv, TypeOK
<1>2. CASE UNCHANGED vars
  BY <1>2, FeedTypesKept, ReaderTypesKept, FifoTypesKept, HandlerTypesKept
  DEF vars, TypeInv, TypeOK
<1>3. QED
  BY <1>1, <1>2, ReaderTypes, HandlerTypes DEF Next

LEMMA TypeAlways == Spec => []TypeInv
  BY TypeInit, TypeStep, PTL DEF Spec

\* Every variable of the relay keeps its type; the line document in hand is one
\* of the block.
THEOREM RelayTypeCorrect == Spec => []TypeOK
  BY TypeAlways, PTL DEF TypeInv

-----------------------------------------------------------------------------
(* Frame definitions *)

\* The definition in shared memory is never ahead of the last block 0, and is its
\* definition whenever rows may be written.
DefOrder ==
  /\ \A p \in Parts : frameDef[p] <= m_block0
  /\ m_block0 <= onAir
  /\ rpc # "def" =>
       /\ \A p \in Parts : frameDef[p] = m_block0
       /\ m_prevFrameId = m_block0 \/ (m_block0 = 0 /\ m_prevFrameId = NoFrame)

\* No row in the fifo is of a frame whose definition has not been written.
QueueDef ==
  \A c \in Clients : \A k \in 1 .. Len(pending[c]) : \A p \in Parts :
    pending[c][k].f <= frameDef[p]

\* What a handler has sent and copied lies between its row and the definition in
\* shared memory.
ClientDef(c) ==
  \A p \in Parts :
    /\ prevFrameId[c] <= announced[c][p]
    /\ announced[c][p] <= frameDef[p]
    /\ hpc[c] \in {"def", "row"} => row[c].f <= frameDef[p]
    /\ hpc[c] = "def" /\ p \notin parts[c] =>
         /\ row[c].f <= copied[c][p]
         /\ announced[c][p] <= copied[c][p]
         /\ copied[c][p] <= frameDef[p]
    /\ hpc[c] = "row" => row[c].f <= announced[c][p]

DefInv == DefOrder /\ QueueDef /\ \A c \in Clients : ClientDef(c)

LEMMA DefTypes ==
  ASSUME TypeInv
  PROVE  /\ onAir \in Nat /\ m_block0 \in Nat /\ m_prevFrameId \in Int
         /\ \A p \in Parts : frameDef[p] \in Int
  <1>1. onAir \in Nat /\ m_block0 \in Nat /\ m_prevFrameId \in Int
        /\ frameDef \in [Parts -> Nat]
    BY DEF TypeInv, TypeOK, FeedTypeOK, ReaderTypeOK
  <1>2. QED
    BY <1>1

LEMMA ClientTypes ==
  ASSUME TypeInv, NEW c \in Clients
  PROVE  /\ row[c].f \in Int /\ prevFrameId[c] \in Int /\ parts[c] \subseteq Parts
         /\ \A p \in Parts : copied[c][p] \in Int /\ announced[c][p] \in Int
         /\ pending[c] \in Seq(RowSet)
         /\ \A k \in 1 .. Len(pending[c]) : pending[c][k].f \in Int
<1>1. row[c] \in RowSet \/ row[c] = NoRow
  BY DEF TypeInv, TypeOK, HandlerTypeOK
<1>2. row[c].f \in Int
  BY <1>1 DEF RowSet, NoRow, NoFrame
<1>3. prevFrameId[c] \in Int /\ parts[c] \subseteq Parts
      /\ copied[c] \in [Parts -> Int] /\ announced[c] \in [Parts -> Int]
  BY DEF TypeInv, TypeOK, HandlerTypeOK
<1>4. pending[c] \in Seq(RowSet)
  BY DEF TypeInv, TypeOK, FifoTypeOK
<1>5. \A k \in 1 .. Len(pending[c]) : pending[c][k] \in RowSet
  BY <1>4
<1>6. \A r \in RowSet : r.f \in Int
  BY DEF RowSet
<1>7. QED
  BY <1>2, <1>3, <1>4, <1>5, <1>6

\* The definition in shared memory only goes forward.
DefGrows == \A p \in Parts : frameDef[p] <= frameDef'[p]

LEMMA DefKept ==
  ASSUME TypeInv, UNCHANGED frameDef
  PROVE  DefGrows
  BY DefTypes DEF DefGrows

LEMMA DefStep ==
  ASSUME TypeInv, DefOrder, [Next]_vars
  PROVE  DefOrder' /\ DefGrows
<1>0. /\ onAir \in Nat /\ m_block0 \in Nat /\ m_prevFrameId \in Int
      /\ \A p \in Parts : frameDef[p] \in Int
  BY DefTypes
<1>1. CASE \/ UNCHANGED <<onAir, m_block0, m_prevFrameId, frameDef, rpc>>
           \/ UNCHANGED <<onAir, m_block0, m_prevFrameId, frameDef>>
              /\ rpc # "def" /\ rpc' # "def"
  BY <1>1, DefKept DEF DefOrder
<1>2. CASE NextFrame
  <2>1. onAir' = onAir + 1 /\ UNCHANGED <<m_block0, m_prevFrameId, frameDef, rpc>>
    BY <1>2 DEF NextFrame, readerVars
  <2>2. m_block0' <= onAir'
    BY <1>0, <2>1 DEF DefOrder
  <2>3. QED
    BY <2>1, <2>2, DefKept DEF DefOrder
<1>3. CASE ReadBlock0
  <2>1. /\ rpc = "read" /\ m_block0' = onAir /\ onAir' = onAir
        /\ UNCHANGED <<m_prevFrameId, frameDef>>
        /\ rpc' = IF onAir # m_prevFrameId THEN "def" ELSE "read"
    BY <1>3 DEF ReadBlock0, feedVars
  <2>2. \A p \in Parts : frameDef'[p] <= m_block0'
    BY <1>0, <2>1 DEF DefOrder
  <2>3. m_block0' <= onAir'
    BY <1>0, <2>1
  <2>4. CASE onAir # m_prevFrameId
    BY <2>1, <2>2, <2>3, <2>4, DefKept DEF DefOrder
  <2>5. CASE onAir = m_prevFrameId
    <3>1. m_prevFrameId = m_block0
      BY <1>0, <2>1, <2>5 DEF DefOrder, NoFrame
    <3>2. QED
      BY <2>1, <2>2, <2>3, <2>5, <3>1, DefKept DEF DefOrder
  <2>6. QED
    BY <2>4, <2>5
<1>4. ASSUME NEW p \in Parts, WriteDefPart(p)
      PROVE  DefOrder' /\ DefGrows
  <2>1. /\ rpc = "def" /\ frameDef' = [frameDef EXCEPT ![p] = m_block0]
        /\ UNCHANGED <<onAir, m_block0, m_prevFrameId, rpc>>
    BY <1>4 DEF WriteDefPart, feedVars, readerVars
  <2>2. frameDef \in [Parts -> Nat]
    BY DEF TypeInv, TypeOK, ReaderTypeOK
  <2>3. \A q \in Parts : frameDef'[q] = IF q = p THEN m_block0 ELSE frameDef[q]
    BY <2>1, <2>2
  <2>4. \A q \in Parts : frameDef'[q] <= m_block0 /\ frameDef[q] <= frameDef'[q]
    BY <1>0, <2>3 DEF DefOrder
  <2>5. QED
    BY <2>1, <2>4 DEF DefOrder, DefGrows
<1>5. CASE WriteDefDone
  <2>1. /\ \A p \in Parts : frameDef[p] = m_block0
        /\ m_prevFrameId' = m_block0
        /\ UNCHANGED <<onAir, m_block0, frameDef>>
    BY <1>5 DEF WriteDefDone, feedVars
  <2>2. QED
    BY <2>1, DefKept DEF DefOrder
<1>6. CASE CreateRing \/ Listen \/ ReadFails \/ WriteRow \/ SkipLineDoc
           \/ \E b \in BlockIds : ReadRowBlock(b)
  <2>1. UNCHANGED <<onAir, m_block0, m_prevFrameId, frameDef>>
    BY <1>6 DEF CreateRing, Listen, ReadFails, WriteRow, SkipLineDoc, ReadRowBlock,
                feedVars
  <2>2. rpc # "def" /\ rpc' # "def"
    BY <1>6 DEF CreateRing, Listen, ReadFails, WriteRow, SkipLineDoc, ReadRowBlock,
                NextLineDoc
  <2>3. QED
    BY <1>1, <2>1, <2>2
<1>7. CASE \/ ServerUp \/ ServerDown \/ UNCHANGED vars
           \/ \E c \in Clients : LoseReader(c) \/ Handler(c)
  <2>1. UNCHANGED <<onAir, m_block0, m_prevFrameId, frameDef, rpc>>
    BY <1>7 DEF ServerUp, ServerDown, vars, feedVars, readerVars, LoseReader, Handler,
                Request, NewReader, NoReader, NoFifo, ClientGoes, TakeRow, CopyDefPart,
                StartFrame, IgnoreRow, SendRow, SendFails, RemoveReader
  <2>2. QED
    BY <1>1, <2>1
<1>8. QED
  BY <1>2, <1>3, <1>4, <1>5, <1>6, <1>7 DEF Next, Reader

\* A step leaves a queue alone, empties it, takes its first row, or appends the
\* row in the making.
QueueMoves(c) ==
  \/ pending'[c] = pending[c]
  \/ pending'[c] = <<>>
  \/ pending[c] # <<>> /\ pending'[c] = Tail(pending[c])
  \/ rpc = "rows" /\ \E y \in Lines : pending'[c] = Append(pending[c], RowOfBlock(y))

LEMMA QueueStep ==
  ASSUME TypeInv, [Next]_vars, NEW c \in Clients
  PROVE  QueueMoves(c)
<1>0. pending \in [Clients -> Seq(RowSet)]
  BY DEF TypeInv, TypeOK, FifoTypeOK
<1>1. CASE UNCHANGED pending
  BY <1>1 DEF QueueMoves
<1>2. CASE WriteRow
  BY <1>2 DEF WriteRow, Fifo!Publish, QueueMoves
<1>3. ASSUME NEW d \in Clients,
             pending' = [pending EXCEPT ![d] = <<>>]
      PROVE  QueueMoves(c)
  BY <1>0, <1>3 DEF QueueMoves
<1>4. ASSUME NEW d \in Clients, TakeRow(d)
      PROVE  QueueMoves(c)
  <2>1. pending[d] # <<>> /\ pending' = [pending EXCEPT ![d] = Tail(pending[d])]
    BY <1>4 DEF TakeRow, Fifo!Take
  <2>2. QED
    BY <1>0, <2>1 DEF QueueMoves
<1>5. ASSUME NEW d \in Clients, LoseReader(d) \/ RemoveReader(d)
      PROVE  QueueMoves(c)
  BY <1>3, <1>5 DEF LoseReader, RemoveReader, Fifo!Lose, Fifo!Leave
<1>6. CASE \/ CreateRing \/ Listen \/ ReadFails \/ ReadBlock0 \/ WriteDefDone
           \/ SkipLineDoc \/ NextFrame \/ ServerUp \/ ServerDown \/ UNCHANGED vars
           \/ \E p \in Parts : WriteDefPart(p)
           \/ \E b \in BlockIds : ReadRowBlock(b)
  <2>1. UNCHANGED pending
    BY <1>6 DEF CreateRing, Listen, ReadFails, ReadBlock0, WriteDefDone, SkipLineDoc,
                NextFrame, ServerUp, ServerDown, vars, WriteDefPart, ReadRowBlock,
                fifoVars
  <2>2. QED
    BY <1>1, <2>1
<1>7. ASSUME NEW d \in Clients,
             \/ Request(d) \/ NewReader(d) \/ NoReader(d) \/ NoFifo(d) \/ ClientGoes(d)
             \/ StartFrame(d) \/ IgnoreRow(d) \/ SendRow(d) \/ SendFails(d)
             \/ \E p \in Parts : CopyDefPart(d, p)
      PROVE  QueueMoves(c)
  <2>1. UNCHANGED pending
    BY <1>7 DEF Request, NewReader, NoReader, NoFifo, ClientGoes, StartFrame, IgnoreRow, SendRow,
                SendFails, CopyDefPart, Fifo!Join, Fifo!Finish, fifoVars
  <2>2. QED
    BY <1>1, <2>1
<1>8. QED
  BY <1>2, <1>4, <1>5, <1>6, <1>7 DEF Next, Reader, Handler

LEMMA QueueDefStep ==
  ASSUME TypeInv, DefInv, DefGrows, [Next]_vars
  PROVE  QueueDef'
<1> SUFFICES ASSUME NEW c \in Clients, NEW p \in Parts
             PROVE  \A k \in 1 .. Len(pending'[c]) : pending'[c][k].f <= frameDef'[p]
  BY DEF QueueDef
<1> DEFINE q == pending[c]
           s == pending'[c]
<1>0. /\ q \in Seq(RowSet) /\ \A k \in 1 .. Len(q) : q[k].f \in Int /\ q[k].f <= frameDef[p]
      /\ frameDef[p] \in Int /\ frameDef'[p] \in Int /\ frameDef[p] <= frameDef'[p]
  <2>1. frameDef'[p] \in Int
    <3>1. TypeInv'
      BY TypeStep
    <3>2. (frameDef \in [Parts -> Nat])'
      BY <3>1 DEF TypeInv, TypeOK, ReaderTypeOK
    <3>3. QED
      BY <3>2
  <2>2. QED
    BY <2>1, ClientTypes, DefTypes DEF DefInv, QueueDef, DefGrows
<1>1. \A k \in 1 .. Len(q) : q[k].f <= frameDef'[p]
  <2> HIDE DEF q
  <2> QED BY <1>0
<1>2. QueueMoves(c)
  BY QueueStep
<1>3. CASE s = q
  BY <1>1, <1>3
<1>4. CASE s = <<>>
  BY <1>4
<1>5. CASE q # <<>> /\ s = Tail(q)
  <2> HIDE DEF q, s
  <2>1. Len(s) = Len(q) - 1 /\ \A k \in 1 .. Len(s) : s[k] = q[k + 1]
    BY <1>0, <1>5
  <2>2. \A k \in 1 .. Len(s) : k + 1 \in 1 .. Len(q)
    BY <1>0, <2>1
  <2>3. \A k \in 1 .. Len(s) : s[k].f <= frameDef'[p]
    BY <1>1, <2>1, <2>2
  <2>4. QED
    BY <2>3 DEF s
<1>6. ASSUME rpc = "rows", NEW y \in Lines, s = Append(q, RowOfBlock(y))
      PROVE  \A k \in 1 .. Len(s) : s[k].f <= frameDef'[p]
  <2> DEFINE r == RowOfBlock(y)
  <2>1. r \in RowSet /\ r.f = m_block0
    BY <1>6, RowOfBlockType
  <2>2. m_block0 = frameDef[p]
    BY <1>6 DEF DefInv, DefOrder
  <2>3. r.f <= frameDef'[p]
    BY <1>0, <2>1, <2>2
  <2>4. s = Append(q, r)
    BY <1>6
  <2> HIDE DEF q, s, r
  <2>5. Len(s) = Len(q) + 1 /\ \A k \in 1 .. Len(s) :
          s[k] = IF k \in 1 .. Len(q) THEN q[k] ELSE r
    BY <1>0, <2>1, <2>4
  <2>6. \A k \in 1 .. Len(s) : s[k].f <= frameDef'[p]
    BY <1>1, <2>3, <2>5
  <2>7. QED
    BY <2>6 DEF s
<1>7. QED
  BY <1>2, <1>3, <1>4, <1>5, <1>6 DEF QueueMoves

-----------------------------------------------------------------------------
(* What a handler has taken, copied and sent *)

\* A step that keeps what a handler has in hand, or lets it go.
LEMMA ClientDefKept ==
  ASSUME TypeInv, TypeInv', DefGrows, NEW c \in Clients, ClientDef(c),
         hpc'[c] \in {hpc[c], "out", "reader", "wait", "leave", "lost", "dead"},
         row'[c] = row[c], copied'[c] = copied[c], parts'[c] = parts[c],
         prevFrameId'[c] = prevFrameId[c], announced'[c] = announced[c]
  PROVE  ClientDef(c)'
<1> SUFFICES ASSUME NEW p \in Parts
             PROVE  /\ prevFrameId'[c] <= announced'[c][p]
                    /\ announced'[c][p] <= frameDef'[p]
                    /\ hpc'[c] \in {"def", "row"} => row'[c].f <= frameDef'[p]
                    /\ hpc'[c] = "def" /\ p \notin parts'[c] =>
                         /\ row'[c].f <= copied'[c][p]
                         /\ announced'[c][p] <= copied'[c][p]
                         /\ copied'[c][p] <= frameDef'[p]
                    /\ hpc'[c] = "row" => row'[c].f <= announced'[c][p]
  BY DEF ClientDef
<1>1. /\ row[c].f \in Int /\ prevFrameId[c] \in Int /\ copied[c][p] \in Int
      /\ announced[c][p] \in Int /\ frameDef[p] \in Int
  BY ClientTypes, DefTypes
<1>2. frameDef'[p] \in Int
  <2>1. (frameDef \in [Parts -> Nat])'
    BY DEF TypeInv, TypeOK, ReaderTypeOK
  <2>2. QED
    BY <2>1
<1>3. frameDef[p] <= frameDef'[p]
  BY DEF DefGrows
<1>4. hpc'[c] \in {"def", "row"} => hpc'[c] = hpc[c]
  OBVIOUS
<1>5. QED
  BY <1>1, <1>2, <1>3, <1>4 DEF ClientDef

LEMMA ClientDefRequest ==
  ASSUME TypeInv, NEW c \in Clients, ClientDef(c), Request(c)
  PROVE  ClientDef(c)'
<1>1. /\ hpc'[c] = "reader" /\ prevFrameId'[c] = NoFrame /\ announced'[c] = NoDef
      /\ frameDef' = frameDef
  BY DEF Request, TypeInv, TypeOK, HandlerTypeOK
<1>2. ASSUME NEW p \in Parts
      PROVE  NoFrame <= NoDef[p] /\ NoDef[p] <= frameDef[p]
  <2>1. frameDef[p] \in Nat
    BY DEF TypeInv, TypeOK, ReaderTypeOK
  <2>2. QED
    BY <2>1 DEF NoDef, NoFrame
<1>3. QED
  BY <1>1, <1>2 DEF ClientDef

LEMMA ClientDefTake ==
  ASSUME TypeInv, QueueDef, NEW c \in Clients, ClientDef(c), TakeRow(c)
  PROVE  ClientDef(c)'
<1>1. /\ pending[c] \in Seq(RowSet) /\ pending[c] # <<>>
      /\ hpc[c] = "wait" /\ row'[c] = Head(pending[c])
      /\ UNCHANGED <<frameDef, copied, prevFrameId, announced>>
  BY ClientTypes DEF TakeRow, Fifo!Take, TypeInv, TypeOK, HandlerTypeOK
<1>2. CASE Head(pending[c]).f # prevFrameId[c]
  <2>1. hpc'[c] = "def" /\ parts'[c] = Parts
    BY <1>2 DEF TakeRow, TypeInv, TypeOK, HandlerTypeOK
  <2>2. \A p \in Parts : row'[c].f <= frameDef[p]
    <3>1. 1 \in 1 .. Len(pending[c]) /\ Head(pending[c]) = pending[c][1]
      BY <1>1
    <3>2. QED
      BY <1>1, <3>1 DEF QueueDef
  <2>3. QED
    BY <1>1, <2>1, <2>2 DEF ClientDef
<1>3. CASE Head(pending[c]).f = prevFrameId[c]
  <2>1. hpc'[c] = "row" /\ parts' = parts
    BY <1>3 DEF TakeRow, TypeInv, TypeOK, HandlerTypeOK
  <2>2. \A p \in Parts : row'[c].f <= announced[c][p] /\ row'[c].f <= frameDef[p]
    <3>1. \A p \in Parts : row'[c].f <= announced[c][p] /\ announced[c][p] <= frameDef[p]
      BY <1>1, <1>3 DEF ClientDef
    <3>2. \A p \in Parts : announced[c][p] \in Int /\ frameDef[p] \in Int
      BY ClientTypes, DefTypes
    <3>3. row'[c].f \in Int
      BY <1>1, <1>3, ClientTypes
    <3>4. QED
      BY <3>1, <3>2, <3>3
  <2>3. QED
    BY <1>1, <2>1, <2>2 DEF ClientDef
<1>4. QED
  BY <1>2, <1>3

LEMMA ClientDefCopy ==
  ASSUME TypeInv, NEW c \in Clients, ClientDef(c), NEW p \in Parts, CopyDefPart(c, p)
  PROVE  ClientDef(c)'
<1>1. /\ hpc[c] = "def"
      /\ \A q \in Parts : copied'[c][q] = IF q = p THEN frameDef[p] ELSE copied[c][q]
      /\ parts'[c] = parts[c] \ {p}
      /\ UNCHANGED <<frameDef, hpc, row, prevFrameId, announced>>
  BY DEF CopyDefPart, TypeInv, TypeOK, HandlerTypeOK
<1>2. ASSUME NEW q \in Parts, q \notin parts'[c]
      PROVE  /\ row[c].f <= copied'[c][q]
             /\ announced[c][q] <= copied'[c][q]
             /\ copied'[c][q] <= frameDef[q]
  <2>1. CASE q = p
    <3>1. copied'[c][q] = frameDef[q] /\ frameDef[q] \in Int
      BY <1>1, <2>1, DefTypes
    <3>2. QED
      BY <1>1, <3>1 DEF ClientDef
  <2>2. CASE q # p
    BY <1>1, <1>2, <2>2 DEF ClientDef
  <2>3. QED
    BY <2>1, <2>2
<1>3. QED
  BY <1>1, <1>2 DEF ClientDef

LEMMA ClientDefStart ==
  ASSUME TypeInv, NEW c \in Clients, ClientDef(c), StartFrame(c)
  PROVE  /\ ClientDef(c)'
         /\ \A p \in Parts : announced[c][p] <= announced'[c][p]
<1>1. /\ hpc[c] = "def" /\ parts[c] = {} /\ hpc'[c] = "row"
      /\ announced'[c] = copied[c] /\ prevFrameId'[c] = row[c].f
      /\ UNCHANGED <<frameDef, row, parts>>
  BY DEF StartFrame, TypeInv, TypeOK, HandlerTypeOK
<1>2. \A p \in Parts : /\ row[c].f <= copied[c][p]
                       /\ announced[c][p] <= copied[c][p]
                       /\ copied[c][p] <= frameDef[p]
                       /\ row[c].f <= frameDef[p]
  BY <1>1 DEF ClientDef
<1>3. QED
  BY <1>1, <1>2 DEF ClientDef

\* The other handlers, and the other steps.
LEMMA ClientDefStep ==
  ASSUME TypeInv, DefInv, [Next]_vars, NEW c \in Clients
  PROVE  ClientDef(c)'
<1>0. TypeInv' /\ DefGrows /\ ClientDef(c) /\ QueueDef
  BY TypeStep, DefStep DEF DefInv
<1>1. CASE UNCHANGED handlerVars
  BY <1>0, <1>1, ClientDefKept DEF handlerVars
<1>2. ASSUME NEW d \in Clients, LoseReader(d)
      PROVE  ClientDef(c)'
  <2>1. hpc'[c] \in {hpc[c], "lost"}
        /\ UNCHANGED <<row, copied, parts, prevFrameId, announced>>
    BY <1>2 DEF LoseReader, TypeInv, TypeOK, HandlerTypeOK
  <2>2. QED
    BY <1>0, <2>1, ClientDefKept
<1>3. ASSUME NEW d \in Clients, Handler(d), d # c
      PROVE  ClientDef(c)'
  <2>1. hpc'[c] = hpc[c] /\ row'[c] = row[c] /\ copied'[c] = copied[c]
        /\ parts'[c] = parts[c] /\ prevFrameId'[c] = prevFrameId[c]
        /\ announced'[c] = announced[c]
    BY <1>3 DEF Handler, Request, NewReader, NoReader, NoFifo, ClientGoes, TakeRow, StartFrame,
                IgnoreRow, SendRow, SendFails, RemoveReader, CopyDefPart, handlerVars,
                TypeInv, TypeOK, HandlerTypeOK
  <2>2. QED
    BY <1>0, <2>1, ClientDefKept
<1>4. CASE Handler(c)
  <2>1. CASE \/ NewReader(c) \/ NoReader(c) \/ NoFifo(c) \/ IgnoreRow(c) \/ SendRow(c)
             \/ SendFails(c) \/ RemoveReader(c)
    <3>1. hpc'[c] \in {"out", "wait", "leave", "dead"}
          /\ UNCHANGED <<row, copied, parts, prevFrameId, announced>>
      BY <2>1 DEF NewReader, NoReader, NoFifo, IgnoreRow, SendRow, SendFails, RemoveReader,
                  TypeInv, TypeOK, HandlerTypeOK
    <3>2. QED
      BY <1>0, <3>1, ClientDefKept
  <2>2. CASE ClientGoes(c)
    BY <1>1, <2>2 DEF ClientGoes
  <2>3. QED
    BY <1>0, <1>4, <2>1, <2>2, ClientDefRequest, ClientDefTake, ClientDefCopy,
       ClientDefStart
    DEF Handler
<1>5. CASE \/ NextFrame \/ ServerUp \/ ServerDown \/ UNCHANGED vars
           \/ CreateRing \/ Listen \/ ReadFails \/ ReadBlock0 \/ WriteDefDone
           \/ WriteRow \/ SkipLineDoc
           \/ \E p \in Parts : WriteDefPart(p)
           \/ \E b \in BlockIds : ReadRowBlock(b)
  <2>1. UNCHANGED handlerVars
    BY <1>5 DEF NextFrame, ServerUp, ServerDown, vars, CreateRing, Listen, ReadFails,
                ReadBlock0, WriteDefDone, WriteRow, SkipLineDoc, WriteDefPart, ReadRowBlock
  <2>2. QED
    BY <1>1, <2>1
<1>6. QED
  BY <1>2, <1>3, <1>4, <1>5 DEF Next, Reader

LEMMA DefInit == Init => DefInv
<1> SUFFICES ASSUME Init PROVE DefInv
  OBVIOUS
<1>1. DefOrder
  BY DEF Init, DefOrder
<1>2. QueueDef
  BY DEF Init, Fifo!BInit, QueueDef
<1>3. ASSUME NEW c \in Clients
      PROVE  ClientDef(c)
  BY DEF Init, ClientDef, NoDef, NoFrame
<1>4. QED
  BY <1>1, <1>2, <1>3 DEF DefInv

LEMMA DefAlways == Spec => []DefInv
<1>1. TypeInv /\ DefInv /\ [Next]_vars => DefInv'
  <2> SUFFICES ASSUME TypeInv, DefInv, [Next]_vars PROVE DefInv'
    OBVIOUS
  <2>1. DefOrder' /\ DefGrows
    BY DefStep DEF DefInv
  <2>2. QueueDef'
    BY <2>1, QueueDefStep
  <2>3. \A c \in Clients : ClientDef(c)'
    BY ClientDefStep
  <2>4. QED
    BY <2>1, <2>2, <2>3 DEF DefInv
<1>2. QED
  BY <1>1, DefInit, TypeAlways, PTL DEF Spec

\* A row is never sent under a frame definition, or a part of one, older than its
\* frame, though no lock protects the definition: writeFrameDef, the fifo and
\* getFrameDef, in that order, are enough.
THEOREM FrameDefIsNotBehind == Spec => []FrameDefNotBehind
<1>1. ASSUME TypeInv, DefInv
      PROVE  FrameDefNotBehind
  <2> SUFFICES ASSUME NEW c \in Clients, hpc[c] = "row", NEW p \in Parts
               PROVE  announced[c][p] >= row[c].f
    BY DEF FrameDefNotBehind
  <2>1. row[c].f <= announced[c][p]
    BY <1>1 DEF DefInv, ClientDef
  <2>2. QED
    BY <1>1, <2>1, ClientTypes
<1>2. QED
  BY <1>1, TypeAlways, DefAlways, PTL

LEMMA SentGoesForward ==
  ASSUME TypeInv, DefInv, [Next]_vars, NEW c \in Clients, NEW p \in Parts,
         hpc[c] = "def"
  PROVE  announced'[c][p] >= announced[c][p]
<1>1. announced[c][p] \in Int
  BY ClientTypes
<1>2. CASE announced'[c] = announced[c]
  BY <1>1, <1>2
<1>3. CASE StartFrame(c)
  <2>1. announced'[c] = copied[c] /\ copied[c][p] \in Int
    BY <1>3, ClientTypes DEF StartFrame, TypeInv, TypeOK, HandlerTypeOK
  <2>2. announced[c][p] <= announced'[c][p]
    BY <1>3, ClientDefStart DEF DefInv
  <2>3. QED
    BY <1>1, <2>1, <2>2
<1>4. ASSUME NEW d \in Clients, Handler(d), ~StartFrame(c)
      PROVE  announced'[c] = announced[c]
  BY <1>4 DEF Handler, Request, NewReader, NoReader, NoFifo, ClientGoes, TakeRow, StartFrame,
              IgnoreRow, SendRow, SendFails, RemoveReader, CopyDefPart, handlerVars,
              TypeInv, TypeOK, HandlerTypeOK
<1>5. ASSUME NEW d \in Clients, LoseReader(d)
      PROVE  announced'[c] = announced[c]
  BY <1>5 DEF LoseReader
<1>6. CASE \/ NextFrame \/ ServerUp \/ ServerDown \/ UNCHANGED vars
           \/ CreateRing \/ Listen \/ ReadFails \/ ReadBlock0 \/ WriteDefDone
           \/ WriteRow \/ SkipLineDoc
           \/ \E q \in Parts : WriteDefPart(q)
           \/ \E b \in BlockIds : ReadRowBlock(b)
  BY <1>2, <1>6
  DEF NextFrame, ServerUp, ServerDown, vars, CreateRing, Listen, ReadFails, ReadBlock0,
      WriteDefDone, WriteRow, SkipLineDoc, WriteDefPart, ReadRowBlock, handlerVars
<1>7. QED
  BY <1>2, <1>3, <1>4, <1>5, <1>6 DEF Next, Reader

\* Within an answer neither part of the frame definition sent goes back to an
\* older frame.
THEOREM DefsOnlyGoForward == Spec => DefsGoForward
<1>1. TypeInv /\ DefInv /\ [Next]_vars =>
        [\A c \in Clients :
           hpc[c] = "def" => \A p \in Parts : announced'[c][p] >= announced[c][p]]_vars
  BY SentGoesForward
<1>2. QED
  BY <1>1, TypeAlways, DefAlways, PTL DEF Spec, DefsGoForward

-----------------------------------------------------------------------------
(* The order of the frames *)

Sorted(q)   == \A k, l \in 1 .. Len(q) : k < l => q[k].f <= q[l].f
From(x, q)  == \A k \in 1 .. Len(q) : x <= q[k].f
UpTo(q, x)  == \A k \in 1 .. Len(q) : q[k].f <= x

LEMMA FrameTypes ==
  ASSUME NEW q \in Seq(RowSet)
  PROVE  \A k \in 1 .. Len(q) : q[k].f \in Nat
<1>1. \A k \in 1 .. Len(q) : q[k] \in RowSet
  OBVIOUS
<1>2. \A r \in RowSet : r.f \in Nat
  BY DEF RowSet
<1>3. QED
  BY <1>1, <1>2

\* Without its first row a queue is still in order, and starts where the row was.
LEMMA TailOrder ==
  ASSUME NEW q \in Seq(RowSet), q # <<>>, NEW x \in Int, Sorted(q), From(x, q)
  PROVE  Sorted(Tail(q)) /\ From(x, Tail(q)) /\ From(Head(q).f, Tail(q))
<1> DEFINE s == Tail(q)
<1>1. s \in Seq(RowSet) /\ Len(s) = Len(q) - 1 /\ Head(q) = q[1] /\ 1 \in 1 .. Len(q)
      /\ \A k \in 1 .. Len(s) : s[k] = q[k + 1]
  OBVIOUS
<1> HIDE DEF s
<1>2. \A k \in 1 .. Len(s) : k + 1 \in 1 .. Len(q) /\ 1 < k + 1
  BY <1>1
<1>3. \A k, l \in 1 .. Len(s) : k < l => k + 1 < l + 1
  OBVIOUS
<1>4. Sorted(s)
  BY <1>1, <1>2, <1>3 DEF Sorted
<1>5. From(x, s)
  BY <1>1, <1>2 DEF From
<1>6. From(Head(q).f, s)
  BY <1>1, <1>2 DEF Sorted, From
<1>7. QED
  BY <1>4, <1>5, <1>6 DEF s

\* A row of a frame no older than what is queued keeps a queue in order.
LEMMA AppendOrder ==
  ASSUME NEW q \in Seq(RowSet), NEW r \in RowSet, NEW x \in Int, Sorted(q), From(x, q),
         UpTo(q, r.f), x <= r.f
  PROVE  Sorted(Append(q, r)) /\ From(x, Append(q, r))
<1> DEFINE s == Append(q, r)
<1>1. Len(s) = Len(q) + 1 /\ Len(q) \in Nat
      /\ \A k \in 1 .. Len(s) : s[k] = IF k \in 1 .. Len(q) THEN q[k] ELSE r
  OBVIOUS
<1> HIDE DEF s
<1>2. \A k, l \in 1 .. Len(s) : k < l => k \in 1 .. Len(q)
  BY <1>1
<1>3. Sorted(s)
  <2> SUFFICES ASSUME NEW k \in 1 .. Len(s), NEW l \in 1 .. Len(s), k < l
               PROVE  s[k].f <= s[l].f
    BY DEF Sorted
  <2>1. k \in 1 .. Len(q) /\ s[k] = q[k]
    BY <1>1, <1>2
  <2>2. CASE l \in 1 .. Len(q)
    BY <1>1, <2>1, <2>2 DEF Sorted
  <2>3. CASE l \notin 1 .. Len(q)
    BY <1>1, <2>1, <2>3 DEF UpTo
  <2>4. QED
    BY <2>2, <2>3
<1>4. From(x, s)
  BY <1>1 DEF From
<1>5. QED
  BY <1>3, <1>4 DEF s

\* The frames of the last row, of the row in hand and of the queue, in that order.
RowOrder(c) ==
  /\ Sorted(pending[c])
  /\ From(prevFrameId[c], pending[c])
  /\ hpc[c] \in {"def", "row"} => From(row[c].f, pending[c])

\* A row in the making is of a frame no older than any a handler knows.
LEMMA NewestRow ==
  ASSUME TypeInv, DefInv, rpc = "rows", NEW c \in Clients, NEW y \in Lines
  PROVE  /\ RowOfBlock(y) \in RowSet
         /\ UpTo(pending[c], RowOfBlock(y).f)
         /\ prevFrameId[c] <= RowOfBlock(y).f
         /\ hpc[c] \in {"def", "row"} => row[c].f <= RowOfBlock(y).f
<1>1. RowOfBlock(y) \in RowSet /\ RowOfBlock(y).f = m_block0
  BY RowOfBlockType
<1>2. "id" \in Parts /\ frameDef["id"] = m_block0
  BY DEF DefInv, DefOrder, Parts
<1>3. UpTo(pending[c], m_block0)
  BY <1>2 DEF DefInv, QueueDef, UpTo
<1>4. prevFrameId[c] <= m_block0
  <2>1. prevFrameId[c] <= announced[c]["id"] /\ announced[c]["id"] <= m_block0
    BY <1>2 DEF DefInv, ClientDef
  <2>2. prevFrameId[c] \in Int /\ announced[c]["id"] \in Int /\ m_block0 \in Int
    BY <1>2, ClientTypes, DefTypes
  <2>3. QED
    BY <2>1, <2>2
<1>5. hpc[c] \in {"def", "row"} => row[c].f <= m_block0
  BY <1>2 DEF DefInv, ClientDef
<1>6. QED
  BY <1>1, <1>3, <1>4, <1>5

\* A step that keeps what a handler has in hand, or lets it go.
LEMMA RowOrderKept ==
  ASSUME TypeInv, DefInv, NEW c \in Clients, RowOrder(c), QueueMoves(c),
         row'[c] = row[c], prevFrameId'[c] = prevFrameId[c],
         hpc'[c] \in {hpc[c], "out", "reader", "wait", "leave", "lost", "dead"}
  PROVE  RowOrder(c)'
<1> DEFINE q == pending[c]
           x == prevFrameId[c]
           y == row[c].f
<1>1. q \in Seq(RowSet) /\ x \in Int /\ y \in Int
  BY ClientTypes
<1>2. Sorted(q) /\ From(x, q) /\ (hpc[c] \in {"def", "row"} => From(y, q))
  BY DEF RowOrder
<1>3. SUFFICES /\ Sorted(pending'[c]) /\ From(x, pending'[c])
               /\ hpc[c] \in {"def", "row"} => From(y, pending'[c])
  <2>1. hpc'[c] \in {"def", "row"} => hpc'[c] = hpc[c]
    OBVIOUS
  <2>2. QED
    BY <2>1 DEF RowOrder, Sorted, From
<1>4. CASE pending'[c] = q
  BY <1>2, <1>4
<1>5. CASE pending'[c] = <<>>
  BY <1>5 DEF Sorted, From
<1>6. CASE q # <<>> /\ pending'[c] = Tail(q)
  <2> HIDE DEF q, x, y
  <2>1. Sorted(Tail(q)) /\ From(x, Tail(q))
    BY <1>1, <1>2, <1>6, TailOrder
  <2>2. hpc[c] \in {"def", "row"} => From(y, Tail(q))
    BY <1>1, <1>2, <1>6, TailOrder
  <2>3. QED
    BY <1>6, <2>1, <2>2
<1>7. ASSUME rpc = "rows", NEW l \in Lines, pending'[c] = Append(q, RowOfBlock(l))
      PROVE  /\ Sorted(pending'[c]) /\ From(x, pending'[c])
             /\ hpc[c] \in {"def", "row"} => From(y, pending'[c])
  <2> DEFINE r == RowOfBlock(l)
  <2>1. r \in RowSet /\ UpTo(q, r.f) /\ x <= r.f
        /\ (hpc[c] \in {"def", "row"} => y <= r.f)
    BY <1>7, NewestRow
  <2>0. pending'[c] = Append(q, r)
    BY <1>7
  <2> HIDE DEF q, r, x, y
  <2>2. Sorted(Append(q, r)) /\ From(x, Append(q, r))
    BY <1>1, <1>2, <2>1, AppendOrder
  <2>3. hpc[c] \in {"def", "row"} => From(y, Append(q, r))
    BY <1>1, <1>2, <2>1, AppendOrder
  <2>4. QED
    BY <2>0, <2>2, <2>3
<1>8. QED
  BY <1>4, <1>5, <1>6, <1>7 DEF QueueMoves

LEMMA RowOrderTake ==
  ASSUME TypeInv, NEW c \in Clients, RowOrder(c), TakeRow(c)
  PROVE  RowOrder(c)'
<1>1. /\ pending[c] \in Seq(RowSet) /\ pending[c] # <<>>
      /\ pending'[c] = Tail(pending[c]) /\ row'[c] = Head(pending[c])
      /\ prevFrameId' = prevFrameId /\ prevFrameId[c] \in Int
  BY ClientTypes DEF TakeRow, Fifo!Take, TypeInv, TypeOK, FifoTypeOK, HandlerTypeOK
<1>2. /\ Sorted(Tail(pending[c])) /\ From(prevFrameId[c], Tail(pending[c]))
      /\ From(Head(pending[c]).f, Tail(pending[c]))
  BY <1>1, TailOrder DEF RowOrder
<1>3. QED
  BY <1>1, <1>2 DEF RowOrder, Sorted, From

LEMMA RowOrderStep ==
  ASSUME TypeInv, DefInv, [Next]_vars, NEW c \in Clients, RowOrder(c)
  PROVE  RowOrder(c)'
<1>0. QueueMoves(c)
  BY QueueStep
<1>1. CASE UNCHANGED handlerVars
  BY <1>0, <1>1, RowOrderKept DEF handlerVars
<1>2. ASSUME NEW d \in Clients, LoseReader(d)
      PROVE  RowOrder(c)'
  <2>1. hpc'[c] \in {hpc[c], "lost"} /\ UNCHANGED <<row, prevFrameId>>
    BY <1>2 DEF LoseReader, TypeInv, TypeOK, HandlerTypeOK
  <2>2. QED
    BY <1>0, <2>1, RowOrderKept
<1>3. ASSUME NEW d \in Clients, Handler(d), d # c
      PROVE  RowOrder(c)'
  <2>1. hpc'[c] = hpc[c] /\ row'[c] = row[c] /\ prevFrameId'[c] = prevFrameId[c]
    BY <1>3 DEF Handler, Request, NewReader, NoReader, NoFifo, ClientGoes, TakeRow, StartFrame,
                IgnoreRow, SendRow, SendFails, RemoveReader, CopyDefPart, handlerVars,
                TypeInv, TypeOK, HandlerTypeOK
  <2>2. QED
    BY <1>0, <2>1, RowOrderKept
<1>4. CASE Handler(c)
  <2>1. CASE \/ NewReader(c) \/ NoReader(c) \/ NoFifo(c) \/ IgnoreRow(c) \/ SendRow(c)
             \/ SendFails(c) \/ RemoveReader(c) \/ \E p \in Parts : CopyDefPart(c, p)
    <3>1. hpc'[c] \in {hpc[c], "out", "wait", "leave", "dead"} /\ UNCHANGED <<row, prevFrameId>>
      BY <2>1 DEF NewReader, NoReader, NoFifo, IgnoreRow, SendRow, SendFails, RemoveReader,
                  CopyDefPart, TypeInv, TypeOK, HandlerTypeOK
    <3>2. QED
      BY <1>0, <3>1, RowOrderKept
  <2>2. CASE ClientGoes(c)
    BY <1>1, <2>2 DEF ClientGoes
  <2>3. CASE Request(c)
    <3>1. /\ pending' = pending /\ hpc'[c] = "reader" /\ prevFrameId'[c] = NoFrame
      BY <2>3 DEF Request, fifoVars, TypeInv, TypeOK, HandlerTypeOK
    <3>2. From(NoFrame, pending[c])
      <4>1. \A n \in Nat : NoFrame <= n
        BY DEF NoFrame
      <4>2. QED
        BY <4>1, ClientTypes, FrameTypes DEF From
    <3>3. QED
      BY <3>1, <3>2 DEF RowOrder, Sorted, From
  <2>4. CASE TakeRow(c)
    BY <2>4, RowOrderTake
  <2>5. CASE StartFrame(c)
    <3>1. /\ hpc[c] = "def" /\ prevFrameId'[c] = row[c].f
          /\ UNCHANGED <<pending, row>>
      BY <2>5 DEF StartFrame, fifoVars, TypeInv, TypeOK, HandlerTypeOK
    <3>2. QED
      BY <3>1 DEF RowOrder, Sorted, From
  <2>6. QED
    BY <1>4, <2>1, <2>2, <2>3, <2>4, <2>5 DEF Handler
<1>5. CASE \/ NextFrame \/ ServerUp \/ ServerDown \/ UNCHANGED vars
           \/ CreateRing \/ Listen \/ ReadFails \/ ReadBlock0 \/ WriteDefDone
           \/ WriteRow \/ SkipLineDoc
           \/ \E p \in Parts : WriteDefPart(p)
           \/ \E b \in BlockIds : ReadRowBlock(b)
  <2>1. UNCHANGED handlerVars
    BY <1>5 DEF NextFrame, ServerUp, ServerDown, vars, CreateRing, Listen, ReadFails,
                ReadBlock0, WriteDefDone, WriteRow, SkipLineDoc, WriteDefPart, ReadRowBlock
  <2>2. QED
    BY <1>1, <2>1
<1>6. QED
  BY <1>2, <1>3, <1>4, <1>5 DEF Next, Reader

\* A client gets the rows in the order of their frames, also over a connection
\* to the GVAR server that was lost and made again.
THEOREM FramesStayInOrder == Spec => []FramesInOrder
<1> DEFINE Inv == \A c \in Clients : RowOrder(c)
<1>1. Init => Inv
  <2> SUFFICES ASSUME Init, NEW c \in Clients PROVE RowOrder(c)
    OBVIOUS
  <2>1. pending[c] = <<>>
    BY DEF Init, Fifo!BInit
  <2>2. QED
    BY <2>1 DEF RowOrder, Sorted, From
<1>2. TypeInv /\ DefInv /\ Inv /\ [Next]_vars => Inv'
  BY RowOrderStep
<1>3. TypeInv /\ Inv => FramesInOrder
  <2> SUFFICES ASSUME TypeInv, Inv, NEW c \in active
               PROVE  /\ \A k \in DOMAIN pending[c] :
                           /\ hpc[c] \in {"def", "row"} => row[c].f <= pending[c][k].f
                           /\ prevFrameId[c] <= pending[c][k].f
                      /\ \A k, l \in DOMAIN pending[c] :
                           k < l => pending[c][k].f <= pending[c][l].f
    BY DEF FramesInOrder
  <2>1. c \in Clients
    BY DEF TypeInv, TypeOK, FifoTypeOK
  <2>2. DOMAIN pending[c] = 1 .. Len(pending[c])
    <3>1. pending[c] \in Seq(RowSet)
      BY <2>1, ClientTypes
    <3>2. QED
      BY <3>1
  <2>3. QED
    BY <2>1, <2>2 DEF RowOrder, Sorted, From
<1>4. QED
  BY <1>1, <1>2, <1>3, TypeAlways, DefAlways, PTL DEF Spec
=============================================================================
