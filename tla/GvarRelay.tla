----------------------------- MODULE GvarRelay ------------------------------
(***************************************************************************)
(* From the GVAR server to the clients: the reader thread of mod_geostream *)
(* (gvar_reader and GvarStream), the row fifo as the broadcast it promises *)
(* to be (RowBroadcast), the frame definition beside it in shared memory,  *)
(* which no lock protects, and the loop of GvarConverter that answers one  *)
(* request.                                                                *)
(*                                                                         *)
(* Frames are numbered in the order the satellite scans them.  A frame     *)
(* definition is kept as two numbers, the frame its id names and the frame *)
(* its rectangle is of: they are written, and copied, one after the other, *)
(* and a compiler may do either first.                                     *)
(*                                                                         *)
(* A connection the client has closed is not known to be closed: TCP takes *)
(* some of what is written to it, and what ap_rflush finds out only makes  *)
(* the next ap_rwrite fail.                                                *)
(***************************************************************************)
EXTENDS Integers, Sequences, FiniteSets

CONSTANTS
  Clients,         \* request handlers
  Requested,       \* channels each of them is asked for
  Lines,           \* the lines of a frame
  InBox,           \* lines of which each client's box leaves a piece
  BlockIds,        \* the kinds of block the server sends
  Window,          \* rows the fifo keeps
  MaxFrames,       \* bound: frames scanned
  MaxBlocks,       \* bound: blocks received
  MaxDescriptors,  \* sockets the reader thread can open
  LateWrites,      \* bound: writes a closed connection takes with no error seen
  MaxSessions      \* bound: requests served, over all clients

ASSUME WindowAssumption      == Window \in Nat \ {0}
ASSUME BlocksAssumption      == BlockIds \subseteq 0 .. 10
ASSUME DescriptorsAssumption == MaxDescriptors \in Nat
ASSUME RequestAssumption     == Requested \in [Clients -> SUBSET (0 .. 4)]
ASSUME BoxAssumption         == InBox \in [Clients -> SUBSET Lines]
ASSUME LateWritesAssumption  == LateWrites \in Nat
ASSUME LimitsAssumption      == MaxFrames \in Nat /\ MaxBlocks \in Nat /\ MaxSessions \in Nat

Parts   == {"id", "rect"}
NoFrame == -1

VARIABLES
  \* outside the program
  onAir,          \* the frame the satellite scans
  server,         \* the GVAR server: "up" or "down"
  gone,           \* clients that have closed their connection
  unseen,         \* writes each closed connection took with no error seen
  aborted,        \* connections httpd has found closed
  \* GvarStream and gvar_reader
  fd,             \* "closed" or "open"
  sockets,        \* sockets opened: none is ever given back
  blocks,         \* blocks received
  rpc,            \* what the reader thread does
  block, lineDocNo, \* the block in hand and its line document
  m_block0,       \* frame of the last block 0; 0 when there was none
  m_prevFrameId,  \* frame of the definition written last
  \* shared memory
  ring,           \* "none", "created" or "written to"
  frameDef,       \* the latest frame: its id and its rectangle
  active, pending, leaving, \* the fifo, as RowBroadcast tells it
  \* GvarConverter::convert, for each request
  hpc,            \* control
  row,            \* the row in hand
  copied, parts,  \* the frame definition being copied, and the parts to copy
  prevFrameId,    \* frame of the last row
  announced,      \* the frame definition sent last (startFrame)
  sessions

Fifo == INSTANCE RowBroadcast WITH Readers <- Clients, Rows <- {}

feedVars    == <<onAir, server>>
connVars    == <<gone, unseen, aborted>>
readerVars  == <<fd, sockets, blocks, rpc, block, lineDocNo, m_block0,
                 m_prevFrameId, ring>>
fifoVars    == <<active, pending, leaving>>
handlerVars == <<hpc, row, copied, parts, prevFrameId, announced, sessions>>
vars == <<feedVars, connVars, readerVars, frameDef, fifoVars, handlerVars>>

NoDef == [p \in Parts |-> NoFrame]
RowSet == [f : Nat, c : 0 .. 4, y : Lines]
NoRow  == [f |-> NoFrame, c |-> 0]

Init ==
  /\ onAir = 1 /\ server = "down"
  /\ gone = {} /\ unseen = [c \in Clients |-> 0] /\ aborted = {}
  /\ fd = "closed" /\ sockets = 0 /\ blocks = 0
  /\ rpc = "start" /\ block = 0 /\ lineDocNo = 0
  /\ m_block0 = 0 /\ m_prevFrameId = NoFrame
  /\ ring = "none"
  /\ frameDef = [p \in Parts |-> 0]
  /\ Fifo!BInit
  /\ hpc = [c \in Clients |-> "out"]
  /\ row = [c \in Clients |-> NoRow]
  /\ copied = [c \in Clients |-> NoDef]
  /\ parts = [c \in Clients |-> {}]
  /\ prevFrameId = [c \in Clients |-> NoFrame]
  /\ announced = [c \in Clients |-> NoDef]
  /\ sessions = 0

-----------------------------------------------------------------------------
(* The satellite and the GVAR server *)

NextFrame ==
  /\ onAir < MaxFrames
  /\ onAir' = onAir + 1
  /\ UNCHANGED <<server, connVars, readerVars, frameDef, fifoVars, handlerVars>>

ServerUp ==
  /\ server = "down"
  /\ server' = "up"
  /\ UNCHANGED <<onAir, connVars, readerVars, frameDef, fifoVars, handlerVars>>

\* The server goes away.  It does so while there are blocks left to receive.
ServerDown ==
  /\ server = "up"
  /\ blocks < MaxBlocks
  /\ server' = "down"
  /\ UNCHANGED <<onAir, connVars, readerVars, frameDef, fifoVars, handlerVars>>

-----------------------------------------------------------------------------
(* gvar_reader: listen, read until it fails, close, and again *)

\* The thread starts: createRowFifo, then newWriter.
CreateRing ==
  /\ rpc = "start"
  /\ \/ ring = "none" /\ ring' = "created" /\ rpc' = rpc
     \/ ring = "created" /\ ring' = "written to" /\ rpc' = "listen"
  /\ UNCHANGED <<feedVars, connVars, fd, sockets, blocks, block, lineDocNo,
                 m_block0, m_prevFrameId, frameDef, fifoVars, handlerVars>>

\* Wrong on purpose: one attempt.
ListenOnce ==
  /\ rpc = "listen"
  /\ sockets = 0
  /\ sockets < MaxDescriptors
  /\ sockets' = sockets + 1
  /\ IF server = "up" THEN fd' = "open" /\ rpc' = "read"
                     ELSE UNCHANGED <<fd, rpc>>
  /\ UNCHANGED <<feedVars, connVars, blocks, block, lineDocNo, m_block0,
                 m_prevFrameId, ring, frameDef, fifoVars, handlerVars>>

\* socket() fails when no descriptor is left; connect() fails when the server
\* does not answer, and then the socket stays open.
Listen ==
  /\ rpc = "listen"
  /\ sockets < MaxDescriptors
  /\ sockets' = sockets + 1
  /\ IF server = "up" THEN fd' = "open" /\ rpc' = "read"
                     ELSE UNCHANGED <<fd, rpc>>
  /\ UNCHANGED <<feedVars, connVars, blocks, block, lineDocNo, m_block0,
                 m_prevFrameId, ring, frameDef, fifoVars, handlerVars>>

\* Wrong on purpose: the descriptor given back twice; the frame definition
\* cleared with the connection.
ReadFailsClosesTwice ==
  /\ rpc = "read"
  /\ fd' = "closed"
  /\ rpc' = "listen"
  /\ sockets' = sockets - 2
  /\ UNCHANGED <<feedVars, connVars, blocks, block, lineDocNo, m_block0,
                 m_prevFrameId, ring, frameDef, fifoVars, handlerVars>>

ReadFailsClears ==
  /\ rpc = "read"
  /\ fd' = "closed"
  /\ rpc' = "listen"
  /\ frameDef' = [p \in Parts |-> 0]
  /\ UNCHANGED <<feedVars, connVars, sockets, blocks, block, lineDocNo, m_block0,
                 m_prevFrameId, ring, fifoVars, handlerVars>>

\* recv() fails, or what came is no block: close(), which shuts the socket down
\* and forgets it.  The last block 0 is kept.
ReadFails ==
  /\ rpc = "read"
  /\ \/ server = "down"
     \/ blocks < MaxBlocks
  /\ fd' = "closed"
  /\ rpc' = "listen"
  /\ UNCHANGED <<feedVars, connVars, sockets, blocks, block, lineDocNo,
                 m_block0, m_prevFrameId, ring, frameDef, fifoVars,
                 handlerVars>>

\* A block 0 comes: it replaces the one kept.  A frame other than the last has
\* its definition written.
ReadBlock0 ==
  /\ rpc = "read" /\ server = "up" /\ blocks < MaxBlocks
  /\ 0 \in BlockIds
  /\ blocks' = blocks + 1
  /\ m_block0' = onAir
  /\ rpc' = IF onAir # m_prevFrameId THEN "def" ELSE "read"
  /\ UNCHANGED <<feedVars, connVars, fd, sockets, block, lineDocNo,
                 m_prevFrameId, ring, frameDef, fifoVars, handlerVars>>

\* writeFrameDef: the rectangle and the id, with no lock.
WriteDefPart(p) ==
  /\ rpc = "def"
  /\ frameDef[p] # m_block0
  /\ frameDef' = [frameDef EXCEPT ![p] = m_block0]
  /\ UNCHANGED <<feedVars, connVars, readerVars, fifoVars, handlerVars>>

\* Wrong on purpose: the id is written, the rectangle is not.
WriteDefIdOnly ==
  /\ rpc = "def"
  /\ frameDef["id"] = m_block0
  /\ m_prevFrameId' = m_block0
  /\ rpc' = "read"
  /\ UNCHANGED <<feedVars, connVars, fd, sockets, blocks, block, lineDocNo,
                 m_block0, ring, frameDef, fifoVars, handlerVars>>

WriteDefDone ==
  /\ rpc = "def"
  /\ \A p \in Parts : frameDef[p] = m_block0
  /\ m_prevFrameId' = m_block0
  /\ rpc' = "read"
  /\ UNCHANGED <<feedVars, connVars, fd, sockets, blocks, block, lineDocNo,
                 m_block0, ring, frameDef, fifoVars, handlerVars>>

\* A block 1 to 10 comes; before the first block 0 it is dropped.
ReadRowBlock(b) ==
  /\ rpc = "read" /\ server = "up" /\ blocks < MaxBlocks
  /\ b > 0
  /\ blocks' = blocks + 1
  /\ IF m_block0 = 0
       THEN UNCHANGED <<rpc, block, lineDocNo>>
       ELSE rpc' = "rows" /\ block' = b /\ lineDocNo' = 1
  /\ UNCHANGED <<feedVars, connVars, fd, sockets, m_block0, m_prevFrameId, ring,
                 frameDef, fifoVars, handlerVars>>

\* The channels (licha) the line documents of a block must have, in their order.
LineDocs(b) == CASE b = 1     -> <<4, 4, 5, 5>>
                 [] b = 2     -> <<2, 2, 3>>
                 [] OTHER     -> <<1>>

RowOfBlock(y) == [f |-> m_block0, c |-> LineDocs(block)[lineDocNo] - 1, y |-> y]

\* One line document: a row when channel and detector are the ones expected,
\* nothing otherwise; then the next, until the block is done.
NextLineDoc ==
  IF lineDocNo < Len(LineDocs(block))
    THEN lineDocNo' = lineDocNo + 1 /\ UNCHANGED <<rpc, block>>
    ELSE rpc' = "read" /\ lineDocNo' = 0 /\ block' = 0

WriteRow ==
  /\ rpc = "rows"
  /\ \E y \in Lines : Fifo!Publish(RowOfBlock(y))
  /\ NextLineDoc
  /\ UNCHANGED <<feedVars, connVars, fd, sockets, blocks, m_block0, m_prevFrameId,
                 ring, frameDef, handlerVars>>

SkipLineDoc ==
  /\ rpc = "rows"
  /\ NextLineDoc
  /\ UNCHANGED <<feedVars, connVars, fd, sockets, blocks, m_block0, m_prevFrameId,
                 ring, frameDef, fifoVars, handlerVars>>

\* The writer of the fifo finds a reader too slow.  Its handler goes on with
\* rows nobody can name, and is followed no further.
LoseReader(c) ==
  /\ Fifo!Lose(c)
  /\ hpc' = [hpc EXCEPT ![c] = "lost"]
  /\ UNCHANGED <<feedVars, connVars, readerVars, frameDef, row, copied, parts,
                 prevFrameId, announced, sessions>>

Reader ==
  \/ CreateRing \/ Listen \/ ReadFails \/ ReadBlock0 \/ WriteDefDone \/ WriteRow
  \/ SkipLineDoc
  \/ \E p \in Parts : WriteDefPart(p)
  \/ \E b \in BlockIds : ReadRowBlock(b)
  \/ \E c \in Clients : LoseReader(c)

-----------------------------------------------------------------------------
(* One request: geostream_handler, GvarConverter and its convert() *)

\* The header and the channel definitions are sent; what the writes return is not
\* looked at.
Request(c) ==
  /\ hpc[c] = "out"
  /\ sessions < MaxSessions
  /\ sessions' = sessions + 1
  /\ hpc' = [hpc EXCEPT ![c] = "reader"]
  /\ prevFrameId' = [prevFrameId EXCEPT ![c] = NoFrame]
  /\ announced' = [announced EXCEPT ![c] = NoDef]
  /\ gone' = gone \ {c} /\ aborted' = aborted \ {c}
  /\ unseen' = [unseen EXCEPT ![c] = 0]
  /\ UNCHANGED <<feedVars, readerVars, frameDef, fifoVars, row, copied, parts>>

\* newReader waits for the writer.
NewReader(c) ==
  /\ hpc[c] = "reader"
  /\ ring = "written to"
  /\ Fifo!Join(c)
  /\ hpc' = [hpc EXCEPT ![c] = "wait"]
  /\ UNCHANGED <<feedVars, connVars, readerVars, frameDef, row, copied, parts,
                 prevFrameId, announced, sessions>>

\* There is no reader slot: the answer ends.
NoReader(c) ==
  /\ hpc[c] = "reader"
  /\ ring = "written to"
  /\ hpc' = [hpc EXCEPT ![c] = "out"]
  /\ UNCHANGED <<feedVars, connVars, readerVars, frameDef, fifoVars, row, copied, parts,
                 prevFrameId, announced, sessions>>

\* There is no fifo yet: this constructor leaves m_shmRowReader as it was, and the
\* loop and the destructor use it.  It happens to be NULL and the answer ends, or
\* it is not and the process of the handler dies.
NoFifo(c) ==
  /\ hpc[c] = "reader"
  /\ ring = "none"
  /\ \E s \in {"out", "dead"} : hpc' = [hpc EXCEPT ![c] = s]
  /\ UNCHANGED <<feedVars, connVars, readerVars, frameDef, fifoVars, row, copied, parts,
                 prevFrameId, announced, sessions>>

\* The client closes its connection: the handler is not told.
ClientGoes(c) ==
  /\ hpc[c] \notin {"out", "dead"} /\ c \notin gone
  /\ gone' = gone \cup {c}
  /\ UNCHANGED <<feedVars, unseen, aborted, readerVars, frameDef, fifoVars, handlerVars>>

\* read(); with a row of another frame than the last, the definition of the
\* frame is to be sent first.
TakeRow(c) ==
  /\ hpc[c] = "wait"
  /\ Fifo!Take(c)
  /\ row' = [row EXCEPT ![c] = Head(pending[c])]
  /\ IF Head(pending[c]).f # prevFrameId[c]
       THEN hpc' = [hpc EXCEPT ![c] = "def"] /\ parts' = [parts EXCEPT ![c] = Parts]
       ELSE hpc' = [hpc EXCEPT ![c] = "row"] /\ UNCHANGED parts
  /\ UNCHANGED <<feedVars, connVars, readerVars, frameDef, copied, prevFrameId,
                 announced, sessions>>

\* getFrameDef: the id and the rectangle are copied, with no lock.
CopyDefPart(c, p) ==
  /\ hpc[c] = "def"
  /\ p \in parts[c]
  /\ copied' = [copied EXCEPT ![c][p] = frameDef[p]]
  /\ parts' = [parts EXCEPT ![c] = @ \ {p}]
  /\ UNCHANGED <<feedVars, connVars, readerVars, frameDef, fifoVars, hpc, row,
                 prevFrameId, announced, sessions>>

\* A write that gives no error.  To a client that has gone it goes unseen, or the
\* flush after it finds out: that error is dropped, and the connection aborted.
Write(c) ==
  \/ c \notin gone /\ UNCHANGED connVars
  \/ /\ c \in gone \ aborted
     /\ unseen[c] < LateWrites
     /\ unseen' = [unseen EXCEPT ![c] = @ + 1]
     /\ UNCHANGED <<gone, aborted>>
  \/ /\ c \in gone \ aborted
     /\ aborted' = aborted \cup {c}
     /\ UNCHANGED <<gone, unseen>>

\* A write that does: it finds out itself, or the connection is aborted already.
WriteFails(c) ==
  /\ c \in gone
  /\ aborted' = aborted \cup {c}
  /\ UNCHANGED <<gone, unseen>>

\* Wrong on purpose: the frame announced is kept for the frame of the row; a
\* write to a client that has gone blocks.
StartFrameOfDef(c) ==
  /\ hpc[c] = "def"
  /\ parts[c] = {}
  /\ Write(c) \/ WriteFails(c)
  /\ announced' = [announced EXCEPT ![c] = copied[c]]
  /\ prevFrameId' = [prevFrameId EXCEPT ![c] = copied[c]["id"]]
  /\ hpc' = [hpc EXCEPT ![c] = "row"]
  /\ UNCHANGED <<feedVars, readerVars, frameDef, fifoVars, row, copied, parts,
                 sessions>>

StartFrameBlocks(c) ==
  /\ hpc[c] = "def"
  /\ parts[c] = {}
  /\ c \notin gone
  /\ Write(c)
  /\ announced' = [announced EXCEPT ![c] = copied[c]]
  /\ prevFrameId' = [prevFrameId EXCEPT ![c] = row[c].f]
  /\ hpc' = [hpc EXCEPT ![c] = "row"]
  /\ UNCHANGED <<feedVars, readerVars, frameDef, fifoVars, row, copied, parts,
                 sessions>>

\* startFrame sends the definition; what the write returns is not looked at.
StartFrame(c) ==
  /\ hpc[c] = "def"
  /\ parts[c] = {}
  /\ Write(c) \/ WriteFails(c)
  /\ announced' = [announced EXCEPT ![c] = copied[c]]
  /\ prevFrameId' = [prevFrameId EXCEPT ![c] = row[c].f]
  /\ hpc' = [hpc EXCEPT ![c] = "row"]
  /\ UNCHANGED <<feedVars, readerVars, frameDef, fifoVars, row, copied, parts,
                 sessions>>

\* A row of a channel that is asked for, and some of it inside the box.
IsWanted(c, r) == r.c \in Requested[c] /\ r.y \in InBox[c]
Wanted(c) == IsWanted(c, row[c])

\* Any other row is passed over: nothing is written.
IgnoreRow(c) ==
  /\ hpc[c] = "row"
  /\ ~Wanted(c)
  /\ hpc' = [hpc EXCEPT ![c] = "wait"]
  /\ UNCHANGED <<feedVars, connVars, readerVars, frameDef, fifoVars, row, copied, parts,
                 prevFrameId, announced, sessions>>

SendRow(c) ==
  /\ hpc[c] = "row"
  /\ Wanted(c)
  /\ Write(c)
  /\ hpc' = [hpc EXCEPT ![c] = "wait"]
  /\ UNCHANGED <<feedVars, readerVars, frameDef, fifoVars, row, copied, parts,
                 prevFrameId, announced, sessions>>

\* Wrong on purpose: what writeRow returns is not looked at either.
SendFailsUnseen(c) ==
  /\ hpc[c] = "row"
  /\ Wanted(c)
  /\ WriteFails(c)
  /\ hpc' = [hpc EXCEPT ![c] = "wait"]
  /\ UNCHANGED <<feedVars, readerVars, frameDef, fifoVars, row, copied, parts,
                 prevFrameId, announced, sessions>>

\* writeRow fails and the loop ends; the reader is deleted.
SendFails(c) ==
  /\ hpc[c] = "row"
  /\ Wanted(c)
  /\ WriteFails(c)
  /\ Fifo!Finish(c)
  /\ hpc' = [hpc EXCEPT ![c] = "leave"]
  /\ UNCHANGED <<feedVars, readerVars, frameDef, row, copied, parts,
                 prevFrameId, announced, sessions>>

RemoveReader(c) ==
  /\ hpc[c] = "leave"
  /\ Fifo!Leave(c)
  /\ hpc' = [hpc EXCEPT ![c] = "out"]
  /\ UNCHANGED <<feedVars, connVars, readerVars, frameDef, row, copied, parts,
                 prevFrameId, announced, sessions>>

Handler(c) ==
  \/ Request(c) \/ NewReader(c) \/ NoReader(c) \/ NoFifo(c) \/ ClientGoes(c)
  \/ TakeRow(c) \/ StartFrame(c) \/ IgnoreRow(c) \/ SendRow(c) \/ SendFails(c)
  \/ RemoveReader(c)
  \/ \E p \in Parts : CopyDefPart(c, p)

Next ==
  \/ NextFrame \/ ServerUp \/ ServerDown
  \/ Reader
  \/ \E c \in Clients : Handler(c)

Spec == Init /\ [][Next]_vars

(***************************************************************************)
(* Threads run when they can.  Nothing makes the satellite go on, the      *)
(* server answer or send blocks, or a client ask or leave.  A connection   *)
(* to a server that is gone is found out (SO_KEEPALIVE, set in connect()). *)
(***************************************************************************)
ReaderStep ==
  \/ CreateRing \/ Listen \/ (ReadFails /\ server = "down") \/ WriteDefDone \/ WriteRow
  \/ SkipLineDoc
  \/ \E p \in Parts : WriteDefPart(p)
  \/ \E c \in Clients : LoseReader(c)

HandlerStep(c) ==
  \/ NewReader(c) \/ NoReader(c) \/ NoFifo(c) \/ TakeRow(c) \/ StartFrame(c)
  \/ IgnoreRow(c) \/ SendRow(c) \/ SendFails(c) \/ RemoveReader(c)
  \/ \E p \in Parts : CopyDefPart(c, p)

FairSpec ==
  /\ Spec
  /\ WF_vars(ReaderStep)
  /\ \A c \in Clients : WF_vars(HandlerStep(c))

-----------------------------------------------------------------------------
(* Properties *)

FeedTypeOK ==
  /\ onAir \in Nat
  /\ server \in {"up", "down"}
  /\ gone \subseteq Clients /\ aborted \subseteq Clients
  /\ unseen \in [Clients -> Nat]

ReaderTypeOK ==
  /\ fd \in {"closed", "open"} /\ sockets \in Nat /\ blocks \in Nat
  /\ rpc \in {"start", "listen", "read", "def", "rows"}
  /\ block \in 0 .. 10 /\ lineDocNo \in 0 .. 4
  /\ m_block0 \in Nat /\ m_prevFrameId \in Int
  /\ ring \in {"none", "created", "written to"}
  /\ frameDef \in [Parts -> Nat]

FifoTypeOK ==
  /\ active \subseteq Clients
  /\ leaving \subseteq active
  /\ pending \in [Clients -> Seq(RowSet)]

HandlerTypeOK ==
  /\ hpc \in [Clients -> {"out", "reader", "wait", "def", "row", "leave", "lost", "dead"}]
  /\ row \in [Clients -> RowSet \cup {NoRow}]
  /\ copied \in [Clients -> [Parts -> Int]]
  /\ parts \in [Clients -> SUBSET Parts]
  /\ prevFrameId \in [Clients -> Int]
  /\ announced \in [Clients -> [Parts -> Int]]
  /\ sessions \in Nat

TypeOK == FeedTypeOK /\ ReaderTypeOK /\ FifoTypeOK /\ HandlerTypeOK

\* A row is never sent under a frame definition, or a part of one, that is older
\* than its frame: convertBlockToRows has written the definition of the frame
\* before the first row of the frame goes into the fifo, and convert() copies it
\* after it has taken that row, whatever comes between.
FrameDefNotBehind ==
  \A c \in Clients :
    hpc[c] = "row" => \A p \in Parts : announced[c][p] >= row[c].f

\* A client gets the rows in the order of their frames, also over a connection to
\* the server lost and made again: m_block0 outlives close().
FramesInOrder ==
  \A c \in active :
    /\ \A k \in DOMAIN pending[c] :
         /\ hpc[c] \in {"def", "row"} => row[c].f <= pending[c][k].f
         /\ prevFrameId[c] <= pending[c][k].f
    /\ \A k, l \in DOMAIN pending[c] : k < l => pending[c][k].f <= pending[c][l].f

\* Within an answer the frame definitions sent never go back to an older frame,
\* neither the id nor the rectangle, though they are copied while the reader
\* thread writes them.
DefsGoForward ==
  [][\A c \in Clients :
       hpc[c] = "def" => \A p \in Parts : announced'[c][p] >= announced[c][p]]_vars

\* The rows in the fifo are taken by the handler, or it ends or is lost.
RowsTaken ==
  \A c \in Clients :
    (hpc[c] = "wait" /\ pending[c] # <<>>)
      ~> (hpc[c] \in {"out", "lost"} \/ (hpc[c] = "wait" /\ pending[c] = <<>>))

\* Writes to a client that may still give no error: those that go unseen, and the
\* one whose flush finds out.
WritesLeft(c) == IF c \in aborted THEN 0 ELSE LateWrites - unseen[c] + 1

\* A handler whose client has gone ends, and gives its reader slot back, once more
\* rows it has to send have come than writes can still go wrong unnoticed: the
\* failed write of a row is the only thing that tells it, and startFrame, which
\* may use up that failure, is not looked at.
GoneClientsFreed ==
  \A c \in Clients :
    (/\ c \in gone
     /\ hpc[c] = "wait"
     /\ Cardinality({k \in DOMAIN pending[c] : IsWanted(c, pending[c][k])}) > WritesLeft(c))
      ~> hpc[c] \in {"out", "lost"}

\* gvar_reader tries again for ever: once the server stays up the connection does,
\* as long as there are descriptors, of which connect() and close() give none back.
FeedResumed ==
  <>[](server = "up") => <>[](fd = "open" \/ sockets = MaxDescriptors)

\* imgstr/README:74-77 "each row needs to include the frame and channel it belongs
\* to. For each new incoming frame, a call to startFrame must be done to notify
\* about the geometry of the frame. A frame ID is used to reference to the frame":
\* the frame of a row that is sent is the frame announced before it.
FrameAnnounced ==
  \A c \in Clients :
    hpc[c] = "row" /\ Wanted(c) => announced[c]["id"] = row[c].f
=============================================================================
