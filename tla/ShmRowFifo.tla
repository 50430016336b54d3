----------------------------- MODULE ShmRowFifo -----------------------------
(***************************************************************************)
(* The row ring in shared memory between the GVAR reader thread (the only  *)
(* writer) and the client handlers of mod_geostream                        *)
(* (src/gvar_module/ShmRowFifo.h and ShmRowFifo.cpp).                      *)
(*                                                                         *)
(* The writer holds readerSemMutex and mutex for a whole write, the readers *)
(* take rows with no lock but their semaphore and go on using the row in   *)
(* place.  Every access a second thread can observe is a step of its own.  *)
(* The mutex inside the other one is only ever taken by the writer, so the *)
(* two are one lock here.  A row is the number of its write, 1, 2, ...: a  *)
(* slot holds that number twice, for its header (f, c, x, y, w) and for    *)
(* its pixels (v), which copyRow fills one after the other.                *)
(***************************************************************************)
EXTENDS Integers, FiniteSets

CONSTANTS
  MaxNumOfItems,    \* slots of the ring (MAX_NUM_OF_ITEMS)
  MaxNumOfReaders,  \* reader semaphores (MAX_NUM_OF_READERS)
  Clients,          \* the threads that serve client requests
  MaxRows,          \* bound: rows the writer writes
  MaxSessions       \* bound: requests served, over all clients

ASSUME ItemsAssumption    == MaxNumOfItems \in Nat /\ MaxNumOfItems >= 2
ASSUME ReadersAssumption  == MaxNumOfReaders \in Nat
ASSUME BoundsAssumption   == MaxRows \in Nat /\ MaxSessions \in Nat

Positions == 0 .. MaxNumOfItems - 1
Slots     == 0 .. MaxNumOfReaders - 1
Counts    == 0 .. MaxNumOfItems - 1   \* values of a reader semaphore
NotSent   == -1

VARIABLES
  writerPos,         \* next position to write
  isReaderSemsUsed,  \* the slots marked used
  readerSems,        \* value of each reader semaphore
  rowHead, rowPix,   \* fifo: row number in the header and in the pixels
  readerSemMutex,    \* "free", or "writer" while the writer holds it
  writerCreated,     \* value of the semaphore that serialises newReader
  wpc, scan,         \* the writer: control, and the slot its loop is at
  rpc,               \* control of each client thread
  semPos, fifo_p,    \* RowFifoReader: its slot and its next position
  shown,             \* what a client has read from its row in place
  sessions,          \* requests so far
  \* history
  written,           \* rows written
  taken,             \* the last row a reader has taken: its header at read()
  clean              \* readers whose position and semaphore agree, and which
                     \* the writer has not found too slow

writerVars == <<writerPos, rowHead, rowPix, readerSemMutex, wpc, scan, written>>
readerVars == <<rpc, semPos, fifo_p, shown, sessions, taken>>
vars == <<writerVars, readerVars, isReaderSemsUsed, readerSems,
          writerCreated, clean>>

WriterStates == {"idle", "head", "pixels", "scan", "reset", "post"}
ReaderStates == {"out", "enter", "claim", "build", "wait", "hold", "send",
                 "leave", "refused"}

\* The states in which a client owns the slot semPos, and those in which it
\* also has a RowFifoReader.
Owning  == {"build", "wait", "hold", "send", "leave"}
Reading == {"wait", "hold", "send", "leave"}
Holding == {"hold", "send"}

\* Wrong on purpose: the modulus is one off.
AdvanceShort(p) == (p + 1) % (MaxNumOfItems - 1)

Advance(p) == (p + 1) % MaxNumOfItems

\* Wrong on purpose: the pointer is taken after fifo_p has moved.
HeldMoved(c) == fifo_p[c]

\* The position of the row a reader uses: read() has moved fifo_p past it.
Held(c) == (fifo_p[c] + MaxNumOfItems - 1) % MaxNumOfItems

(***************************************************************************)
(* createRowFifo on a fresh segment, then newWriter: every semaphore 0,    *)
(* every slot unused, writerCreated posted once.                           *)
(***************************************************************************)
Init ==
  /\ writerPos = 0
  /\ isReaderSemsUsed = {}
  /\ readerSems = [i \in Slots |-> 0]
  /\ rowHead = [p \in Positions |-> 0]
  /\ rowPix = [p \in Positions |-> 0]
  /\ readerSemMutex = "free"
  /\ writerCreated = 1
  /\ wpc = "idle"
  /\ scan = 0
  /\ rpc = [c \in Clients |-> "out"]
  /\ semPos = [c \in Clients |-> 0]
  /\ fifo_p = [c \in Clients |-> 0]
  /\ shown = [c \in Clients |-> [head |-> NotSent, pix |-> NotSent]]
  /\ sessions = 0
  /\ written = 0
  /\ taken = [c \in Clients |-> 0]
  /\ clean = {}

-----------------------------------------------------------------------------
(* RowFifoWriter::write *)

\* Both mutexes are taken.
WriteLock ==
  /\ wpc = "idle"
  /\ written < MaxRows
  /\ readerSemMutex = "free"
  /\ readerSemMutex' = "writer"
  /\ wpc' = "head"
  /\ UNCHANGED <<writerPos, isReaderSemsUsed, readerSems, rowHead, rowPix,
                 writerCreated, scan, readerVars, written, clean>>

\* copyRow: the header fields.
CopyHead ==
  /\ wpc = "head"
  /\ rowHead' = [rowHead EXCEPT ![writerPos] = written + 1]
  /\ wpc' = "pixels"
  /\ UNCHANGED <<writerPos, isReaderSemsUsed, readerSems, rowPix, readerSemMutex,
                 writerCreated, scan, readerVars, written, clean>>

\* copyRow: the memcpy of the pixels; then writerPos moves on.
CopyPixels ==
  /\ wpc = "pixels"
  /\ rowPix' = [rowPix EXCEPT ![writerPos] = written + 1]
  /\ writerPos' = Advance(writerPos)
  /\ written' = written + 1
  /\ scan' = 0
  /\ wpc' = "scan"
  /\ UNCHANGED <<isReaderSemsUsed, readerSems, rowHead, readerSemMutex,
                 writerCreated, readerVars, clean>>

\* Wrong on purpose: slow one row too late, and one row too early.
TooSlowLate(i)  == readerSems[i] > MaxNumOfItems - 1
TooSlowEarly(i) == readerSems[i] >= MaxNumOfItems - 2

\* The semaphore has as many unread rows as the ring can hold.
TooSlow(i) == readerSems[i] >= MaxNumOfItems - 1

\* One turn of the loop over the slots: an unused slot is passed over, a used
\* one has its semaphore value tested.
ScanSlot ==
  /\ wpc = "scan"
  /\ scan \in Slots
  /\ \/ /\ scan \notin isReaderSemsUsed
        /\ scan' = scan + 1
        /\ UNCHANGED <<wpc, clean>>
     \/ /\ scan \in isReaderSemsUsed
        /\ ~TooSlow(scan)
        /\ wpc' = "post"
        /\ UNCHANGED <<scan, clean>>
     \/ /\ scan \in isReaderSemsUsed
        /\ TooSlow(scan)
        /\ wpc' = "reset"
        /\ clean' = {c \in clean : semPos[c] # scan}
        /\ UNCHANGED scan
  /\ UNCHANGED <<writerPos, isReaderSemsUsed, readerSems, rowHead, rowPix,
                 readerSemMutex, writerCreated, readerVars, written>>

\* sem_init of the semaphore of a slow reader, which may have taken rows since
\* the test; its fifo_p is out of reach.
ResetSlow ==
  /\ wpc = "reset"
  /\ readerSems' = [readerSems EXCEPT ![scan] = 0]
  /\ wpc' = "post"
  /\ UNCHANGED <<writerPos, isReaderSemsUsed, rowHead, rowPix, readerSemMutex,
                 writerCreated, scan, readerVars, written, clean>>

PostSlot ==
  /\ wpc = "post"
  /\ readerSems' = [readerSems EXCEPT ![scan] = @ + 1]
  /\ scan' = scan + 1
  /\ wpc' = "scan"
  /\ UNCHANGED <<writerPos, isReaderSemsUsed, rowHead, rowPix, readerSemMutex,
                 writerCreated, readerVars, written, clean>>

\* Wrong on purpose: the error path leaves readerSemMutex locked.
WriteUnlockForgotten ==
  /\ wpc = "scan"
  /\ scan \notin Slots
  /\ wpc' = "idle"
  /\ UNCHANGED <<writerPos, isReaderSemsUsed, readerSems, rowHead, rowPix,
                 readerSemMutex, writerCreated, scan, readerVars, written, clean>>

WriteUnlock ==
  /\ wpc = "scan"
  /\ scan \notin Slots
  /\ readerSemMutex' = "free"
  /\ wpc' = "idle"
  /\ UNCHANGED <<writerPos, isReaderSemsUsed, readerSems, rowHead, rowPix,
                 writerCreated, scan, readerVars, written, clean>>

Writer == WriteLock \/ CopyHead \/ CopyPixels \/ ScanSlot \/ ResetSlow
            \/ PostSlot \/ WriteUnlock

-----------------------------------------------------------------------------
(* newReader *)

\* A request arrives: the handler calls newReader.
Connect(c) ==
  /\ rpc[c] = "out"
  /\ sessions < MaxSessions
  /\ sessions' = sessions + 1
  /\ rpc' = [rpc EXCEPT ![c] = "enter"]
  /\ UNCHANGED <<writerVars, isReaderSemsUsed, readerSems, writerCreated,
                 semPos, fifo_p, shown, taken, clean>>

\* sem_wait (writerCreated)
WaitWriterCreated(c) ==
  /\ rpc[c] = "enter"
  /\ writerCreated > 0
  /\ writerCreated' = writerCreated - 1
  /\ rpc' = [rpc EXCEPT ![c] = "claim"]
  /\ UNCHANGED <<writerVars, isReaderSemsUsed, readerSems, semPos, fifo_p,
                 shown, sessions, taken, clean>>

\* Wrong on purpose: the marks are not looked at.
UnusedOrNot == Slots

Unused == Slots \ isReaderSemsUsed

\* Under readerSemMutex: the first unused slot, its semaphore set to 0, marked
\* used.  With every slot used there is no reader.
ClaimSlot(c) ==
  /\ rpc[c] = "claim"
  /\ readerSemMutex = "free"
  /\ \/ \E i \in Unused :
          /\ \A j \in Unused : i <= j
          /\ readerSems' = [readerSems EXCEPT ![i] = 0]
          /\ isReaderSemsUsed' = isReaderSemsUsed \cup {i}
          /\ semPos' = [semPos EXCEPT ![c] = i]
          /\ rpc' = [rpc EXCEPT ![c] = "build"]
     \/ /\ Unused = {}
        /\ rpc' = [rpc EXCEPT ![c] = "refused"]
        /\ UNCHANGED <<readerSems, isReaderSemsUsed, semPos>>
  /\ UNCHANGED <<writerVars, writerCreated, fifo_p, shown, sessions, taken,
                 clean>>

\* Rows the semaphore of slot i counts, or will once the loop has got to it.
Announced(i) ==
  readerSems[i] + IF wpc \in {"scan", "reset", "post"} /\ scan <= i THEN 1 ELSE 0

\* The reader starts at writerPos, read with no lock held; then
\* sem_post (writerCreated).
BuildReader(c) ==
  /\ rpc[c] = "build"
  /\ fifo_p' = [fifo_p EXCEPT ![c] = writerPos]
  /\ taken' = [taken EXCEPT ![c] = written]
  /\ clean' = IF Announced(semPos[c]) = 0 THEN clean \cup {c} ELSE clean
  /\ shown' = [shown EXCEPT ![c] = [head |-> NotSent, pix |-> NotSent]]
  /\ writerCreated' = writerCreated + 1
  /\ rpc' = [rpc EXCEPT ![c] = "wait"]
  /\ UNCHANGED <<writerVars, isReaderSemsUsed, readerSems, semPos, sessions>>

\* Wrong on purpose: NULL returned at once.
RefuseNoPost(c) ==
  /\ rpc[c] = "refused"
  /\ rpc' = [rpc EXCEPT ![c] = "out"]
  /\ UNCHANGED <<writerVars, isReaderSemsUsed, readerSems, writerCreated, semPos,
                 fifo_p, shown, sessions, taken, clean>>

\* sem_post (writerCreated) and NULL returned: the request ends with no row.
Refuse(c) ==
  /\ rpc[c] = "refused"
  /\ writerCreated' = writerCreated + 1
  /\ rpc' = [rpc EXCEPT ![c] = "out"]
  /\ UNCHANGED <<writerVars, isReaderSemsUsed, readerSems, semPos, fifo_p,
                 shown, sessions, taken, clean>>

-----------------------------------------------------------------------------
(* RowFifoReader::read, the use of the row by its caller, ~RowFifoReader *)

Read(c) ==
  /\ rpc[c] = "wait"
  /\ readerSems[semPos[c]] > 0
  /\ readerSems' = [readerSems EXCEPT ![semPos[c]] = @ - 1]
  /\ fifo_p' = [fifo_p EXCEPT ![c] = Advance(@)]
  /\ taken' = [taken EXCEPT ![c] = rowHead[fifo_p[c]]]
  /\ rpc' = [rpc EXCEPT ![c] = "hold"]
  /\ UNCHANGED <<writerVars, isReaderSemsUsed, writerCreated, semPos, shown,
                 sessions, clean>>

\* The caller builds its own Row from the header fields, with a pointer to the
\* pixels in place.
UseHead(c) ==
  /\ rpc[c] = "hold"
  /\ shown' = [shown EXCEPT ![c] = [head |-> rowHead[Held(c)], pix |-> NotSent]]
  /\ rpc' = [rpc EXCEPT ![c] = "send"]
  /\ UNCHANGED <<writerVars, isReaderSemsUsed, readerSems, writerCreated,
                 semPos, fifo_p, sessions, taken, clean>>

\* Wrong on purpose: the reader is not deleted when the send has failed.
UsePixelsNoDelete(c) ==
  /\ rpc[c] = "send"
  /\ shown' = [shown EXCEPT ![c].pix = rowPix[Held(c)]]
  /\ \E next \in {"wait", "out"} : rpc' = [rpc EXCEPT ![c] = next]
  /\ UNCHANGED <<writerVars, isReaderSemsUsed, readerSems, writerCreated,
                 semPos, fifo_p, sessions, taken, clean>>

\* writeRow sends the pixels from the ring; the caller asks for another row, or
\* the send failed and it deletes the reader.
UsePixels(c) ==
  /\ rpc[c] = "send"
  /\ shown' = [shown EXCEPT ![c].pix = rowPix[Held(c)]]
  /\ \E next \in {"wait", "leave"} : rpc' = [rpc EXCEPT ![c] = next]
  /\ UNCHANGED <<writerVars, isReaderSemsUsed, readerSems, writerCreated,
                 semPos, fifo_p, sessions, taken, clean>>

\* removeReaderSem
RemoveReaderSem(c) ==
  /\ rpc[c] = "leave"
  /\ readerSemMutex = "free"
  /\ isReaderSemsUsed' = isReaderSemsUsed \ {semPos[c]}
  /\ rpc' = [rpc EXCEPT ![c] = "out"]
  /\ clean' = clean \ {c}
  /\ UNCHANGED <<writerVars, readerSems, writerCreated, semPos, fifo_p, shown,
                 sessions, taken>>

Client(c) == \/ Connect(c) \/ WaitWriterCreated(c) \/ ClaimSlot(c)
             \/ BuildReader(c) \/ Refuse(c) \/ Read(c) \/ UseHead(c)
             \/ UsePixels(c) \/ RemoveReaderSem(c)

Next == Writer \/ \E c \in Clients : Client(c)

Spec == Init /\ [][Next]_vars

(***************************************************************************)
(* The scheduler runs every thread that can run.  Both bounds make the     *)
(* system quiet in the end, so that weak fairness is enough for a thread   *)
(* that competes for a lock or a semaphore.  A client may stay away for    *)
(* ever and the satellite may send nothing: Connect and WriteLock are not  *)
(* fair.                                                                   *)
(***************************************************************************)
ClientStep(c) ==
  \/ WaitWriterCreated(c) \/ ClaimSlot(c) \/ BuildReader(c) \/ Refuse(c)
  \/ Read(c) \/ UseHead(c) \/ UsePixels(c) \/ RemoveReaderSem(c)

Fairness ==
  /\ WF_vars(CopyHead \/ CopyPixels \/ ScanSlot \/ ResetSlow \/ PostSlot
               \/ WriteUnlock)
  /\ \A c \in Clients : WF_vars(ClientStep(c))

FairSpec == Spec /\ Fairness

-----------------------------------------------------------------------------
(* Properties *)

TypeOK ==
  /\ writerPos \in Positions
  /\ isReaderSemsUsed \subseteq Slots
  /\ readerSems \in [Slots -> Counts]
  /\ rowHead \in [Positions -> Nat]
  /\ rowPix \in [Positions -> Nat]
  /\ readerSemMutex \in {"free", "writer"}
  /\ writerCreated \in {0, 1}
  /\ wpc \in WriterStates
  /\ scan \in 0 .. MaxNumOfReaders
  /\ rpc \in [Clients -> ReaderStates]
  /\ semPos \in [Clients -> Nat]
  /\ fifo_p \in [Clients -> Positions]
  /\ shown \in [Clients -> [head : Int, pix : Int]]
  /\ sessions \in Nat
  /\ written \in Nat
  /\ taken \in [Clients -> Nat]
  /\ clean \subseteq Clients

\* A reader semaphore belongs to one client at most, and the slot of a client
\* that has one is marked used: the writer posts to every live reader, and
\* newReader never hands out the slot of another.
SlotExclusive ==
  /\ \A c \in Clients : rpc[c] \in Owning => semPos[c] \in isReaderSemsUsed
  /\ \A c, d \in Clients :
       /\ rpc[c] \in Owning
       /\ rpc[d] \in Owning
       /\ c # d
       => semPos[c] # semPos[d]

\* No slot is lost: a slot stays marked only while a client owns it, however
\* requests come and go.
NoSlotLeaked ==
  \A i \in isReaderSemsUsed : \E c \in Clients : rpc[c] \in Owning /\ semPos[c] = i

\* The position of a clean reader and its semaphore never drift apart: the row
\* it found in its slot at the last read() and the rows announced to it since
\* make up the rows written.  It neither skips a row nor takes one twice.
LagAccounting ==
  \A c \in clean : taken[c] + Announced(semPos[c]) = written

\* While fewer than MAX_NUM_OF_ITEMS - 1 rows wait for a clean reader, the row it
\* uses in place is the one it took, header and pixels: the writer is at
\* another slot.
HeldRowIntact ==
  \A c \in clean :
    /\ rpc[c] \in Holding
    /\ Announced(semPos[c]) < MaxNumOfItems - 1
    => rowHead[Held(c)] = taken[c] /\ rowPix[Held(c)] = taken[c]

(***************************************************************************)
(* The ring implements the broadcast of rows: the queue of a clean reader  *)
(* is what the slots from its position on hold, as far as its semaphore    *)
(* counts.  It loses the stream at the test for slow readers.              *)
(***************************************************************************)
Pending(c) ==
  IF c \in clean
  THEN [k \in 1 .. Announced(semPos[c]) |->
          rowHead[(fifo_p[c] + k - 1) % MaxNumOfItems]]
  ELSE <<>>

\* Clean readers whose handler has finished with them.
Leaving == {c \in clean : rpc[c] = "leave"}

Broadcast == INSTANCE RowBroadcast
  WITH Readers <- Clients, Rows <- 1 .. MaxRows, Window <- MaxNumOfItems,
       active <- clean, pending <- [c \in Clients |-> Pending(c)],
       leaving <- Leaving

\* Whatever the interleaving of the writer's loop with newReader, read() and
\* removeReaderSem, a reader gets every row since it joined, in order and once,
\* until its handler has finished or it is MAX_NUM_OF_ITEMS rows behind.
ImplementsBroadcast == Broadcast!BSpec

\* newReader comes to an end, with a reader or without one, whatever the other
\* clients and the writer do.
NewReaderReturns ==
  \A c \in Clients : rpc[c] = "enter" ~> rpc[c] \in {"wait", "out"}

\* A row announced to a reader is taken, or the reader goes: a post is never
\* lost on a reader that waits.
AnnouncedRowsTaken ==
  \A c \in Clients :
    (rpc[c] \in Reading /\ readerSems[semPos[c]] > 0)
      ~> (rpc[c] = "out" \/ (rpc[c] = "wait" /\ readerSems[semPos[c]] = 0))

\* GvarConverter.cpp:154 checks the channel again "to make sure if the client is
\* too slow, I don't send the wrong data": the row sent by a client whose
\* position and semaphore agree is one row, not a header and other pixels.
NoWrongDataToSlowClient ==
  \A c \in clean : shown[c].pix # NotSent => shown[c].head = shown[c].pix

\* Fifo.h:40 "The count in this class is both a count of the number of available
\* fifos, and also acts as a semaphore": between two writes a reader's position
\* is as many rows behind writerPos as its semaphore counts.
CountIsAvailableRows ==
  \A c \in Clients :
    rpc[c] = "wait" /\ wpc = "idle"
    => (fifo_p[c] + readerSems[semPos[c]]) % MaxNumOfItems = writerPos
=============================================================================
