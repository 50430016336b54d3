------------------------- MODULE ShmRowFifo_refines -------------------------
(***************************************************************************)
(* The row ring implements the broadcast of RowBroadcast, for every ring   *)
(* size, number of reader slots, set of clients and bound.  The queue of a *)
(* clean reader is the run of numbers from the row it took last to the row *)
(* written last, so that a step of the ring is a step of the broadcast     *)
(* exactly when it moves one of the two, or the set of clean readers.      *)
(***************************************************************************)
EXTENDS ShmRowFifo_proofs, Sequences

\* The rows a + 1, ..., b.
Run(a, b) == [k \in 1 .. (b - a) |-> a + k]

-----------------------------------------------------------------------------
(* Runs of numbers *)

LEMMA RunLen ==
  ASSUME NEW a \in Nat, NEW b \in Nat, a <= b
  PROVE  Run(a, b) \in Seq(Nat) /\ Len(Run(a, b)) = b - a
  BY DEF Run

LEMMA RunEmpty ==
  ASSUME NEW a \in Nat, NEW b \in Nat, a <= b
  PROVE  Run(a, b) = <<>> <=> a = b
<1>1. Run(a, b) \in Seq(Nat) /\ Len(Run(a, b)) = b - a
  BY RunLen
<1>2. Run(a, b) = <<>> <=> Len(Run(a, b)) = 0
  BY <1>1
<1>3. QED
  BY <1>1, <1>2

LEMMA RunAppend ==
  ASSUME NEW a \in Nat, NEW b \in Nat, a <= b
  PROVE  Append(Run(a, b), b + 1) = Run(a, b + 1)
<1>1. Run(a, b) \in Seq(Nat) /\ Len(Run(a, b)) = b - a
  BY RunLen
<1>2. Run(a, b + 1) \in Seq(Nat) /\ Len(Run(a, b + 1)) = b + 1 - a
  BY RunLen
<1>3. ASSUME NEW k \in 1 .. b + 1 - a
      PROVE  Append(Run(a, b), b + 1)[k] = Run(a, b + 1)[k]
  BY <1>1, <1>3 DEF Run
<1>4. QED
  BY <1>1, <1>2, <1>3

LEMMA RunTail ==
  ASSUME NEW a \in Nat, NEW b \in Nat, a < b
  PROVE  Tail(Run(a, b)) = Run(a + 1, b)
<1>1. Run(a, b) \in Seq(Nat) /\ Len(Run(a, b)) = b - a
  BY RunLen
<1>2. Run(a + 1, b) \in Seq(Nat) /\ Len(Run(a + 1, b)) = b - a - 1
  BY RunLen
<1>3. Tail(Run(a, b)) \in Seq(Nat) /\ Len(Tail(Run(a, b))) = b - a - 1
  BY <1>1
<1>4. ASSUME NEW k \in 1 .. b - a - 1
      PROVE  Tail(Run(a, b))[k] = Run(a + 1, b)[k]
  BY <1>1, <1>4 DEF Run
<1>5. QED
  <2> DEFINE s == Tail(Run(a, b))
             t == Run(a + 1, b)
  <2>1. s \in Seq(Nat) /\ t \in Seq(Nat) /\ Len(s) = Len(t)
        /\ \A k \in 1 .. Len(s) : s[k] = t[k]
    BY <1>2, <1>3, <1>4
  <2> HIDE DEF s, t
  <2>2. s = t
    BY <2>1
  <2>3. QED
    BY <2>2 DEF s, t

-----------------------------------------------------------------------------
(* The queue of a clean reader *)

\* Rows are written one at a time up to the bound.
WithinBound ==
  /\ written <= MaxRows
  /\ wpc \in {"head", "pixels"} => written < MaxRows

RingInv == ControlInv /\ LagInv /\ LastRows /\ WithinBound

LEMMA RingInvAlways == Spec => []RingInv
<1>1. Init => WithinBound
  BY BoundsAssumption DEF Init, WithinBound
<1>2. ControlInv /\ WithinBound /\ [Next]_vars => WithinBound'
  <2> SUFFICES ASSUME ControlInv, WithinBound, [Next]_vars
               PROVE  WithinBound'
    OBVIOUS
  <2>1. CASE Writer
    BY <2>1, BoundsAssumption
    DEF Writer, WriteLock, CopyHead, CopyPixels, ScanSlot, ResetSlow, PostSlot,
        WriteUnlock, WithinBound, ControlInv, TypeOK
  <2>2. CASE UNCHANGED writerVars
    BY <2>2 DEF WithinBound, writerVars
  <2>3. QED
    BY <2>1, <2>2, ClientRing DEF Next, vars
<1>3. QED
  BY <1>1, <1>2, ControlAlways, LagAlways, LastRowsAlways, PTL DEF Spec, RingInv

\* What the slots from a clean reader's position on hold is the run of rows
\* from the one it took last to the one written last.
LEMMA PendingIsRun ==
  ASSUME RingInv, NEW c \in clean
  PROVE  /\ Pending(c) = Run(taken[c], written)
         /\ c \in Clients /\ taken[c] \in Nat /\ written \in Nat
         /\ taken[c] <= written /\ written <= taken[c] + MaxNumOfItems
         /\ Announced(semPos[c]) = written - taken[c]
<1>1. /\ c \in Clients /\ taken[c] \in Nat /\ written \in Nat
      /\ Announced(semPos[c]) \in 0 .. MaxNumOfItems
      /\ taken[c] + Announced(semPos[c]) = written
  BY CleanTypes DEF RingInv
<1>2. /\ Announced(semPos[c]) = written - taken[c]
      /\ taken[c] <= written /\ written <= taken[c] + MaxNumOfItems
  BY <1>1, ItemsAssumption
<1>3. \A k \in 1 .. Announced(semPos[c]) :
        rowHead[(fifo_p[c] + k - 1) % MaxNumOfItems] = taken[c] + k
  BY AnnouncedRowsKept DEF RingInv
<1>4. QED
  BY <1>1, <1>2, <1>3 DEF Pending, Run

\* The queues, told by the rows taken and written.
Queues == [c \in Clients |-> IF c \in clean THEN Run(taken[c], written) ELSE <<>>]

QueuesAgree == [c \in Clients |-> Pending(c)] = Queues

LEMMA PendingQueues == RingInv => QueuesAgree
  BY PendingIsRun DEF QueuesAgree, Queues, Pending

-----------------------------------------------------------------------------
(* Steps of the ring as steps of the broadcast *)

\* The broadcast, over the queues told by the rows taken and written.
Told == INSTANCE RowBroadcast
  WITH Readers <- Clients, Rows <- 1 .. MaxRows, Window <- MaxNumOfItems,
       active <- clean, pending <- Queues, leaving <- Leaving

\* A step that moves neither a clean reader, nor the set of them, nor the writer,
\* and with which no clean reader finishes.
LEMMA QuietStep ==
  ASSUME clean' = clean, written' = written,
         \A c \in clean : taken'[c] = taken[c],
         \A c \in clean : rpc'[c] = "leave" <=> rpc[c] = "leave"
  PROVE  UNCHANGED Told!bvars
  BY DEF Told!bvars, Queues, Leaving

LEMMA PublishStep ==
  ASSUME RingInv, CopyPixels
  PROVE  Told!Publish(written + 1) /\ written + 1 \in 1 .. MaxRows
<1>1. /\ clean' = clean /\ taken' = taken /\ written' = written + 1
      /\ wpc = "pixels" /\ Leaving' = Leaving
  BY DEF CopyPixels, readerVars, Leaving
<1>2. written \in Nat /\ written < MaxRows
  BY <1>1 DEF RingInv, ControlInv, TypeOK, WithinBound
<1>3. ASSUME NEW c \in clean
      PROVE  /\ Len(Queues[c]) < MaxNumOfItems
             /\ Queues[c] = Run(taken[c], written)
             /\ Append(Queues[c], written + 1) = Run(taken[c], written + 1)
  <2>1. /\ c \in Clients /\ taken[c] \in Nat /\ taken[c] <= written
        /\ Announced(semPos[c]) = written - taken[c]
    BY PendingIsRun
  <2>2. Announced(semPos[c]) < MaxNumOfItems
    BY <1>1, CleanTypes DEF RingInv
  <2>3. Queues[c] = Run(taken[c], written)
    BY <2>1 DEF Queues
  <2>4. QED
    BY <1>2, <2>1, <2>2, <2>3, RunLen, RunAppend
<1>4. Queues' = [c \in Clients |-> IF c \in clean THEN Append(Queues[c], written + 1)
                                                  ELSE <<>>]
  BY <1>1, <1>3 DEF Queues
<1>5. QED
  BY <1>1, <1>2, <1>3, <1>4, BoundsAssumption DEF Told!Publish

LEMMA LoseStep ==
  ASSUME RingInv, ScanSlot
  PROVE  (\E c \in Clients : Told!Lose(c)) \/ UNCHANGED Told!bvars
<1>1. taken' = taken /\ written' = written /\ wpc = "scan" /\ rpc' = rpc
  BY DEF ScanSlot, readerVars
<1>2. CASE \A c \in clean : semPos[c] # scan
  BY <1>1, <1>2, QuietStep DEF ScanSlot
<1>3. CASE clean' = clean
  BY <1>1, <1>3, QuietStep
<1>4. ASSUME NEW c \in clean, semPos[c] = scan, clean' # clean
      PROVE  Told!Lose(c) /\ c \in Clients
  <2>1. /\ c \in Clients /\ rpc[c] \in Owning /\ taken[c] \in Nat /\ written \in Nat
        /\ scan \in Slots /\ readerSems[scan] \in 0 .. MaxNumOfItems - 1
        /\ Announced(scan) = written - taken[c] /\ taken[c] <= written
    BY <1>4, CleanTypes, PendingIsRun DEF RingInv
  <2>2. TooSlow(scan) /\ clean' = {d \in clean : semPos[d] # scan}
    BY <1>4 DEF ScanSlot
  <2>3. Announced(scan) = MaxNumOfItems
    <3>1. readerSems[scan] = MaxNumOfItems - 1
      BY <2>1, <2>2, ItemsAssumption DEF TooSlow
    <3>2. scan \in Nat
      BY <2>1, ReadersAssumption DEF Slots
    <3>3. QED
      BY <1>1, <3>1, <3>2, ItemsAssumption DEF Announced
  <2>4. \A d \in clean : d # c => semPos[d] # scan
    <3>1. \A d \in clean : d \in Clients /\ rpc[d] \in Owning
      BY CleanTypes DEF RingInv
    <3>2. QED
      BY <1>4, <2>1, <3>1 DEF RingInv, ControlInv, SlotExclusive
  <2>5. clean' = clean \ {c}
    BY <1>4, <2>2, <2>4
  <2>6. Len(Queues[c]) = MaxNumOfItems
    BY <1>4, <2>1, <2>3, RunLen DEF Queues
  <2>7. Queues' = [Queues EXCEPT ![c] = <<>>]
    BY <1>1, <2>1, <2>5 DEF Queues
  <2>8. QED
    BY <1>1, <1>4, <2>1, <2>5, <2>6, <2>7 DEF Told!Lose, Leaving
<1>5. QED
  BY <1>2, <1>3, <1>4

LEMMA JoinStep ==
  ASSUME RingInv, NEW c \in Clients, BuildReader(c)
  PROVE  Told!Join(c) \/ UNCHANGED Told!bvars
<1>1. /\ rpc[c] = "build" /\ taken' = [taken EXCEPT ![c] = written]
      /\ written' = written /\ written \in Nat
      /\ rpc' = [rpc EXCEPT ![c] = "wait"]
  BY DEF BuildReader, writerVars, RingInv, ControlInv, TypeOK
<1>2. c \notin clean
  BY <1>1 DEF RingInv, LagInv, CleanReads, Reading
<1>3. \A d \in clean : taken'[d] = taken[d] /\ rpc'[d] = rpc[d]
  BY <1>1, <1>2 DEF RingInv, ControlInv, TypeOK
<1>4. CASE clean' = clean
  BY <1>1, <1>3, <1>4, QuietStep
<1>5. CASE clean' = clean \cup {c}
  <2>1. taken'[c] = written /\ Run(written, written) = <<>>
    BY <1>1, RunEmpty DEF RingInv, ControlInv, TypeOK
  <2>2. Queues' = Queues
    BY <1>1, <1>2, <1>3, <1>5, <2>1 DEF Queues
  <2>3. Leaving' = Leaving
    <3>1. rpc'[c] # "leave"
      BY <1>1 DEF RingInv, ControlInv, TypeOK
    <3>2. QED
      BY <1>2, <1>3, <1>5, <3>1 DEF Leaving
  <2>4. QED
    BY <1>2, <1>5, <2>2, <2>3 DEF Told!Join
<1>6. QED
  BY <1>4, <1>5 DEF BuildReader

LEMMA TakeStep ==
  ASSUME RingInv, LagInv', NEW c \in Clients, Read(c)
  PROVE  Told!Take(c) \/ UNCHANGED Told!bvars
<1>1. /\ clean' = clean /\ written' = written /\ semPos' = semPos
      /\ \A d \in clean \ {c} : taken'[d] = taken[d]
      /\ \A d \in clean : rpc'[d] = "leave" <=> rpc[d] = "leave"
      /\ rpc[c] # "leave"
  BY DEF Read, writerVars, RingInv, ControlInv, TypeOK
<1>2. CASE c \notin clean
  BY <1>1, <1>2, QuietStep
<1>3. CASE c \in clean
  <2>1. /\ taken[c] \in Nat /\ written \in Nat /\ semPos[c] \in Slots
        /\ readerSems[semPos[c]] \in Nat /\ taken[c] + Announced(semPos[c]) = written
    BY <1>3, CleanTypes, ItemsAssumption DEF RingInv
  <2>2. taken[c] < written
    BY <2>1 DEF Read, Announced
  <2>3. taken'[c] = taken[c] + 1
    <3>1. taken'[c] + Announced(semPos[c])' = written
      BY <1>1, <1>3 DEF LagInv, LagAccounting
    <3>2. Announced(semPos[c])' = Announced(semPos[c]) - 1
      BY <1>1, <2>1 DEF Read, Announced, writerVars, RingInv, ControlInv, TypeOK
    <3>3. taken'[c] \in Int
      <4>1. fifo_p[c] \in Positions /\ rowHead \in [Positions -> Nat]
        BY DEF RingInv, ControlInv, TypeOK
      <4>2. QED
        BY <4>1 DEF Read, RingInv, ControlInv, TypeOK
    <3>4. Announced(semPos[c]) \in Int
      BY <1>3, CleanTypes DEF RingInv
    <3>5. QED
      BY <2>1, <3>1, <3>2, <3>3, <3>4
  <2>4. Queues[c] = Run(taken[c], written) /\ Queues[c] # <<>>
    BY <1>3, <2>1, <2>2, RunEmpty DEF Queues
  <2>5. Tail(Queues[c]) = Run(taken[c] + 1, written)
    BY <2>1, <2>2, <2>4, RunTail
  <2>6. Queues' = [Queues EXCEPT ![c] = Tail(@)]
    BY <1>1, <1>3, <2>3, <2>5 DEF Queues
  <2>7. QED
    BY <1>1, <1>3, <2>4, <2>6 DEF Told!Take, Leaving
<1>4. QED
  BY <1>2, <1>3

LEMMA LeaveStep ==
  ASSUME RingInv, NEW c \in Clients, RemoveReaderSem(c)
  PROVE  Told!Leave(c) \/ UNCHANGED Told!bvars
<1>1. /\ clean' = clean \ {c} /\ taken' = taken /\ written' = written
      /\ rpc[c] = "leave" /\ \A d \in clean \ {c} : rpc'[d] = rpc[d]
  BY DEF RemoveReaderSem, writerVars, RingInv, ControlInv, TypeOK
<1>2. CASE c \notin clean
  BY <1>1, <1>2, QuietStep
<1>3. CASE c \in clean
  <2>1. Queues' = [Queues EXCEPT ![c] = <<>>]
    BY <1>1 DEF Queues
  <2>2. QED
    BY <1>1, <1>3, <2>1 DEF Told!Leave, Leaving
<1>4. QED
  BY <1>2, <1>3

LEMMA FinishStep ==
  ASSUME RingInv, NEW c \in Clients, UsePixels(c)
  PROVE  Told!Finish(c) \/ UNCHANGED Told!bvars
<1>1. /\ clean' = clean /\ taken' = taken /\ written' = written
      /\ rpc[c] = "send"
      /\ rpc' = [rpc EXCEPT ![c] = "wait"] \/ rpc' = [rpc EXCEPT ![c] = "leave"]
  BY DEF UsePixels, writerVars
<1>2. \A d \in clean \ {c} : rpc'[d] = rpc[d]
  BY <1>1 DEF RingInv, ControlInv, TypeOK
<1>3. rpc'[c] \in {"wait", "leave"}
  BY <1>1 DEF RingInv, ControlInv, TypeOK
<1>4. CASE c \notin clean \/ rpc'[c] = "wait"
  BY <1>1, <1>2, <1>4, QuietStep
<1>5. CASE c \in clean /\ rpc'[c] = "leave"
  <2>1. Queues' = Queues
    BY <1>1 DEF Queues
  <2>2. Leaving' = Leaving \cup {c} /\ c \notin Leaving
    BY <1>1, <1>2, <1>5 DEF Leaving
  <2>3. QED
    BY <1>1, <1>5, <2>1, <2>2 DEF Told!Finish
<1>6. QED
  BY <1>3, <1>4, <1>5

LEMMA ToldStep ==
  ASSUME RingInv, RingInv', [Next]_vars
  PROVE  [Told!BNext]_(Told!bvars)
<1>1. CASE Writer
  <2>1. CASE CopyPixels
    BY <2>1, PublishStep DEF Told!BNext
  <2>2. CASE ScanSlot
    BY <2>2, LoseStep DEF Told!BNext
  <2>3. CASE WriteLock \/ CopyHead \/ ResetSlow \/ PostSlot \/ WriteUnlock
    <3>1. UNCHANGED <<clean, written, taken, rpc>>
      BY <2>3 DEF WriteLock, CopyHead, ResetSlow, PostSlot, WriteUnlock, readerVars
    <3>2. QED
      BY <3>1, QuietStep
  <2>4. QED
    BY <1>1, <2>1, <2>2, <2>3 DEF Writer
<1>2. ASSUME NEW c \in Clients, Client(c)
      PROVE  [Told!BNext]_(Told!bvars)
  <2>1. CASE BuildReader(c)
    BY <2>1, JoinStep DEF Told!BNext
  <2>2. CASE Read(c)
    BY <2>2, TakeStep DEF Told!BNext, RingInv
  <2>3. CASE RemoveReaderSem(c)
    BY <2>3, LeaveStep DEF Told!BNext
  <2>4. CASE \/ Connect(c) \/ WaitWriterCreated(c) \/ ClaimSlot(c) \/ Refuse(c)
             \/ UseHead(c)
    <3>1. UNCHANGED <<clean, written, taken>>
      BY <2>4 DEF Connect, WaitWriterCreated, ClaimSlot, Refuse, UseHead, writerVars
    <3>2. rpc[c] # "leave" /\ \E s \in ReaderStates \ {"leave"} : rpc' = [rpc EXCEPT ![c] = s]
      BY <2>4 DEF Connect, WaitWriterCreated, ClaimSlot, Refuse, UseHead, ReaderStates
    <3>3. \A d \in clean : rpc'[d] = "leave" <=> rpc[d] = "leave"
      BY <3>2 DEF RingInv, ControlInv, TypeOK
    <3>4. QED
      BY <3>1, <3>3, QuietStep
  <2>5. CASE UsePixels(c)
    BY <2>5, FinishStep DEF Told!BNext
  <2>6. QED
    BY <1>2, <2>1, <2>2, <2>3, <2>4, <2>5 DEF Client
<1>3. CASE UNCHANGED vars
  BY <1>3, QuietStep DEF vars, writerVars, readerVars
<1>4. QED
  BY <1>1, <1>2, <1>3 DEF Next

\* The same step, over the queues read from the slots of the ring.
LEMMA BroadcastStep ==
  ASSUME RingInv, RingInv', QueuesAgree, QueuesAgree', [Next]_vars
  PROVE  [Broadcast!BNext]_(Broadcast!bvars)
  BY ToldStep
  DEF QueuesAgree, Told!BNext, Told!bvars, Told!Publish, Told!Join, Told!Take,
      Told!Lose, Told!Finish, Told!Leave, Broadcast!BNext, Broadcast!bvars, Broadcast!Publish,
      Broadcast!Join, Broadcast!Take, Broadcast!Lose, Broadcast!Finish,
      Broadcast!Leave

\* The ring implements the broadcast: every initial state is one of the
\* broadcast, and every step one of its steps or a stutter, whatever the ring
\* size, the slots, the clients and the bounds.
THEOREM RingImplementsBroadcast == Spec => ImplementsBroadcast
<1>1. Init => Broadcast!BInit
  BY DEF Init, Broadcast!BInit, Pending, Leaving
<1>2. RingInv /\ RingInv' /\ QueuesAgree /\ QueuesAgree' /\ [Next]_vars
        => [Broadcast!BNext]_(Broadcast!bvars)
  BY BroadcastStep
<1>3. QED
  BY <1>1, <1>2, RingInvAlways, PendingQueues, PTL
  DEF Spec, ImplementsBroadcast, Broadcast!BSpec
=============================================================================
