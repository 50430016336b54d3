------------------------- MODULE ClientPool_proofs --------------------------
(***************************************************************************)
(* Proofs about the client structures, for any number of them, any         *)
(* configuration and any bound.                                            *)
(***************************************************************************)
EXTENDS ClientPool, LinkedLists_proofs, FiniteSetTheorems

Served == {"read", "respond", "file", "test"}

\* What a step that serves c may change; all that the proofs need of it.
Serve(c) ==
  /\ cpc[c] \in {"read", "respond", "file"}
  /\ c \in inThread \/ lpc = "dispatch"
  /\ \E s \in Served :
       /\ cpc' = [cpc EXCEPT ![c] = s]
       /\ IF s = "test" /\ c \notin inThread
            THEN lpc = "dispatch" /\ lpc' = "release" /\ inHand' = c
            ELSE lpc' = lpc /\ inHand' = inHand
  /\ keepAlive' \in [Clients -> BOOLEAN]
  /\ inThread' \subseteq Clients
  /\ reqStyle = "EVENTS" /\ writeStyle = "EVENTS" /\ inThread = {} => inThread' = {}
  /\ UNCHANGED <<reqStyle, writeStyle, mem, armed, backlog, wasEmpty, restarts, early>>

LEMMA ServingServes ==
  ASSUME TypeOK, NEW c \in Clients, Serving(c)
  PROVE  Serve(c)
<1>1. /\ cpc \in [Clients -> ClientStates] /\ keepAlive \in [Clients -> BOOLEAN]
      /\ inThread \subseteq Clients
  BY DEF TypeOK
<1> USE DEF Callback, Goes, AfterResponse, Served, style
<1>2. CASE Request(c)
  BY <1>1, <1>2 DEF Request, Serve
<1>3. CASE Closed(c)
  BY <1>1, <1>3 DEF Closed, Serve
<1>4. CASE Respond(c)
  BY <1>1, <1>4 DEF Respond, Serve
<1>5. CASE SendFile(c)
  BY <1>1, <1>5 DEF SendFile, Serve
<1>6. CASE SendFileFails(c)
  BY <1>1, <1>6 DEF SendFileFails, Serve
<1>7. QED
  BY <1>2, <1>3, <1>4, <1>5, <1>6 DEF Serving

-----------------------------------------------------------------------------
(* Types *)

\* A connection waits until it is accepted.
Waiting == lpc \in {"add", "accept"} => backlog > 0

TypeInv == TypeOK /\ Waiting

\* A sequence of all clients as Init links them.
InitMem(q) ==
  [head |-> [l \in Lists |-> IF l = "free" /\ q # <<>> THEN q[1] ELSE NULL],
   tail |-> [l \in Lists |->
               IF l = "free" /\ q # <<>> THEN q[Len(q)] ELSE NULL],
   prev |-> [c \in Clients |->
               IF Place(q, c) = 1 THEN NULL ELSE q[Place(q, c) - 1]],
   next |-> [c \in Clients |->
               IF Place(q, c) = Len(q) THEN NULL ELSE q[Place(q, c) + 1]]]

LEMMA InitLists ==
  ASSUME NEW q \in Orders(Clients)
  PROVE  /\ InitMem(q) \in Memory(Clients, Lists)
         /\ q \in Seq(Clients) /\ Distinct(q) /\ \A c \in Clients : In(c, q)
         /\ IsList(InitMem(q), "free", q) /\ IsList(InitMem(q), "busy", <<>>)
<1> DEFINE m == InitMem(q)
<1>1. IsFiniteSet(Clients) /\ NULL \notin Clients
  BY ClientsAssumption
<1>2. Cardinality(Clients) \in Nat
  BY <1>1, FS_CardinalityType
<1>3. q \in [1 .. Cardinality(Clients) -> Clients] /\ Distinct(q) /\ \A c \in Clients : In(c, q)
  BY DEF Orders
<1>4. q \in Seq(Clients) /\ Len(q) \in Nat /\ \A k \in 1 .. Len(q) : q[k] \in Clients
  BY <1>2, <1>3
<1>5. ASSUME NEW c \in Clients
      PROVE  Place(q, c) \in 1 .. Len(q) /\ q[Place(q, c)] = c
  BY <1>3 DEF Place, In
<1>6. ASSUME NEW k \in 1 .. Len(q)
      PROVE  Place(q, q[k]) = k
  BY <1>3, <1>4, <1>5 DEF Distinct
<1>7. q = <<>> <=> Len(q) = 0
  BY <1>4
<1>8. m \in Memory(Clients, Lists)
  <2>1. m.head \in [Lists -> Clients \cup {NULL}] /\ m.tail \in [Lists -> Clients \cup {NULL}]
    BY <1>4, <1>7 DEF InitMem
  <2>2. m.prev \in [Clients -> Clients \cup {NULL}]
    BY <1>4, <1>5 DEF InitMem
  <2>3. m.next \in [Clients -> Clients \cup {NULL}]
    BY <1>4, <1>5 DEF InitMem
  <2>4. QED
    BY <2>1, <2>2, <2>3 DEF InitMem, Memory
<1>9. IsList(m, "free", q)
  <2>1. ASSUME NEW k \in 1 .. Len(q)
        PROVE  /\ m.prev[q[k]] = IF k = 1 THEN NULL ELSE q[k - 1]
               /\ m.next[q[k]] = IF k = Len(q) THEN NULL ELSE q[k + 1]
    BY <1>4, <1>6 DEF InitMem
  <2>2. /\ m.head["free"] = IF q = <<>> THEN NULL ELSE q[1]
        /\ m.tail["free"] = IF q = <<>> THEN NULL ELSE q[Len(q)]
    BY DEF InitMem, Lists
  <2> HIDE DEF m
  <2>3. IsList(m, "free", q)
    BY <2>1, <2>2 DEF IsList
  <2>4. QED
    BY <2>3
<1>10. IsList(m, "busy", <<>>)
  BY DEF IsList, InitMem, Lists
<1>11. QED
  BY <1>3, <1>4, <1>8, <1>9, <1>10

LEMMA InitParts ==
  ASSUME Init
  PROVE  /\ reqStyle \in {"EVENTS", "THREADS"} /\ writeStyle \in {"EVENTS", "THREADS"}
         /\ \E q \in Orders(Clients) : mem = InitMem(q)
         /\ armed = TRUE /\ backlog = 0 /\ lpc = "dispatch" /\ inHand = NULL
         /\ cpc = [c \in Clients |-> "idle"]
         /\ keepAlive = [c \in Clients |-> FALSE] /\ wasEmpty = [c \in Clients |-> FALSE]
         /\ inThread = {} /\ restarts = 0 /\ early = FALSE
  BY StylesAssumption DEF Init, InitMem

LEMMA TypeInit ==
  ASSUME Init
  PROVE  TypeInv
<1>1. mem \in Memory(Clients, Lists)
  BY InitParts, InitLists
<1>2. /\ reqStyle \in {"EVENTS", "THREADS"} /\ writeStyle \in {"EVENTS", "THREADS"}
      /\ armed = TRUE /\ backlog = 0 /\ lpc = "dispatch" /\ inHand = NULL
      /\ cpc = [c \in Clients |-> "idle"]
      /\ keepAlive = [c \in Clients |-> FALSE] /\ wasEmpty = [c \in Clients |-> FALSE]
      /\ inThread = {} /\ restarts = 0 /\ early = FALSE
  BY InitParts
<1>3. cpc \in [Clients -> ClientStates]
  BY <1>2 DEF ClientStates
<1>4. keepAlive \in [Clients -> BOOLEAN] /\ wasEmpty \in [Clients -> BOOLEAN]
  BY <1>2
<1>5. armed \in BOOLEAN /\ early \in BOOLEAN
  BY <1>2
<1>6. backlog \in 0 .. Backlog /\ restarts \in 0 .. MaxEnding
  BY <1>2, BacklogAssumption
<1>7. /\ style \in {"EVENTS", "THREADS"} \X {"EVENTS", "THREADS"}
      /\ lpc \in LoopStates /\ inHand \in Clients \cup {NULL}
      /\ lpc \notin {"dispatch", "restart"} => inHand \in Clients
      /\ inThread \subseteq Clients /\ Waiting
  BY <1>2 DEF style, LoopStates, Waiting
<1>8. QED
  BY <1>1, <1>3, <1>4, <1>5, <1>6, <1>7 DEF TypeInv, TypeOK

LEMMA TypeStep ==
  ASSUME TypeInv, [Next]_vars
  PROVE  TypeInv'
<1> USE DEF TypeInv, TypeOK, Waiting, LoopStates, ClientStates, style
<1>0. "free" \in Lists /\ "busy" \in Lists /\ NULL \notin Clients
  BY ClientsAssumption DEF Lists
<1>1. CASE Arrive
  BY <1>1, BacklogAssumption DEF Arrive
<1>2. CASE NewClients
  <2>1. CASE Empty(mem, "free")
    BY <1>2, <2>1 DEF NewClients
  <2>2. CASE ~Empty(mem, "free")
    <3>1. mem.head["free"] \in Clients /\ Shift(mem, "free") \in Memory(Clients, Lists)
      BY <1>0, <2>2, ShiftType
    <3>2. QED
      BY <1>2, <2>2, <3>1, BacklogAssumption DEF NewClients
  <2>3. QED
    BY <2>1, <2>2
<1>3. CASE AddAgain
  BY <1>3 DEF AddAgain
<1>4. CASE Accept
  BY <1>4, BacklogAssumption DEF Accept
<1>5. CASE AcceptFails
  BY <1>5, BacklogAssumption DEF AcceptFails
<1>6. CASE LinkBusy
  <2>1. inHand \in Clients /\ Link(mem, "busy", inHand) \in Memory(Clients, Lists)
    BY <1>0, <1>6, LinkType DEF LinkBusy
  <2>2. QED
    BY <1>6, <2>1 DEF LinkBusy
<1>7. CASE LinkBack
  <2>1. inHand \in Clients /\ Link(mem, "free", inHand) \in Memory(Clients, Lists)
    BY <1>0, <1>7, LinkType DEF LinkBack
  <2>2. QED
    BY <1>7, <2>1 DEF LinkBack
<1>8. CASE Restart
  BY <1>8, BacklogAssumption DEF Restart
<1>9. ASSUME NEW c \in Clients, Serving(c) PROVE TypeInv'
  BY <1>9, ServingServes DEF Serve, Served
<1>10. ASSUME NEW c \in Clients, TestEmpty(c) PROVE TypeInv'
  BY <1>10 DEF TestEmpty, Empty
<1>11. ASSUME NEW c \in Clients, UnlinkBusy(c) PROVE TypeInv'
  <2>1. Unlink(mem, "busy", c) \in Memory(Clients, Lists)
    BY <1>0, UnlinkType
  <2>2. QED
    BY <1>11, <2>1 DEF UnlinkBusy
<1>12. ASSUME NEW c \in Clients, LinkFree(c) PROVE TypeInv'
  <2>1. Link(mem, "free", c) \in Memory(Clients, Lists)
    BY <1>0, LinkType
  <2>2. restarts' \in 0 .. MaxEnding
    BY <1>12, BacklogAssumption DEF LinkFree
  <2>3. QED
    BY <1>12, <2>1, <2>2 DEF LinkFree, Releasing
<1>13. CASE UNCHANGED vars
  BY <1>13 DEF vars
<1>14. QED
  BY <1>1, <1>2, <1>3, <1>4, <1>5, <1>6, <1>7, <1>8, <1>9, <1>10, <1>11, <1>12, <1>13
  DEF Next, Accepting, Freeing

LEMMA TypeAlways == Spec => []TypeInv
  BY TypeInit, TypeStep, PTL DEF Spec

\* The parts of the state have their types; in particular a callback of the loop
\* always has a client in hand, and the free list never gives out NULL as one.
THEOREM TypeCorrect == Spec => []TypeOK
<1>1. TypeInv => TypeOK
  BY DEF TypeInv
<1>2. QED
  BY <1>1, TypeAlways, PTL

-----------------------------------------------------------------------------
(* The event, with one thread for everything *)

InRelease == {"test", "unlink", "link"}

\* Only the callback of the loop can be in a release; what it found out about the
\* free list is still so, and the event is off only while it is going to be added
\* or while nobody is free.
OneThread ==
  /\ inThread = {} /\ restarts = 0
  /\ \A c \in Clients : cpc[c] \in InRelease => lpc = "release" /\ inHand = c
  /\ lpc = "release" => cpc[inHand] \in InRelease
  /\ lpc \in {"accept", "link", "back"} => armed
  /\ lpc = "dispatch" => Empty(mem, "free") \/ armed
  /\ lpc = "release" /\ cpc[inHand] = "test" => Empty(mem, "free") \/ armed
  /\ lpc = "release" /\ cpc[inHand] # "test" => wasEmpty[inHand] \/ armed

EventInv == reqStyle = "EVENTS" /\ writeStyle = "EVENTS" => OneThread

LEMMA EventInit ==
  ASSUME Init
  PROVE  EventInv
  BY InitParts DEF EventInv, OneThread, InRelease

LEMMA EventStep ==
  ASSUME TypeInv, EventInv, [Next]_vars
  PROVE  EventInv'
<1> SUFFICES ASSUME reqStyle = "EVENTS" /\ writeStyle = "EVENTS",
                    reqStyle' = reqStyle /\ writeStyle' = writeStyle
             PROVE  OneThread'
  <2>1. reqStyle' = reqStyle /\ writeStyle' = writeStyle
    BY ServingServes DEF TypeInv, Next, Accepting, Freeing, vars, style, Serve, Arrive,
      NewClients, AddAgain, Accept, AcceptFails, LinkBusy, LinkBack, Restart, TestEmpty,
      UnlinkBusy, LinkFree
  <2>2. QED
    BY <2>1 DEF EventInv
<1>0. /\ OneThread /\ cpc \in [Clients -> ClientStates] /\ wasEmpty \in [Clients -> BOOLEAN]
      /\ lpc \notin {"dispatch", "restart"} => inHand \in Clients
      /\ mem \in Memory(Clients, Lists)
  BY DEF EventInv, TypeInv, TypeOK
<1> USE DEF OneThread, InRelease
<1>1. CASE Arrive
  BY <1>0, <1>1 DEF Arrive
<1>2. CASE NewClients
  BY <1>0, <1>2 DEF NewClients
<1>3. CASE AddAgain
  BY <1>0, <1>3 DEF AddAgain
<1>4. CASE Accept
  BY <1>0, <1>4 DEF Accept
<1>5. CASE AcceptFails
  BY <1>0, <1>5 DEF AcceptFails
<1>6. CASE LinkBusy
  BY <1>0, <1>6 DEF LinkBusy
<1>7. CASE LinkBack
  BY <1>0, <1>7 DEF LinkBack
<1>8. CASE Restart
  BY <1>0, <1>8 DEF Restart
<1>9. ASSUME NEW c \in Clients, Serving(c) PROVE OneThread'
  BY <1>0, <1>9, ServingServes DEF Serve, Served, TypeInv, Empty
<1>10. ASSUME NEW c \in Clients, TestEmpty(c) PROVE OneThread'
  BY <1>0, <1>10 DEF TestEmpty, Releasing
<1>11. ASSUME NEW c \in Clients, UnlinkBusy(c) PROVE OneThread'
  BY <1>0, <1>11 DEF UnlinkBusy, Releasing
<1>12. ASSUME NEW c \in Clients, LinkFree(c) PROVE OneThread'
  BY <1>0, <1>12 DEF LinkFree, Releasing
<1>13. CASE UNCHANGED vars
  BY <1>0, <1>13 DEF vars, style
<1>14. QED
  BY <1>1, <1>2, <1>3, <1>4, <1>5, <1>6, <1>7, <1>8, <1>9, <1>10, <1>11, <1>12, <1>13
  DEF Next, Accepting, Freeing

\* With one thread for everything, connections are not left waiting beside free
\* clients: was_empty (server.c:113) still holds when it is used (server.c:119).
THEOREM NotLeftWaitingAlways == Spec => []NotLeftWaitingOneThread
<1>1. EventInv => NotLeftWaitingOneThread
  BY DEF EventInv, OneThread, NotLeftWaitingOneThread, NotLeftWaiting, style
<1>2. QED
  BY <1>1, EventInit, EventStep, TypeAlways, PTL DEF Spec

-----------------------------------------------------------------------------
(* The lists *)

\* f is what the free list holds and b what the busy list holds.
Hold(f, b) ==
  /\ Holds(Clients, Lists, mem, "free", f) /\ Holds(Clients, Lists, mem, "busy", b)
  /\ \A c \in Clients : (In(c, f) <=> BelongsFree(c)) /\ (In(c, b) <=> BelongsBusy(c))

\* What the loop may assume of the client it has shifted: nobody else uses it, and
\* once it is accepted its release has not linked it yet.
Control ==
  /\ lpc \in {"add", "accept", "back"} => cpc[inHand] = "idle"
  /\ lpc = "link" => cpc[inHand] \notin {"idle", "link"}

ListsInv == early \/ (Control /\ \E f, b : Hold(f, b))

LEMMA ListsInit ==
  ASSUME Init
  PROVE  ListsInv
<1>1. PICK q \in Orders(Clients) : mem = InitMem(q)
  BY InitParts
<1>2. /\ mem \in Memory(Clients, Lists)
      /\ q \in Seq(Clients) /\ Distinct(q) /\ \A c \in Clients : In(c, q)
      /\ IsList(mem, "free", q) /\ IsList(mem, "busy", <<>>)
  BY <1>1, InitLists
<1>3. "free" \in Lists /\ "busy" \in Lists /\ NULL \notin Clients
  BY ClientsAssumption DEF Lists
<1>4. <<>> \in Seq(Clients) /\ Distinct(<<>>) /\ \A c : ~In(c, <<>>)
  BY DEF Distinct, In
<1>5. \A c \in Clients : BelongsFree(c) /\ ~BelongsBusy(c)
  BY InitParts DEF BelongsFree, BelongsBusy, Shifted
<1>6. Hold(q, <<>>)
  BY <1>2, <1>3, <1>4, <1>5 DEF Hold, Holds
<1>7. Control
  BY InitParts DEF Control
<1>8. QED
  BY <1>6, <1>7 DEF ListsInv

\* No client belongs on both lists.
LEMMA HoldApart ==
  ASSUME NEW f, NEW b, Hold(f, b)
  PROVE  Apart(f, b) /\ Apart(b, f)
<1>1. /\ \A k \in 1 .. Len(f) : f[k] \in Clients
      /\ \A k \in 1 .. Len(b) : b[k] \in Clients
  BY DEF Hold, Holds
<1>2. \A c \in Clients : ~(In(c, f) /\ In(c, b))
  BY DEF Hold, BelongsFree, BelongsBusy
<1>3. QED
  BY <1>1, <1>2 DEF Apart, In

\* A step that leaves the lists alone and moves no client from where it belongs.
LEMMA HoldStays ==
  ASSUME NEW f, NEW b, Hold(f, b), mem' = mem,
         \A c \in Clients : /\ BelongsFree(c)' <=> BelongsFree(c)
                            /\ BelongsBusy(c)' <=> BelongsBusy(c)
  PROVE  Hold(f, b)'
  BY DEF Hold

LEMMA ListsStep ==
  ASSUME TypeInv, ListsInv, [Next]_vars
  PROVE  ListsInv'
<1> SUFFICES ASSUME ~early, ~early' PROVE Control' /\ (\E f, b : Hold(f, b))'
  <2>1. early => early'
    BY ServingServes DEF TypeInv, Next, Accepting, Freeing, vars, Serve, Arrive,
      NewClients, AddAgain, Accept, AcceptFails, LinkBusy, LinkBack, Restart, TestEmpty,
      UnlinkBusy, LinkFree
  <2>2. QED
    BY <2>1 DEF ListsInv
<1>0. /\ Control /\ cpc \in [Clients -> ClientStates]
      /\ lpc \notin {"dispatch", "restart"} => inHand \in Clients
      /\ mem \in Memory(Clients, Lists)
  BY DEF ListsInv, TypeInv, TypeOK
<1>p. PICK f, b : Hold(f, b)
  BY DEF ListsInv
<1> DEFINE Stays == /\ mem' = mem /\ Control'
                    /\ \A c \in Clients : /\ BelongsFree(c)' <=> BelongsFree(c)
                                          /\ BelongsBusy(c)' <=> BelongsBusy(c)
<1> SUFFICES ASSUME ~Stays PROVE Control' /\ \E g, d : Hold(g, d)'
  BY <1>p, HoldStays
<1>h. /\ Holds(Clients, Lists, mem, "free", f) /\ Holds(Clients, Lists, mem, "busy", b)
      /\ f \in Seq(Clients) /\ b \in Seq(Clients) /\ Distinct(f) /\ Distinct(b)
      /\ \A c \in Clients : (In(c, f) <=> BelongsFree(c)) /\ (In(c, b) <=> BelongsBusy(c))
      /\ Apart(f, b) /\ Apart(b, f)
  BY <1>p, HoldApart DEF Hold, Holds
<1>1. CASE Arrive
  BY <1>0, <1>1 DEF Arrive, Control, BelongsFree, BelongsBusy, Shifted
<1>2. CASE NewClients
  <2>1. CASE Empty(mem, "free")
    BY <1>0, <1>2, <2>1 DEF NewClients, Control, BelongsFree, BelongsBusy, Shifted
  <2>2. CASE ~Empty(mem, "free")
    <3>1. f # <<>>
      BY <1>h, <2>2 DEF Holds, IsList, Empty
    <3>2. mem.head["free"] = f[1] /\ f[1] \in Clients /\ In(f[1], f)
      BY <1>h, <3>1, ShiftTails DEF In
    <3>3. /\ mem' = Shift(mem, "free") /\ inHand' = f[1] /\ lpc = "dispatch" /\ lpc' = "add"
          /\ cpc' = cpc
      BY <1>2, <2>2, <3>2 DEF NewClients
    <3>4. /\ Holds(Clients, Lists, mem', "free", Tail(f))
          /\ Holds(Clients, Lists, mem', "busy", b)
      BY <1>h, <3>1, <3>3, ShiftHolds
    <3>5. \A x : In(x, Tail(f)) <=> In(x, f) /\ x # f[1]
      BY <1>h, <3>1, TailItems
    <3>6. \A c \in Clients : /\ BelongsFree(c)' <=> BelongsFree(c) /\ c # f[1]
                             /\ BelongsBusy(c)' <=> BelongsBusy(c)
      BY <1>h, <3>2, <3>3 DEF BelongsFree, BelongsBusy, Shifted
    <3>7. Hold(Tail(f), b)'
      BY <1>h, <3>4, <3>5, <3>6 DEF Hold
    <3>8. Control'
      BY <1>h, <3>2, <3>3 DEF Control, BelongsFree
    <3>9. QED
      BY <3>7, <3>8
  <2>3. QED
    BY <2>1, <2>2
<1>3. CASE AddAgain
  BY <1>0, <1>3 DEF AddAgain, Control, BelongsFree, BelongsBusy, Shifted
<1>4. CASE Accept
  BY <1>0, <1>4 DEF Accept, Control, BelongsFree, BelongsBusy, Shifted
<1>5. CASE AcceptFails
  BY <1>0, <1>5 DEF AcceptFails, Control, BelongsFree, BelongsBusy, Shifted
<1>6. CASE LinkBusy
  <2>1. /\ inHand \in Clients /\ mem' = Link(mem, "busy", inHand) /\ lpc = "link"
        /\ lpc' = "dispatch" /\ inHand' = inHand /\ cpc' = cpc
        /\ cpc[inHand] \notin {"idle", "link"}
    BY <1>0, <1>6 DEF LinkBusy, Control
  <2>2. ~In(inHand, f) /\ ~In(inHand, b)
    BY <1>h, <2>1 DEF BelongsFree, BelongsBusy, Shifted
  <2>3. /\ Holds(Clients, Lists, mem', "busy", Append(b, inHand))
        /\ Holds(Clients, Lists, mem', "free", f)
    BY <1>h, <2>1, <2>2, LinkHolds
  <2>4. \A x : In(x, Append(b, inHand)) <=> In(x, b) \/ x = inHand
    BY <1>h, <2>1, <2>2, AppendItems
  <2>5. \A c \in Clients : /\ BelongsFree(c)' <=> BelongsFree(c)
                           /\ BelongsBusy(c)' <=> BelongsBusy(c) \/ c = inHand
    BY <2>1 DEF BelongsFree, BelongsBusy, Shifted
  <2>6. Hold(f, Append(b, inHand))'
    <3> DEFINE d == Append(b, inHand)
    <3> HIDE DEF d
    <3>1. d' = d
      BY <2>1 DEF d
    <3>2. QED
      BY <1>h, <2>1, <2>3, <2>4, <2>5 DEF Hold
  <2>7. Control'
    BY <2>1 DEF Control
  <2>8. QED
    BY <2>6, <2>7
<1>7. CASE LinkBack
  <2>1. /\ inHand \in Clients /\ mem' = Link(mem, "free", inHand) /\ lpc = "back"
        /\ lpc' = "dispatch" /\ inHand' = inHand /\ cpc' = cpc
        /\ cpc[inHand] = "idle"
    BY <1>0, <1>7 DEF LinkBack, Control
  <2>2. ~In(inHand, f) /\ ~In(inHand, b)
    BY <1>h, <2>1 DEF BelongsFree, BelongsBusy, Shifted
  <2>3. /\ Holds(Clients, Lists, mem', "free", Append(f, inHand))
        /\ Holds(Clients, Lists, mem', "busy", b)
    BY <1>h, <2>1, <2>2, LinkHolds
  <2>4. \A x : In(x, Append(f, inHand)) <=> In(x, f) \/ x = inHand
    BY <1>h, <2>1, <2>2, AppendItems
  <2>5. \A c \in Clients : /\ BelongsFree(c)' <=> BelongsFree(c) \/ c = inHand
                           /\ BelongsBusy(c)' <=> BelongsBusy(c)
    BY <2>1 DEF BelongsFree, BelongsBusy, Shifted
  <2>6. Hold(Append(f, inHand), b)'
    <3> DEFINE d == Append(f, inHand)
    <3> HIDE DEF d
    <3>1. d' = d
      BY <2>1 DEF d
    <3>2. QED
      BY <1>h, <2>1, <2>3, <2>4, <2>5 DEF Hold
  <2>7. Control'
    BY <2>1 DEF Control
  <2>8. QED
    BY <2>6, <2>7
<1>8. CASE Restart
  BY <1>0, <1>8 DEF Restart, Control, BelongsFree, BelongsBusy, Shifted
<1>9. ASSUME NEW c \in Clients, Serving(c) PROVE Control' /\ \E g, d : Hold(g, d)'
  <2>1. Serve(c)
    BY <1>9, ServingServes DEF TypeInv
  <2>2. PICK s \in Served :
          /\ cpc' = [cpc EXCEPT ![c] = s]
          /\ IF s = "test" /\ c \notin inThread
               THEN lpc = "dispatch" /\ lpc' = "release" /\ inHand' = c
               ELSE lpc' = lpc /\ inHand' = inHand
    BY <2>1 DEF Serve
  <2>3. mem' = mem /\ cpc[c] \in {"read", "respond", "file"} /\ s \notin {"idle", "link"}
    BY <2>1 DEF Serve, Served
  <2>4. Control'
    BY <1>0, <2>2, <2>3 DEF Control
  <2>5. \A d \in Clients : Shifted(d)' <=> Shifted(d)
    BY <2>2 DEF Shifted
  <2>6. \A d \in Clients : /\ BelongsFree(d)' <=> BelongsFree(d)
                           /\ BelongsBusy(d)' <=> BelongsBusy(d)
    BY <1>0, <2>2, <2>3, <2>5 DEF BelongsFree, BelongsBusy
  <2>7. QED
    BY <2>3, <2>4, <2>6
<1>10. ASSUME NEW c \in Clients, TestEmpty(c) PROVE Control' /\ \E g, d : Hold(g, d)'
  BY <1>0, <1>10 DEF TestEmpty, Control, BelongsFree, BelongsBusy, Shifted
<1>11. ASSUME NEW c \in Clients, UnlinkBusy(c) PROVE Control' /\ \E g, d : Hold(g, d)'
  <2>1. /\ cpc[c] = "unlink" /\ mem' = Unlink(mem, "busy", c)
        /\ cpc' = [cpc EXCEPT ![c] = "link"] /\ lpc' = lpc /\ inHand' = inHand
        /\ ~(lpc = "link" /\ inHand = c)
    BY <1>11 DEF UnlinkBusy
  <2>2. ~Shifted(c) /\ \A d \in Clients : Shifted(d)' <=> Shifted(d)
    BY <1>0, <2>1 DEF Shifted, Control
  <2>3. PICK i \in 1 .. Len(b) : b[i] = c
    BY <1>h, <2>1, <2>2 DEF BelongsBusy, In
  <2>4. /\ Holds(Clients, Lists, mem', "busy", Without(b, i))
        /\ Holds(Clients, Lists, mem', "free", f)
    BY <1>h, <2>1, <2>3, UnlinkHolds
  <2>5. \A x : In(x, Without(b, i)) <=> In(x, b) /\ x # c
    BY <1>h, <2>3, WithoutItems
  <2>6. \A d \in Clients : /\ BelongsFree(d)' <=> BelongsFree(d)
                           /\ BelongsBusy(d)' <=> BelongsBusy(d) /\ d # c
    BY <1>0, <2>1, <2>2 DEF BelongsFree, BelongsBusy
  <2>7. Hold(f, Without(b, i))'
    BY <1>h, <2>4, <2>5, <2>6 DEF Hold
  <2>8. Control'
    BY <1>0, <2>1 DEF Control
  <2>9. QED
    BY <2>7, <2>8
<1>12. ASSUME NEW c \in Clients, LinkFree(c) PROVE Control' /\ \E g, d : Hold(g, d)'
  <2>1. /\ cpc[c] = "link" /\ mem' = Link(mem, "free", c) /\ inHand' = inHand
        /\ cpc' = [cpc EXCEPT ![c] = "idle"]
        /\ lpc' = lpc \/ (lpc = "release" /\ lpc' \in {"dispatch", "restart"})
    BY <1>12 DEF LinkFree, Releasing
  <2>2. ~Shifted(c) /\ \A d \in Clients : Shifted(d)' <=> Shifted(d)
    BY <1>0, <2>1 DEF Shifted, Control
  <2>3. ~In(c, f) /\ ~In(c, b)
    BY <1>h, <2>1 DEF BelongsFree, BelongsBusy
  <2>4. /\ Holds(Clients, Lists, mem', "free", Append(f, c))
        /\ Holds(Clients, Lists, mem', "busy", b)
    BY <1>h, <2>1, <2>3, LinkHolds
  <2>5. \A x : In(x, Append(f, c)) <=> In(x, f) \/ x = c
    BY <1>h, <2>3, AppendItems
  <2>6. \A d \in Clients : /\ BelongsFree(d)' <=> BelongsFree(d) \/ d = c
                           /\ BelongsBusy(d)' <=> BelongsBusy(d)
    BY <1>0, <2>1, <2>2 DEF BelongsFree, BelongsBusy
  <2>7. Hold(Append(f, c), b)'
    BY <1>h, <2>4, <2>5, <2>6 DEF Hold
  <2>8. Control'
    BY <1>0, <2>1, <2>2 DEF Control, Shifted
  <2>9. QED
    BY <2>7, <2>8
<1>13. CASE UNCHANGED vars
  BY <1>0, <1>13 DEF vars, Control, BelongsFree, BelongsBusy, Shifted
<1>14. QED
  BY <1>1, <1>2, <1>3, <1>4, <1>5, <1>6, <1>7, <1>8, <1>9, <1>10, <1>11, <1>12, <1>13
  DEF Next, Accepting, Freeing

\* A sequence without repetition is one of the chains of ListsSound.
LEMMA SeqIsChain ==
  ASSUME NEW q \in Seq(Clients), Distinct(q)
  PROVE  q \in Chains
<1> DEFINE S == {q[k] : k \in 1 .. Len(q)}
<1>1. Len(q) \in Nat /\ S \in SUBSET Clients /\ q \in [1 .. Len(q) -> S]
  OBVIOUS
<1>2. q \in Bijection(1 .. Len(q), S)
  BY <1>1 DEF Bijection, Injection, Surjection, IsInjective, Distinct
<1>3. Cardinality(S) = Len(q)
  BY <1>1, <1>2, FS_CountingElements DEF ExistsBijection
<1>4. \A c \in S : In(c, q)
  BY DEF In
<1>5. q \in Orders(S)
  BY <1>1, <1>3, <1>4 DEF Orders
<1>6. QED
  BY <1>1, <1>5 DEF Chains

\* Until some client is released before it is on the busy list, the two lists are
\* sound and each client is on the one it belongs to, with any number of threads:
\* server_free_client and event_server_new_clients share them safely as long as a
\* client is linked before it is unlinked (server.c:170, 115).
THEOREM ListsAlwaysSound == Spec => []ListsSound
<1>1. ListsInv => ListsSound
  <2> SUFFICES ASSUME ~early, NEW f, NEW b, Hold(f, b)
               PROVE  ListsSound
    BY DEF ListsInv, ListsSound
  <2>1. f \in Chains /\ b \in Chains
    BY SeqIsChain DEF Hold, Holds
  <2>2. QED
    BY <2>1 DEF ListsSound, Hold, Holds
<1>2. QED
  BY <1>1, ListsInit, ListsStep, TypeAlways, PTL DEF Spec
=============================================================================
