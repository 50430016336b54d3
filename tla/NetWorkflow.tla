----------------------------- MODULE NetWorkflow -----------------------------
(***************************************************************************)
(* The net-enabled workflow of the Java programs (viewer/src/geostreams):  *)
(* SimpleWorkflow with its StreamServers, on one ServerConnection, behind  *)
(* the network interface of geostreams.workflow.                           *)
(*                                                                         *)
(* Each remote client has a thread that reads its commands                 *)
(* (DispatchRemoteClient).  Each request for a stream opens the stream and *)
(* starts a thread that reads it (StreamReaderThread); for every image the *)
(* observers of the stream look up its StreamServer, which sends the image *)
(* to its clients.  The methods of a RemoteClient that are synchronized    *)
(* share a monitor; NIManager has a monitor for removeClient.  Nothing     *)
(* else is locked: a step here is one call on a map, a list or a queue,    *)
(* or calls that no other thread can tell from one.                        *)
(*                                                                         *)
(* The images themselves, and the commands that only ask for information,  *)
(* have no state: a connection can fail, and a stream end, at any time.    *)
(***************************************************************************)
EXTENDS Integers, FiniteSets

CONSTANTS
  Clients,  \* the remote clients that connect, once each
  Streams,  \* the streams of the server
  Plans,    \* what they may ask for, and (bounds) which of them leave on their own and
            \* how many connections and streams fail
  NULL

ASSUME ClientsAssumption == IsFiniteSet(Clients)
ASSUME PlansAssumption == Plans \subseteq [asks : SUBSET (Clients \X Streams),
                                          leaves : SUBSET Clients, faults : Nat]

Requests == Clients \X Streams

\* The thread that reads the commands of c is <<c, NULL>>; the thread that reads the
\* stream s opened for c, like the StreamServer made for it, is <<c, s>>.
Dispatcher(c) == <<c, NULL>>
Dispatchers   == Clients \X {NULL}
Threads       == Dispatchers \cup Requests

ASSUME NullAssumption == NULL \notin Clients \cup Streams \cup Threads

VARIABLES
  plan,
  \* RemoteClient
  isActive, usable,    \* isActive; the socket and the object stream are there
  nis,                 \* the NewImageSequence has been made
  requestedStream,     \* the last stream asked for
  monitor,             \* the thread in its synchronized methods
  \* NIManager, SimpleWorkflow, ServerConnection
  manager,             \* the thread in removeClient
  clients,             \* the sum of incrClients
  streamServers,       \* stream -> StreamServer
  activeClients,       \* _activeClients of each StreamServer
  deadClients,         \* _deadClients of each StreamServer
  observers,           \* stream -> its queue of observers: none, empty, some in it
  holding,             \* threads with that queue in hand, not one removed before
  streamReaders,       \* stream -> the client whose request opened it last
  interrupted,         \* readers with their interrupt flag set
  \* threads
  pc,                  \* where a thread is
  who,                 \* the client it sends to or ends
  stream, server,      \* streamName and ssa or streamServer, its locals
  asked,               \* requestedStreams of each dispatcher
  reader,              \* the client of the reader it interrupts
  cli,                 \* its iterator over the clients of a StreamServer
  \* history
  announced,           \* clients whose first image chunk was the NewImageSequence
  garbled,             \* clients sent an image chunk before it, or a second one
  escaped,             \* <<t, k>>: an exception took t out of _end of k
  faults               \* bound: what may still fail

client   == <<isActive, usable, nis, requestedStream, monitor>>
queues   == <<observers, holding>>
workflow == <<manager, clients, streamServers, activeClients, deadClients, queues,
              streamReaders, interrupted>>
locals   == <<who, stream, server, asked, reader, cli>>
history  == <<announced, garbled, escaped>>
vars     == <<plan, client, workflow, pc, locals, history, faults>>

Iterator == [ahead : Clients \cup {NULL}, seen : SUBSET Clients]

Init ==
  /\ plan \in Plans
  /\ isActive = [c \in Clients |-> FALSE]
  /\ usable   = [c \in Clients |-> FALSE]
  /\ nis      = [c \in Clients |-> FALSE]
  /\ requestedStream = [c \in Clients |-> NULL]
  /\ monitor  = [c \in Clients |-> NULL]
  /\ manager = NULL
  /\ clients = 0
  /\ streamServers = [s \in Streams |-> NULL]
  /\ activeClients = [x \in Requests |-> {}]
  /\ deadClients   = [x \in Requests |-> {}]
  /\ observers     = [s \in Streams |-> "none"]
  /\ holding = {}
  /\ streamReaders = [s \in Streams |-> NULL]
  /\ interrupted = {}
  /\ pc     = [t \in Threads |-> "none"]
  /\ who    = [t \in Threads |-> t[1]]
  /\ stream = [t \in Threads |-> t[2]]
  /\ server = [t \in Threads |-> NULL]
  /\ asked  = [c \in Clients |-> {}]
  /\ reader = [t \in Threads |-> t[1]]
  /\ cli = [r \in Requests |-> [ahead |-> NULL, seen |-> {}]]
  /\ announced = {} /\ garbled = {} /\ escaped = {}
  /\ faults = plan.faults

\* Thread t is at a and goes on to b.
Step(t, a, b) == pc[t] = a /\ pc' = [pc EXCEPT ![t] = b]

\* ... and does not touch what is not its own, but for the pc.
Own == UNCHANGED <<plan, client, workflow, history>>

\* Something fails outside of the program.
Fault   == faults > 0 /\ faults' = faults - 1
NoFault == UNCHANGED faults

-----------------------------------------------------------------------------
(* RemoteClient *)

\* A thread comes back from _end to the call of isActive that follows its send; the thread
\* of the client to readLine, which then returns null, and to a close that does nothing.
Return(t) == IF t \in Requests THEN "again" ELSE "done"

\* Wrong on purpose: send is not synchronized.
SendUnsynchronized(r) ==
  LET k == who[r]
  IN /\ pc[r] = "send"
     /\ IF isActive[k]
          THEN /\ UNCHANGED monitor
               /\ Step(r, "send", IF nis[k] THEN "write" ELSE "sequence")
               /\ nis' = [nis EXCEPT ![k] = TRUE]
          ELSE Step(r, "send", "again") /\ UNCHANGED <<monitor, nis>>
  /\ UNCHANGED <<plan, isActive, usable, requestedStream, workflow, locals, history>>

\* send(chunk): an inactive client is sent nothing.  A reader sends images, the first as
\* the NewImageSequence made of it.
Send(r) ==
  LET k == who[r]
  IN /\ pc[r] = "send"
     /\ monitor[k] = NULL
     /\ IF isActive[k]
          THEN /\ monitor' = [monitor EXCEPT ![k] = r]
               /\ Step(r, "send", IF nis[k] THEN "write" ELSE "sequence")
               /\ nis' = [nis EXCEPT ![k] = TRUE]
          ELSE Step(r, "send", "again") /\ UNCHANGED <<monitor, nis>>
  /\ UNCHANGED <<plan, isActive, usable, requestedStream, workflow, locals, history>>

\* oos.writeObject and flush, done.
Write(r) ==
  LET k == who[r]
      first == pc[r] = "sequence"
  IN /\ \/ Step(r, "write", "again")
        \/ Step(r, "sequence", "again")
     /\ usable[k]
     /\ monitor' = [monitor EXCEPT ![k] = NULL]
     /\ announced' = IF first THEN announced \cup {k} ELSE announced
     /\ garbled' = IF first <=> k \in announced THEN garbled \cup {k} ELSE garbled
  /\ UNCHANGED <<plan, isActive, usable, nis, requestedStream, workflow, locals, escaped>>

\* They throw, or oos has been set to null meanwhile: _end, in the same monitor.
WriteFails(r) ==
  /\ \/ Step(r, "write", "end")
     \/ Step(r, "sequence", "end")
  /\ IF usable[who[r]] THEN Fault ELSE NoFault
  /\ Own /\ UNCHANGED locals

\* The thread of a client sends it replies: nothing but the client's end comes of them,
\* so that a reply and its failure are one step.
Reply(t) ==
  /\ monitor[t[1]] = NULL
  /\ \/ Step(t, "send", "read") /\ NoFault
     \/ Step(t, "send", "end") /\ isActive[t[1]] /\ Fault
  /\ Own /\ UNCHANGED locals

\* Wrong on purpose: _end does not look whether the client has been ended.
EndAgain(t) ==
  LET k == who[t]
  IN /\ monitor[k] \in {NULL, t}
     /\ Step(t, "end", "died")
     /\ monitor' = [monitor EXCEPT ![k] = t]
     /\ clients' = clients - 1
  /\ UNCHANGED <<plan, isActive, usable, nis, requestedStream, manager, streamServers,
                 activeClients, deadClients, queues, streamReaders, interrupted,
                 locals, history>>

\* _end(ex): once for each client.  The observer's clientDied counts it.
End(t) ==
  LET k == who[t]
  IN /\ monitor[k] \in {NULL, t}
     /\ IF isActive[k]
          THEN /\ Step(t, "end", "died")
               /\ monitor' = [monitor EXCEPT ![k] = t]
               /\ clients' = clients - 1
          ELSE /\ Step(t, "end", Return(t))
               /\ monitor' = [monitor EXCEPT ![k] = NULL]
               /\ UNCHANGED clients
  /\ UNCHANGED <<plan, isActive, usable, nis, requestedStream, manager, streamServers,
                 activeClients, deadClients, queues, streamReaders, interrupted,
                 locals, history>>

\* Wrong on purpose: the client is passed where its stream should be.
RemoveClientItself(t) ==
  LET s == requestedStream[who[t]]
      x == IF s = NULL THEN NULL ELSE streamServers[s]
  IN /\ manager = NULL
     /\ Step(t, "died", IF s = NULL THEN "ended" ELSE "unobserve")
     /\ manager' = t
     /\ stream' = [stream EXCEPT ![t] = who[t]]
     /\ activeClients' = IF x = NULL THEN activeClients
                         ELSE [activeClients EXCEPT ![x] = @ \ {who[t]}]
  /\ UNCHANGED <<plan, client, clients, streamServers, deadClients, queues,
                 streamReaders, interrupted, who, server, asked, reader, cli, history>>

\* NIManager.removeClient, and in it SimpleWorkflow.removeRemoteClient as far as
\* interruptStream.
RemoveClient(t) ==
  LET s == requestedStream[who[t]]
      x == IF s = NULL THEN NULL ELSE streamServers[s]
  IN /\ manager = NULL
     /\ Step(t, "died", IF s = NULL THEN "ended" ELSE "unobserve")
     /\ manager' = t
     /\ stream' = [stream EXCEPT ![t] = s]
     /\ activeClients' = IF x = NULL THEN activeClients
                         ELSE [activeClients EXCEPT ![x] = @ \ {who[t]}]
  /\ UNCHANGED <<plan, client, clients, streamServers, deadClients, queues,
                 streamReaders, interrupted, who, server, asked, reader, cli, history>>

\* The rest of _end: the monitors are left, the client is inactive and its socket closed.
Ended(t) ==
  LET k == who[t]
  IN /\ Step(t, "ended", Return(t))
     /\ manager' = NULL
     /\ isActive' = [isActive EXCEPT ![k] = FALSE]
     /\ usable'   = [usable EXCEPT ![k] = FALSE]
     /\ monitor'  = [monitor EXCEPT ![k] = NULL]
     /\ stream'   = [stream EXCEPT ![t] = t[2]]
  /\ UNCHANGED <<plan, nis, requestedStream, clients, streamServers, activeClients,
                 deadClients, queues, streamReaders, interrupted, who, server, asked,
                 reader, cli, history>>

-----------------------------------------------------------------------------
(* ServerConnection.interruptStream, and StreamReaderThread.interrupt *)

\* _removeObservers takes the queue from the map, and empties it for who has it in hand.
Unobserve(t) ==
  /\ Step(t, "unobserve", "interrupt")
  /\ observers' = [observers EXCEPT ![stream[t]] = "none"]
  /\ holding' = {u \in holding : stream[u] # stream[t]}
  /\ UNCHANGED <<plan, client, manager, clients, streamServers, activeClients,
                 deadClients, streamReaders, interrupted, locals, history>>

\* interruptStream returns: into removeClient, or to the observers of the image.
Back(t) ==
  /\ pc' = [pc EXCEPT ![t] = IF manager = t THEN "ended" ELSE "observer"]
  /\ server' = IF manager = t THEN server ELSE [server EXCEPT ![t] = NULL]
  /\ reader' = [reader EXCEPT ![t] = t[1]]

Interrupt(t) ==
  LET c == streamReaders[stream[t]]
  IN /\ pc[t] = "interrupt"
     /\ IF c = NULL
          THEN Back(t)
          ELSE /\ pc' = [pc EXCEPT ![t] = "look"]
               /\ reader' = [reader EXCEPT ![t] = c]
               /\ UNCHANGED server
  /\ UNCHANGED <<plan, client, workflow, who, stream, asked, cli, history>>

\* notifyReaderFinished is called before and after the flag is set, and gets the queue
\* each time ...
Look(t) ==
  /\ \/ pc[t] = "look"
     \/ pc[t] = "lookAgain"
  /\ IF observers[stream[t]] # "none"
       THEN /\ pc' = [pc EXCEPT ![t] = IF @ = "look" THEN "tell" ELSE "tellAgain"]
            /\ holding' = holding \cup {t}
            /\ UNCHANGED <<server, reader>>
       ELSE /\ UNCHANGED holding
            /\ IF pc[t] = "look"
                 THEN pc' = [pc EXCEPT ![t] = "flag"] /\ UNCHANGED <<server, reader>>
                 ELSE Back(t)
  /\ UNCHANGED <<plan, client, manager, clients, streamServers, activeClients, deadClients,
                 observers, streamReaders, interrupted, who, stream, asked, cli, history>>

\* ... to tell the observers in it, which all want to be removed.
Told(t) == t \in holding /\ observers[stream[t]] = "some"

Tell(t) ==
  /\ \/ pc[t] = "tell" /\ pc' = [pc EXCEPT ![t] = "flag"] /\ UNCHANGED <<server, reader>>
     \/ pc[t] = "tellAgain" /\ Back(t)
  /\ observers' = IF Told(t) THEN [observers EXCEPT ![stream[t]] = "empty"] ELSE observers
  /\ holding' = holding \ {t}
  /\ UNCHANGED <<plan, client, manager, clients, streamServers, activeClients,
                 deadClients, streamReaders, interrupted, who, stream, asked, cli, history>>

\* With none to tell, removeAll is called with null.  It throws if an observer has been
\* added meanwhile, and in later libraries always.  A client being ended stays active;
\* the thread leaves the monitors and ends, a reader by way of its catch.
Throw(t) ==
  /\ pc[t] \in {"tell", "tellAgain"}
  /\ ~Told(t)
  /\ pc' = [pc EXCEPT ![t] = IF t \in Requests THEN "thrown" ELSE "done"]
  /\ holding' = holding \ {t}
  /\ IF manager = t
       THEN /\ manager' = NULL
            /\ monitor' = [monitor EXCEPT ![who[t]] = NULL]
            /\ escaped' = escaped \cup {<<t, who[t]>>}
       ELSE UNCHANGED <<manager, monitor, escaped>>
  /\ who'    = [who    EXCEPT ![t] = t[1]]
  /\ stream' = [stream EXCEPT ![t] = t[2]]
  /\ server' = [server EXCEPT ![t] = NULL]
  /\ reader' = [reader EXCEPT ![t] = t[1]]
  /\ cli' = [r \in Requests |-> IF r = t THEN [ahead |-> NULL, seen |-> {}] ELSE cli[r]]
  /\ UNCHANGED <<plan, isActive, usable, nis, requestedStream, clients, streamServers,
                 activeClients, deadClients, observers, streamReaders, interrupted, asked,
                 announced, garbled>>

\* A reader that is not alive gets no flag.  The close at the end of interrupt is not a
\* step: of a stream that has not been opened it does nothing, and of another one it is
\* seen when the reader fails.
Flag(t) ==
  LET r == <<reader[t], stream[t]>>
  IN /\ Step(t, "flag", "lookAgain")
     /\ interrupted' = IF pc[r] \in {"new", "over"} THEN interrupted
                       ELSE interrupted \cup {r}
  /\ UNCHANGED <<plan, client, manager, clients, streamServers, activeClients, deadClients,
                 queues, streamReaders, locals, history>>

-----------------------------------------------------------------------------
(* NIServer and DispatchRemoteClient *)

\* clientAccepted.  The constructor of RemoteClient may fail: _end then does nothing.
Accept(c) ==
  /\ \E s \in Streams : <<c, s>> \in plan.asks
  /\ Step(Dispatcher(c), "none", "read")
  /\ clients' = clients + 1
  /\ \E made \in BOOLEAN : /\ isActive' = [isActive EXCEPT ![c] = made]
                           /\ usable'   = [usable EXCEPT ![c] = made]
                           /\ IF made THEN NoFault ELSE Fault
  /\ UNCHANGED <<plan, nis, requestedStream, monitor, manager, streamServers,
                 activeClients, deadClients, queues, streamReaders, interrupted,
                 locals, history>>

\* readLine returns null, at the end of the client's stream if it is still active, or
\* "bye": close, which takes the streams away first.
Leave(t) ==
  LET c == t[1]
  IN /\ isActive[c] => c \in plan.leaves
     /\ Step(t, "read", IF isActive[c] THEN "end" ELSE "done")
     /\ usable' = [usable EXCEPT ![c] = FALSE]
     /\ UNCHANGED <<plan, isActive, nis, requestedStream, monitor, workflow, history,
                    locals>>

\* readLine throws: _end, and then close finds the client inactive.
ReadFails(t) ==
  /\ isActive[t[1]]
  /\ Step(t, "read", "end")
  /\ Fault
  /\ Own /\ UNCHANGED locals

\* A command that is answered at once, getStream for a stream asked for before included,
\* waits in send.
Command(t) ==
  /\ isActive[t[1]] /\ monitor[t[1]] # NULL
  /\ Step(t, "read", "send")
  /\ Own /\ UNCHANGED locals

GetStream(t) ==
  \E s \in Streams \ asked[t[1]] :
    /\ isActive[t[1]]
    /\ <<t[1], s>> \in plan.asks
    /\ Step(t, "read", "lookup")
    /\ requestedStream' = [requestedStream EXCEPT ![t[1]] = s]
    /\ stream' = [stream EXCEPT ![t] = s]
    /\ UNCHANGED <<plan, isActive, usable, nis, monitor, workflow, history, who,
                   server, asked, reader, cli>>

-----------------------------------------------------------------------------
(* SimpleWorkflow.addRemoteClient, in the thread of the client *)

\* Wrong on purpose: sendStreamToRemoteClient is synchronized, like removeClient.
LookupSynchronized(t) ==
  LET x == streamServers[stream[t]]
  IN /\ manager = NULL
     /\ manager' = t
     /\ Step(t, "lookup", IF x = NULL THEN "put" ELSE "observe")
     /\ server' = [server EXCEPT ![t] = x]
  /\ UNCHANGED <<plan, client, clients, streamServers, activeClients, deadClients, queues,
                 streamReaders, interrupted, who, stream, asked, reader, cli, history>>

Lookup(t) ==
  LET x == streamServers[stream[t]]
  IN /\ Step(t, "lookup", IF x = NULL THEN "put" ELSE "observe")
     /\ server' = [server EXCEPT ![t] = x]
  /\ Own /\ UNCHANGED <<who, stream, asked, reader, cli>>

Put(t) ==
  LET x == <<t[1], stream[t]>>
  IN /\ Step(t, "put", "observe")
     /\ server' = [server EXCEPT ![t] = x]
     /\ streamServers' = [streamServers EXCEPT ![stream[t]] = x]
  /\ UNCHANGED <<plan, client, manager, clients, activeClients, deadClients, queues,
                 streamReaders, interrupted, who, stream, asked, reader, cli, history>>

Observe(t) ==
  /\ Step(t, "observe", "open")
  /\ observers' = [observers EXCEPT ![stream[t]] = "some"]
  /\ UNCHANGED <<plan, client, manager, clients, streamServers, activeClients,
                 deadClients, holding, streamReaders, interrupted, locals, history>>

\* openStream throws, and the thread ends without closing its client; or the opener
\* returns null, for a format it does not know.
OpenFails(t) ==
  /\ \/ Step(t, "open", "done")
     \/ Step(t, "open", "add")
  /\ Fault
  /\ Own /\ UNCHANGED locals

Open(t) ==
  LET r == <<t[1], stream[t]>>
  IN /\ pc[t] = "open"
     /\ pc' = [pc EXCEPT ![t] = "start", ![r] = "new"]
     /\ streamReaders' = [streamReaders EXCEPT ![stream[t]] = t[1]]
  /\ UNCHANGED <<plan, client, manager, clients, streamServers, activeClients,
                 deadClients, queues, interrupted, locals, history>>

Start(t) ==
  /\ pc[t] = "start"
  /\ pc' = [pc EXCEPT ![t] = "add", ![<<t[1], stream[t]>>] = "begin"]
  /\ Own /\ UNCHANGED locals

\* ssa.addRemoteClient, and requestedStreams.add when it has returned.
Add(t) ==
  /\ Step(t, "add", "send")
  /\ activeClients' = [activeClients EXCEPT ![server[t]] = @ \cup {t[1]}]
  /\ asked' = [asked EXCEPT ![t[1]] = @ \cup {stream[t]}]
  /\ server' = [server EXCEPT ![t] = NULL]
  /\ stream' = [stream EXCEPT ![t] = NULL]
  /\ UNCHANGED <<plan, client, manager, clients, streamServers, deadClients, queues,
                 streamReaders, interrupted, who, reader, cli, history>>

-----------------------------------------------------------------------------
(* StreamReaderThread, and the observers it calls *)

\* What an iterator over a concurrent queue may fetch next, when it has fetched seen.
Following(members, seen) == IF members \subseteq seen THEN {NULL} ELSE members \ seen

Fresh == [ahead |-> NULL, seen |-> {}]

Fetch(iterator, members) ==
  LET seen == iterator.seen \cup {iterator.ahead}
  IN {IF k = NULL THEN Fresh ELSE [ahead |-> k, seen |-> seen \ {NULL}] :
        k \in Following(members, seen)}

\* The loop of _run is left at the flag.
Looping(r) == IF r \in interrupted THEN "finish" ELSE "loop"

\* startReading
Begin(r) ==
  /\ Step(r, "begin", Looping(r))
  /\ Own /\ UNCHANGED locals

\* nextImage comes to the end of the stream, its own or, when interrupted, by the close.
Finishing(r) ==
  /\ Step(r, "loop", "finish")
  /\ IF r \in interrupted THEN NoFault ELSE Fault
  /\ Own /\ UNCHANGED locals

\* Every observer that the stream has by now wants to be removed.
NoneLeft(s) == observers' = IF observers[s] = "some" THEN [observers EXCEPT ![s] = "empty"]
                            ELSE observers

\* startReading or nextImage throws, or an observer did: connectionException.
Failing(r) ==
  /\ \/ /\ Step(r, "begin", "finish") \/ Step(r, "loop", "finish")
        /\ IF r \in interrupted THEN NoFault ELSE Fault
     \/ Step(r, "thrown", "finish") /\ NoFault
  /\ NoneLeft(r[2])
  /\ UNCHANGED <<plan, client, manager, clients, streamServers, activeClients,
                 deadClients, holding, streamReaders, interrupted, locals, history>>

\* readerFinished: with nobody to tell it may throw as in interrupt, but the thread, which
\* holds nothing, is over with the call either way.
Finish(r) ==
  /\ Step(r, "finish", "over")
  /\ NoneLeft(r[2])
  /\ interrupted' = interrupted \ {r}
  /\ UNCHANGED <<plan, client, manager, clients, streamServers, activeClients,
                 deadClients, holding, streamReaders, locals, history>>

\* nextImage, and notifyNewImage.
NextImage(r) ==
  /\ observers[r[2]] = "some"
  /\ Step(r, "loop", "observer")
  /\ Own /\ UNCHANGED locals

\* newImage of an observer looks up the StreamServer.  How many observers the loop has
\* still to call is not kept: they do the same, so that it goes on or it is over.
NextObserver(r) ==
  LET x == streamServers[r[2]]
  IN /\ Step(r, "observer", IF x = NULL THEN "observer" ELSE "count")
     /\ server' = [server EXCEPT ![r] = x]
  /\ Own /\ UNCHANGED <<who, stream, asked, reader, cli>>

LastObserver(r) ==
  /\ Step(r, "observer", Looping(r))
  /\ Own /\ UNCHANGED locals

\* StreamServer.notifyNewImage
Count(r) ==
  LET x == server[r]
  IN /\ pc[r] = "count"
     /\ IF activeClients[x] = {}
          THEN Step(r, "count", "idle") /\ UNCHANGED <<deadClients, cli>>
          ELSE /\ Step(r, "count", "client")
               /\ deadClients' = [deadClients EXCEPT ![x] = {}]
               /\ \E i \in Fetch(Fresh, activeClients[x]) : cli' = [cli EXCEPT ![r] = i]
     /\ UNCHANGED <<plan, client, manager, clients, streamServers, activeClients, queues,
                    streamReaders, interrupted, who, stream, server, asked, reader, history>>

\* The next client is asked whether it is active, sent the image if it is, and asked again.
NextClient(r) ==
  LET k == cli[r].ahead
  IN /\ pc[r] = "client"
     /\ IF k = NULL
          THEN Step(r, "client", "tally") /\ UNCHANGED <<who, cli>>
          ELSE /\ monitor[k] = NULL
               /\ Step(r, "client", IF isActive[k] THEN "send" ELSE "again")
               /\ who' = [who EXCEPT ![r] = k]
               /\ \E i \in Fetch(cli[r], activeClients[server[r]]) : cli' = [cli EXCEPT ![r] = i]
     /\ Own /\ UNCHANGED <<stream, server, asked, reader>>

\* Wrong on purpose: every client is put on the list of dead ones.
AgainUnasked(r) ==
  /\ monitor[who[r]] = NULL
  /\ Step(r, "again", "client")
  /\ deadClients' = [deadClients EXCEPT ![server[r]] = @ \cup {who[r]}]
  /\ UNCHANGED <<plan, client, manager, clients, streamServers, activeClients, queues,
                 streamReaders, interrupted, locals, history>>

Again(r) ==
  /\ monitor[who[r]] = NULL
  /\ Step(r, "again", "client")
  /\ deadClients' = IF isActive[who[r]] THEN deadClients
                    ELSE [deadClients EXCEPT ![server[r]] = @ \cup {who[r]}]
  /\ UNCHANGED <<plan, client, manager, clients, streamServers, activeClients, queues,
                 streamReaders, interrupted, locals, history>>

Tally(r) ==
  LET x == server[r]
      remaining == activeClients[x] \ deadClients[x]
  IN /\ Step(r, "tally", IF remaining = {} THEN "idle" ELSE "observer")
     /\ activeClients' = [activeClients EXCEPT ![x] = remaining]
     /\ who' = [who EXCEPT ![r] = r[1]]
     /\ server' = IF remaining = {} THEN server ELSE [server EXCEPT ![r] = NULL]
  /\ UNCHANGED <<plan, client, manager, clients, streamServers, deadClients, queues,
                 streamReaders, interrupted, stream, asked, reader, cli, history>>

\* notifyNewImage returned false: no more StreamServer, and interruptStream.
Idle(r) ==
  /\ Step(r, "idle", "unobserve")
  /\ streamServers' = [streamServers EXCEPT ![r[2]] = NULL]
  /\ stream' = [stream EXCEPT ![r] = r[2]]
  /\ UNCHANGED <<plan, client, manager, clients, activeClients, deadClients, queues,
                 streamReaders, interrupted, who, server, asked, reader, cli, history>>

-----------------------------------------------------------------------------
Dispatch(c) ==
  LET t == Dispatcher(c)
  IN \/ ReadFails(t) \/ OpenFails(t) \/ Reply(t)
     \/ NoFault /\ \/ Leave(t) \/ Command(t) \/ GetStream(t) \/ Lookup(t)
                   \/ Put(t) \/ Observe(t) \/ Open(t) \/ Start(t) \/ Add(t)

Read(r) == \/ Finishing(r) \/ Failing(r) \/ WriteFails(r)
           \/ NoFault /\ \/ Begin(r) \/ Finish(r) \/ NextImage(r) \/ NextObserver(r) \/ LastObserver(r)
                         \/ Count(r) \/ NextClient(r) \/ Send(r) \/ Write(r) \/ Again(r)
                         \/ Tally(r) \/ Idle(r)

\* What both kinds of threads call.
Call(t) == \/ End(t) \/ RemoveClient(t) \/ Ended(t) \/ Unobserve(t) \/ Interrupt(t)
           \/ Look(t) \/ Tell(t) \/ Throw(t) \/ Flag(t)

Next == \/ \E c \in Clients : Accept(c) \/ Dispatch(c)
        \/ \E r \in Requests : Read(r)
        \/ NoFault /\ \E t \in Threads : Call(t)

Spec == Init /\ [][Next]_vars

-----------------------------------------------------------------------------
(* properties *)

Places == {"none", "read", "done", "lookup", "put", "observe", "open", "start", "add",
           "new", "begin", "loop", "finish", "over", "observer", "count", "client", "tally",
           "idle", "send", "write", "sequence", "again", "end", "died", "ended", "thrown",
           "unobserve", "interrupt", "look", "tell", "flag", "lookAgain", "tellAgain"}

TypeOK ==
  /\ plan \in Plans
  /\ isActive \in [Clients -> BOOLEAN] /\ usable \in [Clients -> BOOLEAN]
  /\ nis \in [Clients -> BOOLEAN]
  /\ requestedStream \in [Clients -> Streams \cup {NULL}]
  /\ monitor \in [Clients -> Threads \cup {NULL}]
  /\ manager \in Threads \cup {NULL}
  /\ clients \in Int
  /\ streamServers \in [Streams -> Requests \cup {NULL}]
  /\ activeClients \in [Requests -> SUBSET Clients]
  /\ deadClients \in [Requests -> SUBSET Clients]
  /\ observers \in [Streams -> {"none", "empty", "some"}]
  /\ holding \subseteq Threads
  /\ streamReaders \in [Streams -> Clients \cup {NULL}]
  /\ interrupted \subseteq Requests
  /\ pc \in [Threads -> Places]
  /\ who \in [Threads -> Clients]
  /\ stream \in [Threads -> Streams \cup {NULL}]
  /\ server \in [Threads -> Requests \cup {NULL}]
  /\ asked \in [Clients -> SUBSET Streams]
  /\ reader \in [Threads -> Clients]
  /\ cli \in [Requests -> Iterator]
  /\ faults \in Nat
  /\ announced \subseteq Clients /\ garbled \subseteq Clients
  /\ escaped \subseteq Threads \X Clients

\* A thread in interruptStream; one in _end after its test.
Interrupting == {"unobserve", "interrupt", "look", "tell", "flag", "lookAgain", "tellAgain"}
Ending(t) == \/ pc[t] \in {"died", "ended"}
             \/ pc[t] \in Interrupting /\ manager = t

\* clientDied has been called for k, whose monitor is kept until k is inactive.
BeingEnded(k) == monitor[k] # NULL /\ Ending(monitor[k])

\* The thread, other than itself, that t waits for.
WaitsFor(t) ==
  LET inMonitorOf(k) == {monitor[k]} \ {NULL, t}
  IN CASE pc[t] \in {"send", "end", "again"} -> inMonitorOf(who[t])
       [] pc[t] = "client" /\ cli[t].ahead \in Clients -> inMonitorOf(cli[t].ahead)
       [] pc[t] = "died" -> {manager} \ {NULL}
       [] OTHER -> {}

\* The synchronized methods of the clients and of NIManager call each other both ways:
\* send, in _end, calls removeClient, and the readers that are interrupted from there
\* are themselves in send.  No threads ever wait for each other in a circle.
Waiting == {t \in Threads : WaitsFor(t) # {}}
NoDeadlock == \A ts \in (SUBSET Waiting) \ {{}} : \E t \in ts : WaitsFor(t) \cap ts = {}

\* "so, we're just to start sending images": whatever readers send to a client at a time,
\* what it gets is one NewImageSequence and then images, none before and no second one,
\* unless an exception kept _end from closing a client that could not be written to.
OneSequenceFirst == garbled \subseteq {x[2] : x \in escaped}

\* clientDied counts a client once, whether its own thread ends it, or readers that fail to
\* write to it, or all of them: incrClients falls below the number of the clients that are
\* served by no more than the times an exception left a client active, counted off
\* already, and each of those costs one at most although the client is ended once more.
Served == {k \in Clients : isActive[k] /\ ~BeingEnded(k)}
CountCoversServed == Cardinality(Served) <= clients + Cardinality(escaped)

\* _activeClients loses no client that is served: neither to the list of dead clients,
\* which the readers of a stream share and clear in turn, nor when another one leaves.
OnlyTheDeadLeave ==
  [][\A x \in Requests : \A k \in activeClients[x] \ activeClients'[x] :
       BeingEnded(k) \/ ~isActive[k]]_vars
=============================================================================
