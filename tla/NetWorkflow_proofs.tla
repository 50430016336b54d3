------------------------ MODULE NetWorkflow_proofs -------------------------
(***************************************************************************)
(* Proofs about the workflow, for any number of clients and streams and    *)
(* any bound on what fails.                                                *)
(***************************************************************************)
EXTENDS NetWorkflow, FiniteSetTheorems, TLAPS

-----------------------------------------------------------------------------
(* Threads *)

LEMMA ThreadNames ==
  /\ \A c \in Clients : /\ Dispatcher(c) \in Dispatchers \ Requests
                        /\ Dispatcher(c)[1] = c
                        /\ \A d \in Clients : Dispatcher(c) = Dispatcher(d) => c = d
  /\ \A t \in Threads : t[1] \in Clients /\ t[2] \in Streams \cup {NULL}
  /\ \A r \in Requests : r[1] \in Clients /\ r[2] \in Streams /\ r = <<r[1], r[2]>>
  /\ NULL \notin Threads /\ NULL \notin Clients /\ NULL \notin Streams
BY NullAssumption DEF Dispatcher, Dispatchers, Requests, Threads

LEMMA Fetched ==
  ASSUME NEW i \in Iterator, NEW members \in SUBSET Clients, NEW j \in Fetch(i, members)
  PROVE  /\ j \in Iterator
         /\ j.ahead # NULL => j.ahead \in members
<1>1. NULL \notin Clients
  BY ThreadNames
<1>2. QED
  BY <1>1 DEF Iterator, Fetch, Following, Fresh

LEMMA FreshIterator == Fresh \in Iterator
BY DEF Fresh, Iterator

-----------------------------------------------------------------------------
(* Types *)

\* Where a thread has a stream in hand, and where a reader is before it runs: made by the
\* dispatcher of its client, once.
Fetching == {"lookup", "put", "observe", "open", "start", "add"}
Naming   == Fetching \cup Interrupting

StreamInHand == \A t \in Threads : pc[t] \in Naming => stream[t] \in Streams

\* Where a reader has a StreamServer in hand.
InServer == {"count", "client", "tally", "idle", "send", "write", "sequence", "again", "end",
             "died", "ended"} \cup Interrupting

ServerInHand == \A r \in Requests : pc[r] \in InServer => server[r] \in Requests

NewReader(c) ==
  LET d == Dispatcher(c)
  IN /\ pc[d] \in Fetching => stream[d] \notin asked[c]
     /\ pc[d] = "start" => pc[<<c, stream[d]>>] = "new"
     /\ \A s \in Streams :
          /\ pc[<<c, s>>] = "new" => pc[d] = "start" /\ stream[d] = s
          /\ pc[<<c, s>>] # "none" => \/ s \in asked[c]
                                      \/ pc[d] \in {"start", "add"} /\ stream[d] = s

NewReaders == \A c \in Clients : NewReader(c)

TypeInv == TypeOK /\ StreamInHand /\ ServerInHand

LEMMA TypeInit ==
  ASSUME Init
  PROVE  TypeInv
<1>1. plan.faults \in Nat
  BY PlansAssumption DEF Init
<1>2. \A t \in Threads : t[1] \in Clients /\ t[2] \in Streams \cup {NULL}
  BY ThreadNames
<1>3. Fresh \in Iterator /\ Fresh = [ahead |-> NULL, seen |-> {}]
  BY FreshIterator DEF Fresh
<1>4. TypeOK
  BY <1>1, <1>2, <1>3 DEF Init, TypeOK, Places
<1>5. StreamInHand
  BY DEF Init, StreamInHand, Naming, Fetching, Interrupting
<1>6. ServerInHand
  BY DEF Init, ServerInHand, InServer, Interrupting, Threads
<1>7. QED
  BY <1>4, <1>5, <1>6 DEF TypeInv

\* What a step of interruptStream does that returns, as far as its locals and the pc go.
Passing(t) == Interrupt(t) \/ Look(t) \/ Tell(t) \/ Flag(t)

Passed(t) ==
  /\ pc[t] \in Interrupting
  /\ \/ /\ \E p \in Interrupting : pc' = [pc EXCEPT ![t] = p]
        /\ server' = server
     \/ manager = t /\ pc' = [pc EXCEPT ![t] = "ended"] /\ server' = server
     \/ manager # t /\ pc' = [pc EXCEPT ![t] = "observer"] /\ server' = [server EXCEPT ![t] = NULL]
  /\ UNCHANGED <<plan, client, manager, clients, streamServers, activeClients, deadClients,
                 streamReaders, who, stream, asked, cli, history>>

LEMMA Passes ==
  ASSUME NEW t \in Threads, Passing(t)
  PROVE  Passed(t)
<1>1. CASE Interrupt(t)
  BY <1>1 DEF Interrupt, Back, Passed, Interrupting, workflow
<1>2. CASE Look(t)
  BY <1>2 DEF Look, Back, Passed, Interrupting
<1>3. CASE Tell(t)
  BY <1>3 DEF Tell, Back, Passed, Interrupting
<1>4. CASE Flag(t)
  BY <1>4 DEF Flag, Step, Passed, Interrupting, locals
<1>5. QED
  BY <1>1, <1>2, <1>3, <1>4 DEF Passing

\* What the actions of a single thread do to the pc.
Goes(t, from, to) == pc[t] \in from /\ \E p \in to : pc' = [pc EXCEPT ![t] = p]

LEMMA Outcomes ==
  ASSUME NEW t \in Threads
  PROVE  /\ ReadFails(t) => Goes(t, {"read"}, {"end"})
         /\ OpenFails(t) => Goes(t, {"open"}, {"done", "add"})
         /\ Reply(t) => Goes(t, {"send"}, {"read", "end"})
         /\ Leave(t) => Goes(t, {"read"}, {"end", "done"})
         /\ Command(t) => Goes(t, {"read"}, {"send"})
         /\ GetStream(t) => Goes(t, {"read"}, {"lookup"})
         /\ Lookup(t) => Goes(t, {"lookup"}, {"put", "observe"})
         /\ Put(t) => Goes(t, {"put"}, {"observe"})
         /\ Observe(t) => Goes(t, {"observe"}, {"open"})
         /\ Add(t) => Goes(t, {"add"}, {"send"})
         /\ Finishing(t) => Goes(t, {"loop"}, {"finish"})
         /\ Failing(t) => Goes(t, {"begin", "loop", "thrown"}, {"finish"})
         /\ WriteFails(t) => Goes(t, {"write", "sequence"}, {"end"})
         /\ Begin(t) => Goes(t, {"begin"}, {"loop", "finish"})
         /\ Finish(t) => Goes(t, {"finish"}, {"over"})
         /\ NextImage(t) => Goes(t, {"loop"}, {"observer"})
         /\ NextObserver(t) => Goes(t, {"observer"}, {"observer", "count"})
         /\ LastObserver(t) => Goes(t, {"observer"}, {"loop", "finish"})
         /\ Count(t) => Goes(t, {"count"}, {"idle", "client"})
         /\ NextClient(t) => Goes(t, {"client"}, {"tally", "send", "again"})
         /\ Send(t) => Goes(t, {"send"}, {"write", "sequence", "again"})
         /\ Write(t) => Goes(t, {"write", "sequence"}, {"again"})
         /\ Again(t) => Goes(t, {"again"}, {"client"})
         /\ Tally(t) => Goes(t, {"tally"}, {"idle", "observer"})
         /\ Idle(t) => Goes(t, {"idle"}, {"unobserve"})
         /\ End(t) => Goes(t, {"end"}, {"died", Return(t)})
         /\ RemoveClient(t) => Goes(t, {"died"}, {"ended", "unobserve"})
         /\ Ended(t) => Goes(t, {"ended"}, {Return(t)})
         /\ Unobserve(t) => Goes(t, {"unobserve"}, {"interrupt"})
         /\ Passing(t) => Goes(t, Interrupting, Interrupting \cup {"ended", "observer"})
         /\ Throw(t) => Goes(t, {"tell", "tellAgain"}, {"thrown", "done"})
<1>1. ReadFails(t) => Goes(t, {"read"}, {"end"})
  BY DEF ReadFails, Goes, Step
<1>2. OpenFails(t) => Goes(t, {"open"}, {"done", "add"})
  BY DEF OpenFails, Goes, Step
<1>3. Reply(t) => Goes(t, {"send"}, {"read", "end"})
  BY DEF Reply, Goes, Step
<1>4. Leave(t) => Goes(t, {"read"}, {"end", "done"})
  BY DEF Leave, Goes, Step
<1>5. Command(t) => Goes(t, {"read"}, {"send"})
  BY DEF Command, Goes, Step
<1>6. GetStream(t) => Goes(t, {"read"}, {"lookup"})
  BY DEF GetStream, Goes, Step
<1>7. Lookup(t) => Goes(t, {"lookup"}, {"put", "observe"})
  BY DEF Lookup, Goes, Step
<1>8. Put(t) => Goes(t, {"put"}, {"observe"})
  BY DEF Put, Goes, Step
<1>9. Observe(t) => Goes(t, {"observe"}, {"open"})
  BY DEF Observe, Goes, Step
<1>10. Add(t) => Goes(t, {"add"}, {"send"})
  BY DEF Add, Goes, Step
<1>11. Finishing(t) => Goes(t, {"loop"}, {"finish"})
  BY DEF Finishing, Goes, Step
<1>12. Failing(t) => Goes(t, {"begin", "loop", "thrown"}, {"finish"})
  BY DEF Failing, Goes, Step
<1>13. WriteFails(t) => Goes(t, {"write", "sequence"}, {"end"})
  BY DEF WriteFails, Goes, Step
<1>14. Begin(t) => Goes(t, {"begin"}, {"loop", "finish"})
  BY DEF Begin, Goes, Step, Looping
<1>15. Finish(t) => Goes(t, {"finish"}, {"over"})
  BY DEF Finish, Goes, Step
<1>16. NextImage(t) => Goes(t, {"loop"}, {"observer"})
  BY DEF NextImage, Goes, Step
<1>17. NextObserver(t) => Goes(t, {"observer"}, {"observer", "count"})
  BY DEF NextObserver, Goes, Step
<1>18. LastObserver(t) => Goes(t, {"observer"}, {"loop", "finish"})
  BY DEF LastObserver, Goes, Step, Looping
<1>19. Count(t) => Goes(t, {"count"}, {"idle", "client"})
  BY DEF Count, Goes, Step
<1>20. NextClient(t) => Goes(t, {"client"}, {"tally", "send", "again"})
  BY DEF NextClient, Goes, Step
<1>21. Send(t) => Goes(t, {"send"}, {"write", "sequence", "again"})
  BY DEF Send, Goes, Step
<1>22. Write(t) => Goes(t, {"write", "sequence"}, {"again"})
  BY DEF Write, Goes, Step
<1>23. Again(t) => Goes(t, {"again"}, {"client"})
  BY DEF Again, Goes, Step
<1>24. Tally(t) => Goes(t, {"tally"}, {"idle", "observer"})
  BY DEF Tally, Goes, Step
<1>25. Idle(t) => Goes(t, {"idle"}, {"unobserve"})
  BY DEF Idle, Goes, Step
<1>26. End(t) => Goes(t, {"end"}, {"died", Return(t)})
  BY DEF End, Goes, Step
<1>27. RemoveClient(t) => Goes(t, {"died"}, {"ended", "unobserve"})
  BY DEF RemoveClient, Goes, Step
<1>28. Ended(t) => Goes(t, {"ended"}, {Return(t)})
  BY DEF Ended, Goes, Step
<1>29. Unobserve(t) => Goes(t, {"unobserve"}, {"interrupt"})
  BY DEF Unobserve, Goes, Step
<1>30. Passing(t) => Goes(t, Interrupting, Interrupting \cup {"ended", "observer"})
  BY Passes DEF Passed, Goes
<1>31. Throw(t) => Goes(t, {"tell", "tellAgain"}, {"thrown", "done"})
  BY DEF Throw, Goes
<1>32. QED
  BY <1>1, <1>2, <1>3, <1>4, <1>5, <1>6, <1>7, <1>8, <1>9, <1>10, <1>11, <1>12, <1>13, <1>14, <1>15,
     <1>16, <1>17, <1>18, <1>19, <1>20, <1>21, <1>22, <1>23, <1>24, <1>25, <1>26, <1>27, <1>28, <1>29, <1>30, <1>31

LEMMA TypeNext ==
  ASSUME TypeInv, [Next]_vars
  PROVE  TypeOK'
<1>0. TypeOK /\ StreamInHand /\ ServerInHand
  BY DEF TypeInv
<1> USE <1>0 DEF TypeOK, Places, Step, Own, NoFault, Fault,
            client, queues, workflow, locals, history
<1> USE ThreadNames
<1>1. ASSUME NEW c \in Clients, Accept(c)
      PROVE  TypeOK'
  BY <1>1 DEF Accept, Threads
<1>2. ASSUME NEW c \in Clients, Dispatch(c)
      PROVE  TypeOK'
  <2> DEFINE t == Dispatcher(c)
  <2>t. t \in Threads /\ t \notin Requests /\ t[1] = c
    BY DEF Threads
  <2> HIDE DEF t
  <2>1. CASE ReadFails(t)
    BY <2>1, <2>t DEF ReadFails
  <2>2. CASE OpenFails(t)
    <3>0. Goes(t, {"open"}, {"done", "add"})
      BY ONLY <2>2, <2>t, Outcomes
    <3>1. pc' \in [Threads -> Places]
      BY <3>0, <2>t DEF Goes
    <3>2. faults' \in Nat
      BY <2>2, <2>t DEF OpenFails
    <3>3. QED
      BY <2>2, <2>t, <3>1, <3>2 DEF OpenFails
  <2>3. CASE Reply(t)
    <3>0. Goes(t, {"send"}, {"read", "end"})
      BY ONLY <2>3, <2>t, Outcomes
    <3>1. pc' \in [Threads -> Places]
      BY <3>0, <2>t DEF Goes
    <3>2. faults' \in Nat
      BY <2>3, <2>t DEF Reply
    <3>3. QED
      BY <2>3, <2>t, <3>1, <3>2 DEF Reply
  <2>4. CASE NoFault /\ Leave(t)
    BY <2>4, <2>t DEF Leave
  <2>5. CASE NoFault /\ Command(t)
    BY <2>5, <2>t DEF Command
  <2>6. CASE NoFault /\ GetStream(t)
    BY <2>6, <2>t DEF GetStream
  <2>7. CASE NoFault /\ Lookup(t)
    <3>1. \E p \in {"put", "observe"} : pc' = [pc EXCEPT ![t] = p]
      BY ONLY <2>7 DEF Lookup, Step
    <3>2. server' \in [Threads -> Requests \cup {NULL}]
      BY <2>7, <2>t DEF Lookup, StreamInHand, Naming, Fetching
    <3>3. QED
      BY <2>7, <2>t, <3>1, <3>2 DEF Lookup
  <2>8. CASE NoFault /\ Put(t)
    BY <2>8, <2>t DEF Put, Requests, StreamInHand, Naming, Fetching
  <2>9. CASE NoFault /\ Observe(t)
    BY <2>9, <2>t DEF Observe
  <2>10. CASE NoFault /\ Open(t)
    BY <2>10, <2>t DEF Open, Requests, Threads, StreamInHand, Naming, Fetching
  <2>11. CASE NoFault /\ Start(t)
    BY <2>11, <2>t DEF Start, Requests, Threads, StreamInHand, Naming, Fetching
  <2>12. CASE NoFault /\ Add(t)
    <3>1. activeClients' \in [Requests -> SUBSET Clients]
      BY <2>12, <2>t DEF Add
    <3>2. asked' \in [Clients -> SUBSET Streams]
      BY <2>12, <2>t DEF Add, StreamInHand, Naming, Fetching
    <3>3. QED
      BY <2>12, <2>t, <3>1, <3>2 DEF Add
  <2>13. QED
    BY <1>2, <2>1, <2>2, <2>3, <2>4, <2>5, <2>6, <2>7, <2>8, <2>9, <2>10, <2>11, <2>12
       DEF Dispatch, t
<1>3. ASSUME NEW r \in Requests, Read(r)
      PROVE  TypeOK'
  <2>t. r \in Threads /\ r[1] \in Clients /\ r[2] \in Streams
    BY DEF Threads
  <2>1. CASE Finishing(r)
    BY <2>1, <2>t DEF Finishing
  <2>2. CASE Failing(r)
    <3>0. Goes(r, {"begin", "loop", "thrown"}, {"finish"})
      BY ONLY <2>2, <2>t, Outcomes
    <3>1. pc' \in [Threads -> Places]
      BY <3>0, <2>t DEF Goes
    <3>2. faults' \in Nat
      BY <2>2, <2>t DEF Failing
    <3>3. observers' \in [Streams -> {"none", "empty", "some"}]
      BY <2>2, <2>t DEF Failing, NoneLeft
    <3>4. QED
      BY <2>2, <2>t, <3>1, <3>2, <3>3 DEF Failing
  <2>3. CASE WriteFails(r)
    <3>0. Goes(r, {"write", "sequence"}, {"end"})
      BY ONLY <2>3, <2>t, Outcomes
    <3>1. pc' \in [Threads -> Places]
      BY <3>0, <2>t DEF Goes
    <3>2. faults' \in Nat
      BY <2>3, <2>t DEF WriteFails
    <3>3. QED
      BY <2>3, <2>t, <3>1, <3>2 DEF WriteFails
  <2>4. CASE NoFault /\ Begin(r)
    BY <2>4, <2>t DEF Begin, Looping
  <2>5. CASE NoFault /\ Finish(r)
    BY <2>5, <2>t DEF Finish, NoneLeft
  <2>6. CASE NoFault /\ NextImage(r)
    BY <2>6, <2>t DEF NextImage
  <2>7. CASE NoFault /\ NextObserver(r)
    BY <2>7, <2>t DEF NextObserver
  <2>8. CASE NoFault /\ LastObserver(r)
    BY <2>8, <2>t DEF LastObserver, Looping
  <2>9. CASE NoFault /\ Count(r)
    <3>0. Goes(r, {"count"}, {"idle", "client"})
      BY ONLY <2>9, <2>t, Outcomes
    <3>1. pc' \in [Threads -> Places]
      BY <3>0, <2>t DEF Goes
    <3>m. activeClients[server[r]] \in SUBSET Clients
      BY <2>9, <2>t DEF Count, ServerInHand, InServer
    <3>a. \/ cli' = cli
          \/ \E i \in Fetch(Fresh, activeClients[server[r]]) : cli' = [cli EXCEPT ![r] = i]
      BY ONLY <2>9 DEF Count
    <3>2. cli' \in [Requests -> Iterator]
      <4>1. cli \in [Requests -> Iterator]
        OBVIOUS
      <4>2. \A i \in Fetch(Fresh, activeClients[server[r]]) : i \in Iterator
        BY ONLY <3>m, Fetched, FreshIterator
      <4>3. QED
        BY ONLY <3>a, <4>1, <4>2
    <3>3. deadClients' \in [Requests -> SUBSET Clients]
      BY <2>9, <2>t DEF Count
    <3>4. server' \in [Threads -> Requests \cup {NULL}]
      BY <2>9, <2>t DEF Count
    <3>5. QED
      BY <2>9, <2>t, <3>1, <3>2, <3>3, <3>4 DEF Count
  <2>10. CASE NoFault /\ NextClient(r)
    <3>0. Goes(r, {"client"}, {"tally", "send", "again"})
      BY ONLY <2>10, <2>t, Outcomes
    <3>1. pc' \in [Threads -> Places]
      BY <3>0, <2>t DEF Goes
    <3>m. activeClients[server[r]] \in SUBSET Clients /\ cli[r] \in Iterator
      BY <2>10, <2>t DEF NextClient, ServerInHand, InServer
    <3>a. \/ cli' = cli /\ who' = who
          \/ /\ \E i \in Fetch(cli[r], activeClients[server[r]]) : cli' = [cli EXCEPT ![r] = i]
             /\ cli[r].ahead # NULL
             /\ who' = [who EXCEPT ![r] = cli[r].ahead]
      BY ONLY <2>10 DEF NextClient
    <3>2. cli' \in [Requests -> Iterator]
      <4>1. cli \in [Requests -> Iterator]
        OBVIOUS
      <4>2. \A i \in Fetch(cli[r], activeClients[server[r]]) : i \in Iterator
        BY ONLY <3>m, Fetched
      <4>3. QED
        BY ONLY <3>a, <4>1, <4>2
    <3>3. who' \in [Threads -> Clients]
      BY <3>m, <3>a DEF Iterator
    <3>4. QED
      BY <2>10, <2>t, <3>1, <3>2, <3>3 DEF NextClient
  <2>11. CASE NoFault /\ Send(r)
    <3>0. Goes(r, {"send"}, {"write", "sequence", "again"})
      BY ONLY <2>11, <2>t, Outcomes
    <3>1. pc' \in [Threads -> Places]
      BY <3>0, <2>t DEF Goes
    <3>m. monitor' = monitor \/ monitor' = [monitor EXCEPT ![who[r]] = r]
      BY ONLY <2>11 DEF Send
    <3>2. monitor' \in [Clients -> Threads \cup {NULL}]
      <4>1. monitor \in [Clients -> Threads \cup {NULL}] /\ r \in Threads
        BY <2>t
      <4>2. QED
        BY ONLY <3>m, <4>1
    <3>3. nis' \in [Clients -> BOOLEAN]
      BY <2>11, <2>t DEF Send
    <3>4. QED
      BY <2>11, <2>t, <3>1, <3>2, <3>3 DEF Send
  <2>12. CASE NoFault /\ Write(r)
    <3>0. Goes(r, {"write", "sequence"}, {"again"})
      BY ONLY <2>12, <2>t, Outcomes
    <3>1. pc' \in [Threads -> Places]
      BY <3>0, <2>t DEF Goes
    <3>2. monitor' \in [Clients -> Threads \cup {NULL}]
      BY <2>12, <2>t DEF Write
    <3>3. announced' \subseteq Clients /\ garbled' \subseteq Clients
      BY <2>12, <2>t DEF Write
    <3>4. QED
      BY <2>12, <2>t, <3>1, <3>2, <3>3 DEF Write
  <2>13. CASE NoFault /\ Again(r)
    <3>1. pc' \in [Threads -> Places]
      BY <2>13, <2>t DEF Again
    <3>d. \/ deadClients' = deadClients
          \/ deadClients' = [deadClients EXCEPT ![server[r]] = @ \cup {who[r]}]
      BY ONLY <2>13 DEF Again
    <3>2. deadClients' \in [Requests -> SUBSET Clients]
      <4>1. deadClients \in [Requests -> SUBSET Clients] /\ who[r] \in Clients
        BY <2>t
      <4>2. QED
        BY ONLY <3>d, <4>1
    <3>3. QED
      BY <2>13, <2>t, <3>1, <3>2 DEF Again
  <2>14. CASE NoFault /\ Tally(r)
    BY <2>14, <2>t DEF Tally
  <2>15. CASE NoFault /\ Idle(r)
    BY <2>15, <2>t DEF Idle
  <2>16. QED
    BY <1>3, <2>1, <2>2, <2>3, <2>4, <2>5, <2>6, <2>7, <2>8, <2>9, <2>10, <2>11, <2>12,
       <2>13, <2>14, <2>15 DEF Read
<1>4. ASSUME NoFault, NEW t \in Threads, Call(t)
      PROVE  TypeOK'
  <2>1. CASE End(t)
    <3>0. Goes(t, {"end"}, {"died", Return(t)})
      BY ONLY <2>1, <1>4, Outcomes
    <3>1. pc' \in [Threads -> Places]
      BY <3>0, <1>4 DEF Goes, Return
    <3>m. \E u \in {t, NULL} : monitor' = [monitor EXCEPT ![who[t]] = u]
      BY ONLY <2>1 DEF End
    <3>2. monitor' \in [Clients -> Threads \cup {NULL}]
      BY <1>4, <3>m
    <3>3. clients' \in Int
      BY <1>4, <2>1 DEF End, Return
    <3>4. QED
      BY <1>4, <2>1, <3>1, <3>2, <3>3 DEF End, Return
  <2>2. CASE RemoveClient(t)
    BY <1>4, <2>2 DEF RemoveClient
  <2>3. CASE Ended(t)
    BY <1>4, <2>3 DEF Ended, Return
  <2>4. CASE Unobserve(t)
    BY <1>4, <2>4 DEF Unobserve
  <2>5. CASE Passing(t)
    <3>0. Passed(t)
      BY ONLY <2>5, <1>4, Passes
    <3>1. pc' \in [Threads -> Places]
      <4>1. Goes(t, Interrupting, Interrupting \cup {"ended", "observer"})
        BY ONLY <2>5, <1>4, Outcomes
      <4>2. Interrupting \cup {"ended", "observer"} \subseteq Places
        BY ONLY DEF Interrupting, Places
      <4>3. pc \in [Threads -> Places]
        OBVIOUS
      <4>4. QED
        BY ONLY <4>1, <4>2, <4>3 DEF Goes
    <3>2. /\ interrupted' \subseteq Requests
          /\ observers' \in [Streams -> {"none", "empty", "some"}]
          /\ holding' \subseteq Threads
      <4>1. CASE Interrupt(t)
        BY <4>1, <1>4 DEF Interrupt
      <4>2. CASE Look(t)
        BY <4>2, <1>4 DEF Look
      <4>3. CASE Tell(t)
        BY <4>3, <1>4 DEF Tell
      <4>4. CASE Flag(t)
        <5>1. <<reader[t], stream[t]>> \in Requests
          BY <4>4, <1>4 DEF Flag, Requests, StreamInHand, Naming, Interrupting
        <5>2. QED
          BY <4>4, <5>1, <1>4 DEF Flag
      <4>5. QED
        BY <2>5, <4>1, <4>2, <4>3, <4>4 DEF Passing
    <3>3. reader' \in [Threads -> Clients]
      <4>1. CASE Interrupt(t)
        <5>1. \/ /\ streamReaders[stream[t]] # NULL
                 /\ reader' = [reader EXCEPT ![t] = streamReaders[stream[t]]]
              \/ reader' = [reader EXCEPT ![t] = t[1]]
          BY ONLY <4>1 DEF Interrupt, Back
        <5>2. stream[t] \in Streams
          BY <4>1, <1>4 DEF Interrupt, StreamInHand, Naming, Interrupting
        <5>3. /\ reader \in [Threads -> Clients] /\ t[1] \in Clients
              /\ streamReaders \in [Streams -> Clients \cup {NULL}]
          BY <1>4
        <5>4. QED
          BY ONLY <5>1, <5>2, <5>3
      <4>2. CASE Look(t)
        BY <4>2, <1>4 DEF Look, Back
      <4>3. CASE Tell(t)
        BY <4>3, <1>4 DEF Tell, Back
      <4>4. CASE Flag(t)
        BY <4>4, <1>4 DEF Flag
      <4>5. QED
        BY <2>5, <4>1, <4>2, <4>3, <4>4 DEF Passing
    <3>4. server' \in [Threads -> Requests \cup {NULL}]
      BY <3>0, <1>4 DEF Passed
    <3>5. QED
      BY <1>4, <3>0, <3>1, <3>2, <3>3, <3>4 DEF Passed
  <2>6. CASE Throw(t)
    <3>0. Goes(t, {"tell", "tellAgain"}, {"thrown", "done"})
      BY ONLY <2>6, <1>4, Outcomes
    <3>1. pc' \in [Threads -> Places]
      BY <3>0, <1>4 DEF Goes
    <3>2. manager' \in Threads \cup {NULL}
      BY <2>6 DEF Throw
    <3>3. monitor' \in [Clients -> Threads \cup {NULL}]
      BY <2>6 DEF Throw
    <3>4. escaped' \subseteq Threads \X Clients
      BY <2>6, <1>4 DEF Throw
    <3>5. who' \in [Threads -> Clients] /\ reader' \in [Threads -> Clients]
      BY <2>6, <1>4 DEF Throw
    <3>6. stream' \in [Threads -> Streams \cup {NULL}]
      BY <2>6, <1>4 DEF Throw
    <3>7. server' \in [Threads -> Requests \cup {NULL}]
      BY <2>6, <1>4 DEF Throw
    <3>8. cli' \in [Requests -> Iterator]
      BY <2>6, <1>4 DEF Throw, Iterator
    <3>9. holding' \subseteq Threads
      BY <2>6, <1>4 DEF Throw
    <3>10. QED
      BY <1>4, <2>6, <3>1, <3>2, <3>3, <3>4, <3>5, <3>6, <3>7, <3>8, <3>9 DEF Throw
  <2>7. QED
    BY <1>4, <2>1, <2>2, <2>3, <2>4, <2>5, <2>6 DEF Call, Passing
<1>5. CASE UNCHANGED vars
  BY <1>5 DEF vars
<1>6. QED
  BY <1>1, <1>2, <1>3, <1>4, <1>5 DEF Next

LEMMA InHandNext ==
  ASSUME TypeInv, [Next]_vars
  PROVE  (StreamInHand /\ ServerInHand)'
<1>0. /\ pc \in [Threads -> Places] /\ stream \in [Threads -> Streams \cup {NULL}]
      /\ server \in [Threads -> Requests \cup {NULL}]
      /\ streamServers \in [Streams -> Requests \cup {NULL}]
      /\ requestedStream \in [Clients -> Streams \cup {NULL}]
      /\ who \in [Threads -> Clients]
      /\ StreamInHand /\ ServerInHand
  BY DEF TypeInv, TypeOK
<1> USE DEF StreamInHand, ServerInHand, Naming, Fetching, Interrupting, InServer, Step, Own, client,
            workflow, locals
<1>1. ASSUME NEW c \in Clients, Accept(c)
      PROVE  (StreamInHand /\ ServerInHand)'
  BY <1>0, <1>1, ThreadNames DEF Accept, Threads
<1>2. ASSUME NEW c \in Clients, Dispatch(c)
      PROVE  (StreamInHand /\ ServerInHand)'
  <2> DEFINE t == Dispatcher(c)
  <2>t. t \in Threads /\ t \notin Requests /\ t[1] = c
    BY ThreadNames DEF Threads
  <2> HIDE DEF t
  <2>1. CASE ReadFails(t)
    BY <2>1, <1>0, <2>t DEF ReadFails
  <2>2. CASE OpenFails(t)
    <3>1. stream' = stream /\ server' = server
      BY ONLY <2>2 DEF OpenFails, Own, locals
    <3>0. Goes(t, {"open"}, {"done", "add"})
      BY ONLY <2>2, <2>t, Outcomes
    <3>2. QED
      BY <3>0, <3>1, <1>0, <2>t DEF Goes
  <2>3. CASE Reply(t)
    <3>1. stream' = stream /\ server' = server
      BY ONLY <2>3 DEF Reply, Own, locals
    <3>0. Goes(t, {"send"}, {"read", "end"})
      BY ONLY <2>3, <2>t, Outcomes
    <3>2. QED
      BY <3>0, <3>1, <1>0, <2>t DEF Goes
  <2>4. CASE NoFault /\ Leave(t)
    BY <2>4, <1>0, <2>t DEF Leave
  <2>5. CASE NoFault /\ Command(t)
    BY <2>5, <1>0, <2>t DEF Command
  <2>6. CASE NoFault /\ GetStream(t)
    BY <2>6, <1>0, <2>t DEF GetStream
  <2>7. CASE NoFault /\ Lookup(t)
    BY <2>7, <1>0, <2>t DEF Lookup
  <2>8. CASE NoFault /\ Put(t)
    BY <2>8, <1>0, <2>t DEF Put
  <2>9. CASE NoFault /\ Observe(t)
    BY <2>9, <1>0, <2>t DEF Observe
  <2>10. CASE NoFault /\ Open(t)
    BY <2>10, <1>0, <2>t DEF Open, Requests, Threads
  <2>11. CASE NoFault /\ Start(t)
    BY <2>11, <1>0, <2>t DEF Start, Requests, Threads
  <2>12. CASE NoFault /\ Add(t)
    BY <2>12, <1>0, <2>t DEF Add
  <2>13. QED
    BY <1>2, <2>1, <2>2, <2>3, <2>4, <2>5, <2>6, <2>7, <2>8, <2>9, <2>10, <2>11, <2>12
       DEF Dispatch, t
<1>3. ASSUME NEW r \in Requests, Read(r)
      PROVE  (StreamInHand /\ ServerInHand)'
  <2>t. r \in Threads /\ r[1] \in Clients /\ r[2] \in Streams
    BY ThreadNames DEF Threads
  <2>1. CASE Finishing(r)
    BY <2>1, <1>0, <2>t DEF Finishing
  <2>2. CASE Failing(r)
    <3>1. stream' = stream /\ server' = server
      BY ONLY <2>2 DEF Failing, Own, locals
    <3>0. Goes(r, {"begin", "loop", "thrown"}, {"finish"})
      BY ONLY <2>2, <2>t, Outcomes
    <3>2. QED
      BY <3>0, <3>1, <1>0, <2>t DEF Goes
  <2>3. CASE WriteFails(r)
    <3>1. stream' = stream /\ server' = server
      BY ONLY <2>3 DEF WriteFails, Own, locals
    <3>0. Goes(r, {"write", "sequence"}, {"end"})
      BY ONLY <2>3, <2>t, Outcomes
    <3>2. QED
      BY <3>0, <3>1, <1>0, <2>t DEF Goes
  <2>4. CASE NoFault /\ Begin(r)
    BY <2>4, <1>0, <2>t DEF Begin, Looping
  <2>5. CASE NoFault /\ Finish(r)
    BY <2>5, <1>0, <2>t DEF Finish
  <2>6. CASE NoFault /\ NextImage(r)
    BY <2>6, <1>0, <2>t DEF NextImage
  <2>7. CASE NoFault /\ NextObserver(r)
    BY <2>7, <1>0, <2>t DEF NextObserver
  <2>8. CASE NoFault /\ LastObserver(r)
    BY <2>8, <1>0, <2>t DEF LastObserver, Looping
  <2>9. CASE NoFault /\ Count(r)
    <3>1. stream' = stream /\ server' = server
      BY ONLY <2>9 DEF Count, Own, locals
    <3>0. Goes(r, {"count"}, {"idle", "client"})
      BY ONLY <2>9, <2>t, Outcomes
    <3>2. QED
      BY <3>0, <3>1, <1>0, <2>t DEF Goes
  <2>10. CASE NoFault /\ NextClient(r)
    <3>1. stream' = stream /\ server' = server
      BY ONLY <2>10 DEF NextClient, Own, locals
    <3>0. Goes(r, {"client"}, {"tally", "send", "again"})
      BY ONLY <2>10, <2>t, Outcomes
    <3>2. QED
      BY <3>0, <3>1, <1>0, <2>t DEF Goes
  <2>11. CASE NoFault /\ Send(r)
    <3>1. stream' = stream /\ server' = server
      BY ONLY <2>11 DEF Send, Own, locals
    <3>0. Goes(r, {"send"}, {"write", "sequence", "again"})
      BY ONLY <2>11, <2>t, Outcomes
    <3>2. QED
      BY <3>0, <3>1, <1>0, <2>t DEF Goes
  <2>12. CASE NoFault /\ Write(r)
    <3>1. stream' = stream /\ server' = server
      BY ONLY <2>12 DEF Write, Own, locals
    <3>0. Goes(r, {"write", "sequence"}, {"again"})
      BY ONLY <2>12, <2>t, Outcomes
    <3>2. QED
      BY <3>0, <3>1, <1>0, <2>t DEF Goes
  <2>13. CASE NoFault /\ Again(r)
    BY <2>13, <1>0, <2>t DEF Again
  <2>14. CASE NoFault /\ Tally(r)
    BY <2>14, <1>0, <2>t DEF Tally
  <2>15. CASE NoFault /\ Idle(r)
    BY <2>15, <1>0, <2>t DEF Idle
  <2>16. QED
    BY <1>3, <2>1, <2>2, <2>3, <2>4, <2>5, <2>6, <2>7, <2>8, <2>9,
       <2>10, <2>11, <2>12, <2>13, <2>14, <2>15 DEF Read
<1>4. ASSUME NoFault, NEW t \in Threads, Call(t)
      PROVE  (StreamInHand /\ ServerInHand)'
  <2>1. CASE End(t)
    <3>1. stream' = stream /\ server' = server
      BY ONLY <2>1 DEF End, Own, locals
    <3>0. Goes(t, {"end"}, {"died", Return(t)})
      BY ONLY <2>1, <1>4, Outcomes
    <3>2. QED
      BY <3>0, <3>1, <1>0, <1>4 DEF Goes, Return
  <2>2. CASE RemoveClient(t)
    BY <2>2, <1>0, <1>4 DEF RemoveClient
  <2>3. CASE Ended(t)
    BY <2>3, <1>0, <1>4 DEF Ended, Return
  <2>4. CASE Unobserve(t)
    BY <2>4, <1>0, <1>4 DEF Unobserve
  <2>5. CASE Passing(t)
    <3>1. Passed(t)
      BY ONLY <2>5, <1>4, Passes
    <3>2. StreamInHand'
      <4>1. Goes(t, Interrupting, Interrupting \cup {"ended", "observer"}) /\ stream' = stream
        BY ONLY <2>5, <3>1, <1>4, Outcomes DEF Passed
      <4>2. QED
        BY ONLY <4>1, <1>0, <1>4 DEF Goes, StreamInHand, Naming, Fetching, Interrupting
    <3>3. ServerInHand'
      <4>1. CASE server' = server /\ \E p \in Interrupting \cup {"ended"} : pc' = [pc EXCEPT ![t] = p]
        <5>1. pc[t] \in Interrupting
          BY ONLY <3>1 DEF Passed
        <5>2. QED
          BY ONLY <4>1, <5>1, <1>0, <1>4 DEF ServerInHand, InServer, Interrupting
      <4>2. CASE pc' = [pc EXCEPT ![t] = "observer"] /\ server' = [server EXCEPT ![t] = NULL]
        BY ONLY <4>2, <1>0, <1>4 DEF ServerInHand, InServer, Interrupting
      <4>3. QED
        BY ONLY <3>1, <4>1, <4>2 DEF Passed
    <3>4. QED
      BY <3>2, <3>3
  <2>6. CASE Throw(t)
    BY <2>6, <1>0, <1>4 DEF Throw
  <2>7. QED
    BY <1>4, <2>1, <2>2, <2>3, <2>4, <2>5, <2>6 DEF Call, Passing
<1>5. CASE UNCHANGED vars
  BY <1>0, <1>5 DEF vars
<1>6. QED
  BY <1>1, <1>2, <1>3, <1>4, <1>5 DEF Next

-----------------------------------------------------------------------------
(* Readers are made once *)

\* A step in which thread t makes no reader, and no dispatcher asks for a stream.
Aside(t) ==
  /\ \E p \in Places : /\ pc' = [pc EXCEPT ![t] = p]
                       /\ t \in Requests => p \notin {"none", "new"} /\ pc[t] \notin {"none", "new"}
                       /\ t \notin Requests => p \notin Fetching /\ pc[t] \notin {"start", "add"}
  /\ asked' = asked
  /\ \A u \in Threads \ {t} : stream'[u] = stream[u]

LEMMA AsideKeeps ==
  ASSUME TypeInv, NewReaders, NEW t \in Threads, Aside(t)
  PROVE  NewReaders'
<1>0. pc \in [Threads -> Places] /\ asked' = asked
  BY DEF TypeInv, TypeOK, Aside
<1> SUFFICES ASSUME NEW c \in Clients
             PROVE  LET d == Dispatcher(c)
                    IN /\ pc'[d] \in Fetching => stream'[d] \notin asked[c]
                       /\ pc'[d] = "start" => pc'[<<c, stream'[d]>>] = "new"
                       /\ \A s \in Streams :
                            /\ pc'[<<c, s>>] = "new" => pc'[d] = "start" /\ stream'[d] = s
                            /\ pc'[<<c, s>>] # "none" => \/ s \in asked[c]
                                                         \/ pc'[d] \in {"start", "add"} /\ stream'[d] = s
  BY <1>0 DEF NewReaders, NewReader
<1> DEFINE d == Dispatcher(c)
<1>1. d \in Threads \ Requests /\ \A s \in Streams : <<c, s>> \in Requests /\ <<c, s>> \in Threads
  BY ThreadNames DEF Threads, Requests
<1>2. /\ pc[d] \in Fetching => stream[d] \notin asked[c]
      /\ pc[d] = "start" => pc[<<c, stream[d]>>] = "new"
      /\ \A s \in Streams :
           /\ pc[<<c, s>>] = "new" => pc[d] = "start" /\ stream[d] = s
           /\ pc[<<c, s>>] # "none" => \/ s \in asked[c]
                                       \/ pc[d] \in {"start", "add"} /\ stream[d] = s
  BY DEF NewReaders, NewReader
<1>3. pc[d] \in Fetching => stream[d] \in Streams
  BY <1>1 DEF TypeInv, StreamInHand, Fetching, Naming
<1> HIDE DEF d
<1>4. PICK p \in Places : /\ pc' = [pc EXCEPT ![t] = p]
                          /\ t \in Requests => p \notin {"none", "new"} /\ pc[t] \notin {"none", "new"}
                          /\ t \notin Requests => p \notin Fetching /\ pc[t] \notin {"start", "add"}
  BY DEF Aside
<1>5. \A u \in Threads \ {t} : stream'[u] = stream[u]
  BY DEF Aside
<1>6. /\ pc'[d] \in Fetching => stream'[d] \notin asked[c]
      /\ pc'[d] = "start" => pc'[<<c, stream'[d]>>] = "new"
      /\ \A s \in Streams :
           /\ pc'[<<c, s>>] = "new" => pc'[d] = "start" /\ stream'[d] = s
           /\ pc'[<<c, s>>] # "none" => \/ s \in asked[c]
                                        \/ pc'[d] \in {"start", "add"} /\ stream'[d] = s
  <2>a. pc' = [pc EXCEPT ![t] = p]
    BY <1>4
  <2>b. pc \in [Threads -> Places]
    BY <1>0
  <2>e. d \in Threads
    BY <1>1
  <2>0. pc' = [pc EXCEPT ![t] = p] /\ pc \in [Threads -> Places] /\ d \in Threads
    BY <2>a, <2>b, <2>e
  <2>p. /\ t \in Requests => p \notin {"none", "new"} /\ pc[t] \notin {"none", "new"}
        /\ t \notin Requests => p \notin Fetching /\ pc[t] \notin {"start", "add"}
        /\ \A s \in Streams : <<c, s>> \in Requests /\ <<c, s>> \in Threads
    BY <1>1, <1>4
  <2>r. \A s \in Streams : <<c, s>> \in Requests /\ <<c, s>> \in Threads
    BY <1>1
  <2>1. CASE t \in Requests
    <3>1. t # d
      BY <2>1, <1>1
    <3>2. pc'[d] = pc[d] /\ stream'[d] = stream[d]
      BY <3>1, <2>0, <1>5
    <3>3. \A s \in Streams : \/ pc'[<<c, s>>] = pc[<<c, s>>]
                             \/ {pc'[<<c, s>>], pc[<<c, s>>]} \cap {"none", "new"} = {}
      BY <2>1, <2>0, <2>p
    <3>4. pc[d] = "start" => stream[d] \in Streams
      BY <1>3 DEF Fetching
    <3>5. QED
      BY ONLY <3>2, <3>3, <3>4, <1>2
  <2>2. CASE t \notin Requests /\ t # d
    <3>2. pc'[d] = pc[d] /\ stream'[d] = stream[d]
      BY <2>2, <2>0, <1>5
    <3>3. \A s \in Streams : pc'[<<c, s>>] = pc[<<c, s>>]
      BY <2>2, <2>0, <2>r
    <3>4. pc[d] = "start" => stream[d] \in Streams
      BY <1>3 DEF Fetching
    <3>5. QED
      BY ONLY <3>2, <3>3, <3>4, <1>2
  <2>3. CASE t = d
    <3>2. pc'[d] \notin Fetching /\ pc[d] \notin {"start", "add"}
      BY <2>3, <2>0, <2>p, <1>1
    <3>3. \A s \in Streams : pc'[<<c, s>>] = pc[<<c, s>>]
      BY <2>3, <2>0, <2>r, <1>1
    <3>5. QED
      BY ONLY <3>2, <3>3, <1>2 DEF Fetching
  <2>4. QED
    BY <2>1, <2>2, <2>3
<1>7. QED
  BY <1>6 DEF d

LEMMA NewReadersNext ==
  ASSUME TypeInv, NewReaders, [Next]_vars
  PROVE  NewReaders'
<1>0. /\ pc \in [Threads -> Places] /\ stream \in [Threads -> Streams \cup {NULL}]
      /\ asked \in [Clients -> SUBSET Streams]
  BY DEF TypeInv, TypeOK
<1>1. ASSUME NEW c \in Clients, Accept(c)
      PROVE  NewReaders'
  <2>1. Dispatcher(c) \in Threads /\ Dispatcher(c) \notin Requests
    BY ThreadNames DEF Threads
  <2>2. Aside(Dispatcher(c))
    BY ONLY <1>0, <1>1, <2>1 DEF Accept, Step, Aside, locals, Places, Fetching
  <2>3. QED
    BY <2>1, <2>2, AsideKeeps
<1>2. ASSUME NEW c \in Clients, Dispatch(c)
      PROVE  NewReaders'
  <2> DEFINE t == Dispatcher(c)
  <2>t. t \in Threads /\ t \notin Requests /\ t[1] = c
    BY ThreadNames DEF Threads
  <2>d. \A e \in Clients : /\ Dispatcher(e) \in Threads /\ Dispatcher(e) \notin Requests
                           /\ Dispatcher(e) = t => e = c
                           /\ \A s \in Streams : <<e, s>> \in Requests /\ <<e, s>> \in Threads
    BY ThreadNames DEF Threads, Requests
  <2>h. pc[t] \in Fetching => stream[t] \in Streams
    BY <2>t DEF TypeInv, StreamInHand, Fetching, Naming
  <2> HIDE DEF t
  <2>1. CASE ReadFails(t)
    <3>1. Goes(t, {"read"}, {"end"})
      BY ONLY <2>1, <2>t, Outcomes
    <3>2. asked' = asked /\ \A u \in Threads \ {t} : stream'[u] = stream[u]
      BY ONLY <2>1, <1>0 DEF ReadFails, Own, locals
    <3>3. Aside(t)
      BY ONLY <3>1, <3>2, <2>t, <1>0 DEF Goes, Aside, Places, Fetching, Return
    <3>4. QED
      BY <3>3, <2>t, AsideKeeps
  <2>2. CASE OpenFails(t)
    <3>1. Goes(t, {"open"}, {"done", "add"})
      BY ONLY <2>2, <2>t, Outcomes
    <3>2. asked' = asked /\ stream' = stream
      BY ONLY <2>2 DEF OpenFails, Own, locals
    <3>3. QED
      BY <3>1, <3>2, <1>0, <2>t, <2>d, <2>h DEF Goes, NewReaders, NewReader, Fetching, t
  <2>3. CASE Reply(t)
    <3>1. Goes(t, {"send"}, {"read", "end"})
      BY ONLY <2>3, <2>t, Outcomes
    <3>2. asked' = asked /\ \A u \in Threads \ {t} : stream'[u] = stream[u]
      BY ONLY <2>3, <1>0 DEF Reply, Own, locals
    <3>3. Aside(t)
      BY ONLY <3>1, <3>2, <2>t, <1>0 DEF Goes, Aside, Places, Fetching, Return
    <3>4. QED
      BY <3>3, <2>t, AsideKeeps
  <2>4. CASE NoFault /\ Leave(t)
    <3>1. Goes(t, {"read"}, {"end", "done"})
      BY ONLY <2>4, <2>t, Outcomes
    <3>2. asked' = asked /\ \A u \in Threads \ {t} : stream'[u] = stream[u]
      BY ONLY <2>4, <1>0 DEF Leave, Own, locals
    <3>3. Aside(t)
      BY ONLY <3>1, <3>2, <2>t, <1>0 DEF Goes, Aside, Places, Fetching, Return
    <3>4. QED
      BY <3>3, <2>t, AsideKeeps
  <2>5. CASE NoFault /\ Command(t)
    <3>1. Goes(t, {"read"}, {"send"})
      BY ONLY <2>5, <2>t, Outcomes
    <3>2. asked' = asked /\ \A u \in Threads \ {t} : stream'[u] = stream[u]
      BY ONLY <2>5, <1>0 DEF Command, Own, locals
    <3>3. Aside(t)
      BY ONLY <3>1, <3>2, <2>t, <1>0 DEF Goes, Aside, Places, Fetching, Return
    <3>4. QED
      BY <3>3, <2>t, AsideKeeps
  <2>6. CASE NoFault /\ GetStream(t)
    <3>1. /\ pc[t] = "read" /\ pc' = [pc EXCEPT ![t] = "lookup"] /\ asked' = asked
          /\ \E s \in Streams \ asked[t[1]] : stream' = [stream EXCEPT ![t] = s]
      BY ONLY <2>6, <2>t DEF GetStream, Step, Own, locals
    <3> SUFFICES ASSUME NEW e \in Clients
                 PROVE  NewReader(e)'
      BY DEF NewReaders
    <3>2. NewReader(e) /\ NewReader(c)
      BY DEF NewReaders
    <3>3. CASE e = c
      BY <3>1, <3>2, <3>3, <1>0, <2>t, <2>d, <2>h DEF NewReader, Fetching, t
    <3>4. CASE e # c
      <4>1. pc'[Dispatcher(e)] = pc[Dispatcher(e)] /\ stream'[Dispatcher(e)] = stream[Dispatcher(e)]
        BY <3>1, <3>4, <1>0, <2>t, <2>d, <2>h DEF Fetching
      <4>2. \A s \in Streams : pc'[<<e, s>>] = pc[<<e, s>>]
        BY <3>1, <3>4, <1>0, <2>t, <2>d, <2>h DEF Fetching
      <4>3. asked'[e] = asked[e]
        BY <3>1, <3>4, <1>0, <2>t
      <4>4. pc[Dispatcher(e)] = "start" => stream[Dispatcher(e)] \in Streams
        BY <2>d DEF TypeInv, StreamInHand, Naming, Fetching
      <4>5. QED
        BY ONLY <4>1, <4>2, <4>3, <4>4, <3>2 DEF NewReader
    <3>5. QED
      BY <3>3, <3>4
  <2>7. CASE NoFault /\ Lookup(t)
    <3>1. Goes(t, {"lookup"}, {"put", "observe"})
      BY ONLY <2>7, <2>t, Outcomes
    <3>2. asked' = asked /\ stream' = stream
      BY ONLY <2>7 DEF Lookup, Own, locals
    <3>3. QED
      BY <3>1, <3>2, <1>0, <2>t, <2>d, <2>h DEF Goes, NewReaders, NewReader, Fetching, t
  <2>8. CASE NoFault /\ Put(t)
    <3>1. /\ pc[t] = "put" /\ pc' = [pc EXCEPT ![t] = "observe"] /\ asked' = asked /\ stream' = stream
      BY ONLY <2>8 DEF Put, Step, Own, locals
    <3> SUFFICES ASSUME NEW e \in Clients
                 PROVE  NewReader(e)'
      BY DEF NewReaders
    <3>2. NewReader(e) /\ NewReader(c)
      BY DEF NewReaders
    <3>3. CASE e = c
      BY <3>1, <3>2, <3>3, <1>0, <2>t, <2>d, <2>h DEF NewReader, Fetching, t
    <3>4. CASE e # c
      <4>1. pc'[Dispatcher(e)] = pc[Dispatcher(e)] /\ stream'[Dispatcher(e)] = stream[Dispatcher(e)]
        BY <3>1, <3>4, <1>0, <2>t, <2>d, <2>h DEF Fetching
      <4>2. \A s \in Streams : pc'[<<e, s>>] = pc[<<e, s>>]
        BY <3>1, <3>4, <1>0, <2>t, <2>d, <2>h DEF Fetching
      <4>3. asked'[e] = asked[e]
        BY <3>1, <3>4, <1>0, <2>t
      <4>4. pc[Dispatcher(e)] = "start" => stream[Dispatcher(e)] \in Streams
        BY <2>d DEF TypeInv, StreamInHand, Naming, Fetching
      <4>5. QED
        BY ONLY <4>1, <4>2, <4>3, <4>4, <3>2 DEF NewReader
    <3>5. QED
      BY <3>3, <3>4
  <2>9. CASE NoFault /\ Observe(t)
    <3>1. /\ pc[t] = "observe" /\ pc' = [pc EXCEPT ![t] = "open"] /\ asked' = asked /\ stream' = stream
      BY ONLY <2>9 DEF Observe, Step, Own, locals
    <3> SUFFICES ASSUME NEW e \in Clients
                 PROVE  NewReader(e)'
      BY DEF NewReaders
    <3>2. NewReader(e) /\ NewReader(c)
      BY DEF NewReaders
    <3>3. CASE e = c
      BY <3>1, <3>2, <3>3, <1>0, <2>t, <2>d, <2>h DEF NewReader, Fetching, t
    <3>4. CASE e # c
      <4>1. pc'[Dispatcher(e)] = pc[Dispatcher(e)] /\ stream'[Dispatcher(e)] = stream[Dispatcher(e)]
        BY <3>1, <3>4, <1>0, <2>t, <2>d, <2>h DEF Fetching
      <4>2. \A s \in Streams : pc'[<<e, s>>] = pc[<<e, s>>]
        BY <3>1, <3>4, <1>0, <2>t, <2>d, <2>h DEF Fetching
      <4>3. asked'[e] = asked[e]
        BY <3>1, <3>4, <1>0, <2>t
      <4>4. pc[Dispatcher(e)] = "start" => stream[Dispatcher(e)] \in Streams
        BY <2>d DEF TypeInv, StreamInHand, Naming, Fetching
      <4>5. QED
        BY ONLY <4>1, <4>2, <4>3, <4>4, <3>2 DEF NewReader
    <3>5. QED
      BY <3>3, <3>4
  <2>10. CASE NoFault /\ Open(t)
    <3>1. /\ pc[t] = "open" /\ asked' = asked /\ stream' = stream
          /\ pc' = [pc EXCEPT ![t] = "start", ![<<t[1], stream[t]>>] = "new"]
      BY ONLY <2>10 DEF Open, Step, Own, locals
    <3> SUFFICES ASSUME NEW e \in Clients
                 PROVE  NewReader(e)'
      BY DEF NewReaders
    <3>2. NewReader(e) /\ NewReader(c)
      BY DEF NewReaders
    <3>3. CASE e = c
      <4>1. pc[t] = "open" /\ stream[t] \in Streams
        BY <3>1, <2>h DEF Fetching
      <4>2. pc'[t] = "start" /\ stream'[t] = stream[t] /\ asked'[c] = asked[c]
        BY <3>1, <4>1, <1>0, <2>t, <2>d
      <4>3. \A s \in Streams : pc'[<<c, s>>] = IF s = stream[t] THEN "new" ELSE pc[<<c, s>>]
        BY <3>1, <4>1, <1>0, <2>t, <2>d
      <4>4. QED
        BY ONLY <4>1, <4>2, <4>3, <3>2, <3>3 DEF NewReader, Fetching, t
    <3>4. CASE e # c
      <4>1. pc'[Dispatcher(e)] = pc[Dispatcher(e)] /\ stream'[Dispatcher(e)] = stream[Dispatcher(e)]
        BY <3>1, <3>4, <1>0, <2>t, <2>d, <2>h DEF Fetching
      <4>2. \A s \in Streams : pc'[<<e, s>>] = pc[<<e, s>>]
        BY <3>1, <3>4, <1>0, <2>t, <2>d, <2>h DEF Fetching
      <4>3. asked'[e] = asked[e]
        BY <3>1, <3>4, <1>0, <2>t
      <4>4. pc[Dispatcher(e)] = "start" => stream[Dispatcher(e)] \in Streams
        BY <2>d DEF TypeInv, StreamInHand, Naming, Fetching
      <4>5. QED
        BY ONLY <4>1, <4>2, <4>3, <4>4, <3>2 DEF NewReader
    <3>5. QED
      BY <3>3, <3>4
  <2>11. CASE NoFault /\ Start(t)
    <3>1. /\ pc[t] = "start" /\ asked' = asked /\ stream' = stream
          /\ pc' = [pc EXCEPT ![t] = "add", ![<<t[1], stream[t]>>] = "begin"]
      BY ONLY <2>11 DEF Start, Step, Own, locals
    <3> SUFFICES ASSUME NEW e \in Clients
                 PROVE  NewReader(e)'
      BY DEF NewReaders
    <3>2. NewReader(e) /\ NewReader(c)
      BY DEF NewReaders
    <3>3. CASE e = c
      <4>1. pc[t] = "start" /\ stream[t] \in Streams
        BY <3>1, <2>h DEF Fetching
      <4>2. pc'[t] = "add" /\ stream'[t] = stream[t] /\ asked'[c] = asked[c]
        BY <3>1, <4>1, <1>0, <2>t, <2>d
      <4>3. \A s \in Streams : pc'[<<c, s>>] = IF s = stream[t] THEN "begin" ELSE pc[<<c, s>>]
        BY <3>1, <4>1, <1>0, <2>t, <2>d
      <4>4. QED
        BY ONLY <4>1, <4>2, <4>3, <3>2, <3>3 DEF NewReader, Fetching, t
    <3>4. CASE e # c
      <4>1. pc'[Dispatcher(e)] = pc[Dispatcher(e)] /\ stream'[Dispatcher(e)] = stream[Dispatcher(e)]
        BY <3>1, <3>4, <1>0, <2>t, <2>d, <2>h DEF Fetching
      <4>2. \A s \in Streams : pc'[<<e, s>>] = pc[<<e, s>>]
        BY <3>1, <3>4, <1>0, <2>t, <2>d, <2>h DEF Fetching
      <4>3. asked'[e] = asked[e]
        BY <3>1, <3>4, <1>0, <2>t
      <4>4. pc[Dispatcher(e)] = "start" => stream[Dispatcher(e)] \in Streams
        BY <2>d DEF TypeInv, StreamInHand, Naming, Fetching
      <4>5. QED
        BY ONLY <4>1, <4>2, <4>3, <4>4, <3>2 DEF NewReader
    <3>5. QED
      BY <3>3, <3>4
  <2>12. CASE NoFault /\ Add(t)
    <3>1. /\ pc[t] = "add" /\ pc' = [pc EXCEPT ![t] = "send"]
          /\ asked' = [asked EXCEPT ![t[1]] = @ \cup {stream[t]}]
          /\ stream' = [stream EXCEPT ![t] = NULL]
      BY ONLY <2>12 DEF Add, Step, Own, locals
    <3> SUFFICES ASSUME NEW e \in Clients
                 PROVE  NewReader(e)'
      BY DEF NewReaders
    <3>2. NewReader(e) /\ NewReader(c)
      BY DEF NewReaders
    <3>3. CASE e = c
      BY <3>1, <3>2, <3>3, <1>0, <2>t, <2>d, <2>h DEF NewReader, Fetching, t
    <3>4. CASE e # c
      <4>1. pc'[Dispatcher(e)] = pc[Dispatcher(e)] /\ stream'[Dispatcher(e)] = stream[Dispatcher(e)]
        BY <3>1, <3>4, <1>0, <2>t, <2>d, <2>h DEF Fetching
      <4>2. \A s \in Streams : pc'[<<e, s>>] = pc[<<e, s>>]
        BY <3>1, <3>4, <1>0, <2>t, <2>d, <2>h DEF Fetching
      <4>3. asked'[e] = asked[e]
        BY <3>1, <3>4, <1>0, <2>t
      <4>4. pc[Dispatcher(e)] = "start" => stream[Dispatcher(e)] \in Streams
        BY <2>d DEF TypeInv, StreamInHand, Naming, Fetching
      <4>5. QED
        BY ONLY <4>1, <4>2, <4>3, <4>4, <3>2 DEF NewReader
    <3>5. QED
      BY <3>3, <3>4
  <2>13. QED
    BY <1>2, <2>1, <2>2, <2>3, <2>4, <2>5, <2>6, <2>7, <2>8, <2>9, <2>10, <2>11, <2>12
       DEF Dispatch, t
<1>3. ASSUME NEW r \in Requests, Read(r)
      PROVE  NewReaders'
  <2>t. r \in Threads
    BY DEF Threads
  <2>1. CASE Finishing(r)
    <3>1. Goes(r, {"loop"}, {"finish"})
      BY ONLY <2>1, <2>t, Outcomes
    <3>2. asked' = asked /\ \A u \in Threads \ {r} : stream'[u] = stream[u]
      BY ONLY <2>1, <1>0 DEF Finishing, Own, locals
    <3>3. Aside(r)
      BY ONLY <3>1, <3>2, <2>t, <1>0 DEF Goes, Aside, Places, Fetching, Return
    <3>4. QED
      BY <3>3, <2>t, AsideKeeps
  <2>2. CASE Failing(r)
    <3>1. Goes(r, {"begin", "loop", "thrown"}, {"finish"})
      BY ONLY <2>2, <2>t, Outcomes
    <3>2. asked' = asked /\ \A u \in Threads \ {r} : stream'[u] = stream[u]
      BY ONLY <2>2, <1>0 DEF Failing, Own, locals
    <3>3. Aside(r)
      BY ONLY <3>1, <3>2, <2>t, <1>0 DEF Goes, Aside, Places, Fetching, Return
    <3>4. QED
      BY <3>3, <2>t, AsideKeeps
  <2>3. CASE WriteFails(r)
    <3>1. Goes(r, {"write", "sequence"}, {"end"})
      BY ONLY <2>3, <2>t, Outcomes
    <3>2. asked' = asked /\ \A u \in Threads \ {r} : stream'[u] = stream[u]
      BY ONLY <2>3, <1>0 DEF WriteFails, Own, locals
    <3>3. Aside(r)
      BY ONLY <3>1, <3>2, <2>t, <1>0 DEF Goes, Aside, Places, Fetching, Return
    <3>4. QED
      BY <3>3, <2>t, AsideKeeps
  <2>4. CASE NoFault /\ Begin(r)
    <3>1. Goes(r, {"begin"}, {"loop", "finish"})
      BY ONLY <2>4, <2>t, Outcomes
    <3>2. asked' = asked /\ \A u \in Threads \ {r} : stream'[u] = stream[u]
      BY ONLY <2>4, <1>0 DEF Begin, Own, locals
    <3>3. Aside(r)
      BY ONLY <3>1, <3>2, <2>t, <1>0 DEF Goes, Aside, Places, Fetching, Return
    <3>4. QED
      BY <3>3, <2>t, AsideKeeps
  <2>5. CASE NoFault /\ Finish(r)
    <3>1. Goes(r, {"finish"}, {"over"})
      BY ONLY <2>5, <2>t, Outcomes
    <3>2. asked' = asked /\ \A u \in Threads \ {r} : stream'[u] = stream[u]
      BY ONLY <2>5, <1>0 DEF Finish, Own, locals
    <3>3. Aside(r)
      BY ONLY <3>1, <3>2, <2>t, <1>0 DEF Goes, Aside, Places, Fetching, Return
    <3>4. QED
      BY <3>3, <2>t, AsideKeeps
  <2>6. CASE NoFault /\ NextImage(r)
    <3>1. Goes(r, {"loop"}, {"observer"})
      BY ONLY <2>6, <2>t, Outcomes
    <3>2. asked' = asked /\ \A u \in Threads \ {r} : stream'[u] = stream[u]
      BY ONLY <2>6, <1>0 DEF NextImage, Own, locals
    <3>3. Aside(r)
      BY ONLY <3>1, <3>2, <2>t, <1>0 DEF Goes, Aside, Places, Fetching, Return
    <3>4. QED
      BY <3>3, <2>t, AsideKeeps
  <2>7. CASE NoFault /\ NextObserver(r)
    <3>1. Goes(r, {"observer"}, {"observer", "count"})
      BY ONLY <2>7, <2>t, Outcomes
    <3>2. asked' = asked /\ \A u \in Threads \ {r} : stream'[u] = stream[u]
      BY ONLY <2>7, <1>0 DEF NextObserver, Own, locals
    <3>3. Aside(r)
      BY ONLY <3>1, <3>2, <2>t, <1>0 DEF Goes, Aside, Places, Fetching, Return
    <3>4. QED
      BY <3>3, <2>t, AsideKeeps
  <2>8. CASE NoFault /\ LastObserver(r)
    <3>1. Goes(r, {"observer"}, {"loop", "finish"})
      BY ONLY <2>8, <2>t, Outcomes
    <3>2. asked' = asked /\ \A u \in Threads \ {r} : stream'[u] = stream[u]
      BY ONLY <2>8, <1>0 DEF LastObserver, Own, locals
    <3>3. Aside(r)
      BY ONLY <3>1, <3>2, <2>t, <1>0 DEF Goes, Aside, Places, Fetching, Return
    <3>4. QED
      BY <3>3, <2>t, AsideKeeps
  <2>9. CASE NoFault /\ Count(r)
    <3>1. Goes(r, {"count"}, {"idle", "client"})
      BY ONLY <2>9, <2>t, Outcomes
    <3>2. asked' = asked /\ \A u \in Threads \ {r} : stream'[u] = stream[u]
      BY ONLY <2>9, <1>0 DEF Count, Own, locals
    <3>3. Aside(r)
      BY ONLY <3>1, <3>2, <2>t, <1>0 DEF Goes, Aside, Places, Fetching, Return
    <3>4. QED
      BY <3>3, <2>t, AsideKeeps
  <2>10. CASE NoFault /\ NextClient(r)
    <3>1. Goes(r, {"client"}, {"tally", "send", "again"})
      BY ONLY <2>10, <2>t, Outcomes
    <3>2. asked' = asked /\ \A u \in Threads \ {r} : stream'[u] = stream[u]
      BY ONLY <2>10, <1>0 DEF NextClient, Own, locals
    <3>3. Aside(r)
      BY ONLY <3>1, <3>2, <2>t, <1>0 DEF Goes, Aside, Places, Fetching, Return
    <3>4. QED
      BY <3>3, <2>t, AsideKeeps
  <2>11. CASE NoFault /\ Send(r)
    <3>1. Goes(r, {"send"}, {"write", "sequence", "again"})
      BY ONLY <2>11, <2>t, Outcomes
    <3>2. asked' = asked /\ \A u \in Threads \ {r} : stream'[u] = stream[u]
      BY ONLY <2>11, <1>0 DEF Send, Own, locals
    <3>3. Aside(r)
      BY ONLY <3>1, <3>2, <2>t, <1>0 DEF Goes, Aside, Places, Fetching, Return
    <3>4. QED
      BY <3>3, <2>t, AsideKeeps
  <2>12. CASE NoFault /\ Write(r)
    <3>1. Goes(r, {"write", "sequence"}, {"again"})
      BY ONLY <2>12, <2>t, Outcomes
    <3>2. asked' = asked /\ \A u \in Threads \ {r} : stream'[u] = stream[u]
      BY ONLY <2>12, <1>0 DEF Write, Own, locals
    <3>3. Aside(r)
      BY ONLY <3>1, <3>2, <2>t, <1>0 DEF Goes, Aside, Places, Fetching, Return
    <3>4. QED
      BY <3>3, <2>t, AsideKeeps
  <2>13. CASE NoFault /\ Again(r)
    <3>1. Goes(r, {"again"}, {"client"})
      BY ONLY <2>13, <2>t, Outcomes
    <3>2. asked' = asked /\ \A u \in Threads \ {r} : stream'[u] = stream[u]
      BY ONLY <2>13, <1>0 DEF Again, Own, locals
    <3>3. Aside(r)
      BY ONLY <3>1, <3>2, <2>t, <1>0 DEF Goes, Aside, Places, Fetching, Return
    <3>4. QED
      BY <3>3, <2>t, AsideKeeps
  <2>14. CASE NoFault /\ Tally(r)
    <3>1. Goes(r, {"tally"}, {"idle", "observer"})
      BY ONLY <2>14, <2>t, Outcomes
    <3>2. asked' = asked /\ \A u \in Threads \ {r} : stream'[u] = stream[u]
      BY ONLY <2>14, <1>0 DEF Tally, Own, locals
    <3>3. Aside(r)
      BY ONLY <3>1, <3>2, <2>t, <1>0 DEF Goes, Aside, Places, Fetching, Return
    <3>4. QED
      BY <3>3, <2>t, AsideKeeps
  <2>15. CASE NoFault /\ Idle(r)
    <3>1. Goes(r, {"idle"}, {"unobserve"})
      BY ONLY <2>15, <2>t, Outcomes
    <3>2. asked' = asked /\ \A u \in Threads \ {r} : stream'[u] = stream[u]
      BY ONLY <2>15, <1>0 DEF Idle, Own, locals
    <3>3. Aside(r)
      BY ONLY <3>1, <3>2, <2>t, <1>0 DEF Goes, Aside, Places, Fetching, Return
    <3>4. QED
      BY <3>3, <2>t, AsideKeeps
  <2>16. QED
    BY <1>3, <2>1, <2>2, <2>3, <2>4, <2>5, <2>6, <2>7, <2>8, <2>9,
       <2>10, <2>11, <2>12, <2>13, <2>14, <2>15 DEF Read
<1>4. ASSUME NoFault, NEW t \in Threads, Call(t)
      PROVE  NewReaders'
  <2>1. CASE End(t)
    <3>1. Goes(t, {"end"}, {"died", Return(t)})
      BY ONLY <2>1, <1>4, Outcomes
    <3>2. asked' = asked /\ \A u \in Threads \ {t} : stream'[u] = stream[u]
      BY ONLY <2>1, <1>0 DEF End, Own, locals
    <3>3. Aside(t)
      BY ONLY <3>1, <3>2, <1>4, <1>0 DEF Goes, Aside, Places, Fetching, Return
    <3>4. QED
      BY <3>3, <1>4, AsideKeeps
  <2>2. CASE RemoveClient(t)
    <3>1. Goes(t, {"died"}, {"ended", "unobserve"})
      BY ONLY <2>2, <1>4, Outcomes
    <3>2. asked' = asked /\ \A u \in Threads \ {t} : stream'[u] = stream[u]
      BY ONLY <2>2, <1>0 DEF RemoveClient, Own, locals
    <3>3. Aside(t)
      BY ONLY <3>1, <3>2, <1>4, <1>0 DEF Goes, Aside, Places, Fetching, Return
    <3>4. QED
      BY <3>3, <1>4, AsideKeeps
  <2>3. CASE Ended(t)
    <3>1. Goes(t, {"ended"}, {Return(t)})
      BY ONLY <2>3, <1>4, Outcomes
    <3>2. asked' = asked /\ \A u \in Threads \ {t} : stream'[u] = stream[u]
      BY ONLY <2>3, <1>0 DEF Ended, Own, locals
    <3>3. Aside(t)
      BY ONLY <3>1, <3>2, <1>4, <1>0 DEF Goes, Aside, Places, Fetching, Return
    <3>4. QED
      BY <3>3, <1>4, AsideKeeps
  <2>4. CASE Unobserve(t)
    <3>1. Goes(t, {"unobserve"}, {"interrupt"})
      BY ONLY <2>4, <1>4, Outcomes
    <3>2. asked' = asked /\ \A u \in Threads \ {t} : stream'[u] = stream[u]
      BY ONLY <2>4, <1>0 DEF Unobserve, Own, locals
    <3>3. Aside(t)
      BY ONLY <3>1, <3>2, <1>4, <1>0 DEF Goes, Aside, Places, Fetching, Return
    <3>4. QED
      BY <3>3, <1>4, AsideKeeps
  <2>5. CASE Passing(t)
    <3>1. Goes(t, Interrupting, Interrupting \cup {"ended", "observer"})
      BY ONLY <2>5, <1>4, Outcomes
    <3>2. asked' = asked /\ \A u \in Threads \ {t} : stream'[u] = stream[u]
      BY ONLY <2>5, <1>4, <1>0, Passes DEF Passed
    <3>3. Aside(t)
      BY ONLY <3>1, <3>2, <1>4, <1>0 DEF Goes, Aside, Places, Fetching, Interrupting
    <3>4. QED
      BY <3>3, <1>4, AsideKeeps
  <2>6. CASE Throw(t)
    <3>1. Goes(t, {"tell", "tellAgain"}, {"thrown", "done"})
      BY ONLY <2>6, <1>4, Outcomes
    <3>2. asked' = asked /\ \A u \in Threads \ {t} : stream'[u] = stream[u]
      BY ONLY <2>6, <1>0 DEF Throw
    <3>3. Aside(t)
      BY ONLY <3>1, <3>2, <1>4, <1>0 DEF Goes, Aside, Places, Fetching
    <3>4. QED
      BY <3>3, <1>4, AsideKeeps
  <2>7. QED
    BY <1>4, <2>1, <2>2, <2>3, <2>4, <2>5, <2>6 DEF Call, Passing
<1>5. CASE UNCHANGED vars
  <2>1. pc' = pc /\ stream' = stream /\ asked' = asked
    BY <1>5 DEF vars, locals
  <2>2. QED
    BY <2>1 DEF NewReaders, NewReader
<1>6. QED
  BY <1>1, <1>2, <1>3, <1>4, <1>5 DEF Next

-----------------------------------------------------------------------------
(* Steps that enter and leave no monitor *)

Holding == {"write", "sequence", "died", "ended"}

\* Where a thread that an exception took out of _end is from then on.
Left == {"thrown", "finish", "over", "done"}

Calm(t) ==
  /\ UNCHANGED <<isActive, nis, monitor, manager, clients, announced, garbled, escaped>>
  /\ pc[t] \notin Holding \cup {"end"} /\ pc'[t] \notin Holding \cup {"none"}
  /\ pc[t] \in Interrupting => manager # t
  /\ pc[t] \in Left => pc'[t] \in Left
  /\ \A u \in Threads \ {t} :
       /\ who'[u] = who[u]
       /\ \/ pc'[u] = pc[u]
          \/ pc[u] \in {"none", "new"} /\ pc'[u] \in {"new", "begin"}

\* The others.
Monitored(t) == \/ Send(t) \/ Write(t) \/ WriteFails(t)
                \/ End(t) \/ RemoveClient(t) \/ Ended(t)
                \/ manager = t /\ (Unobserve(t) \/ Passing(t) \/ Throw(t))

LEMMA Steps ==
  ASSUME TypeInv, NewReaders, [Next]_vars
  PROVE  \/ UNCHANGED vars
         \/ \E c \in Clients : Accept(c)
         \/ \E t \in Threads : Calm(t) \/ Monitored(t)
<1>0. /\ pc \in [Threads -> Places] /\ who \in [Threads -> Clients]
  BY DEF TypeInv, TypeOK
<1>2. ASSUME NEW c \in Clients, Dispatch(c)
      PROVE  Calm(Dispatcher(c))
  <2> DEFINE t == Dispatcher(c)
  <2>t. t \in Threads /\ t \notin Requests /\ t[1] = c
    BY ThreadNames DEF Threads
  <2>u. t \in Threads
    BY <2>t
  <2> HIDE DEF t
  <2>1. CASE ReadFails(t)
    <3>1. Goes(t, {"read"}, {"end"})
      BY ONLY <2>1, <2>u, Outcomes
    <3>2. /\ UNCHANGED <<isActive, nis, monitor, manager, clients, announced, garbled, escaped>>
          /\ \A u \in Threads \ {t} : who'[u] = who[u]
      BY ONLY <2>1, <1>0 DEF ReadFails, Own, client, workflow, locals, history
    <3>3. Calm(t)
      BY ONLY <3>1, <3>2, <2>u, <1>0 DEF Goes, Calm, Holding, Interrupting, Left
    <3>4. QED
      BY ONLY <3>3 DEF t
  <2>2. CASE OpenFails(t)
    <3>1. Goes(t, {"open"}, {"done", "add"})
      BY ONLY <2>2, <2>u, Outcomes
    <3>2. /\ UNCHANGED <<isActive, nis, monitor, manager, clients, announced, garbled, escaped>>
          /\ \A u \in Threads \ {t} : who'[u] = who[u]
      BY ONLY <2>2, <1>0 DEF OpenFails, Own, client, workflow, locals, history
    <3>3. Calm(t)
      BY ONLY <3>1, <3>2, <2>u, <1>0 DEF Goes, Calm, Holding, Interrupting, Left
    <3>4. QED
      BY ONLY <3>3 DEF t
  <2>3. CASE Reply(t)
    <3>1. Goes(t, {"send"}, {"read", "end"})
      BY ONLY <2>3, <2>u, Outcomes
    <3>2. /\ UNCHANGED <<isActive, nis, monitor, manager, clients, announced, garbled, escaped>>
          /\ \A u \in Threads \ {t} : who'[u] = who[u]
      BY ONLY <2>3, <1>0 DEF Reply, Own, client, workflow, locals, history
    <3>3. Calm(t)
      BY ONLY <3>1, <3>2, <2>u, <1>0 DEF Goes, Calm, Holding, Interrupting, Left
    <3>4. QED
      BY ONLY <3>3 DEF t
  <2>4. CASE NoFault /\ Leave(t)
    <3>1. Goes(t, {"read"}, {"end", "done"})
      BY ONLY <2>4, <2>u, Outcomes
    <3>2. /\ UNCHANGED <<isActive, nis, monitor, manager, clients, announced, garbled, escaped>>
          /\ \A u \in Threads \ {t} : who'[u] = who[u]
      BY ONLY <2>4, <1>0 DEF Leave, Own, client, workflow, locals, history
    <3>3. Calm(t)
      BY ONLY <3>1, <3>2, <2>u, <1>0 DEF Goes, Calm, Holding, Interrupting, Left
    <3>4. QED
      BY ONLY <3>3 DEF t
  <2>5. CASE NoFault /\ Command(t)
    <3>1. Goes(t, {"read"}, {"send"})
      BY ONLY <2>5, <2>u, Outcomes
    <3>2. /\ UNCHANGED <<isActive, nis, monitor, manager, clients, announced, garbled, escaped>>
          /\ \A u \in Threads \ {t} : who'[u] = who[u]
      BY ONLY <2>5, <1>0 DEF Command, Own, client, workflow, locals, history
    <3>3. Calm(t)
      BY ONLY <3>1, <3>2, <2>u, <1>0 DEF Goes, Calm, Holding, Interrupting, Left
    <3>4. QED
      BY ONLY <3>3 DEF t
  <2>6. CASE NoFault /\ GetStream(t)
    <3>1. Goes(t, {"read"}, {"lookup"})
      BY ONLY <2>6, <2>u, Outcomes
    <3>2. /\ UNCHANGED <<isActive, nis, monitor, manager, clients, announced, garbled, escaped>>
          /\ \A u \in Threads \ {t} : who'[u] = who[u]
      BY ONLY <2>6, <1>0 DEF GetStream, Own, client, workflow, locals, history
    <3>3. Calm(t)
      BY ONLY <3>1, <3>2, <2>u, <1>0 DEF Goes, Calm, Holding, Interrupting, Left
    <3>4. QED
      BY ONLY <3>3 DEF t
  <2>7. CASE NoFault /\ Lookup(t)
    <3>1. Goes(t, {"lookup"}, {"put", "observe"})
      BY ONLY <2>7, <2>u, Outcomes
    <3>2. /\ UNCHANGED <<isActive, nis, monitor, manager, clients, announced, garbled, escaped>>
          /\ \A u \in Threads \ {t} : who'[u] = who[u]
      BY ONLY <2>7, <1>0 DEF Lookup, Own, client, workflow, locals, history
    <3>3. Calm(t)
      BY ONLY <3>1, <3>2, <2>u, <1>0 DEF Goes, Calm, Holding, Interrupting, Left
    <3>4. QED
      BY ONLY <3>3 DEF t
  <2>8. CASE NoFault /\ Put(t)
    <3>1. Goes(t, {"put"}, {"observe"})
      BY ONLY <2>8, <2>u, Outcomes
    <3>2. /\ UNCHANGED <<isActive, nis, monitor, manager, clients, announced, garbled, escaped>>
          /\ \A u \in Threads \ {t} : who'[u] = who[u]
      BY ONLY <2>8, <1>0 DEF Put, Own, client, workflow, locals, history
    <3>3. Calm(t)
      BY ONLY <3>1, <3>2, <2>u, <1>0 DEF Goes, Calm, Holding, Interrupting, Left
    <3>4. QED
      BY ONLY <3>3 DEF t
  <2>9. CASE NoFault /\ Observe(t)
    <3>1. Goes(t, {"observe"}, {"open"})
      BY ONLY <2>9, <2>u, Outcomes
    <3>2. /\ UNCHANGED <<isActive, nis, monitor, manager, clients, announced, garbled, escaped>>
          /\ \A u \in Threads \ {t} : who'[u] = who[u]
      BY ONLY <2>9, <1>0 DEF Observe, Own, client, workflow, locals, history
    <3>3. Calm(t)
      BY ONLY <3>1, <3>2, <2>u, <1>0 DEF Goes, Calm, Holding, Interrupting, Left
    <3>4. QED
      BY ONLY <3>3 DEF t
  <2>10. CASE NoFault /\ Open(t)
    <3>1. /\ pc[t] = "open"
          /\ pc' = [pc EXCEPT ![t] = "start", ![<<c, stream[t]>>] = "new"]
      BY ONLY <2>10, <2>t DEF Open
    <3>2. /\ UNCHANGED <<isActive, nis, monitor, manager, clients, announced, garbled, escaped>>
          /\ \A u \in Threads \ {t} : who'[u] = who[u]
      BY ONLY <2>10, <1>0 DEF Open, Own, client, workflow, locals, history
    <3>3. stream[t] \in Streams
      BY <3>1, <2>t DEF TypeInv, StreamInHand, Naming, Fetching
    <3>4. <<c, stream[t]>> \in Requests /\ <<c, stream[t]>> \in Threads
      BY <3>3 DEF Requests, Threads
    <3>5. pc[<<c, stream[t]>>] = "none"
      BY <3>1, <3>3 DEF NewReaders, NewReader, Fetching, t
    <3>6. Calm(t)
      BY ONLY <3>1, <3>2, <3>4, <3>5, <2>u, <1>0 DEF Calm, Holding, Interrupting, Left
    <3>7. QED
      BY ONLY <3>6 DEF t
  <2>11. CASE NoFault /\ Start(t)
    <3>1. /\ pc[t] = "start"
          /\ pc' = [pc EXCEPT ![t] = "add", ![<<c, stream[t]>>] = "begin"]
      BY ONLY <2>11, <2>t DEF Start
    <3>2. /\ UNCHANGED <<isActive, nis, monitor, manager, clients, announced, garbled, escaped>>
          /\ \A u \in Threads \ {t} : who'[u] = who[u]
      BY ONLY <2>11, <1>0 DEF Start, Own, client, workflow, locals, history
    <3>3. stream[t] \in Streams
      BY <3>1, <2>t DEF TypeInv, StreamInHand, Naming, Fetching
    <3>4. <<c, stream[t]>> \in Requests /\ <<c, stream[t]>> \in Threads
      BY <3>3 DEF Requests, Threads
    <3>5. pc[<<c, stream[t]>>] = "new"
      BY <3>1, <3>3 DEF NewReaders, NewReader, Fetching, t
    <3>6. Calm(t)
      BY ONLY <3>1, <3>2, <3>4, <3>5, <2>u, <1>0 DEF Calm, Holding, Interrupting, Left
    <3>7. QED
      BY ONLY <3>6 DEF t
  <2>12. CASE NoFault /\ Add(t)
    <3>1. Goes(t, {"add"}, {"send"})
      BY ONLY <2>12, <2>u, Outcomes
    <3>2. /\ UNCHANGED <<isActive, nis, monitor, manager, clients, announced, garbled, escaped>>
          /\ \A u \in Threads \ {t} : who'[u] = who[u]
      BY ONLY <2>12, <1>0 DEF Add, Own, client, workflow, locals, history
    <3>3. Calm(t)
      BY ONLY <3>1, <3>2, <2>u, <1>0 DEF Goes, Calm, Holding, Interrupting, Left
    <3>4. QED
      BY ONLY <3>3 DEF t
  <2>13. QED
    BY <1>2, <2>1, <2>2, <2>3, <2>4, <2>5, <2>6, <2>7, <2>8, <2>9, <2>10, <2>11, <2>12
       DEF Dispatch, t
<1>3. ASSUME NEW r \in Requests, Read(r)
      PROVE  Calm(r) \/ Monitored(r)
  <2>t. r \in Threads
    BY DEF Threads
  <2>1. CASE Finishing(r)
    <3>1. Goes(r, {"loop"}, {"finish"})
      BY ONLY <2>1, <2>t, Outcomes
    <3>2. /\ UNCHANGED <<isActive, nis, monitor, manager, clients, announced, garbled, escaped>>
          /\ \A u \in Threads \ {r} : who'[u] = who[u]
      BY ONLY <2>1, <1>0 DEF Finishing, Own, client, workflow, locals, history
    <3>3. Calm(r)
      BY ONLY <3>1, <3>2, <2>t, <1>0 DEF Goes, Calm, Holding, Interrupting, Left
    <3>4. QED
      BY ONLY <3>3
  <2>2. CASE Failing(r)
    <3>1. Goes(r, {"begin", "loop", "thrown"}, {"finish"})
      BY ONLY <2>2, <2>t, Outcomes
    <3>2. /\ UNCHANGED <<isActive, nis, monitor, manager, clients, announced, garbled, escaped>>
          /\ \A u \in Threads \ {r} : who'[u] = who[u]
      BY ONLY <2>2, <1>0 DEF Failing, Own, client, workflow, locals, history
    <3>3. Calm(r)
      BY ONLY <3>1, <3>2, <2>t, <1>0 DEF Goes, Calm, Holding, Interrupting, Left
    <3>4. QED
      BY ONLY <3>3
  <2>3. CASE WriteFails(r)
    BY <2>3 DEF Monitored
  <2>4. CASE NoFault /\ Begin(r)
    <3>1. Goes(r, {"begin"}, {"loop", "finish"})
      BY ONLY <2>4, <2>t, Outcomes
    <3>2. /\ UNCHANGED <<isActive, nis, monitor, manager, clients, announced, garbled, escaped>>
          /\ \A u \in Threads \ {r} : who'[u] = who[u]
      BY ONLY <2>4, <1>0 DEF Begin, Own, client, workflow, locals, history
    <3>3. Calm(r)
      BY ONLY <3>1, <3>2, <2>t, <1>0 DEF Goes, Calm, Holding, Interrupting, Left
    <3>4. QED
      BY ONLY <3>3
  <2>5. CASE NoFault /\ Finish(r)
    <3>1. Goes(r, {"finish"}, {"over"})
      BY ONLY <2>5, <2>t, Outcomes
    <3>2. /\ UNCHANGED <<isActive, nis, monitor, manager, clients, announced, garbled, escaped>>
          /\ \A u \in Threads \ {r} : who'[u] = who[u]
      BY ONLY <2>5, <1>0 DEF Finish, Own, client, workflow, locals, history
    <3>3. Calm(r)
      BY ONLY <3>1, <3>2, <2>t, <1>0 DEF Goes, Calm, Holding, Interrupting, Left
    <3>4. QED
      BY ONLY <3>3
  <2>6. CASE NoFault /\ NextImage(r)
    <3>1. Goes(r, {"loop"}, {"observer"})
      BY ONLY <2>6, <2>t, Outcomes
    <3>2. /\ UNCHANGED <<isActive, nis, monitor, manager, clients, announced, garbled, escaped>>
          /\ \A u \in Threads \ {r} : who'[u] = who[u]
      BY ONLY <2>6, <1>0 DEF NextImage, Own, client, workflow, locals, history
    <3>3. Calm(r)
      BY ONLY <3>1, <3>2, <2>t, <1>0 DEF Goes, Calm, Holding, Interrupting, Left
    <3>4. QED
      BY ONLY <3>3
  <2>7. CASE NoFault /\ NextObserver(r)
    <3>1. Goes(r, {"observer"}, {"observer", "count"})
      BY ONLY <2>7, <2>t, Outcomes
    <3>2. /\ UNCHANGED <<isActive, nis, monitor, manager, clients, announced, garbled, escaped>>
          /\ \A u \in Threads \ {r} : who'[u] = who[u]
      BY ONLY <2>7, <1>0 DEF NextObserver, Own, client, workflow, locals, history
    <3>3. Calm(r)
      BY ONLY <3>1, <3>2, <2>t, <1>0 DEF Goes, Calm, Holding, Interrupting, Left
    <3>4. QED
      BY ONLY <3>3
  <2>8. CASE NoFault /\ LastObserver(r)
    <3>1. Goes(r, {"observer"}, {"loop", "finish"})
      BY ONLY <2>8, <2>t, Outcomes
    <3>2. /\ UNCHANGED <<isActive, nis, monitor, manager, clients, announced, garbled, escaped>>
          /\ \A u \in Threads \ {r} : who'[u] = who[u]
      BY ONLY <2>8, <1>0 DEF LastObserver, Own, client, workflow, locals, history
    <3>3. Calm(r)
      BY ONLY <3>1, <3>2, <2>t, <1>0 DEF Goes, Calm, Holding, Interrupting, Left
    <3>4. QED
      BY ONLY <3>3
  <2>9. CASE NoFault /\ Count(r)
    <3>1. Goes(r, {"count"}, {"idle", "client"})
      BY ONLY <2>9, <2>t, Outcomes
    <3>2. /\ UNCHANGED <<isActive, nis, monitor, manager, clients, announced, garbled, escaped>>
          /\ \A u \in Threads \ {r} : who'[u] = who[u]
      BY ONLY <2>9, <1>0 DEF Count, Own, client, workflow, locals, history
    <3>3. Calm(r)
      BY ONLY <3>1, <3>2, <2>t, <1>0 DEF Goes, Calm, Holding, Interrupting, Left
    <3>4. QED
      BY ONLY <3>3
  <2>10. CASE NoFault /\ NextClient(r)
    <3>1. Goes(r, {"client"}, {"tally", "send", "again"})
      BY ONLY <2>10, <2>t, Outcomes
    <3>2. /\ UNCHANGED <<isActive, nis, monitor, manager, clients, announced, garbled, escaped>>
          /\ \A u \in Threads \ {r} : who'[u] = who[u]
      BY ONLY <2>10, <1>0 DEF NextClient, Own, client, workflow, locals, history
    <3>3. Calm(r)
      BY ONLY <3>1, <3>2, <2>t, <1>0 DEF Goes, Calm, Holding, Interrupting, Left
    <3>4. QED
      BY ONLY <3>3
  <2>11. CASE NoFault /\ Send(r)
    BY <2>11 DEF Monitored
  <2>12. CASE NoFault /\ Write(r)
    BY <2>12 DEF Monitored
  <2>13. CASE NoFault /\ Again(r)
    <3>1. Goes(r, {"again"}, {"client"})
      BY ONLY <2>13, <2>t, Outcomes
    <3>2. /\ UNCHANGED <<isActive, nis, monitor, manager, clients, announced, garbled, escaped>>
          /\ \A u \in Threads \ {r} : who'[u] = who[u]
      BY ONLY <2>13, <1>0 DEF Again, Own, client, workflow, locals, history
    <3>3. Calm(r)
      BY ONLY <3>1, <3>2, <2>t, <1>0 DEF Goes, Calm, Holding, Interrupting, Left
    <3>4. QED
      BY ONLY <3>3
  <2>14. CASE NoFault /\ Tally(r)
    <3>1. Goes(r, {"tally"}, {"idle", "observer"})
      BY ONLY <2>14, <2>t, Outcomes
    <3>2. /\ UNCHANGED <<isActive, nis, monitor, manager, clients, announced, garbled, escaped>>
          /\ \A u \in Threads \ {r} : who'[u] = who[u]
      BY ONLY <2>14, <1>0 DEF Tally, Own, client, workflow, locals, history
    <3>3. Calm(r)
      BY ONLY <3>1, <3>2, <2>t, <1>0 DEF Goes, Calm, Holding, Interrupting, Left
    <3>4. QED
      BY ONLY <3>3
  <2>15. CASE NoFault /\ Idle(r)
    <3>1. Goes(r, {"idle"}, {"unobserve"})
      BY ONLY <2>15, <2>t, Outcomes
    <3>2. /\ UNCHANGED <<isActive, nis, monitor, manager, clients, announced, garbled, escaped>>
          /\ \A u \in Threads \ {r} : who'[u] = who[u]
      BY ONLY <2>15, <1>0 DEF Idle, Own, client, workflow, locals, history
    <3>3. Calm(r)
      BY ONLY <3>1, <3>2, <2>t, <1>0 DEF Goes, Calm, Holding, Interrupting, Left
    <3>4. QED
      BY ONLY <3>3
  <2>16. QED
    BY <1>3, <2>1, <2>2, <2>3, <2>4, <2>5, <2>6, <2>7, <2>8, <2>9,
       <2>10, <2>11, <2>12, <2>13, <2>14, <2>15 DEF Read
<1>4. ASSUME NEW t \in Threads, Call(t)
      PROVE  Calm(t) \/ Monitored(t)
  <2>1. CASE manager # t /\ Unobserve(t)
    <3>1. Goes(t, {"unobserve"}, {"interrupt"})
      BY ONLY <2>1, <1>4, Outcomes
    <3>2. /\ UNCHANGED <<isActive, nis, monitor, manager, clients, announced, garbled, escaped>>
          /\ \A u \in Threads \ {t} : who'[u] = who[u]
      BY ONLY <2>1, <1>0 DEF Unobserve, Own, client, workflow, locals, history
    <3>3. QED
      BY ONLY <3>1, <3>2, <2>1, <1>4, <1>0 DEF Goes, Calm, Holding, Interrupting, Left
  <2>2. CASE manager # t /\ Passing(t)
    <3>1. Passed(t)
      BY ONLY <2>2, <1>4, Passes
    <3>2. Goes(t, Interrupting, Interrupting \cup {"ended", "observer"})
      BY ONLY <2>2, <1>4, Outcomes
    <3>3. pc' = [pc EXCEPT ![t] = pc'[t]] /\ pc'[t] \in Interrupting \cup {"observer"}
      BY ONLY <3>1, <2>2, <1>4, <1>0 DEF Passed
    <3>4. /\ UNCHANGED <<isActive, nis, monitor, manager, clients, announced, garbled, escaped>>
          /\ \A u \in Threads \ {t} : who'[u] = who[u]
      BY ONLY <3>1 DEF Passed, client, history
    <3>5. QED
      BY ONLY <3>2, <3>3, <3>4, <2>2, <1>4, <1>0 DEF Goes, Calm, Holding, Interrupting, Left
  <2>3. CASE manager # t /\ Throw(t)
    <3>1. Goes(t, {"tell", "tellAgain"}, {"thrown", "done"})
      BY ONLY <2>3, <1>4, Outcomes
    <3>2. /\ UNCHANGED <<isActive, nis, monitor, manager, clients, announced, garbled, escaped>>
          /\ \A u \in Threads \ {t} : who'[u] = who[u]
      BY ONLY <2>3, <1>0 DEF Throw
    <3>3. QED
      BY ONLY <3>1, <3>2, <2>3, <1>4, <1>0 DEF Goes, Calm, Holding, Interrupting, Left
  <2>4. CASE \/ End(t) \/ RemoveClient(t) \/ Ended(t)
             \/ manager = t /\ (Unobserve(t) \/ Passing(t) \/ Throw(t))
    BY <2>4 DEF Monitored
  <2>5. QED
    BY <1>4, <2>1, <2>2, <2>3, <2>4 DEF Call, Passing
<1>5. \A c \in Clients : Dispatcher(c) \in Threads
  BY ThreadNames DEF Threads
<1>6. Requests \subseteq Threads
  BY DEF Threads
<1>7. QED
  BY <1>2, <1>3, <1>4, <1>5, <1>6 DEF Next

-----------------------------------------------------------------------------
(* Who holds which monitor *)

\* A client's monitor is held by one thread, in send or _end for that client; the
\* manager's by one that is in _end.
Holders ==
  /\ \A k \in Clients :
       monitor[k] # NULL => /\ who[monitor[k]] = k
                            /\ \/ pc[monitor[k]] \in {"write", "sequence", "end"}
                               \/ Ending(monitor[k])
  /\ \A t \in Threads :
       pc[t] \in {"write", "sequence"} \/ Ending(t) => monitor[who[t]] = t
  /\ manager # NULL => pc[manager] \in Interrupting \cup {"ended"}
  /\ \A t \in Threads : pc[t] = "ended" => manager = t

LEMMA HoldersInit ==
  ASSUME Init
  PROVE  Holders
BY ThreadNames DEF Init, Holders, Ending, Interrupting

LEMMA HoldersNext ==
  ASSUME TypeInv, NewReaders, Holders, [Next]_vars
  PROVE  Holders'
<1>0. /\ pc \in [Threads -> Places] /\ who \in [Threads -> Clients]
      /\ monitor \in [Clients -> Threads \cup {NULL}] /\ manager \in Threads \cup {NULL}
      /\ Holders /\ NULL \notin Threads
  BY ThreadNames DEF TypeInv, TypeOK
<1>1. CASE UNCHANGED vars
  <2>1. pc' = pc /\ who' = who /\ monitor' = monitor /\ manager' = manager
    BY <1>1 DEF vars, locals, client, workflow
  <2>2. QED
    BY ONLY <2>1, <1>0 DEF Holders, Ending, Interrupting
<1>2. ASSUME NEW c \in Clients, Accept(c)
      PROVE  Holders'
  <2>1. /\ Dispatcher(c) \in Threads
        /\ pc[Dispatcher(c)] = "none" /\ pc' = [pc EXCEPT ![Dispatcher(c)] = "read"]
        /\ who' = who /\ monitor' = monitor /\ manager' = manager
    BY <1>2, ThreadNames DEF Accept, Step, locals, Threads
  <2>2. QED
    BY ONLY <2>1, <1>0 DEF Holders, Ending, Interrupting
<1>3. ASSUME NEW t \in Threads, Calm(t)
      PROVE  Holders'
  <2>1. /\ monitor' = monitor /\ manager' = manager
        /\ pc[t] \notin Holding \cup {"end"} /\ pc'[t] \notin Holding \cup {"none"}
        /\ pc[t] \in Interrupting => manager # t
        /\ \A u \in Threads \ {t} :
             /\ who'[u] = who[u]
             /\ \/ pc'[u] = pc[u]
                \/ pc[u] \in {"none", "new"} /\ pc'[u] \in {"new", "begin"}
    BY ONLY <1>3 DEF Calm
  <2>2. manager # t
    BY ONLY <2>1, <1>0 DEF Holders, Holding, Interrupting
  <2>3. \A k \in Clients : monitor[k] # t
    BY ONLY <2>1, <1>0, <1>3 DEF Holders, Holding, Ending, Interrupting
  <2>4. QED
    BY ONLY <2>1, <2>2, <2>3, <1>0, <1>3 DEF Holders, Holding, Ending, Interrupting
<1>4. ASSUME NEW t \in Threads, Monitored(t)
      PROVE  Holders'
  <2>1. CASE Send(t)
    <3>1. who' = who /\ manager' = manager /\ pc[t] = "send" /\ monitor[who[t]] = NULL
      BY ONLY <2>1 DEF Send, Step, locals, workflow
    <3>2. CASE isActive[who[t]]
      <4>1. /\ monitor' = [monitor EXCEPT ![who[t]] = t]
            /\ \E p \in {"write", "sequence"} : pc' = [pc EXCEPT ![t] = p]
        BY ONLY <2>1, <3>2 DEF Send, Step
      <4>2. QED
        BY ONLY <3>1, <4>1, <1>0, <1>4 DEF Holders, Ending, Interrupting
    <3>3. CASE ~isActive[who[t]]
      <4>1. monitor' = monitor /\ pc' = [pc EXCEPT ![t] = "again"]
        BY ONLY <2>1, <3>3 DEF Send, Step
      <4>2. QED
        BY ONLY <3>1, <4>1, <1>0, <1>4 DEF Holders, Ending, Interrupting
    <3>4. QED
      BY <3>2, <3>3
  <2>2. CASE Write(t)
    <3>1. /\ who' = who /\ manager' = manager /\ pc[t] \in {"write", "sequence"}
          /\ monitor' = [monitor EXCEPT ![who[t]] = NULL]
          /\ pc' = [pc EXCEPT ![t] = "again"]
      BY ONLY <2>2 DEF Write, Step, locals, workflow
    <3>2. monitor[who[t]] = t
      BY ONLY <3>1, <1>0, <1>4 DEF Holders
    <3>3. QED
      BY ONLY <3>1, <3>2, <1>0, <1>4 DEF Holders, Ending, Interrupting
  <2>3. CASE WriteFails(t)
    <3>1. /\ who' = who /\ manager' = manager /\ pc[t] \in {"write", "sequence"}
          /\ monitor' = monitor /\ pc' = [pc EXCEPT ![t] = "end"]
      BY ONLY <2>3 DEF WriteFails, Step, Own, locals, workflow, client
    <3>2. QED
      BY ONLY <3>1, <1>0, <1>4 DEF Holders, Ending, Interrupting
  <2>4. CASE End(t)
    <3>1. /\ who' = who /\ manager' = manager /\ pc[t] = "end"
          /\ monitor[who[t]] \in {NULL, t}
      BY ONLY <2>4 DEF End, Step, locals
    <3>2. CASE isActive[who[t]]
      <4>1. /\ monitor' = [monitor EXCEPT ![who[t]] = t]
            /\ pc' = [pc EXCEPT ![t] = "died"]
        BY ONLY <2>4, <3>2 DEF End, Step
      <4>2. QED
        BY ONLY <3>1, <4>1, <1>0, <1>4 DEF Holders, Ending, Interrupting
    <3>3. CASE ~isActive[who[t]]
      <4>1. /\ monitor' = [monitor EXCEPT ![who[t]] = NULL]
            /\ \E p \in {"again", "done"} : pc' = [pc EXCEPT ![t] = p]
        BY ONLY <2>4, <3>3 DEF End, Step, Return
      <4>2. QED
        BY ONLY <3>1, <4>1, <1>0, <1>4 DEF Holders, Ending, Interrupting
    <3>4. QED
      BY <3>2, <3>3
  <2>5. CASE RemoveClient(t)
    <3>1. /\ who' = who /\ manager = NULL /\ manager' = t /\ pc[t] = "died"
          /\ monitor' = monitor
          /\ \E p \in {"ended", "unobserve"} : pc' = [pc EXCEPT ![t] = p]
      BY ONLY <2>5 DEF RemoveClient, Step, client
    <3>2. QED
      BY ONLY <3>1, <1>0, <1>4 DEF Holders, Ending, Interrupting
  <2>6. CASE Ended(t)
    <3>1. /\ who' = who /\ manager' = NULL /\ pc[t] = "ended"
          /\ monitor' = [monitor EXCEPT ![who[t]] = NULL]
          /\ \E p \in {"again", "done"} : pc' = [pc EXCEPT ![t] = p]
      BY ONLY <2>6 DEF Ended, Step, Return
    <3>2. manager = t /\ monitor[who[t]] = t
      BY ONLY <3>1, <1>0, <1>4 DEF Holders, Ending, Interrupting
    <3>3. QED
      BY ONLY <3>1, <3>2, <1>0, <1>4 DEF Holders, Ending, Interrupting
  <2>7. CASE manager = t /\ Unobserve(t)
    <3>1. /\ who' = who /\ manager' = manager /\ manager = t /\ monitor' = monitor
          /\ pc[t] = "unobserve" /\ pc' = [pc EXCEPT ![t] = "interrupt"]
      BY ONLY <2>7 DEF Unobserve, Step, client, locals
    <3>2. QED
      BY ONLY <3>1, <1>0, <1>4 DEF Holders, Ending, Interrupting
  <2>8. CASE manager = t /\ Passing(t)
    <3>1. Passed(t)
      BY ONLY <2>8, <1>4, Passes
    <3>2. /\ who' = who /\ manager' = manager /\ manager = t /\ monitor' = monitor
          /\ pc[t] \in Interrupting
          /\ \E p \in Interrupting \cup {"ended"} : pc' = [pc EXCEPT ![t] = p]
      BY ONLY <3>1, <2>8 DEF Passed, client
    <3>3. QED
      BY ONLY <3>2, <1>0, <1>4 DEF Holders, Ending, Interrupting
  <2>9. CASE manager = t /\ Throw(t)
    <3>1. /\ pc[t] \in Interrupting /\ manager = t /\ manager' = NULL
          /\ monitor' = [monitor EXCEPT ![who[t]] = NULL]
          /\ who' = [who EXCEPT ![t] = t[1]]
          /\ \E p \in {"thrown", "done"} : pc' = [pc EXCEPT ![t] = p]
      BY ONLY <2>9 DEF Throw, Interrupting
    <3>2. monitor[who[t]] = t
      BY ONLY <3>1, <1>0, <1>4 DEF Holders, Ending
    <3>3. QED
      BY ONLY <3>1, <3>2, <1>0, <1>4 DEF Holders, Ending, Interrupting
  <2>10. QED
    BY <1>4, <2>1, <2>2, <2>3, <2>4, <2>5, <2>6, <2>7, <2>8, <2>9 DEF Monitored
<1>5. QED
  BY <1>1, <1>2, <1>3, <1>4, Steps

LEMMA HoldersWait ==
  ASSUME TypeInv, Holders
  PROVE  NoDeadlock
<1>0. /\ \A k \in Clients : monitor[k] \in Threads \cup {NULL}
      /\ \A t \in Threads : who[t] \in Clients
      /\ \A r \in Requests : cli[r].ahead \in Clients \cup {NULL}
      /\ manager \in Threads \cup {NULL}
      /\ NULL \notin Threads
  BY ThreadNames DEF TypeInv, TypeOK, Iterator
<1>1. ASSUME NEW t \in Threads, NEW u \in WaitsFor(t)
      PROVE  \/ u = manager /\ manager # NULL
             \/ \E k \in Clients : u = monitor[k] /\ monitor[k] # NULL
  BY <1>0, <1>1 DEF WaitsFor
<1>2. ASSUME manager # NULL
      PROVE  WaitsFor(manager) = {}
  BY <1>0, <1>2 DEF Holders, WaitsFor, Interrupting
<1>3. ASSUME NEW k \in Clients, monitor[k] # NULL
      PROVE  WaitsFor(monitor[k]) \subseteq {manager} \ {NULL}
  BY <1>0, <1>3 DEF Holders, WaitsFor, Ending, Interrupting
<1>4. ASSUME NEW ts \in (SUBSET Waiting) \ {{}}
      PROVE  \E t \in ts : WaitsFor(t) \cap ts = {}
  <2>1. PICK t \in ts : t \in Threads
    BY <1>4 DEF Waiting
  <2>2. CASE WaitsFor(t) \cap ts = {}
    BY <2>1, <2>2
  <2>3. CASE WaitsFor(t) \cap ts # {}
    <3>1. PICK u \in ts : u \in WaitsFor(t)
      BY <2>3
    <3>2. WaitsFor(u) # {}
      BY <3>1 DEF Waiting
    <3>3. PICK k \in Clients : u = monitor[k] /\ monitor[k] # NULL
      BY <1>1, <1>2, <2>1, <3>1, <3>2
    <3>4. manager \notin ts \/ manager = NULL
      BY <1>2 DEF Waiting
    <3>5. WaitsFor(u) \cap ts = {}
      BY <1>3, <3>3, <3>4
    <3>6. QED
      BY <3>1, <3>5
  <2>4. QED
    BY <2>2, <2>3
<1>5. QED
  BY <1>4 DEF NoDeadlock

-----------------------------------------------------------------------------
(* What a client is sent *)

\* Those whose _end an exception left.  They may have a NewImageSequence that was made and
\* not sent.
Escapees == {x[2] : x \in escaped}

\* Without the monitor two readers could send the first image, or one of them another
\* image before it.
Sequence ==
  /\ \A k \in Clients : nis[k] \/ isActive[k] => pc[Dispatcher(k)] # "none"
  /\ \A k \in announced : nis[k]
  /\ \A k \in Clients \ Escapees :
       nis[k] /\ isActive[k] /\ k \notin announced => /\ monitor[k] # NULL
                                                      /\ pc[monitor[k]] # "write"
  /\ \A t \in Threads : /\ pc[t] = "write" => who[t] \in announced \cup Escapees
                        /\ pc[t] = "sequence" => who[t] \notin announced /\ nis[who[t]]
  /\ garbled \subseteq Escapees

LEMMA SequenceInit ==
  ASSUME Init
  PROVE  Sequence
BY ThreadNames DEF Init, Sequence

LEMMA SequenceNext ==
  ASSUME TypeInv, NewReaders, Holders, Sequence, [Next]_vars
  PROVE  Sequence'
<1>0. /\ pc \in [Threads -> Places] /\ who \in [Threads -> Clients]
      /\ monitor \in [Clients -> Threads \cup {NULL}]
      /\ isActive \in [Clients -> BOOLEAN] /\ nis \in [Clients -> BOOLEAN]
      /\ announced \subseteq Clients /\ NULL \notin Threads
  BY ThreadNames DEF TypeInv, TypeOK
<1>d. \A k \in Clients : Dispatcher(k) \in Threads
  BY ThreadNames DEF Threads
<1>1. CASE UNCHANGED vars
  <2>1. /\ pc' = pc /\ who' = who /\ monitor' = monitor /\ isActive' = isActive
        /\ nis' = nis /\ announced' = announced /\ garbled' = garbled /\ Escapees' = Escapees
    BY <1>1 DEF vars, locals, client, history, Escapees
  <2>2. QED
    BY ONLY <2>1, Sequence DEF Sequence
<1>2. ASSUME NEW c \in Clients, Accept(c)
      PROVE  Sequence'
  <2>1. /\ pc[Dispatcher(c)] = "none" /\ pc' = [pc EXCEPT ![Dispatcher(c)] = "read"]
        /\ who' = who /\ monitor' = monitor /\ nis' = nis
        /\ announced' = announced /\ garbled' = garbled /\ Escapees' = Escapees
        /\ \E made \in BOOLEAN : isActive' = [isActive EXCEPT ![c] = made]
    BY <1>2 DEF Accept, Step, locals, history, Escapees
  <2>2. ~nis[c]
    BY <2>1 DEF Sequence
  <2>3. \A t \in Threads : /\ pc'[t] = "write" => pc[t] = "write"
                           /\ pc'[t] = "sequence" => pc[t] = "sequence"
    BY ONLY <2>1, <1>0, <1>d
  <2>4. \A k \in Clients : /\ pc[Dispatcher(k)] # "none" => pc'[Dispatcher(k)] # "none"
                           /\ isActive'[k] => isActive[k] \/ k = c
    BY ONLY <2>1, <1>0, <1>d
  <2>5. pc'[Dispatcher(c)] # "none"
    BY ONLY <2>1, <1>0, <1>d
  <2>6. \A k \in Clients : monitor[k] # NULL => monitor[k] \in Threads
    BY ONLY <1>0
  <2>7. QED
    BY ONLY <2>1, <2>2, <2>3, <2>4, <2>5, <2>6, Sequence DEF Sequence
<1>3. ASSUME NEW t \in Threads, Calm(t)
      PROVE  Sequence'
  <2>1. /\ monitor' = monitor /\ isActive' = isActive /\ nis' = nis
        /\ announced' = announced /\ garbled' = garbled /\ Escapees' = Escapees
        /\ pc[t] \notin Holding \cup {"end"} /\ pc'[t] \notin Holding \cup {"none"}
        /\ \A u \in Threads \ {t} :
             /\ who'[u] = who[u]
             /\ \/ pc'[u] = pc[u]
                \/ pc[u] \in {"none", "new"} /\ pc'[u] \in {"new", "begin"}
    BY ONLY <1>3 DEF Calm, Escapees
  <2>2. \A u \in Threads : /\ pc'[u] = "write" => pc[u] = "write" /\ who'[u] = who[u]
                           /\ pc'[u] = "sequence" => pc[u] = "sequence" /\ who'[u] = who[u]
                           /\ pc'[u] = "none" => pc[u] = "none"
    BY ONLY <2>1 DEF Holding
  <2>3. \A k \in Clients : monitor[k] # NULL => monitor[k] \in Threads
    BY ONLY <1>0
  <2>4. QED
    BY ONLY <2>1, <2>2, <2>3, <1>d, Sequence DEF Sequence
<1>4. ASSUME NEW t \in Threads, Monitored(t)
      PROVE  Sequence'
  <2>t. who[t] \in Clients
    BY <1>0
  <2>1. CASE Send(t)
    <3>1. /\ who' = who /\ isActive' = isActive /\ pc[t] = "send" /\ monitor[who[t]] = NULL
          /\ announced' = announced /\ garbled' = garbled /\ Escapees' = Escapees
      BY ONLY <2>1 DEF Send, Step, locals, history, Escapees
    <3>2. CASE isActive[who[t]] /\ nis[who[t]]
      <4>1. /\ monitor' = [monitor EXCEPT ![who[t]] = t]
            /\ pc' = [pc EXCEPT ![t] = "write"] /\ nis' = [nis EXCEPT ![who[t]] = TRUE]
        BY ONLY <2>1, <3>2 DEF Send, Step
      <4>2. who[t] \in announced \cup Escapees
        BY <2>t, <3>1, <3>2 DEF Sequence
      <4>3. \A k \in Clients : nis'[k] <=> nis[k]
        BY ONLY <3>2, <4>1, <1>0, <2>t
      <4>4. \A k \in announced : nis'[k]
        BY <4>3, <1>0 DEF Sequence
      <4>5. \A k \in Clients : nis'[k] \/ isActive'[k] => pc'[Dispatcher(k)] # "none"
        BY <3>1, <4>1, <4>3, <1>0, <1>d, <1>4 DEF Sequence
      <4>6. \A k \in Clients \ Escapees :
               nis'[k] /\ isActive'[k] /\ k \notin announced => /\ monitor'[k] # NULL
                                                              /\ pc'[monitor'[k]] # "write"
        <5>1. \A k \in Clients : monitor[k] # t
          BY <3>1, <1>0 DEF Holders, Ending
        <5>2. QED
          BY <3>1, <4>1, <4>2, <4>3, <5>1, <1>0, <1>4, <2>t DEF Sequence
      <4>7. \A u \in Threads : /\ pc'[u] = "write" => who[u] \in announced \cup Escapees
                               /\ pc'[u] = "sequence" => who[u] \notin announced /\ nis'[who[u]]
        BY <3>1, <4>1, <4>2, <4>3, <1>0, <1>4 DEF Sequence
      <4>8. QED
        BY ONLY <3>1, <4>4, <4>5, <4>6, <4>7, Sequence DEF Sequence
    <3>3. CASE isActive[who[t]] /\ ~nis[who[t]]
      <4>1. /\ monitor' = [monitor EXCEPT ![who[t]] = t]
            /\ pc' = [pc EXCEPT ![t] = "sequence"] /\ nis' = [nis EXCEPT ![who[t]] = TRUE]
        BY ONLY <2>1, <3>3 DEF Send, Step
      <4>2. who[t] \notin announced
        BY <2>t, <3>3 DEF Sequence
      <4>3. QED
        BY ONLY <3>1, <3>3, <4>1, <4>2, <1>0, <1>d, <2>t, <1>4, Sequence DEF Sequence
    <3>4. CASE ~isActive[who[t]]
      <4>1. monitor' = monitor /\ pc' = [pc EXCEPT ![t] = "again"] /\ nis' = nis
        BY ONLY <2>1, <3>4 DEF Send, Step
      <4>2. QED
        BY ONLY <3>1, <4>1, <1>0, <1>d, <2>t, <1>4, Sequence DEF Sequence
    <3>5. QED
      BY <3>2, <3>3, <3>4
  <2>2. CASE Write(t)
    <3>1. /\ who' = who /\ isActive' = isActive /\ nis' = nis
          /\ pc' = [pc EXCEPT ![t] = "again"]
          /\ monitor' = [monitor EXCEPT ![who[t]] = NULL]
          /\ Escapees' = Escapees
      BY ONLY <2>2 DEF Write, Step, locals, Escapees
    <3>2. pc[t] \in {"write", "sequence"}
      BY ONLY <2>2 DEF Write, Step
    <3>3. monitor[who[t]] = t
      BY <3>2, <1>0 DEF Holders
    <3>4. CASE pc[t] = "write"
      <4>1. announced' = announced /\ garbled' = IF who[t] \notin announced THEN garbled \cup {who[t]} ELSE garbled
        BY ONLY <2>2, <3>4 DEF Write
      <4>2. who[t] \in announced \cup Escapees /\ garbled \subseteq Escapees
        BY <3>4 DEF Sequence
      <4>3. garbled' \subseteq Escapees
        BY ONLY <4>1, <4>2
      <4>4. QED
        BY ONLY <3>1, <3>4, <4>1, <4>2, <4>3, <1>0, <1>d, <2>t, <1>4, Sequence DEF Sequence
    <3>5. CASE pc[t] = "sequence"
      <4>1. /\ announced' = announced \cup {who[t]}
            /\ garbled' = IF who[t] \in announced THEN garbled \cup {who[t]} ELSE garbled
        BY ONLY <2>2, <3>5 DEF Write
      <4>2. who[t] \notin announced /\ garbled \subseteq Escapees
        BY <3>5 DEF Sequence
      <4>3. garbled' \subseteq Escapees
        BY ONLY <4>1, <4>2
      <4>4. nis[who[t]]
        BY <3>5 DEF Sequence
      <4>5. \A u \in Threads : pc[u] = "sequence" /\ who[u] = who[t] => u = t
        BY <3>3 DEF Holders
      <4>6. QED
        BY ONLY <3>1, <3>5, <4>1, <4>2, <4>3, <4>4, <4>5, <1>0, <1>d, <2>t, <1>4, Sequence
        DEF Sequence
    <3>6. QED
      BY <3>2, <3>4, <3>5
  <2>3. CASE WriteFails(t)
    <3>1. /\ who' = who /\ monitor' = monitor /\ isActive' = isActive /\ nis' = nis
          /\ announced' = announced /\ garbled' = garbled /\ Escapees' = Escapees
          /\ pc' = [pc EXCEPT ![t] = "end"]
      BY ONLY <2>3 DEF WriteFails, Step, Own, locals, client, history, Escapees
    <3>2. QED
      BY ONLY <3>1, <1>0, <1>d, <1>4, Sequence DEF Sequence
  <2>4. CASE End(t)
    <3>1. /\ who' = who /\ isActive' = isActive /\ nis' = nis
          /\ announced' = announced /\ garbled' = garbled /\ Escapees' = Escapees
          /\ monitor[who[t]] \in {NULL, t} /\ pc[t] = "end"
      BY ONLY <2>4 DEF End, Step, locals, history, Escapees
    <3>2. CASE isActive[who[t]]
      <4>1. /\ monitor' = [monitor EXCEPT ![who[t]] = t]
            /\ pc' = [pc EXCEPT ![t] = "died"]
        BY ONLY <2>4, <3>2 DEF End, Step
      <4>2. QED
        BY ONLY <3>1, <4>1, <1>0, <1>d, <2>t, <1>4, Sequence DEF Sequence
    <3>3. CASE ~isActive[who[t]]
      <4>1. /\ monitor' = [monitor EXCEPT ![who[t]] = NULL]
            /\ \E p \in {"again", "done"} : pc' = [pc EXCEPT ![t] = p]
        BY ONLY <2>4, <3>3 DEF End, Step, Return
      <4>2. QED
        BY ONLY <3>1, <3>3, <4>1, <1>0, <1>d, <2>t, <1>4, Sequence DEF Sequence
    <3>4. QED
      BY <3>2, <3>3
  <2>5. CASE RemoveClient(t)
    <3>1. /\ who' = who /\ isActive' = isActive /\ nis' = nis /\ monitor' = monitor
          /\ announced' = announced /\ garbled' = garbled /\ Escapees' = Escapees
          /\ \E p \in {"ended", "unobserve"} : pc' = [pc EXCEPT ![t] = p]
      BY ONLY <2>5 DEF RemoveClient, Step, client, history, Escapees
    <3>2. QED
      BY ONLY <3>1, <1>0, <1>d, <1>4, Sequence DEF Sequence
  <2>6. CASE Ended(t)
    <3>1. /\ who' = who /\ isActive' = [isActive EXCEPT ![who[t]] = FALSE]
          /\ nis' = nis /\ announced' = announced /\ garbled' = garbled /\ Escapees' = Escapees
          /\ monitor' = [monitor EXCEPT ![who[t]] = NULL]
          /\ \E p \in {"again", "done"} : pc' = [pc EXCEPT ![t] = p]
      BY ONLY <2>6 DEF Ended, Step, Return, history, Escapees
    <3>2. QED
      BY ONLY <3>1, <1>0, <1>d, <2>t, <1>4, Sequence DEF Sequence
  <2>7. CASE manager = t /\ (Unobserve(t) \/ Passing(t))
    <3>1. /\ who' = who /\ isActive' = isActive /\ nis' = nis /\ monitor' = monitor
          /\ announced' = announced /\ garbled' = garbled /\ Escapees' = Escapees
          /\ \E p \in Interrupting \cup {"ended"} : pc' = [pc EXCEPT ![t] = p]
      <4>1. CASE Unobserve(t)
        BY ONLY <4>1 DEF Unobserve, Step, client, locals, history, Interrupting, Escapees
      <4>2. CASE Passing(t)
        <5>1. Passed(t)
          BY ONLY <4>2, <1>4, Passes
        <5>2. QED
          BY ONLY <5>1, <2>7 DEF Passed, client, history, Escapees
      <4>3. QED
        BY <2>7, <4>1, <4>2
    <3>2. QED
      BY ONLY <3>1, <1>0, <1>d, <1>4, Sequence DEF Sequence, Interrupting
  <2>8. CASE manager = t /\ Throw(t)
    <3>1. /\ isActive' = isActive /\ nis' = nis /\ announced' = announced /\ garbled' = garbled
          /\ monitor' = [monitor EXCEPT ![who[t]] = NULL]
          /\ who' = [who EXCEPT ![t] = t[1]]
          /\ \E p \in {"thrown", "done"} : pc' = [pc EXCEPT ![t] = p]
      BY ONLY <2>8 DEF Throw
    <3>2. Escapees' = Escapees \cup {who[t]}
      <4>1. escaped' = escaped \cup {<<t, who[t]>>} /\ <<t, who[t]>>[2] = who[t]
        BY ONLY <2>8 DEF Throw
      <4>2. ASSUME NEW k
            PROVE  k \in Escapees' <=> k \in Escapees \cup {who[t]}
        BY ONLY <4>1, Zenon DEF Escapees
      <4>3. QED
        BY ONLY <4>2
    <3>3. \A u \in Threads : /\ pc'[u] = "write" => pc[u] = "write" /\ who'[u] = who[u]
                             /\ pc'[u] = "sequence" => pc[u] = "sequence" /\ who'[u] = who[u]
                             /\ pc'[u] = "none" => pc[u] = "none"
      BY ONLY <3>1, <1>0, <1>4
    <3>4. \A k \in Clients : monitor'[k] = IF k = who[t] THEN NULL ELSE monitor[k]
      BY ONLY <3>1, <1>0
    <3>5. \A k \in Clients \ Escapees' :
             nis'[k] /\ isActive'[k] /\ k \notin announced' => /\ monitor'[k] # NULL
                                                             /\ pc'[monitor'[k]] # "write"
      <4>1. \A k \in Clients : monitor[k] # NULL => monitor[k] \in Threads
        BY ONLY <1>0
      <4>2. QED
        BY ONLY <3>1, <3>2, <3>3, <3>4, <4>1, Sequence DEF Sequence
    <3>6. \A k \in Clients : nis'[k] \/ isActive'[k] => pc'[Dispatcher(k)] # "none"
      BY ONLY <3>1, <3>3, <1>d, Sequence DEF Sequence
    <3>7. \A u \in Threads :
             /\ pc'[u] = "write" => who'[u] \in announced' \cup Escapees'
             /\ pc'[u] = "sequence" => who'[u] \notin announced' /\ nis'[who'[u]]
      BY ONLY <3>1, <3>2, <3>3, Sequence DEF Sequence
    <3>8. (\A k \in announced' : nis'[k]) /\ garbled' \subseteq Escapees'
      BY ONLY <3>1, <3>2, Sequence DEF Sequence
    <3>9. QED
      BY ONLY <3>5, <3>6, <3>7, <3>8 DEF Sequence
  <2>9. QED
    BY <1>4, <2>1, <2>2, <2>3, <2>4, <2>5, <2>6, <2>7, <2>8 DEF Monitored
<1>5. QED
  BY <1>1, <1>2, <1>3, <1>4, Steps

-----------------------------------------------------------------------------
(* The count of the clients *)

\* A thread that an exception took out of _end comes back to no other client's.
Escapes ==
  /\ IsFiniteSet(escaped)
  /\ \A x \in escaped : x[1] \in Threads /\ pc[x[1]] \in Left

Counted == Escapes /\ CountCoversServed

LEMMA ServedInit ==
  ASSUME Init
  PROVE  Counted
<1>1. Served = {} /\ clients = 0 /\ escaped = {}
  BY DEF Init, Served
<1>2. QED
  BY <1>1, FS_EmptySet DEF CountCoversServed, Counted, Escapes

\* Nobody starts to be served: nothing is to be counted.
LEMMA ServedShrinks ==
  ASSUME Served' \subseteq Served, clients' = clients, clients \in Int,
         escaped' = escaped, IsFiniteSet(escaped), CountCoversServed
  PROVE  CountCoversServed'
<1>1. IsFiniteSet(Served) /\ IsFiniteSet(Served')
  BY ClientsAssumption, FS_Subset DEF Served
<1>2. Cardinality(Served') <= Cardinality(Served)
  BY <1>1, FS_Subset
<1>3. Cardinality(Served') \in Nat /\ Cardinality(Served) \in Nat
  BY <1>1, FS_CardinalityType
<1>4. Cardinality(escaped) \in Nat
  BY FS_CardinalityType
<1>5. QED
  BY <1>2, <1>3, <1>4 DEF CountCoversServed

LEMMA EscapesNext ==
  ASSUME TypeInv, NewReaders, Holders, Escapes, [Next]_vars
  PROVE  Escapes'
<1>0. /\ pc \in [Threads -> Places] /\ \A x \in escaped : x[1] \in Threads
      /\ \A x \in escaped : pc[x[1]] \in Left
      /\ IsFiniteSet(escaped)
  BY DEF TypeInv, TypeOK, Escapes
<1>d. \A k \in Clients : Dispatcher(k) \in Threads
  BY ThreadNames DEF Threads
<1>1. CASE UNCHANGED vars
  BY <1>1, <1>0 DEF vars, history, Escapes
<1>2. ASSUME NEW c \in Clients, Accept(c)
      PROVE  Escapes'
  <2>1. /\ pc[Dispatcher(c)] = "none" /\ pc' = [pc EXCEPT ![Dispatcher(c)] = "read"]
        /\ escaped' = escaped
    BY <1>2 DEF Accept, Step, history
  <2>2. QED
    BY ONLY <2>1, <1>0, <1>d DEF Escapes, Left
<1>3. ASSUME NEW t \in Threads, Calm(t)
      PROVE  Escapes'
  <2>1. /\ escaped' = escaped
        /\ pc[t] \in Left => pc'[t] \in Left
        /\ \A u \in Threads \ {t} :
             \/ pc'[u] = pc[u]
             \/ pc[u] \in {"none", "new"} /\ pc'[u] \in {"new", "begin"}
    BY ONLY <1>3 DEF Calm
  <2>2. \A u \in Threads : pc[u] \in Left => pc'[u] \in Left
    BY ONLY <2>1 DEF Left
  <2>3. QED
    BY ONLY <2>1, <2>2, <1>0 DEF Escapes
<1>4. ASSUME NEW t \in Threads, Monitored(t)
      PROVE  Escapes'
  <2>1. CASE ~Throw(t)
    <3>1. escaped' = escaped /\ pc[t] \notin Left /\ \E p \in Places : pc' = [pc EXCEPT ![t] = p]
      <4>1. CASE Send(t)
        BY ONLY <4>1 DEF Send, Step, Left, Places, history
      <4>2. CASE Write(t)
        BY ONLY <4>2 DEF Write, Step, Left, Places
      <4>3. CASE WriteFails(t)
        BY ONLY <4>3 DEF WriteFails, Own, Step, Left, Places, history
      <4>4. CASE End(t)
        BY ONLY <4>4 DEF End, Step, Left, Places, history, Return
      <4>5. CASE RemoveClient(t)
        BY ONLY <4>5 DEF RemoveClient, Step, Left, Places, history
      <4>6. CASE Ended(t)
        BY ONLY <4>6 DEF Ended, Step, Left, Places, history, Return
      <4>7. CASE Unobserve(t)
        BY ONLY <4>7 DEF Unobserve, Step, Left, Places, history
      <4>8. CASE Passing(t)
        <5>1. Passed(t)
          BY ONLY <4>8, <1>4, Passes
        <5>2. QED
          BY ONLY <5>1 DEF Passed, Interrupting, Left, Places, history
      <4>9. QED
        BY <1>4, <2>1, <4>1, <4>2, <4>3, <4>4, <4>5, <4>6, <4>7, <4>8 DEF Monitored
    <3>2. QED
      BY ONLY <3>1, <1>0 DEF Escapes
  <2>2. CASE Throw(t)
    <3>1. /\ pc' = [pc EXCEPT ![t] = IF t \in Requests THEN "thrown" ELSE "done"]
          /\ escaped' \in {escaped, escaped \cup {<<t, who[t]>>}}
      BY ONLY <2>2 DEF Throw
    <3>2. IsFiniteSet(escaped')
      BY <3>1, <1>0, FS_AddElement
    <3>3. <<t, who[t]>>[1] = t
      OBVIOUS
    <3>4. QED
      BY ONLY <3>1, <3>2, <3>3, <1>0, <1>4 DEF Escapes, Left
  <2>3. QED
    BY <2>1, <2>2
<1>5. QED
  BY <1>1, <1>2, <1>3, <1>4, Steps

LEMMA ServedNext ==
  ASSUME TypeInv, NewReaders, Holders, Counted, [Next]_vars
  PROVE  CountCoversServed'
<1>0. /\ pc \in [Threads -> Places] /\ who \in [Threads -> Clients]
      /\ monitor \in [Clients -> Threads \cup {NULL}] /\ manager \in Threads \cup {NULL}
      /\ isActive \in [Clients -> BOOLEAN] /\ clients \in Int
      /\ Holders /\ NULL \notin Threads /\ CountCoversServed /\ Escapes
      /\ IsFiniteSet(escaped) /\ Cardinality(escaped) \in Nat
  BY ThreadNames, FS_CardinalityType DEF TypeInv, TypeOK, Counted, Escapes
<1>d. \A k \in Clients : Dispatcher(k) \in Threads
  BY ThreadNames DEF Threads
<1>f. IsFiniteSet(Served) /\ Cardinality(Served) \in Nat
  BY ClientsAssumption, FS_Subset, FS_CardinalityType DEF Served
<1>1. CASE UNCHANGED vars
  <2>1. pc' = pc /\ monitor' = monitor /\ manager' = manager /\ isActive' = isActive /\ clients' = clients /\ escaped' = escaped
    BY <1>1 DEF vars, client, workflow, history
  <2>2. Served' \subseteq Served
    BY ONLY <2>1 DEF Served, BeingEnded, Ending, Interrupting
  <2>3. QED
    BY <1>0, <2>1, <2>2, ServedShrinks
<1>2. ASSUME NEW c \in Clients, Accept(c)
      PROVE  CountCoversServed'
  <2>1. /\ pc[Dispatcher(c)] = "none" /\ pc' = [pc EXCEPT ![Dispatcher(c)] = "read"]
        /\ monitor' = monitor /\ manager' = manager /\ clients' = clients + 1 /\ escaped' = escaped
        /\ \E made \in BOOLEAN : isActive' = [isActive EXCEPT ![c] = made]
    BY <1>2 DEF Accept, Step, history
  <2>2. Served' \subseteq Served \cup {c}
    BY ONLY <2>1, <1>0, <1>d DEF Served, BeingEnded, Ending, Interrupting
  <2>3. /\ IsFiniteSet(Served \cup {c}) /\ IsFiniteSet(Served')
        /\ Cardinality(Served \cup {c}) <= Cardinality(Served) + 1
        /\ Cardinality(Served \cup {c}) \in Nat
    BY <1>f, <2>2, FS_AddElement, FS_Subset, FS_CardinalityType
  <2>4. Cardinality(Served') <= Cardinality(Served \cup {c}) /\ Cardinality(Served') \in Nat
    BY <2>2, <2>3, FS_Subset, FS_CardinalityType
  <2>5. QED
    BY <1>0, <1>f, <2>1, <2>3, <2>4 DEF CountCoversServed
<1>3. ASSUME NEW t \in Threads, Calm(t)
      PROVE  CountCoversServed'
  <2>1. /\ monitor' = monitor /\ isActive' = isActive /\ manager' = manager /\ clients' = clients /\ escaped' = escaped
        /\ pc[t] \notin Holding \cup {"end"} /\ pc'[t] \notin Holding \cup {"none"}
        /\ pc[t] \in Interrupting => manager # t
        /\ \A u \in Threads \ {t} :
             \/ pc'[u] = pc[u]
             \/ pc[u] \in {"none", "new"} /\ pc'[u] \in {"new", "begin"}
    BY ONLY <1>3 DEF Calm
  <2>2. \A u \in Threads : Ending(u) => Ending(u)'
    BY ONLY <2>1 DEF Holding, Ending, Interrupting
  <2>3. Served' \subseteq Served
    BY ONLY <2>1, <2>2, <1>0 DEF Served, BeingEnded
  <2>4. QED
    BY <1>0, <2>1, <2>3, ServedShrinks
<1>4. ASSUME NEW t \in Threads, Monitored(t)
      PROVE  CountCoversServed'
  <2>t. who[t] \in Clients
    BY <1>0
  <2>1. CASE \/ Send(t) \/ Write(t) \/ WriteFails(t)
    <3>1. /\ isActive' = isActive /\ manager' = manager /\ clients' = clients /\ escaped' = escaped
          /\ pc[t] \in {"send", "write", "sequence"}
          /\ \E p \in {"write", "sequence", "again", "end"} : pc' = [pc EXCEPT ![t] = p]
          /\ \/ monitor' = [monitor EXCEPT ![who[t]] = t] /\ monitor[who[t]] = NULL
             \/ monitor' = [monitor EXCEPT ![who[t]] = NULL] /\ pc[t] \in {"write", "sequence"}
             \/ monitor' = monitor
      <4>1. CASE Send(t)
        BY ONLY <4>1 DEF Send, Step, workflow, history
      <4>2. CASE Write(t)
        BY ONLY <4>2 DEF Write, Step, workflow, history
      <4>3. CASE WriteFails(t)
        BY ONLY <4>3 DEF WriteFails, Step, Own, workflow, client, history
      <4>4. QED
        BY ONLY <2>1, <4>1, <4>2, <4>3
    <3>2. \A u \in Threads : Ending(u) => Ending(u)'
      BY ONLY <3>1, <1>0, <1>4 DEF Ending, Interrupting
    <3>3. Served' \subseteq Served
      BY ONLY <3>1, <3>2, <1>0, <2>t, <1>4 DEF Served, BeingEnded, Holders, Ending, Interrupting
    <3>4. QED
      BY <1>0, <3>1, <3>3, ServedShrinks
  <2>4. CASE End(t)
    <3>1. /\ isActive' = isActive /\ manager' = manager
          /\ monitor[who[t]] \in {NULL, t} /\ pc[t] = "end"
      BY ONLY <2>4 DEF End, Step, history
    <3>2. CASE isActive[who[t]]
      <4>1. /\ monitor' = [monitor EXCEPT ![who[t]] = t] /\ clients' = clients - 1 /\ escaped' = escaped
            /\ pc' = [pc EXCEPT ![t] = "died"]
        BY ONLY <2>4, <3>2 DEF End, Step, history
      <4>2. who[t] \in Served
        BY ONLY <3>1, <3>2, <2>t DEF Served, BeingEnded, Ending, Interrupting
      <4>3. Served' \subseteq Served \ {who[t]}
        BY ONLY <3>1, <4>1, <1>0, <2>t, <1>4 DEF Served, BeingEnded, Ending, Interrupting
      <4>4. /\ IsFiniteSet(Served \ {who[t]})
            /\ Cardinality(Served \ {who[t]}) = Cardinality(Served) - 1
        BY <1>f, <4>2, FS_RemoveElement
      <4>5. Cardinality(Served') <= Cardinality(Served \ {who[t]}) /\ Cardinality(Served') \in Nat
        BY <4>3, <4>4, FS_Subset, FS_CardinalityType
      <4>6. QED
        BY <1>0, <1>f, <4>1, <4>4, <4>5 DEF CountCoversServed
    <3>3. CASE ~isActive[who[t]]
      <4>1. /\ monitor' = [monitor EXCEPT ![who[t]] = NULL] /\ clients' = clients /\ escaped' = escaped
            /\ \E p \in {"again", "done"} : pc' = [pc EXCEPT ![t] = p]
        BY ONLY <2>4, <3>3 DEF End, Step, Return, history
      <4>2. Served' \subseteq Served
        BY ONLY <3>1, <3>3, <4>1, <1>0, <2>t, <1>4 DEF Served, BeingEnded, Ending, Interrupting
      <4>3. QED
        BY <1>0, <4>1, <4>2, ServedShrinks
    <3>4. QED
      BY <3>2, <3>3
  <2>5. CASE RemoveClient(t)
    <3>1. /\ isActive' = isActive /\ monitor' = monitor /\ clients' = clients /\ escaped' = escaped
          /\ manager = NULL /\ manager' = t /\ pc[t] = "died"
          /\ \E p \in {"ended", "unobserve"} : pc' = [pc EXCEPT ![t] = p]
      BY ONLY <2>5 DEF RemoveClient, Step, client, history
    <3>2. Served' \subseteq Served
      BY ONLY <3>1, <1>0, <1>4 DEF Served, BeingEnded, Ending, Interrupting
    <3>3. QED
      BY <1>0, <3>1, <3>2, ServedShrinks
  <2>6. CASE Ended(t)
    <3>1. /\ isActive' = [isActive EXCEPT ![who[t]] = FALSE] /\ clients' = clients /\ escaped' = escaped
          /\ monitor' = [monitor EXCEPT ![who[t]] = NULL] /\ manager' = NULL /\ pc[t] = "ended"
          /\ \E p \in {"again", "done"} : pc' = [pc EXCEPT ![t] = p]
      BY ONLY <2>6 DEF Ended, Step, Return, history
    <3>2. manager = t
      BY ONLY <3>1, <1>0, <1>4 DEF Holders
    <3>3. \A k \in Clients : monitor[k] = t => k = who[t]
      BY ONLY <1>0, <1>4 DEF Holders
    <3>4. Served' \subseteq Served
      BY ONLY <3>1, <3>2, <3>3, <1>0, <2>t, <1>4 DEF Served, BeingEnded, Ending, Interrupting
    <3>5. QED
      BY <1>0, <3>1, <3>4, ServedShrinks
  <2>7. CASE manager = t /\ (Unobserve(t) \/ Passing(t))
    <3>1. /\ isActive' = isActive /\ monitor' = monitor /\ clients' = clients /\ escaped' = escaped
          /\ manager = t /\ manager' = t
          /\ \E p \in Interrupting \cup {"ended"} : pc' = [pc EXCEPT ![t] = p]
      <4>1. CASE Unobserve(t)
        BY ONLY <4>1, <2>7 DEF Unobserve, Step, client, history, Interrupting
      <4>2. CASE Passing(t)
        <5>1. Passed(t)
          BY ONLY <4>2, <1>4, Passes
        <5>2. QED
          BY ONLY <5>1, <2>7 DEF Passed, client, history
      <4>3. QED
        BY <2>7, <4>1, <4>2
    <3>2. Served' \subseteq Served
      BY ONLY <3>1, <1>0, <1>4 DEF Served, BeingEnded, Ending, Interrupting
    <3>3. QED
      BY <1>0, <3>1, <3>2, ServedShrinks
  <2>8. CASE manager = t /\ Throw(t)
    <3>1. /\ isActive' = isActive /\ clients' = clients
          /\ monitor' = [monitor EXCEPT ![who[t]] = NULL] /\ manager' = NULL
          /\ escaped' = escaped \cup {<<t, who[t]>>} /\ pc[t] \in Interrupting
          /\ \E p \in {"thrown", "done"} : pc' = [pc EXCEPT ![t] = p]
      BY ONLY <2>8 DEF Throw, Interrupting
    <3>2. <<t, who[t]>> \notin escaped
      BY ONLY <3>1, <1>0, <1>4 DEF Escapes, Left, Interrupting
    <3>3. Cardinality(escaped') = Cardinality(escaped) + 1
      BY <3>1, <3>2, <1>0, FS_AddElement
    <3>4. \A k \in Clients : monitor[k] = t => k = who[t]
      BY ONLY <1>0, <1>4 DEF Holders
    <3>5. Served' \subseteq Served \cup {who[t]}
      BY ONLY <3>1, <3>4, <2>8, <1>0, <2>t, <1>4 DEF Served, BeingEnded, Ending, Interrupting
    <3>6. /\ IsFiniteSet(Served \cup {who[t]}) /\ IsFiniteSet(Served')
          /\ Cardinality(Served \cup {who[t]}) <= Cardinality(Served) + 1
          /\ Cardinality(Served \cup {who[t]}) \in Nat
      BY <1>f, <3>5, FS_AddElement, FS_Subset, FS_CardinalityType
    <3>7. Cardinality(Served') <= Cardinality(Served \cup {who[t]}) /\ Cardinality(Served') \in Nat
      BY <3>5, <3>6, FS_Subset, FS_CardinalityType
    <3>8. QED
      BY <1>0, <1>f, <3>1, <3>3, <3>6, <3>7 DEF CountCoversServed
  <2>9. QED
    BY <1>4, <2>1, <2>4, <2>5, <2>6, <2>7, <2>8 DEF Monitored
<1>5. QED
  BY <1>1, <1>2, <1>3, <1>4, Steps

-----------------------------------------------------------------------------
(* The clients of a StreamServer *)

Accepted(k) == pc[Dispatcher(k)] # "none"

\* A client that was accepted and is not active will not be active again: the lists of
\* dead clients, cleared by one reader while another one still uses them, are never wrong
\* about a client on them.
Members ==
  /\ \A x \in Requests :
       /\ \A k \in activeClients[x] : Accepted(k)
       /\ \A k \in deadClients[x] : Accepted(k) /\ ~isActive[k]
  /\ \A r \in Requests : /\ cli[r].ahead # NULL => Accepted(cli[r].ahead)
                         /\ pc[r] # "none" => Accepted(r[1])
  /\ \A t \in Threads : who[t] # t[1] => Accepted(who[t])

\* A step that no StreamServer, and no iterator, has a part in.
Apart(t) ==
  /\ UNCHANGED <<activeClients, deadClients, cli, who>>
  /\ \A k \in Clients : isActive'[k] => isActive[k]
  /\ pc[t] # "none" /\ pc'[t] # "none"
  /\ \A u \in Threads \ {t} : \/ pc'[u] = pc[u]
                              \/ pc'[u] # "none" /\ u[1] = t[1]

\* What OnlyTheDeadLeave says of a step.
LostDead == \A x \in Requests : \A k \in activeClients[x] \ activeClients'[x] :
              BeingEnded(k) \/ ~isActive[k]

LEMMA MembersInit ==
  ASSUME Init
  PROVE  Members
BY ThreadNames DEF Init, Members, Threads

LEMMA ApartKeeps ==
  ASSUME TypeInv, Members, NEW t \in Threads, Apart(t)
  PROVE  Members' /\ LostDead
<1>1. \A u \in Threads : pc[u] # "none" => pc'[u] # "none"
  BY DEF Apart
<1>2. \A k \in Clients : Accepted(k) => Accepted(k)'
  BY <1>1, ThreadNames DEF Accepted, Threads
<1>3. Accepted(t[1])
  <2>1. CASE t \in Requests
    BY <2>1 DEF Members, Apart
  <2>2. CASE t \in Dispatchers
    BY <2>2 DEF Accepted, Dispatchers, Dispatcher, Apart
  <2>3. QED
    BY <2>1, <2>2 DEF Threads
<1>4. \A r \in Requests : pc'[r] # "none" => pc[r] # "none" \/ r[1] = t[1]
  BY DEF Apart, Threads
<1>5. /\ activeClients' = activeClients /\ deadClients' = deadClients /\ cli' = cli /\ who' = who
      /\ \A k \in Clients : isActive'[k] => isActive[k]
  BY DEF Apart
<1>6. /\ \A x \in Requests : activeClients[x] \subseteq Clients /\ deadClients[x] \subseteq Clients
      /\ \A r \in Requests : cli[r].ahead \in Clients \cup {NULL} /\ r[1] \in Clients
      /\ \A u \in Threads : who[u] \in Clients
  BY ThreadNames DEF TypeInv, TypeOK, Iterator
<1>7. t[1] \in Clients
  BY ThreadNames
<1> HIDE DEF Accepted
<1>8. /\ \A x \in Requests :
           /\ \A k \in activeClients[x] : Accepted(k)'
           /\ \A k \in deadClients[x] : Accepted(k)' /\ ~isActive'[k]
  BY <1>2, <1>5, <1>6 DEF Members
<1>9. /\ \A r \in Requests : /\ cli[r].ahead # NULL => Accepted(cli[r].ahead)'
                             /\ pc'[r] # "none" => Accepted(r[1])'
  BY <1>2, <1>3, <1>4, <1>5, <1>6, <1>7 DEF Members
<1>10. \A u \in Threads : who[u] # u[1] => Accepted(who[u])'
  BY <1>2, <1>5, <1>6 DEF Members
<1>11. QED
  BY <1>5, <1>8, <1>9, <1>10 DEF Members, Accepted, LostDead

LEMMA MembersNext ==
  ASSUME TypeInv, NewReaders, Holders, Members, [Next]_vars
  PROVE  Members' /\ LostDead
<1>0. /\ pc \in [Threads -> Places] /\ who \in [Threads -> Clients]
      /\ isActive \in [Clients -> BOOLEAN]
  BY DEF TypeInv, TypeOK
<1>m. /\ \A x \in Requests :
           /\ \A k \in activeClients[x] : k \in Clients /\ Accepted(k)
           /\ \A k \in deadClients[x] : k \in Clients /\ Accepted(k) /\ ~isActive[k]
      /\ \A r \in Requests : /\ cli[r] \in Iterator
                             /\ cli[r].ahead # NULL => Accepted(cli[r].ahead)
                             /\ pc[r] # "none" => Accepted(r[1])
      /\ \A t \in Threads : who[t] \in Clients /\ (who[t] # t[1] => Accepted(who[t]))
      /\ activeClients \in [Requests -> SUBSET Clients]
      /\ deadClients \in [Requests -> SUBSET Clients]
      /\ cli \in [Requests -> Iterator]
  BY DEF TypeInv, TypeOK, Members
<1>n. /\ \A k \in Clients : Dispatcher(k) \in Threads \ Requests
      /\ \A r \in Requests : r \in Threads /\ r[1] \in Clients
      /\ \A k, l \in Clients : Dispatcher(k) = Dispatcher(l) => k = l
  BY ThreadNames DEF Threads
<1>i. \A r \in Requests : cli[r].ahead \in Clients \cup {NULL}
  BY <1>m DEF Iterator
<1> HIDE DEF Accepted
<1>1. ASSUME NEW c \in Clients, Accept(c)
      PROVE  Members' /\ LostDead
  <2>1. /\ UNCHANGED <<activeClients, deadClients, cli, who>>
        /\ pc[Dispatcher(c)] = "none" /\ pc' = [pc EXCEPT ![Dispatcher(c)] = "read"]
        /\ \E made \in BOOLEAN : isActive' = [isActive EXCEPT ![c] = made]
    BY ONLY <1>1 DEF Accept, Step, locals
  <2>2. ~Accepted(c)
    BY <2>1 DEF Accepted
  <2>3. \A k \in Clients : Accepted(k) => Accepted(k)' /\ k # c /\ (isActive'[k] => isActive[k])
    BY <2>1, <2>2, <1>0, <1>n DEF Accepted
  <2>4. \A r \in Requests : pc'[r] = pc[r]
    BY <2>1, <1>0, <1>n
  <2>5. QED
    BY ONLY <2>1, <2>3, <2>4, <1>m, <1>n, <1>i DEF Members, LostDead
<1>2. ASSUME NEW c \in Clients, Dispatch(c)
      PROVE  Members' /\ LostDead
  <2> DEFINE t == Dispatcher(c)
  <2>t. t \in Threads /\ t[1] = c
    BY ThreadNames DEF Threads
  <2>u. t \in Threads
    BY <2>t
  <2> HIDE DEF t
  <2>1. CASE ReadFails(t)
    <3>1. Goes(t, {"read"}, {"end"})
      BY ONLY <2>1, <2>u, Outcomes
    <3>2. UNCHANGED <<activeClients, deadClients, cli, who>> /\ isActive' = isActive
      BY ONLY <2>1 DEF ReadFails, Own, client, workflow, locals
    <3>3. Apart(t)
      BY ONLY <3>1, <3>2, <2>u, <1>0 DEF Goes, Apart, Return
    <3>4. QED
      BY <3>3, <2>u, ApartKeeps
  <2>2. CASE OpenFails(t)
    <3>1. Goes(t, {"open"}, {"done", "add"})
      BY ONLY <2>2, <2>u, Outcomes
    <3>2. UNCHANGED <<activeClients, deadClients, cli, who>> /\ isActive' = isActive
      BY ONLY <2>2 DEF OpenFails, Own, client, workflow, locals
    <3>3. Apart(t)
      BY ONLY <3>1, <3>2, <2>u, <1>0 DEF Goes, Apart, Return
    <3>4. QED
      BY <3>3, <2>u, ApartKeeps
  <2>3. CASE Reply(t)
    <3>1. Goes(t, {"send"}, {"read", "end"})
      BY ONLY <2>3, <2>u, Outcomes
    <3>2. UNCHANGED <<activeClients, deadClients, cli, who>> /\ isActive' = isActive
      BY ONLY <2>3 DEF Reply, Own, client, workflow, locals
    <3>3. Apart(t)
      BY ONLY <3>1, <3>2, <2>u, <1>0 DEF Goes, Apart, Return
    <3>4. QED
      BY <3>3, <2>u, ApartKeeps
  <2>4. CASE NoFault /\ Leave(t)
    <3>1. Goes(t, {"read"}, {"end", "done"})
      BY ONLY <2>4, <2>u, Outcomes
    <3>2. UNCHANGED <<activeClients, deadClients, cli, who>> /\ isActive' = isActive
      BY ONLY <2>4 DEF Leave, Own, client, workflow, locals
    <3>3. Apart(t)
      BY ONLY <3>1, <3>2, <2>u, <1>0 DEF Goes, Apart, Return
    <3>4. QED
      BY <3>3, <2>u, ApartKeeps
  <2>5. CASE NoFault /\ Command(t)
    <3>1. Goes(t, {"read"}, {"send"})
      BY ONLY <2>5, <2>u, Outcomes
    <3>2. UNCHANGED <<activeClients, deadClients, cli, who>> /\ isActive' = isActive
      BY ONLY <2>5 DEF Command, Own, client, workflow, locals
    <3>3. Apart(t)
      BY ONLY <3>1, <3>2, <2>u, <1>0 DEF Goes, Apart, Return
    <3>4. QED
      BY <3>3, <2>u, ApartKeeps
  <2>6. CASE NoFault /\ GetStream(t)
    <3>1. Goes(t, {"read"}, {"lookup"})
      BY ONLY <2>6, <2>u, Outcomes
    <3>2. UNCHANGED <<activeClients, deadClients, cli, who>> /\ isActive' = isActive
      BY ONLY <2>6 DEF GetStream, Own, client, workflow, locals
    <3>3. Apart(t)
      BY ONLY <3>1, <3>2, <2>u, <1>0 DEF Goes, Apart, Return
    <3>4. QED
      BY <3>3, <2>u, ApartKeeps
  <2>7. CASE NoFault /\ Lookup(t)
    <3>1. Goes(t, {"lookup"}, {"put", "observe"})
      BY ONLY <2>7, <2>u, Outcomes
    <3>2. UNCHANGED <<activeClients, deadClients, cli, who>> /\ isActive' = isActive
      BY ONLY <2>7 DEF Lookup, Own, client, workflow, locals
    <3>3. Apart(t)
      BY ONLY <3>1, <3>2, <2>u, <1>0 DEF Goes, Apart, Return
    <3>4. QED
      BY <3>3, <2>u, ApartKeeps
  <2>8. CASE NoFault /\ Put(t)
    <3>1. Goes(t, {"put"}, {"observe"})
      BY ONLY <2>8, <2>u, Outcomes
    <3>2. UNCHANGED <<activeClients, deadClients, cli, who>> /\ isActive' = isActive
      BY ONLY <2>8 DEF Put, Own, client, workflow, locals
    <3>3. Apart(t)
      BY ONLY <3>1, <3>2, <2>u, <1>0 DEF Goes, Apart, Return
    <3>4. QED
      BY <3>3, <2>u, ApartKeeps
  <2>9. CASE NoFault /\ Observe(t)
    <3>1. Goes(t, {"observe"}, {"open"})
      BY ONLY <2>9, <2>u, Outcomes
    <3>2. UNCHANGED <<activeClients, deadClients, cli, who>> /\ isActive' = isActive
      BY ONLY <2>9 DEF Observe, Own, client, workflow, locals
    <3>3. Apart(t)
      BY ONLY <3>1, <3>2, <2>u, <1>0 DEF Goes, Apart, Return
    <3>4. QED
      BY <3>3, <2>u, ApartKeeps
  <2>10. CASE NoFault /\ Open(t)
    <3>1. /\ pc[t] = "open"
          /\ pc' = [pc EXCEPT ![t] = "start", ![<<t[1], stream[t]>>] = "new"]
          /\ UNCHANGED <<activeClients, deadClients, cli, who>> /\ isActive' = isActive
      BY ONLY <2>10 DEF Open, Own, client, workflow, locals
    <3>2. \A u \in Threads : u = <<t[1], stream[t]>> => u[1] = t[1]
      OBVIOUS
    <3>3. stream[t] \in Streams
      BY <3>1, <2>t DEF TypeInv, StreamInHand, Naming, Fetching
    <3>4. <<t[1], stream[t]>> \in Threads /\ <<t[1], stream[t]>> # t
      BY <3>3, <2>t, NullAssumption DEF Requests, Threads, t, Dispatcher
    <3>5. Apart(t)
      BY ONLY <3>1, <3>2, <3>4, <2>u, <1>0 DEF Apart
    <3>6. QED
      BY <3>5, <2>u, ApartKeeps
  <2>11. CASE NoFault /\ Start(t)
    <3>1. /\ pc[t] = "start"
          /\ pc' = [pc EXCEPT ![t] = "add", ![<<t[1], stream[t]>>] = "begin"]
          /\ UNCHANGED <<activeClients, deadClients, cli, who>> /\ isActive' = isActive
      BY ONLY <2>11 DEF Start, Own, client, workflow, locals
    <3>2. \A u \in Threads : u = <<t[1], stream[t]>> => u[1] = t[1]
      OBVIOUS
    <3>3. stream[t] \in Streams
      BY <3>1, <2>t DEF TypeInv, StreamInHand, Naming, Fetching
    <3>4. <<t[1], stream[t]>> \in Threads /\ <<t[1], stream[t]>> # t
      BY <3>3, <2>t, NullAssumption DEF Requests, Threads, t, Dispatcher
    <3>5. Apart(t)
      BY ONLY <3>1, <3>2, <3>4, <2>u, <1>0 DEF Apart
    <3>6. QED
      BY <3>5, <2>u, ApartKeeps
  <2>12. CASE NoFault /\ Add(t)
    <3>1. /\ pc[t] = "add" /\ pc' = [pc EXCEPT ![t] = "send"]
          /\ UNCHANGED <<deadClients, cli, who, isActive>>
          /\ activeClients' = [activeClients EXCEPT ![server[t]] = @ \cup {t[1]}]
      BY ONLY <2>12 DEF Add, Step, client
    <3>2. Accepted(c)
      BY <3>1 DEF Accepted, t
    <3>3. \A k \in Clients : Accepted(k) => Accepted(k)'
      BY <3>1, <1>0, <1>n DEF Accepted
    <3>4. \A r \in Requests : pc'[r] = pc[r]
      BY <3>1, <1>0, <1>n DEF t
    <3>5. \A x \in Requests : activeClients'[x] \subseteq activeClients[x] \cup {c}
      BY <3>1, <2>t, <1>m
    <3>6. QED
      BY ONLY <3>1, <3>2, <3>3, <3>4, <3>5, <1>m, <1>n, <1>i DEF Members, LostDead
  <2>13. QED
    BY <1>2, <2>1, <2>2, <2>3, <2>4, <2>5, <2>6, <2>7, <2>8, <2>9, <2>10, <2>11, <2>12
       DEF Dispatch, t
<1>3. ASSUME NEW r \in Requests, Read(r)
      PROVE  Members' /\ LostDead
  <2>u. r \in Threads
    BY DEF Threads
  <2>1. CASE Finishing(r)
    <3>1. Goes(r, {"loop"}, {"finish"})
      BY ONLY <2>1, <2>u, Outcomes
    <3>2. UNCHANGED <<activeClients, deadClients, cli, who>> /\ isActive' = isActive
      BY ONLY <2>1 DEF Finishing, Own, client, workflow, locals
    <3>3. Apart(r)
      BY ONLY <3>1, <3>2, <2>u, <1>0 DEF Goes, Apart, Return
    <3>4. QED
      BY <3>3, <2>u, ApartKeeps
  <2>2. CASE Failing(r)
    <3>1. Goes(r, {"begin", "loop", "thrown"}, {"finish"})
      BY ONLY <2>2, <2>u, Outcomes
    <3>2. UNCHANGED <<activeClients, deadClients, cli, who>> /\ isActive' = isActive
      BY ONLY <2>2 DEF Failing, Own, client, workflow, locals
    <3>3. Apart(r)
      BY ONLY <3>1, <3>2, <2>u, <1>0 DEF Goes, Apart, Return
    <3>4. QED
      BY <3>3, <2>u, ApartKeeps
  <2>3. CASE WriteFails(r)
    <3>1. Goes(r, {"write", "sequence"}, {"end"})
      BY ONLY <2>3, <2>u, Outcomes
    <3>2. UNCHANGED <<activeClients, deadClients, cli, who>> /\ isActive' = isActive
      BY ONLY <2>3 DEF WriteFails, Own, client, workflow, locals
    <3>3. Apart(r)
      BY ONLY <3>1, <3>2, <2>u, <1>0 DEF Goes, Apart, Return
    <3>4. QED
      BY <3>3, <2>u, ApartKeeps
  <2>4. CASE NoFault /\ Begin(r)
    <3>1. Goes(r, {"begin"}, {"loop", "finish"})
      BY ONLY <2>4, <2>u, Outcomes
    <3>2. UNCHANGED <<activeClients, deadClients, cli, who>> /\ isActive' = isActive
      BY ONLY <2>4 DEF Begin, Own, client, workflow, locals
    <3>3. Apart(r)
      BY ONLY <3>1, <3>2, <2>u, <1>0 DEF Goes, Apart, Return
    <3>4. QED
      BY <3>3, <2>u, ApartKeeps
  <2>5. CASE NoFault /\ Finish(r)
    <3>1. Goes(r, {"finish"}, {"over"})
      BY ONLY <2>5, <2>u, Outcomes
    <3>2. UNCHANGED <<activeClients, deadClients, cli, who>> /\ isActive' = isActive
      BY ONLY <2>5 DEF Finish, Own, client, workflow, locals
    <3>3. Apart(r)
      BY ONLY <3>1, <3>2, <2>u, <1>0 DEF Goes, Apart, Return
    <3>4. QED
      BY <3>3, <2>u, ApartKeeps
  <2>6. CASE NoFault /\ NextImage(r)
    <3>1. Goes(r, {"loop"}, {"observer"})
      BY ONLY <2>6, <2>u, Outcomes
    <3>2. UNCHANGED <<activeClients, deadClients, cli, who>> /\ isActive' = isActive
      BY ONLY <2>6 DEF NextImage, Own, client, workflow, locals
    <3>3. Apart(r)
      BY ONLY <3>1, <3>2, <2>u, <1>0 DEF Goes, Apart, Return
    <3>4. QED
      BY <3>3, <2>u, ApartKeeps
  <2>7. CASE NoFault /\ NextObserver(r)
    <3>1. Goes(r, {"observer"}, {"observer", "count"})
      BY ONLY <2>7, <2>u, Outcomes
    <3>2. UNCHANGED <<activeClients, deadClients, cli, who>> /\ isActive' = isActive
      BY ONLY <2>7 DEF NextObserver, Own, client, workflow, locals
    <3>3. Apart(r)
      BY ONLY <3>1, <3>2, <2>u, <1>0 DEF Goes, Apart, Return
    <3>4. QED
      BY <3>3, <2>u, ApartKeeps
  <2>8. CASE NoFault /\ LastObserver(r)
    <3>1. Goes(r, {"observer"}, {"loop", "finish"})
      BY ONLY <2>8, <2>u, Outcomes
    <3>2. UNCHANGED <<activeClients, deadClients, cli, who>> /\ isActive' = isActive
      BY ONLY <2>8 DEF LastObserver, Own, client, workflow, locals
    <3>3. Apart(r)
      BY ONLY <3>1, <3>2, <2>u, <1>0 DEF Goes, Apart, Return
    <3>4. QED
      BY <3>3, <2>u, ApartKeeps
  <2>9. CASE NoFault /\ Count(r)
    <3>1. Goes(r, {"count"}, {"idle", "client"})
      BY ONLY <2>9, <2>u, Outcomes
    <3>2. \A k \in Clients : Accepted(k) => Accepted(k)'
      BY <3>1, <1>0, <1>n DEF Accepted, Goes
    <3>3. \A q \in Requests : pc'[q] # "none" => pc[q] # "none"
      BY <3>1, <1>0, <2>u DEF Goes
    <3>4. /\ UNCHANGED <<activeClients, who, isActive>>
          /\ \/ deadClients' = deadClients /\ cli' = cli
             \/ /\ deadClients' = [deadClients EXCEPT ![server[r]] = {}]
                /\ \E i \in Fetch(Fresh, activeClients[server[r]]) : cli' = [cli EXCEPT ![r] = i]
      BY ONLY <2>9 DEF Count, client
    <3>5. server[r] \in Requests
      BY <3>1 DEF TypeInv, ServerInHand, InServer, Goes
    <3>6. \A x \in Requests : deadClients'[x] \subseteq deadClients[x]
      BY <3>4, <3>5, <1>m
    <3>7. \A i \in Fetch(Fresh, activeClients[server[r]]) :
             i.ahead # NULL => i.ahead \in activeClients[server[r]]
      BY <3>5, <1>m, Fetched, FreshIterator
    <3>8. \A q \in Requests : cli'[q].ahead # NULL =>
             \/ cli'[q].ahead = cli[q].ahead
             \/ cli'[q].ahead \in activeClients[server[r]]
      BY <3>4, <3>7, <1>m
    <3>9. QED
      BY ONLY <3>2, <3>3, <3>4, <3>5, <3>6, <3>8, <1>m, <1>n, <1>i DEF Members, LostDead
  <2>10. CASE NoFault /\ NextClient(r)
    <3>1. Goes(r, {"client"}, {"tally", "send", "again"})
      BY ONLY <2>10, <2>u, Outcomes
    <3>2. \A k \in Clients : Accepted(k) => Accepted(k)'
      BY <3>1, <1>0, <1>n DEF Accepted, Goes
    <3>3. \A q \in Requests : pc'[q] # "none" => pc[q] # "none"
      BY <3>1, <1>0, <2>u DEF Goes
    <3>4. /\ UNCHANGED <<activeClients, deadClients, isActive>>
          /\ \/ cli' = cli /\ who' = who
             \/ /\ cli[r].ahead # NULL
                /\ who' = [who EXCEPT ![r] = cli[r].ahead]
                /\ \E i \in Fetch(cli[r], activeClients[server[r]]) : cli' = [cli EXCEPT ![r] = i]
      BY ONLY <2>10 DEF NextClient, Own, client, workflow
    <3>5. server[r] \in Requests
      BY <3>1 DEF TypeInv, ServerInHand, InServer, Goes
    <3>7. \A i \in Fetch(cli[r], activeClients[server[r]]) :
             i.ahead # NULL => i.ahead \in activeClients[server[r]]
      BY <3>5, <1>m, Fetched
    <3>8. \A q \in Requests : cli'[q].ahead # NULL =>
             \/ cli'[q].ahead = cli[q].ahead
             \/ cli'[q].ahead \in activeClients[server[r]]
      BY <3>4, <3>7, <1>m
    <3>9. \A u \in Threads : who'[u] = who[u] \/ (cli[r].ahead # NULL /\ who'[u] = cli[r].ahead)
      BY <3>4, <1>0
    <3>10. QED
      BY ONLY <3>2, <3>3, <3>4, <3>5, <3>8, <3>9, <1>m, <1>n, <1>i DEF Members, LostDead
  <2>11. CASE NoFault /\ Send(r)
    <3>1. Goes(r, {"send"}, {"write", "sequence", "again"})
      BY ONLY <2>11, <2>u, Outcomes
    <3>2. UNCHANGED <<activeClients, deadClients, cli, who>> /\ isActive' = isActive
      BY ONLY <2>11 DEF Send, Own, client, workflow, locals
    <3>3. Apart(r)
      BY ONLY <3>1, <3>2, <2>u, <1>0 DEF Goes, Apart, Return
    <3>4. QED
      BY <3>3, <2>u, ApartKeeps
  <2>12. CASE NoFault /\ Write(r)
    <3>1. Goes(r, {"write", "sequence"}, {"again"})
      BY ONLY <2>12, <2>u, Outcomes
    <3>2. UNCHANGED <<activeClients, deadClients, cli, who>> /\ isActive' = isActive
      BY ONLY <2>12 DEF Write, Own, client, workflow, locals
    <3>3. Apart(r)
      BY ONLY <3>1, <3>2, <2>u, <1>0 DEF Goes, Apart, Return
    <3>4. QED
      BY <3>3, <2>u, ApartKeeps
  <2>13. CASE NoFault /\ Again(r)
    <3>1. Goes(r, {"again"}, {"client"})
      BY ONLY <2>13, <2>u, Outcomes
    <3>2. \A k \in Clients : Accepted(k) => Accepted(k)'
      BY <3>1, <1>0, <1>n DEF Accepted, Goes
    <3>3. \A q \in Requests : pc'[q] # "none" => pc[q] # "none"
      BY <3>1, <1>0, <2>u DEF Goes
    <3>4. /\ UNCHANGED <<activeClients, isActive, cli, who>>
          /\ \/ deadClients' = deadClients
             \/ /\ ~isActive[who[r]]
                /\ deadClients' = [deadClients EXCEPT ![server[r]] = @ \cup {who[r]}]
      BY ONLY <2>13 DEF Again, client, locals
    <3>5. pc[r] # "none"
      BY <3>1 DEF Goes
    <3>6. Accepted(who[r])
      BY <3>5, <2>u, <1>m
    <3>7. \A x \in Requests : \A k \in deadClients'[x] :
             k \in deadClients[x] \/ (k = who[r] /\ ~isActive[who[r]])
      BY <3>4, <1>m
    <3>8. QED
      BY ONLY <3>2, <3>3, <3>4, <3>6, <3>7, <2>u, <1>m, <1>n, <1>i DEF Members, LostDead
  <2>14. CASE NoFault /\ Tally(r)
    <3>1. Goes(r, {"tally"}, {"idle", "observer"})
      BY ONLY <2>14, <2>u, Outcomes
    <3>2. \A k \in Clients : Accepted(k) => Accepted(k)'
      BY <3>1, <1>0, <1>n DEF Accepted, Goes
    <3>3. \A q \in Requests : pc'[q] # "none" => pc[q] # "none"
      BY <3>1, <1>0, <2>u DEF Goes
    <3>4. /\ UNCHANGED <<deadClients, isActive, cli>>
          /\ who' = [who EXCEPT ![r] = r[1]]
          /\ activeClients' = [activeClients EXCEPT ![server[r]] =
                                 activeClients[server[r]] \ deadClients[server[r]]]
      BY ONLY <2>14 DEF Tally, client
    <3>5. \A x \in Requests : /\ activeClients'[x] \subseteq activeClients[x]
                              /\ activeClients[x] \ activeClients'[x] \subseteq deadClients[x]
      BY <3>4, <1>m
    <3>6. \A u \in Threads : who'[u] # u[1] => who'[u] = who[u]
      BY <3>4, <1>0
    <3>7. QED
      BY ONLY <3>2, <3>3, <3>4, <3>5, <3>6, <1>m, <1>n, <1>i DEF Members, LostDead
  <2>15. CASE NoFault /\ Idle(r)
    <3>1. Goes(r, {"idle"}, {"unobserve"})
      BY ONLY <2>15, <2>u, Outcomes
    <3>2. UNCHANGED <<activeClients, deadClients, cli, who>> /\ isActive' = isActive
      BY ONLY <2>15 DEF Idle, Own, client, workflow, locals
    <3>3. Apart(r)
      BY ONLY <3>1, <3>2, <2>u, <1>0 DEF Goes, Apart, Return
    <3>4. QED
      BY <3>3, <2>u, ApartKeeps
  <2>16. QED
    BY <1>3, <2>1, <2>2, <2>3, <2>4, <2>5, <2>6, <2>7, <2>8, <2>9,
       <2>10, <2>11, <2>12, <2>13, <2>14, <2>15 DEF Read
<1>4. ASSUME NoFault, NEW t \in Threads, Call(t)
      PROVE  Members' /\ LostDead
  <2>u. t \in Threads
    BY <1>4
  <2>1. CASE End(t)
    <3>1. Goes(t, {"end"}, {"died", Return(t)})
      BY ONLY <2>1, <2>u, Outcomes
    <3>2. UNCHANGED <<activeClients, deadClients, cli, who>> /\ isActive' = isActive
      BY ONLY <2>1 DEF End, Own, client, workflow, locals
    <3>3. Apart(t)
      BY ONLY <3>1, <3>2, <2>u, <1>0 DEF Goes, Apart, Return
    <3>4. QED
      BY <3>3, <2>u, ApartKeeps
  <2>2. CASE RemoveClient(t)
    <3>1. Goes(t, {"died"}, {"ended", "unobserve"})
      BY ONLY <2>2, <2>u, Outcomes
    <3>2. \A k \in Clients : Accepted(k) => Accepted(k)'
      BY <3>1, <1>0, <1>n DEF Accepted, Goes
    <3>3. \A q \in Requests : pc'[q] # "none" => pc[q] # "none"
      BY <3>1, <1>0, <2>u DEF Goes
    <3>4. /\ UNCHANGED <<deadClients, isActive, cli, who>>
          /\ \/ activeClients' = activeClients
             \/ \E x : activeClients' = [activeClients EXCEPT ![x] = @ \ {who[t]}]
      BY ONLY <2>2 DEF RemoveClient, client
    <3>5. \A x \in Requests : /\ activeClients'[x] \subseteq activeClients[x]
                              /\ activeClients[x] \ activeClients'[x] \subseteq {who[t]}
      BY <3>4, <1>m
    <3>7. BeingEnded(who[t])
      <4>1. pc[t] = "died"
        BY <3>1 DEF Goes
      <4>2. monitor[who[t]] = t
        BY <4>1, <2>u DEF Holders, Ending
      <4>3. QED
        BY <4>1, <4>2, <2>u, ThreadNames DEF BeingEnded, Ending
    <3>8. QED
      BY ONLY <3>2, <3>3, <3>4, <3>5, <3>7, <1>m, <1>n, <1>i DEF Members, LostDead
  <2>3. CASE Ended(t)
    <3>1. Goes(t, {"ended"}, {Return(t)})
      BY ONLY <2>3, <2>u, Outcomes
    <3>2. UNCHANGED <<activeClients, deadClients, cli, who>> /\ isActive' = [isActive EXCEPT ![who[t]] = FALSE]
      BY ONLY <2>3 DEF Ended, Own, client, workflow, locals
    <3>3. Apart(t)
      BY ONLY <3>1, <3>2, <2>u, <1>0 DEF Goes, Apart, Return
    <3>4. QED
      BY <3>3, <2>u, ApartKeeps
  <2>4. CASE Unobserve(t)
    <3>1. Goes(t, {"unobserve"}, {"interrupt"})
      BY ONLY <2>4, <2>u, Outcomes
    <3>2. UNCHANGED <<activeClients, deadClients, cli, who>> /\ isActive' = isActive
      BY ONLY <2>4 DEF Unobserve, Own, client, workflow, locals
    <3>3. Apart(t)
      BY ONLY <3>1, <3>2, <2>u, <1>0 DEF Goes, Apart, Return
    <3>4. QED
      BY <3>3, <2>u, ApartKeeps
  <2>5. CASE Passing(t)
    <3>1. Goes(t, Interrupting, Interrupting \cup {"ended", "observer"})
      BY ONLY <2>5, <2>u, Outcomes
    <3>2. Passed(t)
      BY ONLY <2>5, <2>u, Passes
    <3>3. UNCHANGED <<activeClients, deadClients, cli, who>> /\ isActive' = isActive
      BY ONLY <3>2 DEF Passed, client
    <3>4. Apart(t)
      BY ONLY <3>1, <3>3, <2>u, <1>0 DEF Goes, Apart, Interrupting
    <3>5. QED
      BY <3>4, <2>u, ApartKeeps
  <2>6. CASE Throw(t)
    <3>1. Goes(t, {"tell", "tellAgain"}, {"thrown", "done"})
      BY ONLY <2>6, <2>u, Outcomes
    <3>2. \A k \in Clients : Accepted(k) => Accepted(k)'
      BY <3>1, <1>0, <1>n DEF Accepted, Goes
    <3>3. \A q \in Requests : pc'[q] # "none" => pc[q] # "none"
      BY <3>1, <1>0, <2>u DEF Goes
    <3>4. /\ UNCHANGED <<activeClients, deadClients, isActive>>
          /\ who' = [who EXCEPT ![t] = t[1]]
          /\ cli' = [r \in Requests |-> IF r = t THEN [ahead |-> NULL, seen |-> {}] ELSE cli[r]]
      BY ONLY <2>6 DEF Throw
    <3>5. \A u \in Threads : who'[u] # u[1] => who'[u] = who[u]
      BY <3>4, <1>0
    <3>6. \A q \in Requests : cli'[q].ahead # NULL => cli'[q].ahead = cli[q].ahead
      BY <3>4
    <3>7. QED
      BY ONLY <3>2, <3>3, <3>4, <3>5, <3>6, <1>m, <1>n, <1>i DEF Members, LostDead
  <2>7. QED
    BY <1>4, <2>1, <2>2, <2>3, <2>4, <2>5, <2>6 DEF Call, Passing
<1>5. CASE UNCHANGED vars
  <2>1. UNCHANGED <<activeClients, deadClients, cli, who, isActive, pc>>
    BY <1>5 DEF vars, client, workflow, locals
  <2>2. QED
    BY ONLY <2>1, Members DEF Members, Accepted, LostDead
<1>6. QED
  BY <1>1, <1>2, <1>3, <1>4, <1>5 DEF Next

-----------------------------------------------------------------------------
(* Theorems *)

WorkflowInv == TypeInv /\ NewReaders /\ Holders /\ Sequence /\ Counted /\ Members

LEMMA NewReadersInit ==
  ASSUME Init
  PROVE  NewReaders
BY ThreadNames DEF Init, NewReaders, NewReader, Fetching, Threads, Requests

LEMMA WorkflowInvariant == Spec => []WorkflowInv
<1>1. Init => WorkflowInv
  BY TypeInit, NewReadersInit, HoldersInit, SequenceInit, ServedInit, MembersInit DEF WorkflowInv
<1>2. WorkflowInv /\ [Next]_vars => WorkflowInv'
  <2> SUFFICES ASSUME WorkflowInv, [Next]_vars
               PROVE  WorkflowInv'
    OBVIOUS
  <2>0. TypeInv /\ NewReaders /\ Holders /\ Sequence /\ Counted /\ Members
    BY DEF WorkflowInv
  <2>1. TypeInv'
    BY <2>0, TypeNext, InHandNext DEF TypeInv
  <2>2. NewReaders'
    BY <2>0, NewReadersNext
  <2>3. Holders'
    BY <2>0, HoldersNext
  <2>4. Sequence'
    BY <2>0, SequenceNext
  <2>5. Counted'
    BY <2>0, EscapesNext, ServedNext DEF Counted
  <2>6. Members'
    BY <2>0, MembersNext
  <2>7. QED
    BY <2>1, <2>2, <2>3, <2>4, <2>5, <2>6 DEF WorkflowInv
<1>3. QED
  BY <1>1, <1>2, PTL DEF Spec

\* Every variable keeps its type: in particular no thread ends a client, or looks for a
\* StreamServer, that is not there.
THEOREM TypeCorrect == Spec => []TypeOK
<1>1. WorkflowInv => TypeOK
  BY DEF WorkflowInv, TypeInv
<1>2. QED
  BY <1>1, WorkflowInvariant, PTL

\* However many readers and dispatchers end and serve the same clients, the synchronized
\* methods of RemoteClient and NIManager, that call each other both ways, do not deadlock.
THEOREM DeadlockFree == Spec => []NoDeadlock
<1>1. WorkflowInv => NoDeadlock
  BY HoldersWait DEF WorkflowInv
<1>2. QED
  BY <1>1, WorkflowInvariant, PTL

\* The first image a client gets, from whichever of its streams, comes as the one
\* NewImageSequence of the connection: send tests and sets nis in one monitor.  What breaks
\* it is nothing but the exception that leaves _end before the client is closed.
THEOREM SequenceFirst == Spec => []OneSequenceFirst
<1>1. WorkflowInv => OneSequenceFirst
  BY DEF WorkflowInv, Sequence, Escapees, OneSequenceFirst
<1>2. QED
  BY <1>1, WorkflowInvariant, PTL

\* NIManager's count falls below the number of the clients that are served by no more than
\* one for every exception that left _end: _end counts a client once, whoever calls it, and
\* one that stayed active once more.
THEOREM CountCovers == Spec => []CountCoversServed
<1>1. WorkflowInv => CountCoversServed
  BY DEF WorkflowInv, Counted
<1>2. QED
  BY <1>1, WorkflowInvariant, PTL

\* A StreamServer drops no client that is served, though its readers share one list of
\* dead clients without a lock.
THEOREM MembersKept == Spec => OnlyTheDeadLeave
<1>1. WorkflowInv /\ [Next]_vars => [LostDead]_vars
  <2>1. ASSUME WorkflowInv, [Next]_vars
        PROVE  LostDead
    BY <2>1, MembersNext DEF WorkflowInv
  <2>2. QED
    BY <2>1
<1>2. OnlyTheDeadLeave <=> [][LostDead]_vars
  BY DEF OnlyTheDeadLeave, LostDead
<1>3. QED
  BY <1>1, <1>2, WorkflowInvariant, PTL DEF Spec

=============================================================================
