----------------------------- MODULE ClientPool -----------------------------
(***************************************************************************)
(* The client structures of the C daemon (gvar/geostreamd/server.c and     *)
(* client.c): a fixed number of them, on a free list or on a busy list,    *)
(* and the event that accepts connections, which stays off while no client *)
(* is free.                                                                *)
(*                                                                         *)
(* The daemon has one event loop.  With RequestStyle Events it also serves *)
(* the clients, and a callback runs to its end before the next; with       *)
(* WriteStyle Threads a file is sent by a thread of its own, which then    *)
(* resets or frees the client; with RequestStyle Threads a thread serves   *)
(* the client from beginning to end.  A step between two operations on the *)
(* lists or the event is a step of its own.                                *)
(***************************************************************************)
EXTENDS LinkedLists, FiniteSets

CONSTANTS
  Clients,   \* the client structures (num_clients of them)
  Styles,    \* configurations: pairs of a request and a write style
  Backlog,   \* connections that can wait to be accepted (SERVER_BACKLOG)
  MaxEnding  \* bound: threads at the same time about to add the event

ASSUME ClientsAssumption == IsFiniteSet(Clients) /\ NULL \notin Clients
ASSUME StylesAssumption  ==
  Styles \subseteq {"EVENTS", "THREADS"} \X {"EVENTS", "THREADS"}
ASSUME BacklogAssumption == Backlog \in Nat /\ MaxEnding \in Nat

Lists == {"free", "busy"}

VARIABLES
  reqStyle, writeStyle, \* the configuration
  mem,          \* the two lists
  armed,        \* server->event_p is added
  backlog,      \* connections waiting
  lpc, inHand,  \* the event loop and the client its callback is about
  cpc,          \* what is done for each client
  keepAlive,    \* client->keep_alive
  wasEmpty,     \* was_empty of the server_free_client that frees the client
  inThread,     \* clients that a thread of their own takes care of
  restarts,     \* threads about to add the event at the end of server_free_client
  \* history
  early         \* some client was unlinked before it was linked to the busy list

style == <<reqStyle, writeStyle>>
vars  == <<style, mem, armed, backlog, lpc, inHand, cpc, keepAlive, wasEmpty,
           inThread, restarts, early>>

LoopStates   == {"dispatch", "add", "accept", "link", "back", "release", "restart"}
ClientStates == {"idle", "read", "respond", "file", "test", "unlink", "link"}

\* The orders in which a set can be put on a list.
Orders(S) ==
  {q \in [1 .. Cardinality(S) -> S] : Distinct(q) /\ \A c \in S : In(c, q)}

Place(q, c) == CHOOSE k \in 1 .. Len(q) : q[k] = c

\* server_init: every client linked to the free list, one after the other.
Init ==
  /\ \E s \in Styles : reqStyle = s[1] /\ writeStyle = s[2]
  /\ \E q \in Orders(Clients) :
       mem = [head |-> [l \in Lists |-> IF l = "free" /\ q # <<>> THEN q[1] ELSE NULL],
              tail |-> [l \in Lists |->
                          IF l = "free" /\ q # <<>> THEN q[Len(q)] ELSE NULL],
              prev |-> [c \in Clients |->
                          IF Place(q, c) = 1 THEN NULL ELSE q[Place(q, c) - 1]],
              next |-> [c \in Clients |->
                          IF Place(q, c) = Len(q) THEN NULL ELSE q[Place(q, c) + 1]]]
  /\ armed = TRUE
  /\ backlog = 0
  /\ lpc = "dispatch" /\ inHand = NULL
  /\ cpc = [c \in Clients |-> "idle"]
  /\ keepAlive = [c \in Clients |-> FALSE]
  /\ wasEmpty = [c \in Clients |-> FALSE]
  /\ inThread = {}
  /\ restarts = 0
  /\ early = FALSE

\* Somebody connects.
Arrive ==
  /\ backlog < Backlog
  /\ backlog' = backlog + 1
  /\ UNCHANGED <<style, mem, armed, lpc, inHand, cpc, keepAlive, wasEmpty, inThread,
                 restarts, early>>

-----------------------------------------------------------------------------
(* event_server_new_clients *)

\* Wrong on purpose: whether a client was free is not tested.
NewClientsNoTest ==
  /\ lpc = "dispatch" /\ armed /\ backlog > 0
  /\ armed' = FALSE
  /\ mem' = IF Empty(mem, "free") THEN mem ELSE Shift(mem, "free")
  /\ inHand' = mem.head["free"]
  /\ lpc' = "add"
  /\ UNCHANGED <<style, backlog, cpc, keepAlive, wasEmpty, inThread, restarts, early>>

\* The event fires, and is off until it is added again.  With no client free the
\* callback returns.
NewClients ==
  /\ lpc = "dispatch" /\ armed /\ backlog > 0
  /\ armed' = FALSE
  /\ IF Empty(mem, "free")
       THEN UNCHANGED <<mem, lpc, inHand>>
       ELSE /\ mem' = Shift(mem, "free")
            /\ inHand' = mem.head["free"]
            /\ lpc' = "add"
  /\ UNCHANGED <<style, backlog, cpc, keepAlive, wasEmpty, inThread, restarts, early>>

\* Wrong on purpose: the event is left off after a connection is accepted.
AddAgainNot ==
  /\ lpc = "add"
  /\ lpc' = "accept"
  /\ UNCHANGED <<style, mem, armed, backlog, inHand, cpc, keepAlive, wasEmpty, inThread,
                 restarts, early>>

AddAgain ==
  /\ lpc = "add"
  /\ armed' = TRUE
  /\ lpc' = "accept"
  /\ UNCHANGED <<style, mem, backlog, inHand, cpc, keepAlive, wasEmpty, inThread,
                 restarts, early>>

\* client_accept: an event or a thread of its own serves the client from here on.
\* keep_alive is left as the last connection of this client had it.
Accept ==
  /\ lpc = "accept"
  /\ backlog' = backlog - 1
  /\ cpc' = [cpc EXCEPT ![inHand] = "read"]
  /\ inThread' = IF reqStyle = "THREADS" THEN inThread \cup {inHand} ELSE inThread
  /\ lpc' = "link"
  /\ UNCHANGED <<style, mem, armed, inHand, keepAlive, wasEmpty, restarts, early>>

\* The connection is gone, or getsockname fails.
AcceptFails ==
  /\ lpc = "accept"
  /\ backlog' = backlog - 1
  /\ lpc' = "back"
  /\ UNCHANGED <<style, mem, armed, inHand, cpc, keepAlive, wasEmpty, inThread,
                 restarts, early>>

LinkBusy ==
  /\ lpc = "link"
  /\ mem' = Link(mem, "busy", inHand)
  /\ lpc' = "dispatch"
  /\ UNCHANGED <<style, armed, backlog, inHand, cpc, keepAlive, wasEmpty, inThread,
                 restarts, early>>

LinkBack ==
  /\ lpc = "back"
  /\ mem' = Link(mem, "free", inHand)
  /\ lpc' = "dispatch"
  /\ UNCHANGED <<style, armed, backlog, inHand, cpc, keepAlive, wasEmpty, inThread,
                 restarts, early>>

-----------------------------------------------------------------------------
(* A client is served: its callbacks, or the body of its thread *)

\* A callback of c can start, or its thread runs.
Callback(c) == c \in inThread \/ lpc = "dispatch"

\* c is in state s next; when that is its release, the callback is not over.
Goes(c, s) ==
  /\ cpc' = [cpc EXCEPT ![c] = s]
  /\ IF s = "test" /\ c \notin inThread
       THEN lpc' = "release" /\ inHand' = c
       ELSE UNCHANGED <<lpc, inHand>>

\* client_reset_or_free(c, keep_alive) after a response.
AfterResponse(c) == IF keepAlive[c] THEN "read" ELSE "test"

\* A request has come, one that asks to keep the connection or does not: the flag
\* is set, and never cleared by a request that does not ask.
Request(c) ==
  /\ cpc[c] = "read" /\ Callback(c)
  /\ \E keep \in BOOLEAN : keepAlive' = [keepAlive EXCEPT ![c] = @ \/ keep]
  /\ Goes(c, "respond")
  /\ UNCHANGED <<style, mem, armed, backlog, wasEmpty, inThread, restarts, early>>

\* The other side has closed the connection, or the response cannot be written.
Closed(c) ==
  /\ cpc[c] \in {"read", "respond"} /\ Callback(c)
  /\ Goes(c, "test")
  /\ UNCHANGED <<style, mem, armed, backlog, keepAlive, wasEmpty, inThread, restarts,
                 early>>

\* The response is sent.  A thread sends the file at once; with events the file is
\* another callback, or the work of a thread.
Respond(c) ==
  /\ cpc[c] = "respond" /\ Callback(c)
  /\ \/ Goes(c, AfterResponse(c)) /\ UNCHANGED inThread
     \/ /\ reqStyle = "EVENTS"
        /\ Goes(c, "file")
        /\ inThread' = IF writeStyle = "THREADS" THEN inThread \cup {c} ELSE inThread
  /\ UNCHANGED <<style, mem, armed, backlog, keepAlive, wasEmpty, restarts, early>>

\* The file is sent; a thread ends when the client goes on.
SendFile(c) ==
  /\ cpc[c] = "file" /\ Callback(c)
  /\ Goes(c, AfterResponse(c))
  /\ inThread' = IF keepAlive[c] THEN inThread \ {c} ELSE inThread
  /\ UNCHANGED <<style, mem, armed, backlog, keepAlive, wasEmpty, restarts, early>>

SendFileFails(c) ==
  /\ cpc[c] = "file" /\ Callback(c)
  /\ Goes(c, "test")
  /\ keepAlive' = IF c \in inThread THEN [keepAlive EXCEPT ![c] = FALSE] ELSE keepAlive
  /\ UNCHANGED <<style, mem, armed, backlog, wasEmpty, inThread, restarts, early>>

-----------------------------------------------------------------------------
(* server_free_client *)

Releasing(c) == c \in inThread \/ (lpc = "release" /\ inHand = c)

TestEmpty(c) ==
  /\ cpc[c] = "test" /\ Releasing(c)
  /\ wasEmpty' = [wasEmpty EXCEPT ![c] = Empty(mem, "free")]
  /\ cpc' = [cpc EXCEPT ![c] = "unlink"]
  /\ UNCHANGED <<style, mem, armed, backlog, lpc, inHand, keepAlive, inThread,
                 restarts, early>>

UnlinkBusy(c) ==
  /\ cpc[c] = "unlink" /\ Releasing(c)
  /\ mem' = Unlink(mem, "busy", c)
  /\ early' = (early \/ (lpc = "link" /\ inHand = c))
  /\ cpc' = [cpc EXCEPT ![c] = "link"]
  /\ UNCHANGED <<style, armed, backlog, lpc, inHand, keepAlive, wasEmpty, inThread,
                 restarts>>

\* From here on the client can be handed out again, also before the event is added.
LinkFree(c) ==
  /\ cpc[c] = "link" /\ Releasing(c)
  /\ mem' = Link(mem, "free", c)
  /\ cpc' = [cpc EXCEPT ![c] = "idle"]
  /\ IF c \in inThread
       THEN /\ wasEmpty[c] => restarts < MaxEnding
            /\ inThread' = inThread \ {c}
            /\ restarts' = restarts + IF wasEmpty[c] THEN 1 ELSE 0
            /\ UNCHANGED lpc
       ELSE /\ lpc' = IF wasEmpty[c] THEN "restart" ELSE "dispatch"
            /\ UNCHANGED <<inThread, restarts>>
  /\ UNCHANGED <<style, armed, backlog, inHand, keepAlive, wasEmpty, early>>

Restart ==
  /\ \/ lpc = "restart" /\ lpc' = "dispatch" /\ UNCHANGED restarts
     \/ restarts > 0 /\ restarts' = restarts - 1 /\ UNCHANGED lpc
  /\ armed' = TRUE
  /\ UNCHANGED <<style, mem, backlog, inHand, cpc, keepAlive, wasEmpty, inThread, early>>

Accepting == NewClients \/ AddAgain \/ Accept \/ AcceptFails \/ LinkBusy \/ LinkBack
Serving(c) == Request(c) \/ Closed(c) \/ Respond(c) \/ SendFile(c) \/ SendFileFails(c)
Freeing(c) == TestEmpty(c) \/ UnlinkBusy(c) \/ LinkFree(c)

Next ==
  \/ Arrive \/ Accepting \/ Restart
  \/ \E c \in Clients : Serving(c) \/ Freeing(c)

Spec == Init /\ [][Next]_vars

-----------------------------------------------------------------------------
(* Properties *)

\* The client event_server_new_clients has shifted and not linked yet.
Shifted(c) == lpc \in {"add", "accept", "link", "back"} /\ inHand = c

TypeOK ==
  /\ style \in {"EVENTS", "THREADS"} \X {"EVENTS", "THREADS"}
  /\ mem \in Memory(Clients, Lists)
  /\ armed \in BOOLEAN
  /\ backlog \in 0 .. Backlog
  /\ lpc \in LoopStates
  /\ inHand \in Clients \cup {NULL}
  /\ lpc \notin {"dispatch", "restart"} => inHand \in Clients
  /\ cpc \in [Clients -> ClientStates]
  /\ keepAlive \in [Clients -> BOOLEAN]
  /\ wasEmpty \in [Clients -> BOOLEAN]
  /\ inThread \subseteq Clients
  /\ restarts \in 0 .. MaxEnding
  /\ early \in BOOLEAN

\* Where a client belongs: on the free list while nobody uses it, on the busy list
\* from the end of its accept to its release.
BelongsFree(c) == cpc[c] = "idle" /\ ~Shifted(c)
BelongsBusy(c) == cpc[c] \notin {"idle", "link"} /\ ~Shifted(c)

Chains == UNION {Orders(S) : S \in SUBSET Clients}

\* Unless a client was released before it was on the busy list, both lists are
\* sound, links and ends, and each client is on the one it belongs to and on no
\* other: none is lost, and none is handed out while it is used.
ListsSound ==
  early \/ \E f, b \in Chains :
    /\ IsList(mem, "free", f) /\ IsList(mem, "busy", b)
    /\ \A c \in Clients : (In(c, f) <=> BelongsFree(c)) /\ (In(c, b) <=> BelongsBusy(c))

\* Somebody is about to add the event.
WillRestart ==
  \/ restarts > 0
  \/ \E c \in Clients : cpc[c] \in {"unlink", "link"} /\ wasEmpty[c]

\* While the loop waits and nobody is about to add the event, a client can only be
\* free with the event added: connections are not left waiting beside free clients.
NotLeftWaiting ==
  lpc = "dispatch" /\ ~Empty(mem, "free") /\ ~WillRestart => armed

\* With one thread for everything.
NotLeftWaitingOneThread == style = <<"EVENTS", "EVENTS">> => NotLeftWaiting

\* server.c:117 "If the free_clients was empty, we can restart new_clients again",
\* for threads too: no release leaves the event off for good.
AcceptingRestarts == NotLeftWaiting

\* geostreamd.pod:87 "Allow up to num simultaneous clients to the server": when
\* nobody is served, every client can be shifted from the free list, one after the
\* other.
AllClientsFree ==
  (lpc = "dispatch" /\ \A c \in Clients : cpc[c] = "idle")
    => \E f \in Orders(Clients) :
         /\ mem.head["free"] = f[1]
         /\ \A k \in 2 .. Len(f) : mem.next[f[k - 1]] = f[k]
=============================================================================
