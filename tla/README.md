# Verification of geostreams

geostreams takes the GVAR stream of a GOES weather satellite, cuts it into rows of
pixels and serves them over HTTP while they come in. This directory holds TLA+ models of
it, the TLC configurations that check them, and TLAPS proofs about them. Paths are
relative to the repository; `gvar_module/` stands for `src/gvar_module/` and so on.

## 1. Inventory

| Component | State | Operations | Hard behaviour | Correct when |
|---|---|---|---|---|
| **Shared memory row fifo** `gvar_module/ShmRowFifo.{h,cpp}` | ring of MAX_NUM_OF_ITEMS rows, writerPos, one semaphore per reader slot, the marks of used slots, readerSemMutex, writerCreated | createRowFifo, newWriter, newReader, write, read, removeReaderSem | one writer, readers in other threads and processes; rows are used in place with no lock; a slow reader is found out by the value of its semaphore while it takes rows | every row once and in order until the reader is a lap behind; slots neither shared nor lost; nobody waits for ever in newReader |
| **GVAR reader thread** `gvar_module/mod_geostream.cpp` (gvar_reader), `GvarStream.cpp` | socket, last block 0, id of the last frame written | listen, read, convertBlockToRows, close | the server goes and comes back; block 0 may be lost; frame definition beside the ring, no lock | frame definitions never behind the rows; the feed resumes |
| **Request handler** `mod_geostream.cpp` (geostream_handler), `GvarConverter.cpp` | the reader, id of the last row's frame, box of the request | convert: read, getFrameDef, startFrame, clip, writeRow | copies a definition being written; learns that a client has gone only from a failed write | rows of a frame never under an older definition; the slot comes back |
| **In-process fifo** `gvar_module/Fifo.h`, `geostreamd/fifo.h` | ring of pointers, set of readers | newReader, removeReader, write, read | set iterated by the writer while requests change it; no test for slow readers | no deleted row read |
| **GRASS writer** `GrassWriter.cpp`, `create_grass_files.cpp`, `retrieve_elug_params.cpp` | open files of a frame | writeFrame, writeRow | file output | a frame's files closed |
| **Image stream protocol** `imgstr/src/`, read by `viewer/src/geostreams/image` | frame in hand; the tag or line read ahead, the image not yet returned | writeChannelDef, startFrame, writeRow, endFrame; startReading, nextImage | the connection ends or breaks at any byte; a tag comes in two parts | the reader hands on the rows that were sent, at their place, and comes to its end |
| **HTTP daemon, C** `gvar/geostreamd/` | free and busy lists of clients, cache of mapped files, read-write lock | accept, read request, send headers, send file, reset, free | events or threads per client, lists shared by both, cache with no lock over look-up and count | a client is on one list; accepting resumes; counts match users |
| **HTTP daemon, C++** `geostreamd/` | free and busy connections | newConnection, freeConnection, request, response | the same, unfinished rewrite | accepting resumes |
| **Java stream reader and workflow** `viewer/src/geostreams/{image,workflow,util}` | observers and readers of each stream, stream servers with their active and dead clients, the state of each remote client, the count of clients | accept, command, getStream, add and remove remote client, notify image, interrupt, fail | a thread for each client and for each reader; monitors that are taken in each other, maps that have none | no threads wait for each other; a client gets one sequence header and then images; clients are counted right and leave only when they are gone |
| **Dynamic cascade tree** `dct/` | a node for each dimension: two skip lists, two cursors into them, the last query's bounds; the list of results | insert a region; query a window or a point | an answer depends on all queries before it; a query deletes what its cursors pass, and cursors of later nodes with it | the regions a scan would find; no cursor at a freed node |
| **GVAR block parser** `gvar/`, `libgvar/` | none | parse fields, times | none | |
| **The rest**: older GVAR readers, ELUG navigation, perl, GUI, papers | | | | outside what a finite model tells apart |

How they interact: the GVAR server sends blocks over TCP; the reader thread turns each
block into rows, writes the definition of a new frame into shared memory and puts the rows
into the ring; each HTTP request makes a reader of the ring, and its handler sends the
frame definition and the rows of the channels it was asked for over the client's
connection; the viewer's stream reader decodes them and notifies its observers, or the
workflow's remote clients.

## 2. Plan

In order of importance. Done: 1, 2, 5, 8, 9 and 10.

1. `RowBroadcast`, the promise of the fifo, and `ShmRowFifo`, the ring in shared memory,
   shown to implement it (proofs: `ShmRowFifo_proofs`, `ShmRowFifo_refines`).
2. `GvarRelay`: reader thread, frame definition and handlers composed with
   `RowBroadcast`, so that the relay is checked against the promise of the fifo and the
   ring against the same promise (proofs: `GvarRelay_proofs`).
3. The restart of the web server while handlers are attached: a second incarnation of the
   writer that initialises the segment again, in `ShmRowFifo`. Left: what sem_init does to
   a semaphore somebody waits on is undefined, so that a model could say only that
   anything may follow.
4. `RWLock` (`rwlock.c`). Left: the daemon takes only write locks, and a lock with one
   kind of user has no interleaving worth the name; that wunlock may wake nobody who can
   go on needs a reader.
5. `LinkedLists` (`ll.c`) and `ClientPool` over it: the lists of `server.c` and `client.c`,
   thread per client and event driven: a client on one list, accepting resumes (proofs:
   `LinkedLists_proofs`, `ClientPool_proofs`).
6. `FileCache`: `cache.c` over the same lists. Left: its count is never raised by a hit, it
   may evict the file it was called for and subtracts the size of one not mapped any more;
   there is no protocol here that a property could be about, only what section 6 says.
7. `InProcessFifo` (`Fifo.h`). Left: `mod_geostream` runs on shared memory, and the set that
   is iterated while it changes makes every outcome possible.
8. `ImageStream`: the clipping of a row to the box of the request
   (`GvarConverter.cpp:157-190`), both writers, both readers and the connection between
   (proofs: `ImageStream_proofs`).
9. `NetWorkflow`: remote clients, stream servers, readers (proofs: `NetWorkflow_proofs`).
10. `SkipLists` and `CascadeTree`: insertion and queries against a scan of all regions
    (proofs: `CascadeTree_proofs`).

Every safety property that a run checks is proved. What is left for the proofs: that the
relay over the ring itself, and not over its promise, keeps `GvarRelay`'s properties.

## 3. The models and the code

### RowBroadcast

`active` readers, what is `pending` for each of them, those that are `leaving`.
`Publish` appends a row to every active reader and needs all of them less than `Window`
rows behind; only a reader exactly `Window` rows behind may `Lose` the stream. So an
implementation must drop a slow reader before it publishes, may not drop another, and may
neither skip nor repeat nor reorder rows.

### ShmRowFifo

State as in `RowFifoStr`, with `isReaderSemsUsed` as the set of marked slots. A row is the
number of its write; a slot holds that number twice, for header and pixels, because copyRow
fills them one after the other and the handler reads them one after the other.

| Code | Actions |
|---|---|
| `RowFifoWriter::write`, `copyRow` | `WriteLock`, `CopyHead`, `CopyPixels`, then for each slot `ScanSlot` (unused, in time, or too slow), `ResetSlow`, `PostSlot`, and `WriteUnlock` |
| `newReader` | `Connect`, `WaitWriterCreated`, `ClaimSlot`, `BuildReader` or `Refuse` |
| `RowFifoReader::read` and the use of the row | `Read`, `UseHead`, `UsePixels` |
| `removeReaderSem` | `RemoveReaderSem` |

Each access another thread can see is one step: the value of a semaphore is tested
(`ScanSlot`), it is initialised (`ResetSlow`) and posted (`PostSlot`) in three steps, with
any number of `Read` between; `BuildReader` reads writerPos with no lock, as newReader does.
`taken`, `written` and `clean` are history: the row a reader has taken last, the rows
written, and the readers whose position and semaphore agree. A reader is clean when it is
built with no write between the marking of its slot and the reading of writerPos, and until
the writer finds it too slow or it leaves.

Simplified: `mutex` inside `readerSemMutex` is one lock (only the writer takes it, and always
inside the other); a semaphore is an atomic counter also for sem_init while somebody waits;
mutexes and semaphores work across processes although the code gives no pshared attribute.

### GvarRelay

The feed (`NextFrame`, `ServerUp`, `ServerDown`), the reader thread (`CreateRing`, `Listen`,
`ReadFails`, `ReadBlock0`, `WriteDefPart`, `WriteDefDone`, `ReadRowBlock`, `WriteRow`,
`SkipLineDoc`, `LoseReader`) and the handlers (`Request`, `NewReader`, `NoReader`, `NoFifo`,
`TakeRow`, `CopyDefPart`, `StartFrame`, `IgnoreRow`, `SendRow`, `SendFails`, `RemoveReader`,
`ClientGoes`). The fifo is `RowBroadcast`, whose actions are conjuncts of these: `WriteRow`
publishes, `LoseReader` is the loss of a slow reader.

A frame definition is two numbers, the frame its id names and the frame its rectangle is
of; writer and handlers write and copy the two in either order and with any step between.
Blocks are the kind and, with block 0, the frame; a block gives the line documents
`LineDocs` lists. `m_block0` outlives a lost connection, as in the code.

A client that goes is not noticed at once. `writeBuffer` (`mod_geostream.cpp:208-216`)
returns what `ap_rwrite` returns and drops what `ap_rflush` does, so a write to a gone client
may succeed unnoticed, up to `LateWrites` times (`unseen`), or succeed and have its flush find
out, after which httpd has `aborted` the connection and every write fails: `Write` and
`WriteFails`, which are conjuncts of `StartFrame`, `SendRow` and `SendFails`. A row that was not
asked for or is outside the box writes nothing (`IgnoreRow`), and tells nothing either.

When there is no fifo yet, `GvarConverter.cpp:22-24` leaves `m_shmRowReader` as it was. What
the loop and the destructor then make of it is undefined: `NoFifo` lets the answer end or the
process die.

Simplified: of the box only which lines it keeps a piece of (`InBox`; the clipping itself
is in `ImageStream`); a handler that has lost the stream is not followed further; what startFrame and writeChannelDef return is not looked
at, as in the code; sequence errors are only logged there and are left out; reading blocks
from a file is left out.

### LinkedLists and ClientPool

`LinkedLists` has the operations of `ll.c` on a record of heads, tails, prevs and nexts, one
step each because each holds its list's write lock; the links are in the items, so an item
that is on one list and linked to another takes the first list's chain along. `IsList` says
what sequence a list holds.

| Code | Actions |
|---|---|
| `event_server_new_clients`, `client_accept` | `NewClients` (shift, or return with the event off), `AddAgain`, `Accept` or `AcceptFails`, then `LinkBusy` or `LinkBack` |
| `event_client_request`, `event_client_send_response`, `event_client_sendfile`, `pthread_client_request`, `pthread_client_sendfile`, `client_reset_or_free` | `Request`, `Closed`, `Respond`, `SendFile`, `SendFileFails` |
| `server_free_client` | `TestEmpty`, `UnlinkBusy`, `LinkFree`, `Restart` |

`reqStyle` and `writeStyle` are the configuration. `lpc` is where the event loop is and
`inHand` the client its callback is about; `cpc` is what is done for each client, `inThread`
the clients a thread takes care of. A client outside `inThread` is served only by callbacks
of the loop, which run to their end; the steps of a thread come between any others. `early`
is history: a client was unlinked before the loop had linked it to the busy list.

Simplified: `event_add` is one step (the code calls it from threads on an event base the
loop uses, which the library does not promise to be safe); a callback that redoes its event
(half a request, half a response) is a stutter; the cache of files, the contents of
requests and responses, and the reads of a client after it is given back
(`client.c:225-229`, trace and descriptor) are left out. With request style THREADS the
write style is not looked at, as in the code. `keep_alive` is never cleared by a request
without it, as in the code.

### NetWorkflow

One thread `<<c, NULL>>` for each remote client reads its commands; one thread `<<c, s>>` reads
the stream s that was opened for c, and names the StreamServer made for it.

| Code | Actions |
|---|---|
| `NIServer`, `NIManager.clientAccepted` | `Accept` |
| `DispatchRemoteClient.run` and its commands | `Leave`, `ReadFails`, `Command`, `Reply`, `GetStream` |
| `SimpleWorkflow.addRemoteClient` and what it calls | `Lookup`, `Put`, `Observe`, `Open`, `OpenFails`, `Start`, `Add` |
| `RemoteClient.send`, `_end` | `Send`, `Write`, `WriteFails`, `End`, `RemoveClient`, `Ended` |
| `ServerConnection.interruptStream` | `Unobserve`, `Interrupt`, `Look`, `Tell` or `Throw`, `Flag`, and `Look`, `Tell` or `Throw` again |
| `StreamReaderThread.run`, `StreamServer.notifyNewImage` | `Begin`, `NextImage`, `NextObserver`, `LastObserver`, `Count`, `NextClient`, `Again`, `Tally`, `Idle`, `Finishing`, `Failing`, `Finish` |

`monitor` and `manager` are the Java monitors, reentrant as there; nothing else is locked, and
a step is one call on a map, a list or a queue, or calls that no other thread can tell from
one. `cli` is the weakly consistent iterator of
the concurrent queue: it may or may not show a client that joins. `announced`, `garbled` and
`escaped` are history.

An interruption announces the end of the reader twice, before and after it sets the flag
(`StreamReaderThread.java:113`, `129`), and each time gets the queue of observers anew. The
queue that was removed before is empty, so that the first finds none; an observer of another
client that was added since is found by either, and once it is told and gone, or another
thread has emptied the queue in hand (`holding`), `removeAll` is called with null
(`BasicServerConnection.java:133`) and throws. `Throw` takes the exception where it goes: out
of `_end`, past `isActive = false`, through the monitors and to the end of the thread. The
client is then still active although it was counted off; `escaped` remembers it.

Simplified: a reply and its failure are one step (only the end of the client comes of
either); how many observers are still to be called is not kept (they all do the same);
`addObserver` and `_removeObservers` are one step each, and what two threads do to a HashMap
that neither locks is left out; the same exception at a reader's own end (`Finish`), where the
thread is over either way, is not told from a return; the close of a reader that is
interrupted is no step, as it shows only in the reader's end; `NIManager.executionFinished` is never called by
`SimpleWorkflow` and is left out; images have no contents.

### ImageStream

The server (`WriteHeader`, `WriteRow`, `FifoEnds`, `WriteFails`: convert and `BinImgStream` or
`AsciiImgStream`), the connection (`ConnectionBreaks`) and the reader (`ReadAhead`,
`ReadHalfTag`, `ReadEnd`, `ReadAheadThrows`, then by the tag `ReadReferenceSpace`,
`SkipChannelDef`, `ReadFrameDef`, `ReadRow`, `EndOfStream` or `Unexpected`). The wire is a
sequence of items with tags; a break leaves any prefix of them and a part of the next one:
half a tag, an item too short, or in text a line that still reads as a row. A pixel is
known by the column the satellite saw it at, so that clipping can be wrong.

The text reader's `readLine` (`AsciiImageStream.java:225-232`) returns only when it has read
one byte past the newline, or met the end there (`LineEnds`); a reset in that place makes it
throw, `_readTokenLine` (line 195) swallows the exception, and a line that came whole is gone
with an ordinary end (`ReadBreaksOff`). What it has read so far no break can take back
(`Begun`). Both readers throw a row's channel away and give the image that of the stream:
`ReadRow` does, and what is compared are rows `OfStream`.

Simplified: of convert only the branch for shared memory; the casts to 16 bits (no
coordinate of the system is larger); a row whose channel has other pixels than its
definition says is only reported by the reader; interruption and time out of the reader
are in `NetWorkflow`; rows come whole from the fifo, which is what `GvarRelay` is about.

### SkipLists and CascadeTree

A node of a skip list is named by its key. `Before` is the search that fills updateVec,
`Link` insert, `Unlink` removeWithKey; `AddId` and `DropId` are what the tree does with them.
The random height of a node is a constant of its key. The tree has a step for each turn of
each loop of performWindowQuery (`MaxShrinks`, `MaxLeaves`, `MaxMoves`, and so on for min
and for growing), `InsertRegion` and `WindowQuery`; a point query is a window of no size.
`Insert` and `Delete` are the cascades to the nodes that follow, cursors included.

Simplified: lists of ids are sets, taken in the order of the ids (the code keeps them
sorted); only the order of coordinates counts. Left out: `DynamicCascadeTree::deleteRegion`,
which has no body; queries beyond maxDimValue; memory (the destructor reads `curr` after it
has deleted it, `DynamicCascadeTree.h:76-77`, and leaves lists behind).

## 4. What the runs show

| Run | Bounds | Shows |
|---|---|---|
| `ring` | ring of 3, 2 slots, 2 clients, 5 rows, 3 requests | types; `SlotExclusive`, `NoSlotLeaked`; `LagAccounting`: position and semaphore of a clean reader never drift apart; `HeldRowIntact`: the row in use is not overwritten while fewer than MAX_NUM_OF_ITEMS - 1 rows wait; `ImplementsBroadcast` |
| `ring_live` | ring of 3, 1 slot, 2 clients, 3 rows, 3 requests | `NewReaderReturns`, also when there is no slot; `AnnouncedRowsTaken` |
| `relay` | 1 client, 3 frames, 4 blocks, window 2, 2 descriptors, 1 write that goes unseen | `FrameDefNotBehind`, `FramesInOrder`, `DefsGoForward`; `RowsTaken`; `GoneClientsFreed`: a handler whose client has gone ends once more rows it has to send wait than writes can still go wrong unnoticed; `FeedResumed` |
| `slow_client` | ring of 3, 5 rows | a violation: see below |
| `join_race` | ring of 3, 4 rows | a violation: see below |
| `frame_announced` | 2 frames, 4 blocks | a violation: see below |
| `pool` | 3 clients, every style, 1 connection waiting, 1 thread about to add the event | `ListsSound`: heads, tails and links of both lists agree and each client is where it belongs; `NotLeftWaitingOneThread` |
| `workflow` | 2 clients that share a stream, one of which leaves; 2 that leave, with a stream each; 1 client, 2 streams and 2 failures | `NoDeadlock`: send, _end and removeClient take each other's monitors and never in a circle; `OneSequenceFirst`; `CountCoversServed`: however many threads find a client dead, it is counted off once, but for the exceptions that left it active; `OnlyTheDeadLeave` |
| `cascade` | 2 dimensions, 5 coordinates, 3 regions of 5 boxes, 5 windows, heights up to 3 | `ListsSound`, `CursorsAlive`; `AnswerIntersects`; `AnswerMissesOnlyTies`; `StopsOnlyWhenEmpty` |
| `image_stream` | 4 rows, 2 frames, 2 channels, 12 requests | `ImagesAreRowsSent`, `LastRowLostAtMost`, `PixelsInPlace`, `FrameToldFirst`; `StreamEnds` |
| `accept_lost`, `pool_lost` | 2 clients, one style | violations: see below |

Five rows go round a ring of three and leave room for a reader to fall a whole lap behind,
to lose the stream, and for its slot to be used by another client; three requests on two
clients give a slot back and hand it out again. With two slots the writer's loop passes over
an unused slot, posts one and resets the other in the same write. In the relay, three frames
and four blocks allow a definition to be written while the one before is copied, a block 0
to be lost with the connection and rows of the old frame to follow; clients do not touch one
another there (slots are the ring's matter), so one is enough; one line of two is in its
box, and with a window of two `GoneClientsFreed` is about handlers that have one write or
none left to go wrong unnoticed, the definition or earlier rows having taken the others.
Three clients give a list a first item, a last one and one between; `pool` does not look
beyond an early release (constraint `UntilEarly`), of which `ListsSound` says nothing, and
`pool_lost` shows what happens there. In the workflow two readers of one stream share its
StreamServer, which is where lists are cleared under another thread's iterator; failures
multiply the states, and are checked with one client, whose command thread and two readers
can all find it dead at once. The exception of an interruption needs a client that asks for
the stream between two steps of the thread that interrupts it, which two clients with one
stream give. Who may leave is bounded (`leaves`) because every client that leaves at any
time multiplies the states, of which there are 1.6 million. Three regions with five
coordinates give a skip list a node whose neighbours both have a level it has not, a node
with two ids, and a cursor whose node goes while it is first, last or between; the windows
move each cursor up, down, over several nodes and out of the list, in every order. Two
frames of two channels give a break something to lose before, in and after each kind of
item, and the boxes cut a row left, right, on both sides, between two pixels and not at all.
The proofs below have none of these bounds.

What holds only in part is in the properties, where a reader of the code would look for more:

* `AnswerMissesOnlyTies`: a region whose maximum is another's too can be missing in an
  answer. insertRegion passes a region on only when its maximum is beyond the cursor
  (`CascadeNode.h:176`, `>`, beside `>=` for the minimum), and a growing query passes on only
  the regions of nodes it moves the cursor to.
* `StopsOnlyWhenEmpty`: the first query at a node with no region dereferences the tail's null
  object (`CascadeNode.h:366-374`), the first query of an empty tree for one.
* `PixelsInPlace`: the width of a row cut on the right is one too large
  (`GvarConverter.cpp:179`), which adds at most one pixel from behind the row; a width in
  columns is taken for one in pixels, so that columns are missing on channels of several
  columns a pixel. Where no column is cut nothing of this shows.
* `LastRowLostAtMost`: `DataReader.java:20` takes one byte of a tag for the end of the
  stream, also when the other is still to come; the rows after it are lost with no
  exception, however many, although `IImageStream.java:39-47` tells the two ends apart. The
  property leaves this case out (`split`). In every other one a reader that ends has lost one
  row at most: the row nextImage held when the tag after it threw, or the line of text behind
  which a reset came, which the text reader drops and takes for the end.
* `ImagesAreRowsSent`: the text reader passes on a last line that lost its pixels.
* `CountCoversServed`, `OneSequenceFirst`: the exception of `BasicServerConnection.java:133`
  leaves a client active that was counted off, and it can be counted off again when it ends;
  the count may be lower than the clients served by one for each such exception. It also
  leaves a client that a reader failed to write its sequence header to, and that is then sent
  images without. Both properties name these clients (`escaped`) and hold for all others.
* `GoneClientsFreed`: nothing ends a handler whose client has gone while rows to send are
  fewer than the writes TCP and the dropped `ap_rflush` let pass, or while no row is asked
  for and inside the box: its slot is kept.

Five runs show that a comment or document promises more than the code does:

* `slow_client`: `GvarConverter.cpp:154` checks a row's channel again "to make sure if the
  client is too slow, I don't send the wrong data". A client one row short of too slow is
  using the slot the writer fills next, and may send the header of one row with the pixels
  of another, of the same channel as well.
* `join_race`: `Fifo.h:39-41` calls the semaphore the count of available rows. newReader
  reads writerPos after the unlock, and a reader made during a write can be posted a row
  that is not ahead of its position; it then takes a slot early, for good.
* `frame_announced`: `imgstr/README:74-77` wants each frame announced before its rows.
  The definition sent is the latest in shared memory, not that of the row.

* `accept_lost`: `server.c:117` restarts accepting "if the free_clients was empty", tested
  before the client is linked. Between the two the loop can hand out the last free client
  and then find none; the event stays off, and as the list is not empty after that, for good.
* `pool_lost`: `geostreamd.pod:87` allows up to the configured number of clients. A client's
  thread starts before the client is on the busy list (`server.c:162`, `170`); when it ends
  first, the late link cuts the free list, and the clients behind are lost.

`CHECK_DEADLOCK FALSE`: every run of the ring and the relay has bounds on rows, blocks and
requests, and stops when they are used up; in the pool it lets the daemon rest when nobody
connects; in the workflow all clients may be gone, and an answered request ends. In the
tree only the crash above stops, which `StopsOnlyWhenEmpty` is about.

### Fairness

Threads run when they can: the writer inside a write, each handler inside a request, the
reader thread. Nothing makes the satellite scan, the server send or come back, a client
ask or close. `ReadFails` is fair only while the server is down, for which the code sets
SO_KEEPALIVE (`GvarStream.cpp:263-273`). Weak fairness is enough for the locks because the
bounds let the other threads come to rest: `NewReaderReturns` says that nobody is shut out
for good by the protocol, not that a semaphore is fair.

In `ImageStream` only the reader thread is fair: it goes on while there is something to read
or the connection is gone. The server need not write, and the connection need not break.
The workflow and the tree have safety properties only.

## 5. What is proved

For every ring size of at least 2, every number of slots, every set of clients and every
bound:

| Theorem | Says |
|---|---|
| `TypeCorrect`, `SlotsExclusive`, `NoSlotIsLeaked` | the invariants of the ring's slots |
| `LagAccounted`, `HeldRowIsIntact` | position, semaphore and contents agree |
| `RingImplementsBroadcast` | `Spec => Broadcast!BSpec` under the refinement mapping |

`ControlInv` carries the control facts (who holds readerSemMutex, that one client at most
is between writerCreated's wait and post, that owners have marked and distinct slots).
`LastRows` says that the slot of each of the last MAX_NUM_OF_ITEMS rows holds that row,
with the slot being filled as the exception; `LagInv` adds that a clean reader stands at
the position its accounting says, at most MAX_NUM_OF_ITEMS rows behind. `LagAccounting`
alone is not inductive: that the writer never laps a clean reader needs the position in
the ring, and that needs arithmetic modulo the size of the ring, which the first lemmas of
`ShmRowFifo_proofs` prove from the definition of division. The refinement maps the queue of a clean reader to
a run of consecutive row numbers; a test for slow readers is a `Lose`, the post of the last
slot nothing, and every other step a stutter.

For every set of clients and channels, every window and every bound of the relay:

| Theorem | Says |
|---|---|
| `RelayTypeCorrect` | types, and the line document in hand is one of the block |
| `FrameDefIsNotBehind` | no row under an older definition or part of one |
| `DefsOnlyGoForward` | the parts of the definition sent never go back |
| `FramesStayInOrder` | rows come in the order of their frames |

`DefInv` orders the frame definition between the definition written last, the last block 0
and the satellite; says that no queued row is newer than either part; and that the parts a
handler has copied are as new as the row it copies them for. `RowOrder` says that the rows
of a queue, the row in hand and the last block 0 go up.

For any number of clients, every configuration and every bound of the pool:

| Theorem | Says |
|---|---|
| `LinkHolds`, `ShiftHolds`, `UnlinkHolds` | what ll_link, ll_shift and ll_unlink do to a sound list, and that another list with no item in common stays as it is |
| `TypeCorrect` | types: a callback always has a client in hand |
| `NotLeftWaitingAlways` | with one thread, the event is never left off beside a free client |
| `ListsAlwaysSound` | until an early release, both lists are sound and hold the right clients |

`OneThread` says that only the loop's callback can be in a release and that what it read of
the free list is still so. `ListsInv` has a sequence for each list, which each action
changes by one of the three lemmas; it needs `Control`, that the client the loop has
shifted is used by nobody else before its accept, and after it has not got as far as its
own link.

For any rows, in the order the satellite scans them, any finite number of channels of any
resolution, any requests, and a break after any byte, of the image stream:

| Theorem | Says |
|---|---|
| `TypeInvariant` | types: the reader is done exactly when it told how it ended |
| `RowsDelivered` | the observers get the rows sent, each once, whole and in order, as rows of the stream's channel |
| `RowsNotLost` | a reader that ends has left out one row at most, and only after an exception or a reset, unless half a tag was its end |
| `PixelsClippedInPlace` | clipping keeps pixels over their columns |
| `FramesToldFirst` | no image before its frame |
| `ReaderNeverStuck` | once the connection is gone the reader always has a step, until it is done |
| `ReaderRunsOut` | each of its steps leaves it fewer, and nothing adds any after the connection is gone |

A row is in one of three places: among the images notified, held until the next tag is
read, or on the wire. `RowsCounted` says that these are all the rows written that a break did
not take, and `RowsInPlace` that a row with n rows before it is the n+1-st written; `Count`
counts the rows of the wire up to a position, and the lemmas about it say how it changes when
an item is written behind, read from the front or cut off. A row of text cut by the end of
the stream is the one there may be too many, and always the last. `WireInOrder` (reference
space, channels, then frames and rows; what a break left of an item is last) and `TagAhead`
(the tag read ahead is still that of the first item, unless the item was cut since) give that
a reader that met the end left no row behind, but for the line a reset cost it. `Announced` says for a position of the wire
that the last frame definition before it, on the wire or already told, is as new as the row
there; it is also kept for the row to come, because the server writes a definition only when
the frame changes. `RowsClipped` says that what was written are clipped rows, and the rest of
`PixelsClippedInPlace` is arithmetic: what division by the resolution leaves over. The
channels are finitely many because convert loops over NUM_OF_CHANNELS of them; the order of
the rows (which is what `FramesStayInOrder` proves of the relay) is needed for
`FramesToldFirst`, as the definition in shared memory may be of a later frame.

The last two are the part of `StreamEnds` that no fairness is needed for: `ReaderMayStep` puts
the guards of the reader's actions together, `Remaining` counts two steps for each item on
the wire and those of the end, and `HalfTagsRead` is what the first needs besides the types:
what a break left is half a tag of the binary stream, or text a reset cut, which ends the
reader. With the weak fairness of `Reader` they leave a
stream that ends no other way; that last step stays with the run.

For any clients and streams, and any number of failures, of the workflow:

| Theorem | Says |
|---|---|
| `TypeCorrect` | types: a thread that looks at a stream or a StreamServer has one |
| `DeadlockFree` | no set of threads waits in a circle |
| `SequenceFirst` | one sequence header, then images, unless an exception kept _end from closing the client |
| `CountCovers` | the count falls below the clients served by no more than the exceptions that took a thread out of _end |
| `MembersKept` | only clients that are gone leave a StreamServer |

`Holders` says which thread can hold which monitor and where it is then: a client's is held
in send or _end for that client, the manager's only at the end of _end. A thread that waits
for the manager has its client's monitor and a thread that waits for a client has none, so
the waits have at most two links, and that is `NoDeadlock`. `NewReaders` says that a reader
that is being made is known to its client's thread alone. `Sequence` ties what a client was
sent to the thread in its monitor. `Escapes` says that a thread an exception took out of _end
ends no other client, so that the pairs of `escaped` are as many as the exceptions, and
`Counted` with it is inductive: the client that stays active was counted off once, which its
pair makes up for, and ending it again lowers both sides by one. `Members` says that whoever is on a list of dead clients
is inactive for good, which is why two readers may clear each other's list.

For any number of dimensions and regions, any coordinates and windows and any heights of
the nodes of the skip lists:

| Theorem | Says |
|---|---|
| `TypeCorrect` | types: the cursor into the minima is never at the tail |
| `ListsAlwaysSound` | the skip lists are linked in order on every level, and the two of a node hold the same regions |
| `CursorsAreAlive` | no deletion frees the node a cursor is at |
| `AnswersIntersect` | an answer has only regions that intersect the query |
| `OnlyTiesMissed` | an answer misses no region that intersects, but for ties |
| `StopsOnlyEmpty` | the program stops only in the first query to come to a node, when no region has come to it |

`AddIdHolds` and `DropIdHolds` say what insertion and removal do to a sound skip list:
level by level, the search stops at the last node with a smaller key, and linking or
unlinking there leaves a chain. `TreeInv` strengthens all but `OnlyTiesMissed`. `Listed` ties the
lists of a node to its regions and `Nested` says that a region of a node is one of the nodes
before. `Settled` is what a query leaves at a node and the next one finds: the regions of
the next node lie between the cursors, and the cursors within the bounds of the last query.
At the node of the query `At` says how far each loop has got; the regions at the cursor that the
loop has not looked at yet are the exception. The tests that skip regions which left with
the other cursor are sound because of `Settled`. A deletion moves cursors of later nodes, but
past no coordinate that is left, and so keeps those nodes settled. `CompleteInv` is for what
an answer misses: a region of a node that is between its cursors is one of the next node
(`Full`), unless it is tied or the loop has still to come to it (`Pending`), and the nodes
asked have cursors past every coordinate within the query's bounds (`Grown`). A region that
insertRegion does not pass on although it is between the cursors has its maximum at a cursor,
and a cursor is at a node of the list, which is another region's: that is the tie.

Only model-checked: the liveness properties `NewReaderReturns`, `AnnouncedRowsTaken`,
`RowsTaken`, `GoneClientsFreed`, `FeedResumed` and `StreamEnds` (the prover has no support for
fairness and ENABLED). Not proved either: what a recursive definition computes for every
input, as induction over an operator is out of the prover's reach.

## 6. Not modelled

The components marked so in `PROJECT.json`, with the reasons there. Within the modelled
ones: a process that dies inside newReader (writerCreated stays 0 and no request gets a
reader again) or with a slot marked; the initialisation of a segment that handlers of the
last server run are attached to; the leak of descriptors is modelled, their limit is
`MaxDescriptors`, and `FeedResumed` holds only as long as there are any; in the pool, that a
client comes back in time, which is up to the other side of its connection.

Faults of the workflow that were found by reading and have no property, as the code promises
nothing there: the first image can come before the client is added to the StreamServer;
the last notifyReaderFinished of an old reader removes the observer of a new request
(`StreamReaderThread.java:145`); one client that leaves interrupts the stream of all, and a second
one doubles its observers and readers; two requests can each put a StreamServer
(`SimpleWorkflow.java:107-112`); `requestedStream` is the last one only; a stream that cannot be
opened leaves an active client nobody reads from; `observers.removeAll(null)` throws
(`BasicServerConnection.java:133`), and a client that was
being removed stays active, although `IWorkflow.java:42-43` says that no more data will be sent
to it.

The C++ daemon (`geostreamd/`) does not compile: `Connection.cpp:153` uses a name that is not
declared. The rest has no state a finite model could tell apart, or is floating point, user
interface or generated.

One more disagreement was found by reading and is not a run: `imgstr/src/ImgStream.h:286`
says a row of no width is not written, and the binary and ASCII writers send its header.
