# Verification of pynetworktables

pynetworktables is a pure Python implementation of NetworkTables 3.0: one
server and its clients share a table of named values. Every node keeps a whole
copy, writes to it locally, and exchanges small messages over TCP so that the
copies end up the same. This directory holds TLA+ models of the program under
`src/_pynetworktables`, the TLC configurations that check them, and proofs
checked by TLAPS.

Contents: [the system](#the-system), [what is hard](#what-is-hard),
[the modules](#the-modules), [the runs](#the-runs), [the proofs](#the-proofs),
[what the code does that it should not](#disagreements-of-the-code-with-its-documentation),
[what is not modelled](#what-is-not-modelled), [the plan](#the-plan).

To check a module: `tlc -config persist.cfg MCPersistence`; to prove:
`tlapm Persistence_proofs.tla`.

## The system

Paths are relative to `src/_pynetworktables/_impl` unless they begin elsewhere.

| component | state | operations | correct when |
|---|---|---|---|
| **entry store**, `storage.py` | per name: value, flags, id, sequence number, `local_write`; `m_idmap` from ids to entries; `m_persistent_dirty` | set, default, force, flags, delete, clear; a handler per message; the two sides of the initial handshake | an id leads to the entry it was given to; a newer value is never overwritten by an older one |
| **synchronization**, `dispatcher.py`, `network_connection.py` | the connections and their states | handshake of each end, broadcast to all but the sender, reconnect | when everything has arrived the copies agree; the exchange ends |
| **storage lock**, `storage.py:230-251` | `m_mutex`, `_enter_outgoing` | `with self as outgoing:` around every operation | the messages of each operation are queued once |
| **outgoing queue**, `network_connection.py:397-519` | `m_pending_outgoing`, `m_pending_update`, the queue of the write thread | `queueOutgoing`, `postOutgoing`, the write thread | merging pending messages cannot be noticed by the receiver |
| **persistence**, `storage.py:1071-1368`, `storage_load.py`, `storage_save.py` | the file, its `.bak` and `.tmp`, the dirty flag | periodic save, save by the user, load | no change is forgotten; the last complete save survives a crash |
| **entry notifier and pollers**, `callback_manager.py`, `entry_notifier.py` | listeners, pollers, one queue, one thread | add and remove a listener, create, remove and poll a poller, notify, stop | a listener that asks for everything ends up knowing everything |
| **connection notifier**, `connection_notifier.py` | as above | as above, fed by `NetworkConnection.set_state` | a listener knows which connections are up |
| **dispatcher lifecycle**, `dispatcher.py` | the mode, `m_active`, two threads, the list of connections | `startServer`, `startClient`, `stop` | after `stop` nothing runs; a restart is a fresh start |
| **threads of a connection**, `network_connection.py` | state, `m_active`, the shutdown flags | read thread, write thread, `stop` | if one thread ends so does the other, unless that is blocked in a send |
| **TCP connector, acceptor, stream**, `tcpsockets/` | the attempts under way, the first result | connect to several servers at once, accept, read | the first connection is used, the others are closed |
| **RPC**, `rpc_server.py`, `storage.py:445-493,1103-1222` | calls, results, blocked callers | create, call, answer, wait | a caller gets the answer to its own call or a timeout |
| **wire codec**, `wire.py`, `message.py`, `value.py`, `support/leb128.py` | the revision of the connection | encode, decode, agree on a revision | what one end writes is what the other reads |
| **driver station client**, `ds_client.py` | the override of the server's address | a loop | |
| **instance, tables, entries**, `api.py`, `../instance.py`, `../table.py`, `../entry.py` | none of their own | calls of the above | |
| **package `networktables`**, samples, tools, docs, debugging aids | none | | |

How they interact:

* A user's call, or the read thread of a connection, enters the storage
  (`m_mutex`), changes an entry and collects messages in a list. After it has
  left the lock it hands the list to `Dispatcher._queueOutgoing`, which takes
  `m_user_mutex` and appends each message to the pending list of every
  connection it is meant for.
* The dispatch thread wakes up periodically or on a flush, saves what is
  persistent once a second, and posts the pending list of every active
  connection to its write thread. On a client it also notices a dead connection
  and tells the client thread to reconnect.
* Inside the storage's lock a change is also reported to the entry notifier,
  whose own thread calls the listeners or fills the queues of their pollers.
* The read thread of a connection runs the handshake first and then gives every
  message to `Storage.processIncoming`.

## What is hard

The hazards are listed in PROJECT.json with their lines. The main ones:

* **Order.** Every connection has its own read thread, so messages of different
  clients are processed in any order; values carry 16-bit sequence numbers that
  wrap around; ids are given by the server, so that a client writes an entry
  for which it has no id yet and may write it again before the answer is here.
* **Failure.** Each end notices a dead connection on its own. A client reconnects
  with values, ids and sequence numbers of an earlier connection, maybe to a
  server that has restarted, maybe while the server still reads the old one.
* **Atomicity.** What an operation has to send leaves the lock before it is
  queued, by way of an attribute that all threads share.
* **Merging.** Pending messages are replaced in place, folded into each other or
  knocked out, by position.
* **Crashes.** The process can end between any two steps of a save, and each step
  can fail.
* **Staleness.** Notifications wait in a queue while listeners come and go. In
  revision 2 of the protocol an update does not say its type, and is decoded
  with the type the reader's entry has by then.
* **Ends.** Six kinds of threads start, wait for and stop each other: the read and
  the write thread of each connection, the dispatch, client and server threads, and
  the user in `stop`, whose joins give up after a second.

## The modules

    SeqNum <- Storage <- NTSync          <- MCNTSync
                      <- OutgoingQueue   <- MCOutgoingQueue
                      <- Persistence     <- MCPersistence
    StorageLock                          <- MCStorageLock
                <- StorageLock_proofs
    Notifier                             <- MCNotifier
                <- Notifier_proofs
    Connections                          <- MCConnections
                <- Connections_proofs
    Storage <- Wire <- WireSync          <- MCWireSync
               Channel (INSTANCE, twice, in WireSync)
    Storage <- Storage_proofs <- NTSync_proofs
                              <- OutgoingQueue_proofs
                              <- Persistence_proofs
                              <- WireSync_proofs

An arrow is EXTENDS. The `MC` modules only hold model values, sets of
operations and symmetry for TLC. Operators whose comment begins with *Mutant*
are faulty variants of the code, used to see that each property can fail; no
specification uses them.

**SeqNum** is the arithmetic of `_Entry.increment_seqnum`, `isSeqNewerThan` and
`isSeqNewerOrEqual`; `SeqSpace` is 65536 in every run and any even number from 4
on in the proofs.

**Storage** is the class `Storage` as a set of operators from a store to a
`Result`: the new store, the messages, whether they also go to the sender, and
whether the dirty flag is set. `SetEntryValueImpl`, `SetEntryFlagsImpl`,
`DeleteEntryImpl`, `DeleteAllEntries` are the operations of the user,
`ProcessIncoming` the handlers, `GetInitialAssignments` and
`ApplyInitialAssignments` (with `InitialRequests` and `InitialUpdates`, what it
sends) the handshake. An entry that does not exist is one without a value: no
operation tells them apart, except that a deleted entry keeps its sequence
number and, after a clear, its flags, which the model keeps too. `flags` is the
persistent bit, the only flag there is. The set of operations the user may
perform is a parameter (`OpKinds`: write, flags, delete, clear).

**NTSync** composes a server and its clients. A channel in each direction stands
for the pending list, the write thread and the stream; messages queued for a
connection that is synchronized but not active yet wait there, as in the
pending list. `Connect` is the client thread, the acceptor and the first
message of the handshake (`Accept` is the server's half, which reuses the slot of a dead
connection or leaves a live one behind in `old`); `SendSnapshot` and
`ApplySnapshot` are the two halves of the handshake, each of them one step
because the storage is locked for it; `ServerReceive`, `ServerReceiveOld` and
`ClientReceive` are the read threads. `Break` cuts a connection: what had been
posted may still arrive. `ClientNotices`, `ServerNotices`, `ServerNoticesOld`
are the ends that find out. `ServerRestart` is a new server process without a
persistent file. `meddled` records that a client did more than write.

**StorageLock** is `__enter__` and `__exit__` statement by statement, with the
shared attribute `_enter_outgoing`. A list is named by the call that made it; an
iteration sees what is appended to the list meanwhile, as in Python.
The history variable `overlapped` records which calls ran at the same time.

**OutgoingQueue** is `queueOutgoing` with all its cases, `postOutgoing` and the
write thread, between the store of a sender and that of a receiver. `plain` is
the abstract queue, which merges nothing.

**Persistence** has the store of one server, its three files, and the dispatch thread as
a program counter with one step per operation on a file. `Read` and
`PersistentEntries` are the reader and the writer as functions of contents:
names with a `:` or `=` are not read back (`Unreadable`), and an array with one
empty string is read as an empty array (`ReadBack`). `Incoming` is any message a
client may send.

**Notifier** has the entries with their values and the persistent flag, what each
operation notifies and with which flags, the listeners and pollers, the thread
that takes a notification (with a copy of the listeners it matches) and hands
it to one after the other, and `stop`. `view` records what each listener was
told last. Adding a listener takes the storage's lock and queues the immediate
notifications in the same step; removing one takes no lock. `sleeper` is the call of `poll`
that waits: a notification wakes it, and so does the end of its poller or of the
thread, which it does not look at (`terminating`), so that it waits again.

**Connections** is everything that starts, watches and ends a connection: the
read and the write thread of `NetworkConnection`, `set_state`, `stop`, and in
`dispatcher.py` the dispatch, client and server threads, `start`, `stop`, the
reconnect condition and `addListener`. Each thread is a program counter; steps
that touch nothing another thread sees are merged with the next. `kInit` and
`kHandshake` are one state. `conn` is every connection that was made, `listed`
the ones in `m_connections`. `set_state` notifies and then assigns under
`m_state_mutex`, while `addListener` reads the states under `m_user_mutex`, so
these are separate steps (`BeginState`, `EndState`). A join with a timeout may
give up whenever the thread it waits for is stuck or slow (`ReaderStuck`,
`Slow`). What the peer sends and when the network fails is open, and so is whether a
send returns (`WriterSends`, `WriterSent`, `WriterFails`): the sockets have no timeout,
and only closing the stream frees a write thread whose peer does not read. `stop` does
nothing once an accept error has ended the acceptor (`broke`), and a client
thread that was still connecting when `stop` gave up on it (`gaveUp`) connects
afterwards; both are in the model.

**Wire** is `Message.write`, `Message.read`, `WireCodec` and LEB128, for
revisions 2 and 3, from messages to sequences of fields and back: a field is what one
`struct`, one digit of a length or one run of bytes puts into the stream, so that a
reader that expects another field has lost its place. `MaxArray`, `MaxString` and
`LebBase` stand for 255, 65535 and 128.

**WireSync** puts a client and a server on the two ends of a stream. Each has a
default revision; the client says hello with its own, the server answers with
`ProtoUnsup` or takes the client's, and the client falls back
(`m_reconnect_proto_rev`). Each reads the other's messages with the revision
and the types it has at that moment. Its stores and handlers are those of
Storage. A write that fails ends the write thread, a field that cannot be read
the read thread.

**Channel** is what WireSync promises of each direction: messages are received
in the order they were sent, nothing else is, and the end may be lost.
`sent` and `got` are the only variables; `ToServer` and `ToClient` are the two
instances.

## The runs

| run | question | properties | bounds |
|---|---|---|---|
| `sync_all` | do ids always lead to the right entry, does the server only go forward, and do writers agree in the end, when everyone does everything? | ServerIdsConsistent, IdsAgree, ClientIdsResolve, WritersConverge, ServerSeqNeverRegresses | 2 clients, 2 names, values of 2 types, 1 break or restart (constraint `OneFailure`) |
| `sync_writer` | does what one client alone writes reach everyone, and come to rest? | TypeOK, AllAgree, FlagsAgree, SoleWriterKeepsItsValues, Settles | 2 clients, 1 name, 2 values, 4 operations, 1 restart |
| `sync_reconnect` | the same with a broken connection | AllAgree, violated | 3 operations, 1 break |
| `lock` | what survives the race of `__enter__` and `__exit__`? | QueuedOnceUnlessOverlapped, LastCallIsQueued | 3 threads, 4 calls, 2 messages each |
| `lock_race` | is every message queued exactly once? | QueuedExactlyOnce, violated | 2 threads, 2 calls |
| `queue` | can the receiver notice that messages were merged? | MergingIsInvisible, PositionsAreRight | 2 names, 3 values of 2 types, 5 operations; server and client as sender |
| `persist` | is every change saved, and the last save safe? | FileIsCurrent, LastSaveSurvives, ChangesAreSaved | 2 names (one unreadable), 2 values, 2 operations or messages, 1 save by the user, 1 failed step, 2 crashes |
| `persist_manual` | does a restart bring every persistent entry back? | RestartRestores, violated | as above, no faults |
| `notifier` | do listeners end up knowing what they asked for, and is no poll left asleep? | FollowersKnow, NothingLostByStop, NobodySleepsOverNotes, AllIsTold | 2 names, 2 values, 2 changes, 2 listeners of 3 kinds, no two alike at a time, 1 poller, which waits if a listener uses it |
| `conns` | is any connection forgotten, does one outlive `stop`, do listeners know which are up? | TypeOK, LiveIsListed, StopLeavesNothing, ListenersKnow | a server, or a client that is stopped and started again; 2 connections, 1 listener |
| `conns_live` | do the threads of a connection end together, does a client try again, does `stop` return? | ThreadsEndTogether, Reconnects, StopTerminates | a server or a client, started once; 2 connections |
| `wire` | do the ends agree on a revision, and does each read what the other wrote? | TypeOK, RevsAgree, ReadInRevision3, MisreadOnlyByType, AgreeAsHeard, ToServerInOrder, ToClientInOrder, StayConnected | each end of either revision; 5 values of 3 types, 3 operations, 1 break |

Why these bounds. The races of the protocol involve two writers and a bystander
(two clients and the server), a name that is deleted and made again next to one
that is not, and one loss of connection or state; each mutant of
the code that the properties are meant to find is found within them. Values
matter by type (an assignment or an update) and by being different. In
`OutgoingQueue`, five operations are enough to queue, merge, delete, queue again
and flag one entry with another in between. In `Persistence`, a change before
and one during a save suffice to lose one, one fault and two crashes reach
every pair of file states. Two changes let a notification be outdated before it
is handed out, two listeners let one depend on the other's presence. `Connections` needs
two connections for one to take the slot or the place of another, and a client
that is started twice for a thread of the first start to meet the second. In
`WireSync` one entry, three operations and one break let a type change under
an update, a delete cross an update, and the two ends meet again with what they
had; the values are an array and a string longer than the format carries, a length of two
digits, and a type that only revision 3 has. A larger instance of it (three
operations, seven values, 1.8 million states) was checked once without an error. All counters
that only bound a behaviour are constants named `Max...`; they end every
behaviour, which is why deadlock is not checked: a system that has done its
last operation stops.

Which properties have a condition, and why:

* `WritersConverge` ends with the first deletion or change of flags by a client.
  A client that deletes an entry while its request for an id is on the way gets the
  entry back from the answer, and the copies stay apart: the code does that. It also
  excepts two writes with the same sequence number, of which each node keeps the
  one it saw first. `sync_all` has a break or a restart, not both.
* `FlagsAgree` is checked for one writer: flags carry no sequence number, and
  two nodes that set them at the same time may disagree for good.
* `ServerIdsConsistent` ends with the last id, 0xFFFF, which also means "none".
* `MergingIsInvisible` compares values, flags and sequence numbers, not ids. The
  sender's user is the only one who changes values; the receiver's answers are there.
  Its two sets of operations keep flags and clear apart: together they
  break it (`ClearSparesPersistent`, below).
* `FileIsCurrent` and `ChangesAreSaved` end with the first save by the user, which is the
  subject of `persist_manual`.
* `FollowersKnow` excepts names in `hidden`: those whose deletion was not queued
  while an older notification was (`FollowersKnowAll`, below).
* `StopLeavesNothing` excepts a stop whose join of the client thread timed out
  (`gaveUp`) and one after the acceptor had failed (`broke`): `stop` does not wait for the
  one, and does nothing after the other, because the server thread has cleared `m_active`.
* `ListenersKnow` excepts a connection that was changing its state while the
  listener was added (`raced`): `set_state` notifies before it assigns, and
  `addListener` reads the states without `m_state_mutex`. Such a listener can miss a
  connection, or believe a dead one to be up.
* `MisreadOnlyByType` and `StayConnected` except revision 2 where the ends may have
  different types for an entry, or a value has a type that revision 2 lacks: see below.
* `AgreeAsHeard` is about one writer, and compares what the format can carry.

Fairness. `NTSync` assumes that each thread keeps taking its steps: the client
thread tries again for ever (`_clientThreadMain` loops with a sleep of 250 ms),
read and write threads loop until their connection dies, and a dead TCP
connection is noticed by the next read or write. Local operations, breaks and
restarts are not fair: nothing makes them happen. `Persistence` assumes that the
dispatch thread wakes up (its wait has a timeout) and completes its save.
`Notifier` assumes that its thread runs and that callbacks return.
`Connections` assumes that each thread that can run does (readers, writers, the
client, server and dispatch threads, `stop` and its joins), and nothing of
the peer, the network and the user: a connection attempt may fail for ever, and on an
open stream neither a read nor a send need ever return. `ThreadsEndTogether` therefore
excepts a write thread that is left in a send on a stream nobody closes (`Blocked`).
`WireSync` assumes that the client tries again, and that each end reads and writes;
breaks are bounded. All of it is
weak fairness; no action needs strong fairness, because none of them is
disabled again and again by another one.

## The proofs

All theorems hold for every value of the constants: any number of clients,
names, values and operations. They rest on the assumptions
that the modules name: `SeqSpaceAssumption` (an even sequence space of at least
4), `StorageAssumption` (the constants that mean *none* differ from the values
and names, 0xFFFF is a number), `NTSyncAssumption` (finitely many names, the
server is not a client), `OutgoingQueueAssumption`, `PersistenceAssumption`
(what is read back reads back as itself) and `FileAssumption` (a missing or
half-written file is not a complete one), `StorageLockAssumption` (the bounds are
numbers, no list is no message), `ConnectionsAssumption` (a plan is a sequence of
starts), `NotifierAssumption` (listeners are about names and have flags and a poller
or none), `WireAssumption` (the limits of the format are numbers, a digit has a bit) and
`WireSyncAssumption` (finitely many names; each value has a type of the code and data of this
type, and what it is cut to on the way is a value). TLC
evaluates all of them, and has checked each inductive invariant below (with a range for Nat) on the
bounds of the run of its module; of `OnTheWay` in WireSync_proofs, which quantifies over all
sequences of messages, it checks what follows from it, the two refinements of Channel.

Four theorems about WireSync have a hypothesis on the behaviour: `NothingMistakable`, that no
value is an array without elements while an end speaks revision 2. It is needed: an update of
revision 2 does not say its type, and a reader whose entry has another type
(`message.py:106`) cannot tell an array of no doubles from one of no Booleans, and takes the
second. The values of the run `wire` have no such array.

Five theorems about NTSync, `WriterInvariance`, `FlagsInvariance` and those named
`SoleWriter...`, are about the setting of the run `sync_writer`, `SoleWriter(w)`: one
client writes and sets flags and nobody else does anything, no connection breaks, the server
may restart any number of times, the writer has fewer operations than half the circle has
numbers (32768), and there are ids for all names. With a broken connection `AllAgree` is
false (`sync_reconnect`), with a second writer too (two writes can tie), and with more
operations the oldest message on its way can look newer than the last value.

| theorem | property | run |
|---|---|---|
| `TypeCorrect` (NTSync_proofs) | TypeOK | `sync_writer` |
| `ServerIdsStayConsistent` | ServerIdsConsistent | `sync_all` |
| `IdsAlwaysAgree` | IdsAgree | `sync_all` |
| `ClientIdsAlwaysResolve` | ClientIdsResolve | `sync_all` |
| `SeqNeverRegresses` | ServerSeqNeverRegresses | `sync_all` |
| `SoleWriterReachesAll` | AllAgree | `sync_writer` |
| `SoleWriterFlagsReachAll` | FlagsAgree | `sync_writer` |
| `SoleWriterKeeps` | SoleWriterKeepsItsValues | `sync_writer` |
| `PositionsStayRight` (OutgoingQueue_proofs) | PositionsAreRight | `queue` |
| `FileStaysCurrent` (Persistence_proofs) | FileIsCurrent | `persist` |
| `LastSaveAlwaysSurvives` | LastSaveSurvives | `persist` |
| `OnceUnlessOverlapped` (StorageLock_proofs) | QueuedOnceUnlessOverlapped | `lock` |
| `LastIsQueued` | LastCallIsQueued | `lock` |
| `TypesAlwaysHold` (Connections_proofs) | TypeOK | `conns` |
| `NoneIsForgotten` | LiveIsListed | `conns` |
| `StopAlwaysCleansUp` | StopLeavesNothing | `conns` |
| `ListenersAlwaysKnow` | ListenersKnow | `conns` |
| `FollowersAlwaysKnow` (Notifier_proofs) | FollowersKnow | `notifier` |
| `StopLosesNothing` | NothingLostByStop | `notifier` |
| `NobodyEverSleepsOverNotes` | NobodySleepsOverNotes | `notifier` |
| `RevsAlwaysAgree` (WireSync_proofs) | RevsAgree | `wire` |
| `TypesAlwaysHold` (WireSync_proofs) | TypeOK | `wire` |
| `ToServerIsAChannel` | ToServerInOrder | `wire` |
| `ToClientIsAChannel` | ToClientInOrder | `wire` |
| `NothingMisreadInRevision3` | ReadInRevision3 | `wire` |

* **Storage_proofs.** `LaterIsNewer` and `NewerIsAsymmetric`: the comparison around
  the circle is right up to half of it. `ProcessIncomingType` and its companions:
  each operation turns a store into a store and sends proper messages.
  `ProcessIncomingKeepsIds`, `LocalOperationsKeepIds`:
  every handler and operation of a server preserves `IdsConsistent` (an entry
  has an id exactly if it has a value, and the map leads from the id to the entry
  and nowhere else). `ProcessIncomingNoOlderSeq`: none of them makes the sequence
  number of a living entry older. `ProcessIncomingGoodIds`: in any node, handlers keep
  each entry that has an id in the slot of this id.
  `ApplyInitialAssignmentsResolves`: applying a snapshot establishes that, whatever the
  client knew before, if the snapshot gives no id and no name twice. `AssignmentEffect`,
  `UpdateEffect`, `HearsFlags` and their companions say what each message does to the value, the
  number and the flags of an entry, `ServerPassesOn` what the server then tells the others.
* **NTSync_proofs.** `TypeCorrect`, `ServerIdsStayConsistent`,
  `SeqNeverRegresses`. The inductive invariant is `TypeOK /\
  ServerIdsConsistent`: the types are needed because a message in a channel can be
  anything an earlier step put there, and consistency of ids because the
  sequence number is only protected while an id finds the entry it was given
  to. One lemma per action; `NextSafe` joins them.
  `IdsAlwaysAgree` and `ClientIdsAlwaysResolve` need more, `IdInv`: a client takes its
  ids from what is in its channel, so the assignments and snapshots on their way to a
  client have to agree with the map of the server (`AssignmentsAgree`), whatever the server
  has deleted or numbered since; for this its slots are emptied and never filled
  again. Snapshots on their way, also those of a connection that is lost,
  give no id twice (`SnapshotsAreSound`). Neither theorem ends with the last id: the
  server then hands out 0xFFFF, which clients take for none.
  `SoleWriterReachesAll` and `SoleWriterKeeps` say that what one client alone writes stays with it
  and is everywhere once nothing is on the way. `AllAgree` says nothing before that; the
  inductive invariant, `WriterInv`, says where a value is in the meantime. Every value in the
  system is one the writer had (`Wrote`: its number is not later than the writer's, and
  if it is as late the value is the same), so that comparing numbers is comparing age.
  The last value of an entry is on the server, or in a request on its way, or waits
  for the answer that brings the id (and is then sent with it, `ProcessEntryAssign`), or is
  in a message with the id (`OnItsWay`); the server's value is at every
  other client or in a message to it (`ReachesReader`), and a message
  that uses an id comes after one that assigns it (`AssignedFirst`), or the client would
  drop the update. All this holds of the ids of the present server only, so it needs to
  know what the channels hold while a connection is in its handshake (`Greets`), also after a
  restart, when the writer still hears answers of the server that is gone.
  `SoleWriterFlagsReachAll` says the same of flags. They carry no number: of two messages
  with flags the last to arrive counts, and a change of flags in between does not make an
  entry newer. So it is not enough that some message on its way has the flags, and the
  invariant, `FlagsInv`, is about all messages for an entry in a channel and their order: the
  last that sets its flags sets the right ones (`FlagsArrive`), also an assignment, which sets
  them by the way; none of them is refused as older by the entry they meet (`InOrder`), or
  the flags in it were lost; and a client that does not know the id yet hears
  no flags before it (`GivenFirst`), for it would drop them. While the writer waits for its id
  it cannot send its flags; the one answer on its way (`FlagsWait`) has those of
  the server, and so the writer knows, when it hears it, that it has others to send
  (`ProcessEntryAssign`).
* **OutgoingQueue_proofs.** `QueueOutgoingOK`: queueing any message keeps the
  positions in `m_pending_update` right; `PositionsStayRight`: so they are in
  every behaviour. The invariant adds the types of both stores and of all
  messages under way, because the receiver's answers make the sender queue.
* **Persistence_proofs.** `FileStaysCurrent`: whenever the dispatch thread has
  nothing to do, the file holds what the server holds, until the user saves or the
  ids run out. `LastSaveAlwaysSurvives`: the last complete save is in the file or
  its backup, if at most one step failed. `ProcessIncomingMarked`: a handler
  either sets the dirty flag or leaves what is persistent alone. The inductive
  invariant has three parts: types and ids of the store (a handler finds the entry it
  changes by an id); `NewestIsSaved`, which of the two files the last save is in, and
  that a file that is still there before the second rename means a failure;
  `NothingForgotten`, that while a save runs its copy is still what the server
  holds or the flag has been set again. `FileIsCurrent` alone is not inductive: it
  says nothing while a save runs.
* **StorageLock_proofs.** For any number of threads, calls and messages per call:
  `OnceUnlessOverlapped`, that a call that nobody overlapped has its messages queued
  exactly once when it is over, and `LastIsQueued`, that the messages of the last call
  to enter are queued at least once, overlapped or not. The inductive invariant says that
  the thread of the last call queues its own list (`LastInv`); that a call which is not
  overlapped runs alone (`Alone`), so that the attribute still names its list when it
  looks; and that afterwards no running call finds that list (`OnceInv`), so that it is
  not queued again.
* **Connections_proofs.** For any number of connections and listeners and any sequence of
  starts and stops: `NoneIsForgotten`, that a connection that lives is listed or about to be
  stopped, and `ListenersAlwaysKnow`. The inductive invariant says what each end of a
  connection has seen: a thread that ends it has begun to declare it dead, and one that
  has ended it or finds it not running has seen it declared (`Orderly`), so that `stop`
  drops only dead connections from its list (`StopsInv`); that only the client thread that
  holds `m_user_mutex`, or the user's `stop`, has such a list; and that while the client
  thread holds the mutex every living connection is on one (`HeldInv`), which is why it may
  replace `m_connections`. `TellsInv` compares what a listener was told with what the
  connection is about to be (`ToBeActive`): in between, `ListenersKnow` says nothing.
  `StopAlwaysCleansUp` and `TypesAlwaysHold` rest on a second part, `TInv`: when no join has
  timed out and no server thread broke, a start finds the threads of all starts before it
  ended and all connections dead, and `stop`, once it has joined the thread of the start,
  can only meet the connections it took from the list (`QuietInv`); each
  thread that waits is queued once and the others are not (`WaitsInv`), so that the
  notify of `stop` wakes one that waits; a thread that is about to make a connection has a
  place for it (`NumbersInv`).
* **Notifier_proofs.** For any names, values, listeners and pollers:
  `FollowersAlwaysKnow`, that a listener that asks for every value knows the values there are
  when nothing is queued, under way or left to poll; `StopLosesNothing`, that after the end of
  the thread it knows those there were when `stop` was called; and
  `NobodyEverSleepsOverNotes`. Neither of the first two is inductive, because they say nothing
  while something is under way. `FollowInv` does: the last thing a listener is going to
  hear of a name (the last matching item of the queue; if there is none, what
  the thread has in hand for it; then the last its poller holds; then what
  it was told) is the value the name has. An item is in the listener's way only if it matches it;
  that a later change of the entry matches too follows from what every follower asks for
  (`ListenersInv`: local changes are queued once somebody wants them). What is on its way to a
  listener must take the same way, or it would overtake (`WaysInv`), and a name that
  was deleted without a notification is hidden if an older one is queued (`GoneInv`).
  `StopInv` is `FollowInv` up to the item that ends the thread, with the values of the time
  of `stop`. That the first of the listeners in hand exists is well-foundedness of their
  numbers; that only finitely many immediate notifications are queued is because only
  finitely many entries have a value.
* **WireSync_proofs.** The first half is the codec, for every length, limit and base:
  `LebIsRead`, what `encode_uleb128` writes is read as the same number; `ValueIsRead`,
  an array of any length and a string of any size are read as they were written, cut to
  what the revision has room for; `MessageIsRead`, nothing else can be made of a message,
  also where a reader of revision 2 takes its value for another type (then it reads
  nothing); `StreamIsRead`, and what is left of the stream is what was written after it.
  Each says so of any stream that follows, so that they can be put together. Numbers, arrays
  and batches are recursive functions: their proofs are by induction over sets of numbers
  (`Induction`, `CourseOfValues`), from the step of the recursion (`EncodeLebStep`,
  `LebValueShift`, `ReadElementsStep`, `FlattenAppend`).
  `RevsAlwaysAgree`: two ends past the hello use one revision, which
  is not above the default of either. The inductive invariant (`RevsInv`) adds that a
  server that waits for a hello has before it the hello of this client or nothing
  (`WaitsForHello`), and that a client that fell back never asks for more than its default.
  `ToServerIsAChannel`, `ToClientIsAChannel`: WireSync implements `Channel` in both
  directions. The invariant (`SInv`) says what is on a stream: the encodings of messages
  that its reader can read, and that what was sent is what was received and what can be heard
  of these (`OnTheWay`). A reader of another revision can only read greetings; so while the
  revisions differ nothing else is queued and the client has not gone on (`Apart`), and
  when the server changes its revision there is nothing of its own on the way (`Silent`).
  What is read is typed (`TypesAlwaysHold`), which reading needs for the store that gives
  an update its type.
  `NothingMisreadInRevision3`: no end of revision 3 ends its connection over a message. That
  its codec reads what has arrived is `SomethingIsRead`; that the handshake expects it is the
  invariant `Order`. What an end has written, together with what its handshake has
  queued, begins with a hello, goes on with assignments and has its closing message before
  anything else (`SpeaksInOrder`), and an end in the middle of its handshake has heard the
  beginning of this and not the closing message (`HearsInOrder`). In revision 2
  the handshake is another, without the server's hello and the client's last message.

Only model-checked, and why:

* All liveness (`Settles`, `ChangesAreSaved`, `AllIsTold`, `StayConnected`, the run
  `conns_live`): TLAPS does not reason about fairness.
* `MergingIsInvisible` runs the receiver over two lists and compares the results: which of
  two messages about an entry may take the place of the other depends on all that
  is between them, an induction that has not been done.
* `MisreadOnlyByType` and `AgreeAsHeard`: of the first what remains is revision 2, where it depends
  on which entries the reader has, and of which type, when an update arrives. With enough
  operations for sequence numbers to wrap between two connections a copy of long ago looks newer,
  so it needs a bound on the operations, and so does `AgreeAsHeard`. What the
  two rest on, that a message is read as it was written or not at all, is proved.
* `WritersConverge`: that the copies of several writers agree at rest is an
  argument about every order in which the updates of all nodes can pass each other,
  and newer-than around the circle is not transitive: it needs a bound on how far live
  numbers are apart, which the bounds of the runs give and the code does not. For one
  writer `SoleWriter` states this bound.

## Disagreements of the code with its documentation

Each has a run that ends with the trace, and an entry under `findings` in
PROJECT.json with the quoted line.

1. `lock_race`: `__exit__` reads the shared `_enter_outgoing` after it has
   released the lock. If another thread enters in between, the messages of the
   first operation are never sent and those of the second are sent twice.
2. `sync_reconnect`: a client that reconnects numbers its own value one above the
   server's snapshot. If the server reads the last update of the old connection after
   it made the snapshot, that update has the same number, and the newer value
   the client sends after it is ignored: the copies differ for good.
3. `persist_manual`: a save by the user to a file of his own clears the flag that the
   periodic save waits for; the change never reaches the server's file.

More that the models show. No run is kept for these; the first three are
reproduced by checking the property named:

* `ClearSparesPersistent` (OutgoingQueue, with writes, flags and clear):
  `instance.py:254` says "Deletes ALL keys in ALL subtables (except persistent
  values)", but a clear knocks every pending message out of the list
  (`network_connection.py:475-489`), also those of persistent entries. A server that
  makes an entry, makes it persistent and clears before the list is posted keeps
  the entry; its clients never get it.
* `FollowersKnowAll` (`notifier.cfg`): `table.py:104` promises "the current values of
  the table". A listener added behind an old notification is told of it, and not
  of a deletion that nobody had asked for (`entry_notifier.py:114`). Also, once any
  listener asks for local changes, all of them get them, against `table.py:106`.
* `WriterEndsWithReader` (`conns_live.cfg`): a read thread whose handshake fails, or whose
  message the storage cannot deal with, ends without closing the stream. It leaves an
  empty batch to "also kill write thread" (`network_connection.py:324`), which a write
  thread that is in `send` (line 377) does not see, and `stop` returns at once since
  `m_active` is false (line 141): thread and socket stay for as long as the peer does
  not read.
* In revision 2, a client that gives its entry another type before it knows the
  id, or whose own value (`local_write`) has another type than the server's
  (`storage.py:551-560`), sends an update that the server decodes with its own type
  (`message.py:106`): the server closes the connection, at every reconnect. So
  does an update of an entry the server has deleted, because revision 2 cannot say
  that something was deleted.
* A raw value over revision 2 ends the write thread (`wire.py:191`), at every reconnect.
  Arrays are cut to 255 elements without notice (`wire.py:223`).
* After `stop` gave up on a client thread that was connecting, the thread makes its
  connection; after another start there are two client threads, of which
  `notify` wakes one. `startClient` returns False on success
  (`dispatcher.py:172`), and an old thread that ends resets the mode of a new start.
* Two failed moves in one save put an older backup over the file
  (`storage.py:1364`); after a crash between the two moves nothing loads the backup.
* `cancelPoll` calls `getThread`, which does not exist (`callback_manager.py:244`), and a
  poller that is removed while `poll` waits is woken and goes on waiting.
  `waitForEntryListenerQueue` returns while the last notification is still handed
  out: it looks at the queue only (`instance.py:359`).
* The first failure of an attempt ends the wait for all servers
  (`tcp_connector.py:54`).

## What is not modelled

* RPC: `api.py:159` says that it is not implemented, no class of the user
  interface calls it, and the handler of a call ends in `assert False`.
* The TCP connector, which starts a thread per server and takes the first result:
  in Connections it returns a connection or none.
* Keep-alives and timers; the override of the server by the driver station client;
  test mode; the thread and the queue of the connection notifier (those of Notifier).
* Revision 2 outside WireSync. WireSync has one connection at a time and no flags,
  and processes the initial assignments in one step; its list merges nothing. What
  the bytes after a misread field would decode to is left out (the connection is
  taken to end), and so are invalid UTF-8 and empty arrays.
* The syntax of the persistent file; a save by the user to the very file of the
  server; loss of power (a crash is the end of the process); errors other than
  IOError in a save.
* The order in which a dictionary lists entries, where the messages are sent as
  a set in any order; numbers of connections; the update rate.
* In NTSync an operation and the queueing of its messages are one step
  (StorageLock says what happens if they are not), the pending list merges
  nothing (OutgoingQueue shows that merging cannot be noticed), the server has
  no persistent file, and at most one old connection per client is still read.
* In Notifier `waitForQueue`, which changes nothing; `cancelPoll`, which raises before it
  changes anything; two calls of `poll` at a time for one poller (`callback_manager.py:228`).
* The user's classes (`instance.py`, `table.py`, `entry.py`, `api.py`), which add a
  prefix or a type and keep nothing; `ds_client.py`; the compatibility package,
  samples, tools and build files.

## The plan

Done: all modules above. Left, in order of importance:

1. **Composition** of StorageLock with NTSync's connections: a message queued after the unlock
   reaches a connection that came up later, with an id of the time before.
2. **TcpConnector**: a failure of one attempt against a later success of another.
3. **Abstract specifications**: a register per name that NTSync with one writer implements
   (refinement mapping: the server's value).  (Persistence does not implement a file that is
   replaced atomically: nothing loads the backup.)
4. **Proofs**: `AgreeAsHeard` from the invariant of one writer for WireSync;
   `MergingIsInvisible`.
