# DanceGraph in TLA+

DanceGraph connects dancers in different places: every participant runs a
*client* that takes *signals* (skeletons, impulses, sound, the state of a shared
environment) from *producers*, sends them to a *server* that relays them, and
hands those of the others to *consumers* (a game engine, a printer, another
process). This directory models the parts of `src/core` where several threads,
processes or machines meet, checks them with TLC, and proves with TLAPS, for every
value of their constants, the safety properties of all of them.

Contents: [inventory](#1-inventory), [modules](#2-the-modules-and-the-code),
[runs](#3-the-runs), [fairness](#4-fairness-and-deadlock), [proofs](#5-the-proofs),
[findings](#6-where-the-code-and-its-words-part), [what is left out](#7-what-is-not-modelled),
[plan](#8-plan).

## 1. Inventory

| component | state it keeps | operations | what is hard | what makes it correct |
|---|---|---|---|---|
| Ring buffer in shared memory (`lib/ipc/ringbuffer.*`, `ipc_linux.cpp`) | entries with a status, a size and a payload; a read page, a write page; a named semaphore | `write`, `read`, the two constructors | two processes, every memory access interleaves; `set()` is `sem_getvalue` then `sem_post`; the writer never waits for the reader | the permit is never lost, and when it may be doubled is known; a complete entry is one write; order and lag of what is read; torn reads only when lapped |
| Task queue (`common/task_queue.*`) | a mutex, the shared list, the poster's local list | `AppendLocalTask`, `TryMoveLocalToShared`, `TryConsumeTasks`, `Clear` | `try_lock` fails spuriously; bounded batches; the lock is dropped before the local list is emptied; tasks post tasks | a FIFO channel that runs each task once; every task runs |
| Server (`net/server.*`) | `clients` (id, ENet peer per channel, last seen, ping flag), `listeners`, `world`, the publish/subscribe table, latency samples | one handler per control message, relay of client and environment signals, `check_disconnected`, `disconnect` | clients crash, restart under the same id and time out in any order; four records of one user; messages of different channels overtake each other | records agree; one index per id, stable and its owner's; peers are live; everybody is told of everybody; nobody hears himself; stored user states and music reach who joins |
| Client (`net/client.*`) | `userIdx`, `world`, hosts and peers, a future, a cache and a time point per signal | `initialize`, `handle_message`, `tick`, `deinitialize` | registration races signals; producer tasks on a thread pool share buffers with the tick | the index is its own; one producer call at a time; each production sent once, whole, with its own time |
| World state and trackers (`net/state.*`) | users and their signals; sliding windows of packet ids | `on_connection_info`, `RegisterPacketToTracker` | reordered and late packets, restarts | loss statistics that survive both |
| Messages, channels (`net/message.*`, `net/channel.*`) | tables of signals, producers, consumers, transformers | look-ups, loading | which signal type and index is which ENet channel | two signals never share a channel |
| ENet hosts (`net/net.*`) | one host per channel, or one for all | `create_hosts_multiport` | ports differ behind NAT, hence `PortOverrideInformation` | each channel of the server has the right peer |
| Publish/subscribe (`lib/pubsub/pubsub.h`) | a table of topics, each a `std::set` of subscribers | `Subscribe`, `Unsubscribe`, `GetRecipients` | subscriptions by name, to everybody, and to users that come and go; the order on subscribers | recipients are who asked and has not left, without the sender |
| Listener (`net/listener.*`) | the clients it follows | registration, resolution of awaited clients | clients that join after it | it receives what it asked for |
| Clock synchronisation, statistics (`net/sync.*`, `net/stats.*`) | latency samples, counters | `add`, averages | wrap and order of samples | bounded, symmetric estimates |
| Signal history (`lib/sig/signal_history.*`) | packets kept for a transformer | `add`, `lock`, `unlock` | pruning while a reader holds positions | what is read is what was added |
| Adapters (`ext/unity_*`), modules (`modules/*`) | engine-side copies, hardware | two ticks over the task queues; `GetSignalData`, `ProcessSignalData` | two threads | - |

They interact as follows. A producer (a task of the client's pool) fills a cache;
the client's tick sends it over ENet to the server's host of that channel; the
server's tick looks up the recipients in the publish/subscribe table and relays
the packet to the peer each recipient has for the channel; the recipient's tick
stores it in its world and calls the consumers. The IPC consumer and the IPC
producer move signals between processes through a ring buffer; the Unity adapter
moves them between threads through task queues. Control messages (registration,
port overrides, pings, latency rounds) share the server's and the clients' ticks
with the signals.

`PROJECT.json` lists the components, each with what is modelled of it, and the
hazards of the code, each at its line with the properties that would notice it.

## 2. The modules and the code

`PROJECT.json` maps every definition to its lines. What follows is the
correspondence at large.

**RingBuffer** (`ringbuffer.cpp`, the Linux `DNSemaphore`). One writer and one
reader. A process is its program counter `pc` and its locals; every access to
shared memory and every system call is an action, so `WMark`, `WPage`, `WCopy`
(once per word), `WReady`, `WTail` are the statements of `write()` in order and
`RFound` ... `RReturn` those of `read()`. `SemWait`, `SemGetValue`, `SemPost` are
shared by all the places that lock. A word remembers which write stored it, so
that a mixture is visible, and each write has a payload of its own size. The size that
`write()` stores counts the header and `read()` copies that much from the payload on, so `RCopy`
goes `HeaderWords` further (`LastRead`), into whatever memory holds there (`MemoryAt`: the next entry's header, or behind
the last entry the read page). `raised`, `returned`, `newest` and `overrun` are history. Memory is
sequentially consistent (x86, and the code has no atomics to say otherwise).

**KeepAlive** (`check_disconnected`, `last_seen_time_point`, `ping_reminder`, the
client's answer). Discrete time, one client. `Pass` lets a unit go by and is what
the bounds on check gaps and message delays constrain; `CheckDisconnected` is the
whole of the check, with the ping and the drop.

**TaskQueue** and **TaskFifo**. Two threads, two queues, each thread in the tick
the header prescribes, `native_runner` of the inline plugin takes and the test repeats: consume,
append, move. `TaskFifo` is what
the pair promises; `Fifo == INSTANCE TaskFifo WITH pending <- ...` maps a state of
the lists to a channel: the tasks of the shared list that have not run, then those
of the local list that are not yet on the shared one.

**Session** (`server.cpp`, `client.cpp`). Processes `<<id, run>>`, their ENet peers,
messages in flight, the server's `clients`, `world` and `subscribed`, and each
process's `userIdx` and `known` users. An action of the server is the handling of
one event with all its calls: `HandleNewConnection` replaces an old connection,
registers, subscribes, broadcasts and sends the roster; `PeerLost` and `TimeOut` go
through `disconnect()` (`DisconnectAll`). Events of different peers and channels
come in any order; signals may be lost; reliable messages are lost only with
their sender or their peer, as ENet has it. Of what a client has sent before it restarts,
messages of the types `LateTypes` may arrive after that, from the peer of the old run, for as long as the server knows it;
in the run these are signals. Pings are not in this module: the server
may time out any client at any time, which is weaker than what KeepAlive shows.

**EnvState** (`server.cpp`, `client.cpp`, `env_common.h`). The environment bundles: what the
server stores of each user and of the music, what it relays, answers and sends to a newcomer,
and what the consumers of each client have been handed. `HandleNewConnection` has the
farewell of a process that is replaced, the music or the request for it, the states of all
users and the news to each of them, in the code's order; `Disconnect` the farewell;
`HandleEnv` the override of `userID`, the answer and the relay. Messages to a client are
one sequence per client with the host each takes, so a client with separate ports
may get those of one host before those of another. The news to users that are not connected go
through a stale pointer: in the model they are lost, or reach any one client.
A state is a number, negative if its names are blank: `disconnect()` blanks them (`Blanked`) and leaves
`isActive` at 1, and a user may have blank names of its own accord.
Registration is reduced to `Join`, `HandleNewConnection` and `LearnIndex`, with clients
registering in the order of their numbers and nothing of an earlier run arriving after a restart: Session has the rest.

**Listeners** (`listener.cpp`, `server.cpp`). Listener processes, the entries the server
makes for them, and the names in the server's world. `HandleNewListener` looks each
name up, makes the entry and answers; `ClientConnects` resolves awaited names;
`ClientRenames` is the part of an `EnvUserState` that changes the name. Entries of
listeners that end stay, as in the code.

**PubSub** (`pubsub.h`). The topic table, with a topic's `std::set` as the sequence
its tree holds; searching, inserting, and the erase by key of `Topic::Delete` use the code's `operator<`, with every
outcome they can have where that is not an order. `ordered` is history: it is one on
all who have been in the table together so far. `wanted` is what was asked for and not yet ended by
somebody's leaving, or by the joining of a client that was subscribed to by name.

**ProducerPipeline** (`client.cpp`, `tick()` and `_process_outgoing_signal`). The
tick visits the signals in turn in two steps, because the pool runs in between:
`TickResize` is the resize of the cache before the future is looked at, `TickPoll`
the rest, which finds the future ready or not, sends, cuts the cache and submits
the next call. `Stamp`, `WriteByte` and `Return` are the producer module, which is
external: it stamps, writes `mem` byte after byte, and returns a size, or 0 at once.
All signals are passed through, as all the modules of the repository have them.

The `MC*` modules only hold constants of the instances. Next to some definitions
stands a variant named after the slip it makes (`BufferAddNoWrap`, `MayRequestAlways`);
it documents what the property it breaks guards against and is used by nothing else.

## 3. The runs

| run | configuration, bounds | shows |
|---|---|---|
| `ring` | 3 entries, 3 words, 5 writes of one or two words of payload: the ring wraps, short writes lie over longer ones, a copy can be torn at every word, the writer can lap the reader at any of its steps | `PermitConserved`, `ReadyIsWhole`, `TailInPlace`, `EntriesInOrder`, `TornOnlyIfOverrun`, `FirstReadIsFresh`, `CallsReturn` |
| `tasks` | batches of 2, 3 tasks each way: one more than a batch, with tasks that post answers | `FifoExactlyOnce`, that the pair implements `TaskFifo` (`FifoSpec`), `EveryTaskRuns` |
| `session` | two clients, 3 starts in all (both run and one restarts, or one restarts twice), a port per channel, one signal on the network at a time, which may outlive its sender's run | `OneEntryPerId`, `RecordsAgree`, `PeersAreTheClients`, `IndexIsOwn`, `RosterReachesAll`, `IndexOnItsWay`, `RelayedToOthers` |
| `env` | two clients, the second with separate ports, 3 runs, 2 messages sent by clients | `GoneIsBlank`, `UserStatesReach`, `MusicReaches` |
| `listeners` | two clients, two names, two listeners, 3 connections, 2 registrations of listeners | `AwaitedAreAbsent`, `EntryIsOwn` |
| `keepalive` | ping after 8, timeout 18, checks at most 4 apart, delays up to 3: `InTime` holds with nothing to spare (8 + 4 + 2*3 = 18) | `LiveClientStays`, `PingBeforeTimeout`, `DeadClientGoes` |
| `pubsub` | clients 0, 1, listeners 0, 1, one signal; topics of up to 4 subscribers before another is added | `RecipientsExact`, `GoneFromAllTopics` |
| `pipeline` | two signals, forms of 2 bytes, sizes 0 to 2, 3 calls each; the producer of the second may hang | `OneCallAtATime`, `SentOnceInOrder`, `PacketOfOneCall`, `OthersKeepProducing` |
| `session_ports`, `pipeline_grow`, `env_reflected`, `pubsub_self` | | the four findings with a run of section 6, each as the violation of what the repository says |

Symmetry of the two client ids is used in the safety runs of Session only; no
property names one. Why the bounds are enough. In the ring, positions matter modulo the
number of entries and the properties relate neighbours: 5 writes over 3 entries pass
every entry and overwrite two a second time, and for the properties that are proved
the bound does not matter. In PubSub a set of two clients and two listeners has every way in which
`operator<` fails to be an order; signals do not interact, as no two share a topic. In Session, what can go wrong needs a client with an earlier
run and another to be confused with: two ids and three starts; a third client adds
recipients of the same messages, not new kinds of steps. In EnvState a copy can go wrong when a
user joins while another leaves, comes back or speaks: three runs and two messages have each of these
next to each other, and two messages cross. (Three clients, of which one on separate ports,
four runs and one message were also explored to a depth of 21, without result.) In Listeners
a name can be taken by either client, twice by one, before or after either listener asks. In the pipeline a payload
can be damaged by the packet before it only, so three calls show a damaged one followed
by a good one, and signals interact through the tick's order and the shared time points
alone.

## 4. Fairness and deadlock

* `RingBuffer`: weak fairness of each process: both are scheduled, and neither dies
  inside the semaphore, which `ringbuffer.h:40` admits would block the other.
* `TaskQueue`: weak fairness of each thread's tick and of its leaving the append phase;
  strong fairness of the two successful `try_lock`s: the C++ standard lets a `try_lock`
  on a free mutex fail, but no implementation fails every time. That is still not enough:
  `EveryTaskRuns` holds under `NotPhaseLocked`, since the two ticks could
  for ever meet in the same phase, so that the mover always finds its consumer at work.
* `Session`: none. Its progress is stated as safety: `IndexOnItsWay` says that a client without an index always
  has the question or its answer on the network, whose delivery is ENet's part, and that a dead client's entry
  is emptied at last is `DeadClientGoes` of KeepAlive.
* `KeepAlive`: weak fairness of time, of the check, and of the two message handlers.
* `ProducerPipeline`: weak fairness of the tick (`run()` loops) and of every producer that
  is not in `Stuck`.

Deadlock is checked in the ring, the task queues, the publish/subscribe table and the
pipeline, which never stop. It is not in KeepAlive (a client that never comes back and
whose entry is gone leaves nothing to do) nor in Session, EnvState and Listeners (the starts are
bounded, and a system whose clients have all gone for good rests).

## 5. The proofs

Eight modules hold proofs; each `M_proofs` extends `M` and proves its theorems from the
assumption `M` makes of its constants and nothing else. Between them they establish every
invariant, every action property and the one refinement that the passing runs check, two of
KeepAlive's under a condition on the constants that the theorem names (`InTime`). The pattern is the same throughout: an inductive invariant
(`...Inv`), a lemma per action, and the theorems as its consequences. What follows says what
each invariant adds to the properties, and why they do not stand alone.

**RingBuffer_proofs** (`RingAssumption`: at least two entries, two words, one write; payloads of any sizes that fit).

* `TypeCorrect`: `TypeOK` is inductive by itself; one step per statement of the two
  processes.
* `PermitsConserved`: `PermitConserved` counts a permit as either in
  the semaphore or owed by a process that will post it. It is not inductive: `PermitInv` adds that while the writer constructs, which
  ends with a post without a `wait()` before it, the one permit is in the semaphore or owed by the reader; so that this post
  adds one at most, and every later one gives back what its process has taken.
* `ReadyWhole`, `TailStands`: `WriterInv` adds the half-done states: while an entry is being
  overwritten it is not READY and the words copied so far are those of this write. The
  reader disturbs none of it (`ReaderLeavesWriter`).
* `ReadWhole`: `ReaderInv` says that, without an overrun, the entry under the
  reader's copy is whole and not the one being overwritten, and that what has been copied of its payload is equal to it;
  of the words behind the payload it says nothing but their type.
  Together with `WriterInv` it is inductive: the only step of the writer that could break
  it is `WMark`, and that one sets `overrun`.
* `EntriesOrdered`: `OrderInv` states the order at every step of `write()`, not only between two
  calls: the newest complete write moves on when its entry turns READY, and the distance to it is taken from
  there (`Tip`), so that the later step of the offset changes nothing. Distances are remainders;
  `Distance` and `NextEntry` turn them into differences.
* `FirstReadFresh`: `PageInv` says where the write page stands at each step of the writer, and
  `FreshInv` follows the reader from the look at that page, through the status and the copy, to its
  return. The entry may be overwritten at any of these steps, then by a newer write.

**KeepAlive_proofs** (`KeepAliveAssumption`: a ping's round trip fits in
`connectionPing`).

* `TypeCorrect` needs `SilenceBounded` (the silence exceeds the timeout by at most the time since the last
  check) and `PingedIsFlagged` to show that a client is pinged once per silence.
* `PingedBeforeDropped` assumes `InTime` (`MaxGap <= connectionPing` and `connectionPing + MaxGap +
  2 * MaxDelay <= connectionTimeout`). `FlagInv` relates the flag to the silence: a clear flag
  means the client was heard recently, a set one that it was pinged or has been heard since.
* `LiveStays`: for a running client, `PingInv` follows the ping through its request and
  its reply and bounds the silence by the age of whichever is on its way.

`InTime` is not decoration. A server that does not check for longer than timeout minus
ping (a stall, or settings that close) passes from "not yet due for a ping" to "timed out" in
one check, and drops a client that answered everything it was asked.

**TaskQueue_proofs** (`TaskQueueAssumption`: a batch takes at least one task).

* `TypeCorrect`: `TypeOK` is inductive by itself.
* `AtWork` is what the other two need: a thread that runs tasks holds the mutex of the list they are on,
  and has run no more of them than the list has. Without it the task that runs next would not be the
  head of the channel. (`WorkInv` is `TypeOK` and `AtWork` of both threads.)
* `ImplementsFifo` is the refinement `Spec => FifoSpec`: the initial states of the two
  queues are those of two channels; posting a task appends to the channel, running
  one takes its head, and each of the other steps, the bounded moves between the lists included,
  leaves the channel as it is (`Pending`).
* `ExactlyOnce`: `Numbered` says that what has run followed by the channel is 1, 2, ... up to the
  number posted; it is the refinement's steps that keep it.

**ProducerPipeline_proofs** (`PipelineAssumption`; the indices of the signals are any
naturals, so two signals may share a time point, as they do in the code).

* `PipelineInv` ties each signal's future, task, cache and counters together: a
  future waits for the latest call (`Numbering`), a task is the one it waits for and
  what it has written so far is in the cache, up to the size of the packet sent before
  (`Running`, `Arrived`), a result that waits is the one the
  cache and, for a signal with a time point to itself, the time point are of (`Payload`).
* `ProducersEnteredOnce`, `EachResultSentOnce` and `PacketsAreWhole` follow; `TypeCorrect` is proved
  last, as the bound of the packet counter is the number of finished calls (`Counting`).

**Session_proofs** (`SessionAssumption`: finitely many client ids, of which `NoId` is none; with and without a
port per signal).

* `SessionInv` consists of the invariants of the run and of what they rest on. A running process
  is the latest of its client (`Latest`); an index belongs to the client whose entry it is (`Indexed`); every
  message on the network says something that was true when it was sent and stays so, because an
  entry never changes its id (`MessagesOK`); and a `NewConnection` on its way is of a process for
  which nothing has happened yet (`NewAreUnregistered`). Without the last, an old registration that
  arrives late would be thought to make a second entry, or to steal the peers of a newer one.
* `OneEntryForEachClient`, `ServerRecordsAgree`, `NoStalePeer`, `NobodyTakesAnothersIndex`, `NobodyIsLeftOut`,
  `NobodyWaitsForNothing` and `NoEcho` are consequences, for any `LateTypes`: late signals, late port overrides, both or neither. `RosterReachesAll` is the hardest of them to keep: for each event of the
  server, each pair of users has heard, or is about to hear, of the other.

**Listeners_proofs** (`ListenersAssumption`; `NoName` is not the name of a client).

* `ListenersInv` adds to `AwaitedAreAbsent` and `EntryIsOwn` that a response on its way still tells the truth
  about its entry (`ResponsesMatch`) and that the history of names contains the present
  ones. `FoundFacts` is about the look-up by name, and uses the well-ordering of the naturals.
* `NobodyIsAwaitedInVain`, `EntryStaysOwn` and `TypeCorrect` follow.

**EnvState_proofs** (`EnvStateAssumption`; `Separate` is any set of clients).

* Messages are ordered, so what a client will know is what the last message about a user
  says. `Says(s, j, c, v)` states that without a maximum: after the messages `s`, who has
  copy `c` of `j` has `v`. Lemmas say what becomes of it when a message is appended, arrives or
  is about somebody else, and `FinalCopies` that it is `FinalCopy` and `FinalMusic` of the run.
* `EnvInv` states both properties in these terms (`UserNewsInv`, `MusicNewsInv`, `MusicAskedInv`) and adds
  what they rest on: what can be on its way (`Mail`), that a client on a single port is sent everything by
  that port, hence in order (`SinglePort`), that who is registered has a stored state, and that a
  process starts with nothing and is the author of the music states that arrive from it while it runs (`FreshStart`).
* `TheGoneAreBlank`, `EveryUserStateReaches`, `TheMusicReaches` and `TypeCorrect` follow. For the first, nothing that a
  user sent may be handled after its `disconnect()` and before its next registration, on either kind of port.
  `Welcome` is the lemma about `send_initial_worldstate`, `HandledIsTold` that about the relay and the answers.

**PubSub_proofs** (`PubSubAssumption`: ids are naturals, finitely many clients and signals).

* A step changes every topic, with a fold over the keys, and `GetRecipients` merges sets with a fold
  over a sequence. `FoldExists` is that a fold over a finite set is a function with the values its
  steps give it, `SetInduction` the induction over such a set (from the well-ordering of the naturals, as
  the library's induction takes an operator); `MergedFacts` and `UpdateFacts` draw from them what the
  two folds of the model do.
* `TableInv` is about types and holds for all ids, whatever a search finds: none of the outcomes of the `std::set`s leaves
  the subscribers.
* `ExactInv` says, while `ordered` holds, that `operator<` is an order on everybody in the table, that topics are sorted and that a
  topic holds those who asked and nobody else: unsorted, a search could not be trusted to find, and with somebody else in it, who
  left could stay. Then an insertion and a removal have one outcome (`InsertedFacts`, `DeletedFacts`: the erase by key takes
  the element found and no other), and so have the merge and the erase of `GetRecipients`.
* `TypeCorrect`, `RecipientsAreWhoAsked` and `LeaversAreGone` follow, for all ids. `ordered` is needed in the last two, as the run `pubsub_self`
  shows of the first of them (section 6).

Only model-checked: the liveness properties (`CallsReturn`, `EveryTaskRuns`, `DeadClientGoes`,
`OthersKeepProducing`), since the prover treats neither fairness nor
ENABLED.

## 6. Where the code and its words part

* `session_ports`: a client offers a port for each of its user signals, but the server
  files the offer under the signal *type*: all of them land on the first
  user signal's channel.
* `pipeline_grow`: the cache of a signal is enlarged, and so zero-filled, before the tick looks
  whether the producer has already filled it. A packet longer than its predecessor may be sent with
  zeros at its end. `PacketOfOneCall` says what is always intact: everything up to the
  size of the packet before, hence all of a signal of one size.
* `env_reflected`: the server puts the `userID` of a user state right before it stores and relays it,
  because producers do not know it. The sender's own consumers get the bundle as it was made, with
  `userID` 0, and take it for user 0's. `UserStatesReach` says what holds of the copies otherwise.
* `pubsub_self`: `pubsub.h:194` says "We're not sending to ourselves" and line 101 "Ordered first by type, then id". The
  `operator<` below it asks for a smaller type *or* a smaller id, which is no order once a listener's id is
  below a client's, and the server numbers both from 0 (`server.cpp:204` and 333): two clients, of which the first may have left, and one
  listener are enough. A `std::set` may then fail to find the publisher it is about to remove from the
  recipients, who is sent its own signal. Nor is `Topic::Delete` safe then (134 erases by key all that the set takes
  for equal): it may leave who left, or remove others. `RecipientsExact` and `GoneFromAllTopics` are stated for, and
  proved of, the time until then (`ordered`), whatever the ids; nothing is claimed after it.

These were met and have no run of their own:

* `ringbuffer.h:37` calls the semaphore boolean, `ipc_linux.cpp:142` makes `set()` post only when the
  count is 0 for that reason, and `ringbuffer.h:39` says that the read page is never written while the writer
  changes write pages. But `set()` looks and posts in two steps, and the writer's constructor calls it without having waited. If a
  reader is between its `wait()` and the end of its `set()` then, or both see 0 and post, there are two permits, from then on
  and for good: both processes may be inside at once. `PermitConserved` says what is so in each case: one
  permit unless that constructor has posted, never more than two, never none.
* The comments of `read()` promise what was written: "The value stored in read_size (if it's there) is the size of bytes being
  read" (`ringbuffer.h:199`). `write()` stores the size with the header
  (`ringbuffer.cpp:119`, 162), and `read()` copies that many bytes from the payload on (252): each successful read returns
  eight bytes beyond what was written, the next entry's header, an older lap's bytes, or behind the last
  entry the read page. A reader must have room for them and
  ignore them. `ReadyIsWhole` and `TornOnlyIfOverrun` speak of the size and the payload only.
* `README.md:514` says of `isActive`: "Whether the client is active". `disconnect()` blanks the names and sets it to 1
  (`server.cpp:71-80`), as does registration, so that the state of a user who has left differs from that of a user with blank names in nothing.
  `GoneIsBlank` says what a reader of the states can rely on: who is gone has blank names, not that who has blank names is gone.
* `HandlePortOverride` compares the client's id but not its run (`server.cpp:477-486`). A port
  override of an earlier run that arrives after a restart puts the old run's port into the new entry; when ENet then times out that peer, the
  client is disconnected. No word in the repository says otherwise; `NoStalePeer` holds regardless, as the peer is
  the client's and live to ENet until then.

* `ringbuffer.h:23` promises that a writer that overtakes the reader skips the entry being read.
  `write()` logs that it skips, and overwrites it. `TornOnlyIfOverrun` says what readers can count on instead.
* `server.cpp:293` says that a listener that waits for a client is sent a message when it comes. No peer
  is stored for a listener, so none leaves; the broadcast `ConnectionInfo` reaches it with
  `sigIdx` 0, by which `listener.cpp:30` does not know it. Listeners have nothing but the response.

## 7. What is not modelled

* Latency rounds, telemetry and the statistics: they change numbers that are shown and logged.
* The scene state and the test bundle: the server handles them as it does the music, but never sends
  them to a newcomer.
* Who frees a relayed packet (a hazard: one that nobody gets is leaked), and what a listener that names
  clients is subscribed to (a hazard: the request is read uninitialized).
* Signals that are not passed through. No module of the repository has one. Their header is written into the
  producer's cache (`client.cpp:631`) while the packet is made of the other one (617).
* Transformers (`README.md:23`: "an upcoming feature"), with their output loop in the client and the
  signal history. What the code has so far puts the header of one packet on the next
  (`client.cpp:460`) and stops at the first signal without a transformer (369). `unlock()` of the history
  keeps half of what was added under the lock (`signal_history.cpp:67`); in this commit nothing is, as
  adding and reading are both done by the tick thread.
* Restarts of a ring buffer's writer or reader, and payloads that do not fit an entry.
* ENet, DLL loading, JSON configuration, ImGui windows, device drivers, vendored libraries: I/O or other
  projects' code. What the models assume of ENet (reliable messages are delivered or
  their peer is lost, a reset peer is silent, unreliable ones may be lost) is marked external.
* `lib/net-imgui` is an earlier copy of the network code that nothing links.
* The threaded variant of `unity_inline` (`ASYNC_TICK`), which does not compile in this commit.

## 8. Plan

The core (ring buffer, session, timeouts, task queues, publish/subscribe, producers), the environment
and the listeners are done. What could still be modelled, most important first:

1. Restarts in `RingBuffer`; the IPC producer and consumer over it, refined to a channel that
   may drop but not reorder.
2. `PacketLossTracker` and `sync_t::add` as operators, checked against reference definitions.
3. Once transformers are released: their output in `ProducerPipeline` (packet counters and time points
   they share with the producers), then `SignalHistory` with its lock.

Proofs. Every safety property of a passing run is proved. Module parameters are constants with named
assumptions, invariants are conjunctions of named parts, and no module uses RECURSIVE operators, so that new
modules can be proved about as these were. What would be worth proving next goes with the modules above: that the
IPC producer and consumer over the ring implement a lossy channel.
