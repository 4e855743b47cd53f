# A TLA+ model of the key-value cache

The repository compares three transports for one in-memory cache: TCP with a
coroutine event loop, two-sided RDMA (SEND/RECV), and one-sided RDMA, where
clients read and write the server's hash table with no server code running.
This directory models its core logic in TLA+, checks it with TLC and proves the
main results with TLAPS.

## The system

| Part | State it keeps | Operations | Talks to |
|---|---|---|---|
| `RdmaStore` (`rdma_store.cpp`) | 4096 slots of 1024 bytes: `occupied`, `access_count`, key, value | `set`, `get`, `erase`, `register_mr` | the server's preload; its memory is exported to one-sided clients |
| One-sided client (`rdma_client.cpp`) | one registered slot buffer, an atomic result, the probe loop's locals | `GET`, `GET_META`, `SET` | the slot table, through READ, WRITE and FETCH_AND_ADD |
| `RdmaContext` (`rdma_context.cpp`) | a queue pair, a completion queue, a send and a receive buffer | `connect`, `post_*`, `poll_completion` | the NIC |
| RDMA server (`rdma_main.cpp`) | both stores, a thread per client | preload, handshake, two-sided request loop, `pause()` | clients |
| Two-sided client (`rdma_client.cpp`) | one request outstanding | post RECV, post SEND, poll twice | RDMA server |
| `KeyValueStore` (`kv_store.cpp`) | a map and a mutex | `set`, `get`, `erase`, `size` | server threads, TCP server |
| `EventLoop` (`event_loop.cpp`) | ready queue, read and write waiters | `spawn`, `schedule`, `wait_read`, `wait_write`, `run`, `stop` | coroutines, `poll` |
| TCP server (`server/main.cpp`) | per connection: bytes received, bytes of a response sent | accept, receive, execute, send, close | event loop, store, protocol |
| Text protocol (`text_protocol.cpp`) | none | `parse_request`, `serialize_response` | servers and clients |
| Interactive TCP client (`client/main.cpp`) | one connection, one request outstanding | prompt, `write_all`, `read_line` | TCP server |
| Benchmark drivers (`kv_benchmark.cpp`, `rdma_client.cpp`) | a thread and a connection per client; counters of two phases | prefill, split, connect, warm up, measure, add up | servers |
| Metrics collector and client (`metrics_collector.py`, `metrics_client.py`) | the active run, its sampling thread | start, stop, ping, quit | experiment scripts |
| Experiment scripts (`run_with_optional_metrics`) | the status of the program they run | start a run, run a program, stop the run | collector, benchmark drivers |

What is hard here:

* **Interleaving.** A one-sided command is several verbs; between two of them
  other clients change the table. Nothing locks it.
* **Partial failure.** A WRITE can take effect although its completion fails.
* **Bounds.** The table fills up, probing wraps round, tombstones accumulate.
* **Ordering.** Completions, responses and end-of-file arrive in orders the
  code has to cope with.
* **Timeouts.** A request to the collector whose client has given up is still
  carried out, beside what other scripts ask.
* **Progress.** Threads spin on completion queues or wait for a mutex, coroutines
  sleep in `poll`.

`PROJECT.json` lists each hazard at its line, with the properties that guard it.

What makes each part correct:

| Part | Correct when |
|---|---|
| `RdmaStore` | It behaves as a map (`RefinesCacheMap`): no key twice (`UniqueKeys`), every key found from its hash position (`ProbeReachable`), no slot wasted before a set is refused (`RefusedOnlyWhenUsedUp`), a set refused only for want of room (`RefusedOnlyWithoutRoom`, which fails). |
| One-sided client | A GET returns what the table held at one moment of it, but for a value torn by a WRITE that crossed its READ (`GetIsAtomic`), an acknowledged SET stays (`AcknowledgedSetSticks`), counters add up (`CountsAddUp`), commands return, whatever fails half-way. |
| `RdmaContext`, two-sided client, RDMA server | Completions are matched to the request they belong to (`CleanBetweenRequests`, `ResponsesMatchRequests`), buffers are not reused early (`SendBufferLeftAlone`), the completion queue does not overflow however many requests fail (`CompletionsFit`), a request is executed at most once (`ExecutedAtMostOnce`), and threads and requests end. |
| `EventLoop` | A coroutine is in one place (`OnePlaceEach`), and one that can run is resumed. |
| TCP server | Responses are whole, in order and one for each request, on the descriptor of their session (`ResponsesInOrder`, `AnswersMatchRequests`, `DescriptorsOwned`), and every request is answered. |
| `KeyValueStore` | Calls of several threads take effect one after another (`Linearizable`), the size is the number of keys (`SizeIsExact`), and the mutex is always given back (`CallsGetThrough`). |
| Text protocol, interactive client | The three commands understand the same text as the same key, but for whitespace at its end (`KeysCanBeNamed`); a response is shown for the request it answers (`ResponsesPaired`); both sides agree on what is QUIT (`QuitTogether`); every line sent comes to an end (`RequestsReturn`). |
| Benchmarks | Every operation is counted once (`EveryOperationCounted`), and success means that all were answered (`SuccessMeansComplete`). |
| Metrics collector | Of the programs' requests, a row has those its own program sent over the device and no other's (`RowsCoverRuns`), and its averages are taken of the same samples (`SamplesAgree`). |

## Modules

| Module | Models |
|---|---|
| `CacheMap` | What a store promises: a map. A set changes its own key and may be refused only if it does not fit or the key is new; get and erase answer by the map. |
| `SlotTable` | The slot layout, the hash as a constant, the probe arithmetic and the notions server and client share (where a search passes, stops, ends); no state. |
| `RdmaStore` | `set`, `get`, `erase` on the slots, one action per outcome of each probe loop. |
| `OneSided` | The one-sided data path: each client's command as a sequence of verbs on the shared table. |
| `OneSidedHistory` | History variables over `OneSided` (contents seen during a GET, the slots that held its key throughout, READs torn by a WRITE, values issued, acknowledged SETs, counted GET_METAs), and the properties that need them. They never restrict a step. |
| `LockedMap` | What `KeyValueStore` promises the threads that call it: each call takes effect at one moment. |
| `KeyValueStore` | The four methods, step by step under the mutex. |
| `KvCommands` | The requests of the protocol and what a server answers to them; no state. |
| `QueuePair` | SEND and RECV between two ends: what `RdmaContext` posts and polls, and what the hardware does. |
| `TwoSided` | Client sessions and server threads over `QueuePair`, sharing the store. |
| `EventLoop` | The coroutine scheduler: ready queue, read and write waiters, `poll`. |
| `TcpServer` | `accept_loop` and `handle_client` over `EventLoop`, with the kernel's sockets and the clients around them. |
| `TextProtocol` | `parse_request` and `serialize_response`, on lines made of tokens; no state. |
| `LineClient` | The interactive TCP client against one session of the server. |
| `Benchmark` | The three benchmark drivers: prefill, split, workers, counting, exit status. |
| `MetricsCollector` | The collector, its sampling thread, and the scripts that use it. |
| `Experiment` | `Benchmark` as the program of one of the scripts of `MetricsCollector`. |
| `MCRdmaStore`, `MCOneSided`, `MCOneSidedHistory`, `MCTwoSided`, `MCTcpServer`, `MCKeyValueStore`, `MCLineClient`, `MCExperiment` | Finite instances for TLC. |
| `SlotTableProofs`, `RdmaStoreProofs` | Lemmas about tables, and the theorems about `RdmaStore`. |
| `KeyValueStoreProofs`, `OneSidedProofs`, `TwoSidedProofs`, `TcpServerProofs`, `LineClientProofs`, `ExperimentProofs` | The theorems about `KeyValueStore`, `OneSided` with any writers and with one and what its clients observe (`OneSidedHistory`), the queues and the sessions of `TwoSided`, the coroutines, descriptors and streams of `TcpServer`, the parser and the session of `LineClient`, and the rows of the metrics collector and the summaries of the benchmarks. |

Some modules define an operator marked "Fault:", a variant of the definition
after it with a mistake one could make there. No specification uses them; put in
place of the definition, each makes a property fail.

### RdmaStore and the code

`slots` is `slots_`, `reply` what the last call returned. A call runs to its end,
since the store is used by one thread (the preload in `main`) before any client
connects. The probe loop is not unrolled: `FoundAt(t, k, i)`, `EndsAt(t, k, i)`
and `Exhausted(t, k)` say at which probe `i` it leaves and why, and
`FirstTombstone` is the local `first_tombstone`. `(hash + i) & (RDMA_NUM_SLOTS - 1)`
is modelled by `Probe`; `MCRdmaStore` evaluates that the two agree for every
power of two up to 16. FNV-1a is any function from keys to positions: no
property depends on which. Strings are model values; `LongKeys` and
`LongValues` are those that leave no room for the terminator.

### OneSided and the code

`client[c]` holds the program counter of client `c` and the locals of
`one_sided_get` and `one_sided_set`:

| Field | Code |
|---|---|
| `pc` | `idle` at the prompt; `reading`, `writing`, `touching`: the verb in flight; `landed`: its effect is done, its completion not polled |
| `probe` | `i` |
| `tomb` | `saw_tombstone` and `first_tombstone_addr`, as the probe at which it was met |
| `local` | `local_slot`, destination of READs and source of WRITEs |
| `target` | the address of the WRITE or FETCH_AND_ADD |
| `parts` | how much of the current transfer has still to move |
| `qp` | whether the queue pair still works |

`Begin*` and `RejectSet` are the session loop, `ReadPart` and the guard
`Received` the READ and its polled completion. Each branch on the slot just read
is an action (`NextProbe`, `GetHits`, `GetMetaHits`, `GetMisses`, `SetOverwrites`,
`SetInserts`, `SetReuses`, `SetFull`). `WriteLands`, `TouchLands` are the effects
at the server, `Completes` and `Fails` the two outcomes of `poll_completion` (or
of the post). The server is absent from `Next`: its handler sits in `pause()`.

What the NIC does is outside the repository (`Parts`, `Chunks`, `Merge`). Nothing in
the program makes a slot indivisible, so the header (status, counter, key) and the
value always move separately, in either order, and other verbs may come in between.
Once a WRITE has started to arrive the rest follows: the path MTU is 1024 bytes
(`rdma_context.cpp:175`), so a slot is one packet. The header is taken as one
piece; that is exact for keys that end within the first cache line (47
characters), and the program's own keys do.

The initial tables are ones `RdmaStore` can leave. The shipped server only
preloads, so its tables have no tombstones; those with tombstones are what the
public `erase` of the store produces, and they exercise the client's tombstone
code.

### QueuePair, TwoSided and the code

`nic[e]` is the `RdmaContext` of end `e` with its hardware: state of the queue
pair, work requests posted, state of the message in `send_buf_` (`out`), `recv_buf_`
(`in`) and unpolled completions (`cq`). `MaxPosted` is `max_send_wr` and
`max_recv_wr` (32 in the code), `CqSize` the completion queue that both share (64).
A work request takes up its entry until its completion is polled; when the queue
is full the post fails (`WithSendRefused`). A worker that goes on after a failed
request leaves completions behind, so that its queues do fill up. `WithRecv`, `WithSend`, `Polled` are
`post_recv`, `post_send`, `poll_completion`; `Delivers`, `Acknowledges`, `Breaks`
the hardware. A response can be delivered before the acknowledgement of its
request, so both orders of completions occur. Posting to a broken queue pair
completes at once with an error, as the verbs specification has it.

`client[c]` follows `two_sided_request_response` and `run_two_sided`, `thread[c]`
follows `handle_two_sided_client`, one action for each verb or poll with what
follows it. `Wire` is the truncation of `post_send` to `RDMA_MSG_SIZE`
(documented, `rdma_context.hpp:136`), `HasBye` the search for "BYE" in a response.

| `thread` | Code (`rdma_main.cpp`) | Steps |
|---|---|---|
| `handshake` | 110-127 | `ThreadConnects`, `ThreadGivesUp` |
| `arming` | 135 | `ThreadArms` |
| `receiving` | 138-180 | `ThreadServes`, `ThreadStops` |
| `responding` | 181-183 | `ThreadGoesOn`, `ThreadStops` |

### EventLoop, TcpServer and the code

`ready`, `readWaiters` and `writeWaiters` are the loop's members; `running` is the
coroutine between `handle.resume()` and its next suspension. `Resume` is one turn
of the inner loop of `run()`, `Polls` one return of `poll` with its waking of
waiters. A coroutine is named by its client (`Acceptor` for `accept_loop`), and
`frame[c].pc` is where it stands in `handle_client`:

| `pc` | Code | Steps |
|---|---|---|
| `recv` | inner loop, lines 89-117 | `Receives`, `ReceivesEnd`, `ReceivesNothing` |
| `lines` | loop over complete lines, 119-129 | `Executes`, `AwaitsInput` |
| `send` | send loop, 131-162 | `Sends`, `AwaitsRoom`, `SendFails`, `SendKills` |
| `quit` | after the answer to QUIT, 164-168 | `ClosesAfterQuit` |

Each step is one system call with what follows it, so the kernel and the clients
act between any two. A request line is `RequestParts` pieces, a response
`ResponseParts`: text is torn where TCP may tear it, and a line put together from
the wrong pieces parses as `invalid`. A retry after `EINTR` changes nothing and
is left out, and so is the exception after a failed `poll`.

External: the socket (`conn`) and the client. A client writes its script, at any
time, also ahead of the answers, as a piped `nc` does; it may end its output, or
leave. Leaving with unread data resets the connection at once; otherwise the
server learns of it only as an end of file, and data sent after that are answered
by a reset, after which `send` fails with `EPIPE`.

### KeyValueStore and the code

`entries` is `entries_`, `count` the number of nodes that the standard map keeps
for `size()`, `mutex` the holder of `mutex_`. `frame[t].pc` follows a thread
through a method:

| `pc` | Code (`kv_store.cpp`) | Step |
|---|---|---|
| `outside` | not in a method | `Calls` |
| `locking` | the constructor of `lock_guard` | `Locks` |
| `searching` | `find`, or the search in `insert_or_assign` and `erase` (`size` has none) | `Searches` |
| `acting` | what is done with the node that was found, or not | `Assigns`, `Inserts`, `Copies`, `Unlinks`, `ErasesNothing`, `Sizes` |
| `returning` | the destructor of `lock_guard` | `Unlocks` |

A call has taken effect for `LockedMap` when it is `returning`. The servers'
modules use the calls as single steps; `Linearizable` is what justifies that.

### TextProtocol, LineClient and the code

A line is a sequence of tokens: words, pieces of keys and values, and whitespace
characters one by one. Only " " separates arguments, while everything that
`isspace` accepts is trimmed at the ends, so a key may have a tab in it. `Parsed`
and `Serialized` are `parse_request` and `serialize_response`; the wording of
error messages is shortened to a word. Of the characters, `ProtocolAssumption` says
only that " " is whitespace and that the command words are not and have their
lower-case forms; `LinesAssumption`, that lines and values have no line feed in them.

`client` is where `client/main.cpp` stands: `prompt`, `reading` (in `read_line`, a
character at a time), `shown`, and three ways to end. The server's side of the
session is one step (`Serves`), as `TcpServer` shows that a session answers its
requests one by one; its store holds anything. `Dies` is the end of the server
process: a part of the response may arrive, and the connection ends with an end
of file, or with a reset if the request had not been read.

### Benchmark, MetricsCollector, Experiment and the code

`Benchmark` is `run` of `kv_benchmark.cpp` and the two drivers of
`rdma_client.cpp`, which have the same shape: `main` follows the main thread,
`worker[w]` a thread with its connection (`link`) and its counters (`result`). A
request is one step that has one of the `Outcomes` of its transport, and `Counted`
is what the counters make of it. They differ in what is prefilled, in how a failed
connection is counted (`CannotConnect`), in which requests have a latency, and in
the exit status (`Succeeds`).

`MetricsCollector` has the collector's loop, which takes one request at a time
(`backlog`, `handling`); `stop_run` is split at the join, at the reading of the
counters, and between the two passes over the samples, since the sampling thread
may still append then (`join(timeout=2.0)`). `traffic` is what the
counters of the network device (`read_net_counters`) have got from each sender; the
code sees their sum. What `metrics_client` and the collector tell each other crosses
that device too, and is counted under `Control`. A script (`script[s]`) asks to start, runs its program, asks to
stop, and gives up after ten seconds (`TimesOut`); its request stays where it was.

`Experiment` makes the benchmark the program of the script `Measured`: each
request that crosses the device adds to `traffic` (`Crossing`). Those of the TCP
benchmark do, those of the RDMA drivers bypass the kernel and do not: the report
found 0.02-0.08 bytes per operation there (`final_report.tex:324-329`, `466-471`,
`515-522`). Other scripts run programs that just send something over the device, if the
collector lets them.

## Runs

| Run | Instance | Question |
|---|---|---|
| `rdma_store` | 4 slots; 5 keys (two at the last slot, one too long), 3 values (one too long) | Does the table stay well formed, is no slot wasted, and does it implement `CacheMap`? Yes. |
| `rdma_store_full` | the same | Is a set refused only for want of a free slot, as documented? **No**. |
| `one_sided_writer` | 4 slots, a client that SETs and one that does GET_METAs, 2 commands each, either may fail | Under the single-writer assumption: no duplicate key, acknowledged SETs stick, GETs are atomic but for the value of a READ that crosses a WRITE, no counter too high. Holds. |
| `one_sided_crowded` | 2 slots, two clients that GET and SET, 2 commands each, one may fail | Without the assumption and at the table's limit: chains stay unbroken, no slot is emptied, no key that stays in its slot overlooked, every command returns. Holds. |
| `two_sided` | a worker whose link may fail (4 requests and QUIT) and an interactive client that may fail to connect (1 request, then QUIT or leave); queues of 2, completion queue of 4 | Does each response belong to its request, is nothing executed twice, do completions fit, does every request return and QUIT end the thread? Yes. |
| `two_sided_threads` | 1 interactive client | Does a thread end with its client, as in the TCP server it mirrors? **No**. |
| `tcp_server` | 3 clients, 2 descriptors; requests and responses in 2 pieces, send buffer of 1; one client may end its output or leave, one cannot be made nonblocking | Are coroutines, descriptors and responses kept straight, and is every request answered? Yes. |
| `tcp_eof` | 1 client that may end its output | Is every complete buffered command processed, as documented? **No**. |
| `tcp_sigpipe` | 1 client that may leave | Does a send error end only its connection, as documented? **No**. |
| `kv_store` | 3 threads, 2 keys, 2 values | Is the store linearizable, its size exact, and does it never lock for good? Yes. |
| `tcp_client` | 4 commands in all layouts: 5 separators, 3 keys, 5 arguments, 4 kinds of whitespace on either side | Is a response shown for its request only, is QUIT understood alike, do the commands agree on what the key is? Yes, but for whitespace at the end of a SET's key. |
| `experiment` | each driver with 2 clients, 3 operations, 1 warm-up operation, 2 keys, one of them preloaded; 2 scripts that may stop twice, 1 timed sample | Is every operation counted, and has a row its own program's requests over the device and no other program's, whatever fails, contends or times out? Yes: all of them for TCP, none for RDMA. |

Bounds. Four slots are enough for a chain to wrap, to pass a tombstone, to pass
a foreign key and to end at an empty slot; `rdma_store` has as many storable keys
as slots, so it also fills up. The tables
that `one_sided_writer` starts with have a tombstone before a key, a chain that wraps, and no
empty slot. Two slots make "all the way round" short enough to
interleave with everything. `MaxCommands` bounds a session, because the
counters and the history would otherwise grow for ever; two commands suffice for
a command that starts in the state left by a failed or racing one. Sessions end
when they are used up, hence `CHECK_DEADLOCK FALSE` in the `OneSided` runs;
`rdma_store` checks deadlock. Its symmetry set swaps two values, which nothing
orders. No other run uses symmetry.

Three threads make two of them wait for the mutex together, and one of them wait
while the other two take turns; more keys would only meet less often. Three
operations over two clients divide unevenly, and one warm-up operation leaves a
worker without any. `MaxSamples` bounds how often the sampling thread appends
before it is told to stop; what it appends after that is not bounded but by the
code. `MaxWork` bounds the programs of other scripts, `MaxStops` the stop
commands of a script. Experiments end: `CHECK_DEADLOCK FALSE`, as in `tcp_client`,
where the user may leave. `kv_store` checks deadlock.

Fairness. `FairSpec` and `HFairSpec` assume weak fairness of each client's
steps after a command has begun: a verb in flight completes, with success or
error (a reliable connection with a bounded retry count always yields a
completion, `rdma_context.cpp:198-200`), and `poll_completion` spins until it
does. Nothing is assumed about users issuing commands. `CommandsReturn` is
checked under it.

`TwoSided`'s `FairSpec` assumes that server threads run, that a client finishes a
request it has begun, and that the hardware delivers, acknowledges or gives up
(it never gives up on a receiver without a buffer). Requests are not owed, nor is
leaving. `RequestsReturn` excepts a server thread that has ended: a client whose
SEND was acknowledged then spins for ever (`rdma_context.cpp:361`). Four requests
after a failure overflow the shortened queues; the sessions share only
the store, so one of each kind suffices. Sessions end: `CHECK_DEADLOCK FALSE`.

`TcpServer`'s `FairSpec` assumes that the server's one thread runs, as one weak
fairness condition: the order in which it serves coroutines is the code's. Clients
that stay read what they are sent; nothing is assumed about what they write, nor
about ends and resets. `RequestsAnswered` and `FreeDescriptorsAreUsed` need both.
Its sessions end when the scripts are used up, hence `CHECK_DEADLOCK FALSE`.
Three clients over two descriptors make `accept` run out of descriptors and reuse
one; a buffer smaller than a response makes every response stop half-way.

`KeyValueStore`'s `FairSpec` assumes that a thread inside a method runs. It does not
assume that the mutex is fair, and what is shown is accordingly that *some* call
gets through, not each. `LineClient`'s assumes that the client and the server run;
nobody has to type. `Experiment` has no liveness property: nothing in the
collector or the drivers promises that a run ends.

### What the failing runs show

* `rdma_store_full`: `RdmaStore::set` remembers the first tombstone but uses it
  only if the loop meets an empty slot. When every slot is valid or a tombstone
  the loop falls through to "table full" (`rdma_store.cpp:87`), contrary to
  `rdma_store.hpp:102-103`. The table never gets an empty slot back
  (`SlotsNeverEmptied`), so from then on no new key is accepted, however many are
  erased. The one-sided client does reuse the tombstone (`rdma_client.cpp:365`).
* `two_sided_threads`: a thread whose client left without QUIT has only a receive
  posted, and polls for ever. The interactive client leaves so at the end of its
  input, and also when a *value* contains "BYE" (`rdma_client.cpp:773`).
* `tcp_eof`: `handle_client` drains `recv` first, and at end of file closes at once
  (`server/main.cpp:98-101`), so lines received by the same loop are neither
  executed nor answered. Whether they are depends on when the end of file arrives.
* `tcp_sigpipe`: `send` is called with flags 0 (`server/main.cpp:139`) and `SIGPIPE`
  keeps its default action, so the branch for "any other send error" is reached
  after a reset in an open connection (`SendFails`), and not after a reset that
  follows an end of file: there the process ends, with every other session.

### Limits of the single-writer design

The code documents that concurrent one-sided writers can race
(`rdma_client.cpp:288-289`), so these are not findings. With two writers, TLC
finds `UniqueKeys` and `AcknowledgedSetSticks` violated. Even one writer tears values:
a READ that crosses a WRITE of the same slot may return the header of one SET and the
value of another, or of an erased key, since a slot has no lock and no version; the
report names this as open (`final_report.tex:504-506`). `GetIsAtomic` says that this
is all that can go wrong: the value is torn only if the READ and the WRITE were each
half-way in that slot when the other was (`torn`), and that the key is there is true
even then. Without the exception for `torn`, TLC finds the property violated.
`PresentKeysAreFound` holds for any writers. It speaks of a slot that holds the
key during the whole GET: a key that two writers stored twice may be missed although
it was never absent, if the GET passed the one slot before it held the key and the other
is wiped out before the GET gets there (TLC finds this with three clients and two slots). A SET that overwrites a slot also
writes back the counter it read, so FETCH_AND_ADDs in between are lost:
`CountsAddUp` bounds a counter from below only until a SET of its key begins, and is
checked with one writer: with two, a FETCH_AND_ADD may count for another key that was
put into the slot meanwhile, which no property covers.

### Behaviours the models have that no document speaks of

* `one_sided_get` returns `false` for a missing key and for a failed verb alike, and
  the session prints `NOT_FOUND` for both (`rdma_client.cpp:237-242`, `827`). The
  properties of GETs are about GETs whose verbs succeeded.
* A TCP worker goes on after a transport failure; once its connection was reset the
  next send raises `SIGPIPE`, which ends the benchmark before its summary
  (`IsKilled`; the comment at `kv_benchmark.cpp:418` has errors counted instead).
* A TCP worker that cannot connect forgets its warm-up operations
  (`kv_benchmark.cpp:383`); the RDMA workers count theirs.
* The two-sided driver reports success whatever its workers counted
  (`rdma_client.cpp:752`).
* The wall clock of the benchmark starts before the workers connect and warm up
  (`kv_benchmark.cpp:538`), and the network bytes of a row include prefill and
  warm-up: `RowsCoverRuns` is about all requests of the program, not the measured ones.
* Network bytes of an RDMA run are near zero, since its requests never reach the device
  whose counters are read: `RowsCoverRuns` has none of them in the row. What is left is
  what all scripts and the collector say to each other while the run is active, which is
  in every row, and the setting up of connections, which is not modelled.
* `parse_request` cuts the key of a SET at the first space and trims neither end of
  it, while GET and DEL trim the end of the line (`text_protocol.cpp:76`, `128`). So
  `SET k<tab> v` stores a value under `k<tab>`, which can be overwritten, but neither got nor
  deleted: GET and DEL always ask for `k`. An attempt to prove that every stored key can
  be named showed this; `KeysCanBeNamed` states what does hold, and `tcp_client`
  has such lines.
* "SET requires a non-empty key" and "SET requires a non-empty value"
  (`text_protocol.cpp:132-138`) are never answered: in a trimmed line a space has
  something on either side of it (`SetParts`).
* A start whose client timed out leaves a run active that nobody stops, and further
  starts are refused; a stop whose client timed out ends the run and its rows are lost.

## Proofs

| Module | Theorem | States |
|---|---|---|
| `RdmaStoreProofs` | `TypeCorrect` | `Spec => []TypeOK` |
| | `KeysStayUnique` | `Spec => []UniqueKeys` |
| | `ChainsStayUnbroken` | `Spec => []ProbeReachable` |
| | `SlotsStayUsed` | `Spec => SlotsNeverEmptied` |
| | `RefusalsMeanUsedUp` | `Spec => RefusedOnlyWhenUsedUp` |
| | `ImplementsCacheMap` | `Spec => RefinesCacheMap` |
| | `LeavesServerTables` | `Spec => []ServerTable(slots)` |
| `KeyValueStoreProofs` | `TypeCorrect` | `Spec => []TypeOK` |
| | `SizeStaysExact` | `Spec => []SizeIsExact` |
| | `IsLinearizable` | `Spec => Linearizable` |
| `OneSidedProofs` | `TypeCorrect` | `Spec => []TypeOK` |
| | `ChainsStayUnbroken` | `Spec => []ProbeReachable` |
| | `SlotsStayUsed` | `Spec => SlotsNeverEmptied` |
| | `OneWriterKeepsKeysUnique` | `ASSUME SingleWriter PROVE Spec => []UniqueKeys` |
| | `GetsFindPresentKeys` | `HSpec => PresentKeysAreFound` |
| | `GetsAreAtomic` | `ASSUME SingleWriter PROVE HSpec => GetIsAtomic` |
| | `AcknowledgedSetsStick` | `ASSUME SingleWriter PROVE HSpec => []AcknowledgedSetSticks` |
| | `CountersAddUp` | `ASSUME SingleWriter PROVE HSpec => []CountsAddUp` |
| `TwoSidedProofs` | `QueuesSuffice` | `Spec => []CompletionsFit` |
| | `EachExecutedOnce` | `Spec => []ExecutedAtMostOnce` |
| | `EachAnswerToItsRequest` | `Spec => []ResponsesMatchRequests` |
| | `NothingLeftBetween` | `Spec => []CleanBetweenRequests` |
| | `SendBufferKept` | `Spec => SendBufferLeftAlone` |
| `TcpServerProofs` | `TypeInvariance` | `Spec => []TypeOK` |
| | `NoneLost` | `Spec => []OnePlaceEach` |
| | `DescriptorsApart` | `Spec => []DescriptorsOwned` |
| | `StreamsWhole` | `Spec => []ResponsesInOrder` |
| | `AnswersPaired` | `Spec => []AnswersMatchRequests` |
| `LineClientProofs` | `ResponsesArePaired` | `Spec => []ResponsesPaired` |
| | `TheyQuitTogether` | `Spec => []QuitTogether` |
| | `KeysAreNamed` | `Spec => []KeysCanBeNamed` |
| `ExperimentProofs` | `RowsAreRight` | `Spec => []RowsCoverRuns` |
| | `AveragesAgree` | `Spec => []SamplesAgree` |
| | `SummariesAddUp` | `Spec => []EveryOperationCounted` |
| | `SuccessesAreComplete` | `Spec => []SuccessMeansComplete` |

### RdmaStore

The theorems hold for every number of slots, hash function and set of keys and
values. They rest on the assumptions of `SlotTable`: at least one slot, a hash position
for every key, and sentinels that are not keys or values (nor is the zeroed value
field too long). That the number of
slots is a power of two is needed only for the mask to be `Probe`.

The inductive invariant is `IInv`: `TypeOK`, `UniqueKeys` and `ProbeReachable`
together. The three depend on each other. That an insertion does not
duplicate a key needs `EndIsAbsence`: a search that met an empty slot has proved
the key absent, which is true only if no empty slot interrupts the key's chain;
and that chains stay whole needs that a search stops at the first empty slot
(`ChainInside`). `SlotTableProofs` has these facts as lemmas on tables, without
state: `ProbeDist` (every position is reached at its distance),
`EndIsAbsence` and `ExhaustionIsAbsence` (both ways of not finding a key are
right), `ContentsAtHolder`, `ContentsAtAbsent` and `ContentsFrame` (what a table
stands for, and what a change of one slot leaves alone), and `OverwriteKeeps`,
`InsertKeeps`, `EraseKeeps` (the three kinds of change keep a table well formed).
The refinement proof maps each action to `Store`, `Refuse`, `Get` or `Erase`
through them. `RefusalsMeanUsedUp` needs that a full turn of probes visits every
position (`ExhaustionSeesAll`). `LeavesServerTables` says of the table all that
`OneSided` assumes of the one its clients find (`TablesAssumption`), counters at zero
included.

### KeyValueStore

For any number of threads, any set of values and any finite set of keys. The
inductive invariant is `TypeOK`, `SizeIsExact`, and

* `OneInside`: a thread past the lock holds the mutex;
* `SearchStillTrue`: what a thread found is true of the map until it acts on it;
* `FramesInOrder`: a thread in a method has a call, and one outside has none.

`SearchStillTrue` is what the mutex is for, and it is what makes an insertion
count a node exactly if the key was missing. `IsLinearizable` maps `Calls`, the
acting steps and `Unlocks` to the three steps of `LockedMap`; locking and searching
change nothing that `LockedMap` sees.

### OneSided

For any number of clients, writers and readers alike, with failures, and with
slots that move in pieces, in either order. `TablesAssumption` says of the initial tables what
`LeavesServerTables` proves of the store that leaves them.
The inductive invariant `IInv` says, beside types and `ChainsUnbroken`, of each
client (`Sound`): every slot its search has passed is in use (`Searching`), and no
empty slot lies between the slot it is about to write and the hash position of what
it writes there (`Placing`). Both survive the steps of all other clients because
tables only grow (`Grows`: a slot in use stays in use), which is why the argument
needs no single writer; nor does it show that keys stay unique, which fails then.

`OneWriterKeepsKeysUnique` adds the assumption the code documents (`rdma_client.cpp:288-289`):
`SingleWriter`, at most one client sets. `WInv` strengthens `IInv` with unique keys
and, for that client, `Unfound` (no slot its search has passed holds the key, and a
header already in its buffer is the table's) and `Alone` (from the post of its WRITE
until the last part has landed, no slot but the target holds the key). A search that
passed every slot before an empty one, or all slots, has then proved the key absent
(`EndIsAbsence`, `ExhaustionIsAbsence`), as in `RdmaStore`, although the verbs of
readers came in between. A FETCH_AND_ADD moves no header (`SameHeaders`), and only
another writer could make `Unfound` or `Alone` untrue. Slots may move in pieces:
the WRITE's header decides, whenever it lands.

### OneSidedHistory

For any finite set of clients, with failures, and in whatever pieces slots move. All
but `GetsFindPresentKeys` assume one writer. The history adds
no behaviour to `OneSided` and removes none (`HistoryStep`), so `IInv` and, with one
writer, `WInv` hold of it; each theorem strengthens them by what it needs.

* `GetsFindPresentKeys`: `Tracking`. Of a slot that has held the GET's key since it
  began, the probe is not past it, and if the header in the buffer is that slot's, it
  holds the key; if the slot is further on, the one in the buffer is not empty, by
  `ChainsUnbroken`. So neither an empty slot nor the end of the table is met before it.
* `GetsAreAtomic`: `Witnessing` and `Steady`. Unless one slot has held the key since the GET began,
  the GET has seen the key absent: with one writer and unique keys a key cannot pass
  from slot to slot without being absent between. A miss then follows from `Tracking`;
  a header that shows the key was the table's when it arrived, so the key was there. As
  long as the GET is not `torn`, the slot it is half-way in has not changed since its
  first part was read (`Steady`): a WRITE to it would have been half-way there before its
  step or after it (`WriteIsSeen`), and a FETCH_AND_ADD changes neither key nor value. So
  the value goes with the header, and is what the key holds when the last part arrives.
* `AcknowledgedSetsStick`: `Aiming` and `Sticks`. The slot a SET writes to is free for
  its key or holds it, from the READ that found it to the last part of the WRITE, because
  nobody else writes headers; so a WRITE that lands changes the content of its own key
  alone (`WriteLandsAims`), and when it has landed whole, to its own value. From the first
  part to the return the key is exempt (`Changing`): its WRITE is under way.
* `CountersAddUp`: `CInv`. A slot that holds a key goes on holding it (`Keeps`), so the
  slot a FETCH_AND_ADD increments is still the one of its key (`Points`), and the count
  of that key rises with it (`CountsNext`). The counter that a SET carries from its READ
  to its WRITE was right when it was read; since what is counted is never taken back, it is
  not too high when it is written (`Carries`). It may be too low, which is why the lower
  bound ends when a SET of the key begins.

### TwoSided

For any sizes of the queues that satisfy `CapacityAssumption` (a completion queue
for both): `IInv` says that every context is `Accounted`, that is, that the
completions waiting and still to come are together not more than the work requests
posted, and those of each kind not more than `MaxPosted`. In the
code it is 32 + 32 <= 64: no room to spare.

For what a session promises, `SInv` is added, for any sessions, requests and failures. It
describes each end alone: `ClientEnd` and `ServerEnd` list, for each place in the
program, the work requests that are posted and the completions that may be there,
in either order. `Records` says that what was executed is a prefix of what was
asked, and what was taken a prefix of what was given. `InFlight` ties the ends
together: which of them has the one message of the session, and that it is the
request, or the response, that comes next. Neither half is inductive alone: that a
first poll may take the receive completion before that of the send needs to know that
a response cannot come before the request went out, which is about the other end.

A queue pair that has failed while its client goes on is `Broken`: completions of
earlier requests are still there when later ones are made (`rdma_client.cpp:571-582`),
so polls are out of step from then on. None of those left over succeeds, so no
response is taken for them; the one completion that may have succeeded before the
failure is taken by the first poll after it. `CapacityAssumption` has
`MaxPosted` at least 1: a working queue pair posts one receive and one send for a
request (`HasRoom`).

### TcpServer

For any clients and scripts, any finite set of descriptors, and any number of
pieces in a line, a response and a socket. `ServerAssumption` asks that descriptors
be numbers (`NextFd` is the lowest), that scripts be sequences of requests of the
five kinds, and that a request which needs a key have one. The theorems do not use
`QuitAssumption`, which is for `RequestsAnswered`. Clients may come, end their
output and leave at any time, and the process may be killed by `SIGPIPE`.

The inductive invariant `IInv` has two halves that hardly meet; both were first
checked by TLC on the instance of `MCTcpServer`.

* `Placed` is about `EventLoop`. It says of the ready queue, the two maps of
  waiters and the running coroutine (`InOrder`) that nobody is in two of them, that
  who was spawned and has not returned is in one, and that a waiter waits for its
  own descriptor: to read only in `recv`, to write only in `send`, the acceptor only
  for the listening socket. The last part is what makes it inductive: `WaitRead` and
  `WaitWrite` overwrite the entry of a descriptor, and lose no coroutine only because
  descriptors have one owner (`Owned`) and an owner that runs waits nowhere. One
  lemma for each thing a coroutine may ask of the loop (`RunningReads`,
  `RunningWrites`, `RunningSpawns`, `RunningReturns`) and one for each thing the loop
  does (`FirstResumes`, `PollWakes`) states this of any queue, maps and coroutines.
* `Sessions` is about one connection at a time (`Fine`). `Whole`: what a client has
  written is what was answered, then what is buffered, then what is on the way, each
  piece at its place, so that the first newline in the buffer always ends the line
  that comes next (`FirstLine`). `Delivered`: what it has read and what is on the way
  are the first `Out` pieces of the answers, where `Out` counts the last answer up
  to the `offset` of a send that had to wait. The steps keep both (`FineReceives`,
  `FineExecutes`, `FineSends`, ...), and a step of one session leaves the others alone
  (`OneSession`).

That a connection leaves the backlog once, and a descriptor is free when it is
handed out, is `Owned`. `Whole` is not claimed of a closed connection, whose buffers
are gone, nor `Delivered` of one whose client left.

### LineClient

For every set of lines that may be typed and of values that may be stored, every set
of characters that count as whitespace and every `tolower`, under the two assumptions
above. A server may die at any moment.

The inductive invariant is `SessionInv`; TLC checked it on the instance of
`MCLineClient` first. It says for each place of the client what is under way:

* `Idle`, at the prompt: nothing, and the server has not ended the session;
* `Waiting`: the line is on its way, or was lost with the server;
* `Arriving`: the server has answered. The answer is one line whose only line feed
  is its last character (`AnswersAreLines`; an error quotes a piece of the line
  that was typed), and it is cut in three at `n` and `m`: what was read, what
  will still come, and what was lost, which is nothing unless the server died;
* `Shown`: `read` is what `read_line` keeps of the whole answer, or of its first `n`
  characters when the connection was closed.

`ResponsesPaired` alone is not inductive: that nothing is left over when a line has been read
needs that the line feed was the last character on its way. That a part of an answer is
shown as the beginning of it is `KeptStarts`, about the recursive function
`KeptUpTo`, by the least counterexample (`Climbs`). `TheyQuitTogether` needs `HasAnswered`:
client and server parse the same line, each on its side. That they come to the same
result rests partly on the code: both call `parse_request`, and the model shares it
likewise. What the property adds is that each decides on the line it should.

`KeysAreNamed` is about `parse_request` alone. Each step of it is described by what it
leaves: a trim, a text that is empty or begins and ends with what is not whitespace
(`TrimIsTight`); the cut at the first space, a command and a rest that is trimmed
already (`BeforeStarts`, `RemainderIsTight`). So a request that was understood is
of one of three shapes (`ParsedShape`), and a request of each of these shapes is what its
documented form is parsed to (`QuitReadBack`, `KeyReadBack`, `SetReadBack`). The last two rest on
how trimming and cutting meet a text that was put together (`CommandParts`).

### Experiment

For any number of scripts, any benchmark arguments, and without the bounds of the
run: `MaxSamples`, `MaxWork` and `MaxStops` only restrict steps and may be anything.
The inductive invariant `IInv` is

* `Types`;
* `Queue`: a start waits, or is at hand, only for a script that has not begun its
  program, and at most one of each script; a stop only for a script that has ended
  it. This is what keeps requests harmless that their scripts no longer wait for;
* `Books`: only the script of the active run runs; its program had sent nothing when
  the run began, the other programs have sent nothing since, and the counters are read
  when nobody runs;
* `Metered`: the benchmark's part of the counters is what it has sent if it is the TCP
  benchmark, and nothing if not (`CrossingAdds`);
* `Averages`: of the samples that a stopped thread may still append (`Left`) and
  those appended since the first average, there are two.

The theorems about the summaries have an invariant of their own, `BenchmarkInv`, of
the benchmark alone; they assume what the drivers check of their arguments, that
there is a client and no more clients than operations. It says

* `Tally`: at any time, what a worker has counted and what it has left add up to its
  share of the phase; one without a connection has counted its share as errors, but
  not, over TCP, that of the warm-up;
* `Joined`: when there is a summary every worker has returned, so that the totals are
  those of final counts.

What is left is arithmetic: the totals are sums over the workers (`Total`, a
recursive function), `SharesAddUp` says that the shares of any number of operations
are all of them, `TotalAdds` that the total of sums is the sum of the totals. They are proved
by the least worker at which they fail (`Climbs`). `SuccessesAreComplete` also needs
that every worker has a measured operation (`EveryoneMeasures`): a TCP worker without
a connection would otherwise forget its warm-up and leave no error.

Every safety property of the passing runs is proved. Only model-checked is what is
out of the prover's reach, liveness: `CommandsReturn`, `RequestsReturn`, `QuitEndsThread`, `RequestsAnswered`,
`FreeDescriptorsAreUsed`, `CallsGetThrough`.

## Not modelled

* `measure_cpu`, the plots, the batch jobs, and the local sampling of the scripts
  without a collector: they read counters and format files.
* Logging, statistics of latencies, CSV output, the values of samples.
* Creating sockets, name resolution, arguments: a session begins connected, or fails.
* `ping` and `quit` of the collector, which change nothing that the others see;
  `EventLoop::stop`, which no program calls.
* The accept loop of the RDMA server. Its preload is a sequence of `set`s of
  `RdmaStore`, and what it leaves is an initial table of `OneSided`.
* The verbs' memory registration and permission checks; allocation failure; key
  comparison byte by byte (keys that differ are different model values; a key that
  contains NUL bytes cannot be typed).

## Plan

1. `Preload`: the preload and the key range of the benchmark clients
   (`rdma_main.cpp:278-287`), composed with `RdmaStore` and `OneSided`.
2. The accept loop of the RDMA server, with connections of both kinds.
