# Models and proofs of cpp_codes

TLA+ models of the repository's programs, the TLC runs that check them on small
instances, and TLAPS proofs of what can be shown for every instance. The
repository is a collection: two trading pipelines, clients of an exchange's depth
stream, small network servers, containers, parsers, and many experiments. The
models cover the parts that have logic of their own which tests hardly reach.

## 1. Inventory

### hft_test: a trading loop in two processes

| component | state | operations | interacts by |
|---|---|---|---|
| `SPSCRing` (`include/spsc_ring.h`) | `head_`, `tail_`, `data_` | `push`, `pop` | shared memory, acquire/release |
| strategy, thread A (`run_thread_a`, `Strategy`) | position, `active_order_`, `pending_execs_` | book event, decision, drain of exec updates | ring A to B with an eventfd, ring B to A with an eventfd |
| `OmsEngine`, thread B | `orders_`, `next_clordid_`, `running_`, epoll set | doorbell, requests, send, receive, shutdown | the rings, a TCP socket (edge-triggered, non-blocking) |
| SimEx (`simex_server.cpp`) | the client, the order in hand | receive, ack, fill | TCP, blocking sends |
| framing (`protocol.h`) | receive buffer | `pack_frame`, `unpack_frame` | byte stream |
| synthetic market data, book | random walk, levels | next event, add levels | called by thread A |
| telemetry | samples | record, percentiles | called by both threads |

Hard here: the order in which the doorbell is silenced and the ring emptied;
edge-triggered reads; an acknowledgement that already counts as the end of an
order; sides derived from the parity of ids; results of pushes that are ignored;
two processes that send to each other without reading; shutdown while either
waits; SIGPIPE; frames cut anywhere.

### frame_work: a pipeline of threads

`FeedHandler` or `BinanceDepthConnector` -> `StrategyShard`s -> `OmsRisk` ->
`TradeIo`, one thread each, joined by `SpscQueue`s that drop when full, a
`Logger` that drains one queue per thread, one `running` flag, and the joins in
`main`. Each stage keeps only the item in its hands and its loop position; the
connector also a book. Hard here: per-symbol order across shards and round-robin
polling while queues drop; where every event ends; what the logger still prints
at shutdown; a `ws.read` that the flag does not interrupt; a book built of partial
messages, without a snapshot.

### rust_cpp: depth stream clients

`md.cpp`, `md2.cpp`, `md3.cpp`, `md4.cpp`, `md5.cpp` and `src/main.rs` keep an
order book by the same protocol: connect, snapshot, bridge, follow; after an
error again. State: book, `last_id`, the stop flag, the number of updates. They
differ in the JSON library and in what they do about errors while they bridge.
Hard here: overlaps between snapshot and stream, gaps, errors ignored in the
bridge, half-readable messages, Ctrl+C at any time.

### net: servers that print what clients send

`epoll`, `select` and `iouring` each have a server and a client, and any client
works with any server. State: descriptors, the events vector or the ring and its
requests, the lines in socket and stream buffers. Hard here: closing on a
shutdown with data unread, partial batches, request ownership, one `getline` per
event, short sends, system calls that fail.

### Programs and parts of their own

| directory | state | hard |
|---|---|---|
| `treap` | nodes with random priorities | rotations and merges that keep order, heap and ownership |
| `std_vector` | arrays with one owner | elements that throw while they are copied or moved |
| `std_function` | callables behind a base pointer | deletion before the copy in `operator=` |
| `atoi`, `others/iterator.cpp` | sign and sum | overflow tests at the last digit |
| `rdtsc` | samples, sums in words that wrap | overflow checks one step late, 0 as "none" |
| `mmap` | a region shared by a writer and a reader | torn and missed lines, leftovers of a killed run |
| `mem_order` | store buffers | which outcomes each memory order allows |
| `perf_lab/malloc_compare.cpp` | live sets over one allocator | every pointer freed once |

## 2. Modules

| module | models | role |
|---|---|---|
| `BoundedFifo` | what a ring promises | abstract specification: atomic put and get |
| `SpscRing` | `SPSCRing`, `SpscQueue` | every atomic access a step; refines `BoundedFifo` |
| `TradingLoop` | hft_test, both threads and SimEx | uses rings as sequences, which `SpscRing` justifies, and whole frames, which `Frames` justifies |
| `Frames` | hft_test's framing and the two receivers | bytes on a stream |
| `DepthBook` | both `OrderBook`s and what feeds them | one module, the feeder chosen in `Init` |
| `Pipeline` | frame_work without its log lines | queues as sequences |
| `Logging` | frame_work's logger and everyone who logs | queues as line counts, with the loads of their indices as old as `SpscRing` has them |
| `BinanceSync` | rust_cpp's six clients and the exchange they follow | one module, the client chosen in `Init` |
| `EchoNet` | net's three servers and three clients | the kinds chosen in `Init` |
| `Treap`, `Vectors`, `Callables`, `Numbers`, `CycleStats`, `SharedRegion`, `StoreLoad`, `Churn` | the programs of the last table | each its own state machine |
| `MC*` | instances for TLC | constants; `MCPrograms` also chooses among programs |
| `*_proofs` | theorems | section 5 |

**SpscRing.** `push` is `PushCall` (the argument), `PushFull`/`PushRoom` (the two
index loads and the test), `PushWrite` (the slot), `PushPublish` (the release
store); `pop` likewise. An acquire load of the other thread's index may return
any value between the last one seen and the newest (`Visible`): this is what the
C++ memory model allows for one variable written by one thread. The slots
themselves are read and written in the order of the steps: `NoDataRace` catches a
slot accessed before the index says so, that is a wrong order of accesses or a
load of the index skipped, but not every wrong memory order (a relaxed store of an
index has no effect here). The mapping to `BoundedFifo` reads the queue off the
slots from `tail` to `head`.

**TradingLoop.** Actions carry the names of what the code does at that point;
`aPc`, `bPc`, `xPc` are the places of thread A, thread B and SimEx. A TCP
direction is a sequence of whole frames with a bounded buffer; `edge` is the
undelivered edge of the socket, `todo` the handlers left from one `epoll_wait`.
Left out: prices, sides and times (no step depends on the side a request
carries, because `side_for_cloid` derives it from the id; prices decide only
which of the allowed decisions is taken, so the choice is free); exec types
SimEx never sends; EINTR. `SendLost` and `SendKills` are the outcomes of a send
to a peer that is gone. The ring of reports refuses what does not fit, and may
refuse what does, since the push may load an old `tail_` (`MayLookFull`); nobody
looks at the result, so an update is then lost to the strategy (`ReadReport`). The
program has 1023 slots for 2000 events (`kRingDepth`, `kEvents`), so drops are
possible there too. `EpollFails` is a failure of `epoll_wait` or of what
is set up before the loop, which ends thread B.

**Frames.** A byte is a frame number and a position; the sender puts a frame on
the stream in any pieces, the receiver takes any pieces and parses as
`parse_exec_reports` and `parse_messages` do: `RecvPiece` appends what arrived,
`ParseFrame` is one turn of the parser's loop, `ParseEnds` its `break` with the
`erase` of what was handled. A frame may be short or of another type, which both
parsers skip.

**Pipeline.** An event keeps symbol, number and size. Sizes are in tenths and
quantities in fiftieths so that four fifths of a size is an integer. `shardOf` is
any function for the feed handler (the hash) and constant for the Binance
connector, which `main` wires to the first shard. No stage looks at a log queue
or at the result of a log push, so log lines are left to `Logging`. A stage may find
its input empty although it holds items (an old `head_`) and look at the flag again,
and have its output refused by a queue with room (an old `tail_`, `MayLookFull`).
The connector that leaves its loop closes the websocket (`BinanceClose`), which blocks until the peer answers;
`LiveExchangeSpec` assumes that it does, as for `ws.read`. The history variable `fate`
counts, per symbol, events made, sent and lost.

**Logging.** A source looks at the flag, may push up to `PerRound` lines, looks
again. A queue is the number of its lines. What its two sides know of it may be
old: `freed` counts the pops the source may not have seen, so a push may be refused
by a queue with room; `seen` counts the lines the logger is bound to see, because
their push happened before one it has read, in whatever queue, so a pop may find
nothing in a queue that holds lines as long as `seen` is 0. No push is ordered with
`main`'s store of the flag, so a line pushed before it may stay behind, and the
model has those runs. The history variable `owed` fixes, when the logger reads that
the flag is cleared, the lines it is then bound to see; these the drain after the
loop must print. A stale TRUE needs no state of its own: reading it is the same as
having looked before the store.

**DepthBook.** The connector subscribes to `@depth5@100ms`, the exchange's partial
book stream: a message lists the best `Depth` levels of each side as they are, and a
level that is gone or has fallen out of them is just not listed. `HandleMessage`
changes some levels of the exchange's book, lists the best of the result
(`Listed`), and applies the list as `apply_deltas` does - or drops the message whole,
which is also what happens to every message whose members have other names than
the `b` and `a` of `binance_depth.cpp:86-88` (the spot market's partial messages say
`bids` and `asks`; no book is ever built of them). `shown` is what was ever listed,
`sure` the part of it the exchange has not changed since.

**BinanceSync.** The exchange is external: a book that changes level by level,
each change one update id, and a stream of updates that summarise ranges of ids.
Snapshots may be older than the newest state and older than the stream. Bids and
asks are handled alike, so there is one side. Nuisances are text that is no
update and updates behind which others were lost. A reply or an update may also
be damaged: a side missing (`partial`), or sizes that are no numbers (`number`).
What becomes of it depends on the JSON library, an external part modelled from
the calls made on it:

| client | library | side missing | size no number |
|---|---|---|---|
| `md` | nlohmann | null, iterated as empty | `stod` throws |
| `md2` | nlohmann without exceptions | as `md` | `stod` throws |
| `md3` | RapidJSON | assertion ends the process (`RAPIDJSON_ASSERT`) | `strtod` reads 0 |
| `md4` | simdjson | throws | reads 0 |
| `md5` | glaze | stays empty | reads 0 |
| `main.rs` | serde | error | reads 0 |

That `md3` ends in an assertion supposes a build without `NDEBUG`; with it the
missing member is undefined behaviour, which is not modelled. The variable `spoilt`
marks a connection on which such a message went into the
book; `BookIsExact` speaks of the others. Attempts start from an empty book. The
snapshot's cut to 1000 levels is left out.

**EchoNet.** A unit of input is a line. `typed`, `fetched`, `used`, `sent`,
`printed` and `dropped` count a client's lines along their way: standard input, a
read of it, the handling, the connection, the server's output, or a loss.
`batch` is what is left of one `epoll_wait` or `select`; `ops` and `cq` say where
each io_uring request is, including its completion not yet seen. A terminal
hands over one line per read, a pipe all it holds. Each system call of the
server may fail, at most `MaxFaults` times a run: setting up, the wait, `accept`
(`EpollAcceptFails`: those accepted before it stay, the others wait for the next
event; `SelectAcceptFails`), what the epoll server does with a new connection, and
reading. An `accept` that fails for ever, as with no descriptors left, is beyond that
bound. A line that reached a connection is read whole.

**Treap, Vectors, Callables, Churn.** Memory is explicit: nodes, arrays and
objects are addresses of a heap, so that something lost, shared or freed twice is
a state and not an assumption. A variable beside the heap (`content`, `held`,
`stands`) says what the calls made so far should have left. The recursion of the
treap's `insert_impl`, `erase_impl` and `merge` is an explicit stack: each call and
each return is a step, `waiting` holds the activations that wait for the one they
called, and between two steps the tree is in pieces exactly where the code has taken
it apart. `new` finds memory; which address it gives is a constant of the model.

**Numbers.** The string is not chosen in advance: each step reads one more
character, and `form` and `exact` say by the grammar and in exact arithmetic what
has been read. An `int` is 8 bits wide; 127 and 2147483647 end in the same digit,
which is what the overflow tests look at.

**CycleStats.** `uint64_t` is a word of 256 values. Differences of the counter
are a free choice, negative ones included (a counter that goes back between two
cores). The matrix of samples is one sequence, row after row, as it is filled;
`Row(j)` cuts a loop out of it.

**SharedRegion.** Every byte of the copy is a step of its own; a region may be
left over from a killed run, with its bytes, length and `done` flag, which the
writer's `memset` clears: the two atomics, then byte by byte. The bytes are not
atomic: the race is modelled as any interleaving of bytes. `early` says that the
reader last looked at the region (its length, or the flag) before it was cleared.

**StoreLoad.** A store that is not seq_cst waits in a buffer; that is what x86 does
and what both weaker orders allow.

Definitions named `...Fault` are seeded faults: plausible wrong forms of the
definition whose name they extend. No specification uses them. With a fault in
the definition's place the property it is meant for fails, which shows that
the property depends on that piece of the code.

## 3. Runs

| run | cfg | shows |
|---|---|---|
| rings | `MCRings` | the ring is a FIFO for every interleaving and delay, no slot is shared, accepted items are served; the logger over such rings prints what it was bound to know of, and ends |
| trading_loop | `MCTradingLoop` | rings smaller than the number of events, failures: order of reports, position, sends that never wait, termination |
| trading_loop_small | `MCTradingLoopSmall` | full rings and buffers: the order table, no lost wake-up, the only deadlock |
| single_active_order | `MCTradingLoopSingle` | counterexample to the README's single active order |
| decides_on_current_position | `MCTradingLoopDrain` | counterexample to the comment at `hft_main.cpp:447` |
| pipeline | `MCPipeline` | order per symbol, the fate of every event, the end of all threads, either feed, any hash |
| sync | `MCBinanceSync` | exact books, no false gaps, errors end the connection, all clients |
| sync_gap | `MCBinanceSyncGap` | counterexample to "sequence gap; need resnapshot" in `md.cpp` |
| sync_stop | `MCBinanceSyncStop` | counterexample to "(Ctrl+C to quit)" in `md.cpp` |
| net | `MCEchoNet` | what is printed and what is lost, one request per descriptor, nobody starved |
| programs | `MCPrograms` | ten programs and parts, each against what it promises |
| convert_as_documented | `MCConvert` | counterexample to the comment over `convert` in `iterator.cpp` |

What the counterexamples mean:

- *SingleActiveOrder*: `drain_execs` clears `active_order_` for any update, also
  the acknowledgement. What really holds is `FlowControl`: one order per handled
  update. It is what keeps the position within the limit (`PositionAlternates`).
- *DecidesOnCurrentPosition*: the loop takes updates from the ring before the
  decision, but `on_exec` only queues them and `on_book` drains that queue after
  `strategy_decision`.
- *GapForcesResnapshot*: with a snapshot older than the first update on the
  stream, no later update can bridge. `md.cpp`, `md2.cpp`, `md3.cpp` and
  `md5.cpp` ignore the exception and read on; `md4.cpp` and `main.rs` start over.
- *StopHeeded*: the same loop does not look at `g_stop`. Not run, but steps of
  the model: in `main.rs` a Ctrl+C during the sleep after an error reaches no
  listener, and the bridge ends after an update that did not advance the book.
- *ConvertAsDocumented*: the comment at `iterator.cpp:1-23` calls spaces before and
  after the number valid; `convert` refuses one after it. Against the same comment
  it takes "-+" for a sign, and a sum that has left the range of an `int` may come
  back into the limit before it is looked at.

What else the properties had to say, because the code does it:

- `NoFalseGaps`: `main.rs` also ends its bridge on an update older than the
  snapshot, may take the next one for a gap, and starts over (`SkipsTheSnapshot`).
  That needs four update ids, one more than the run has; the proof found it.
- `NothingLost`: the epoll server closes on `EPOLLRDHUP` without reading what
  arrived before, so lines of a client that has left may be discarded there; the
  io_uring client takes a short send for a whole one. Of these two, and of a
  connection a failed call closed, the property asks nothing but that no server
  closes a client that is still there; `PROJECT.json` notes it at each hazard.
- `InputHandled`: of lines that arrive in one read of a pipe the epoll client
  handles the first and leaves the others in its stream buffer.
- `BookKnowsWhatItSaw`: a level of frame_work's book is the exchange's only until it
  changes unlisted, and none ever leaves: the connector publishes the highest bid and
  the lowest ask ever listed, and the book crosses once the exchange left such a level
  behind. The synthetic book of hft_test keeps every level and its spread is
  negative as soon as the price has moved by more than two ticks.
- `VectorsKeepContract`: `vector_basic.cpp` leaks when an element throws while
  the initializer list is copied; `vec_1.cpp` allocates one object there, and its
  first write past it is undefined.
- `OneOwnerEach`: a `Function` whose assignment ran out of memory keeps a pointer
  to what it deleted. Self-assignment and copies of an empty one end in `wrong`.
- `ParsedRight`: of `convert` it speaks only where the digits make an `int`, and
  neither of two signs nor of spaces after the number: those are
  `ConvertAsDocumented`.
- `StatsAreSound`: which wraps are reported, which give a wrong variance; a
  module that fails to allocate leaks.
- `CallsEnd`: each call and return of a treap's recursion leaves fewer steps to make,
  and no call is deeper than the treap has nodes.
- `ReadsHoldTogether`: torn reads only while the writer writes; bytes or a flag of
  an earlier run only if the reader loaded the length, or the flag, before the writer
  had cleared a region left over. Without the `memset` it fails.
- `KnownLinesArePrinted`: the drain after the logger's loop is owed only the lines it
  is bound to know of (see `Logging` above).
- `PositionAlternates`: until the ring has dropped a fill.
- `SomeoneSeesTheOther`: of the outcomes of two loads; under the weaker orders both
  may be 0, and no order of loads and stores in time follows from the values.

`OnlyDeadlock` says of `trading_loop_small` that when everything stops, thread B
is in `send_all` and SimEx in `send_report` with both buffers full. It says so in
two parts: if one of the guards in `CanMove` holds the system has a step
(`GuardsSuffice`), and if none holds it is in that state (`BothSending`). With more
room on the wire than events (`SendsNeverWait`) it cannot happen. Nothing fails in
this run (`MayFail`); the failures are in `trading_loop` and in the theorem
`OnlySendsDeadlock`. It does not check for deadlock. `net` does not because everybody
may have left, `programs` because most of its programs end.

`MCPrograms` composes ten modules that share no variable. `program` is chosen at
the start; that one runs and the others keep one initial state, so the states are
the sum and not the product of theirs. `ProgramsInit` says which initial states are
kept.

### Bounds

- Ring: four slots, two items; the indices wrap several times and both full and
  empty occur under every delay of the loads.
- TradingLoop: five events (six in the small run) give up to five orders, more
  than one working at a time, both parities, and reports in every place at once.
  Rings have three slots (one in the small run), fewer than there are events, as in
  the program: both drop. Buffers are either one larger than the number of events or
  one.
- Pipeline: two symbols, two shards, queues of two items, two rounds of the feed,
  numbers to 4: every queue fills and drops, shards share or do not share symbols. The risk limit of 1.5 lies between the two sizes.
- Logging: two sources, the first with up to two lines a round, the second with one,
  and queues of two lines: each fills, is refused on an old index, and is behind or
  in front of the other in the last drain.
- BinanceSync: two levels with sizes 0 and 1, three update ids, two messages on
  the wire, three updates handled, one stale update tolerated (200 in `md4.cpp`).
  Two levels are the fewest for a lost change to hide behind a later one; the
  levels are symmetric (no liveness is checked in that run).
- EchoNet: two clients, the first of four shapes that between them have both kinds
  of input and both ways to end, with two lines; the second with one line. A
  submission queue of one entry, so that it is full at every second request; one
  failed system call, anywhere, `accept` included.
- Treap: four keys, one with two values, priorities that tie; four nodes in one
  map, three in two. Two addresses for each key, so that a freed one is used again. Vectors: arrays of two elements, three arrays: growth, a copy and a
  temporary at once. Callables: two Functions, two functors, three objects.
- Numbers: digits on both sides of every limit, values to 1000, strings without a
  bound. CycleStats: two loops of three samples, differences of -1, 0, 5 and 9 with
  words of 256: every sum may or may not wrap.
- Frames: three frames with payloads of 0 to 3 bytes, of which 2 are wanted, in
  pieces of up to five bytes: several frames, or part of one, in a piece.
- DepthBook: three prices either side, of which a message lists the best, and up to
  two levels that change between messages: a listed level falls behind, comes back,
  and the book crosses; four moves of the synthetic price. SharedRegion: three lines of 0 to 2 bytes.
  StoreLoad: five iterations. Churn: two threads, four allocations, live sets and
  batches of 0 to 2.

### Fairness

Weak fairness of each thread stands for the operating system's scheduler, of
`EpollTimesOut` for the 50 ms of `epoll_wait`, of `Stop` for `main`'s two second
sleep, of `Connect` for a loopback that accepts or refuses. In `Logging` each thread
is weakly fair, and the round of a source ends. `pop` in the ring gets
strong fairness because a consumer polls: it may find the ring empty again and
again, not for ever. In `Pipeline` nothing in the code bounds the connector's
`ws.read` or `ws.close`; only `LiveExchangeSpec` assumes that the exchange or the connection
eventually makes it return, and joining depends on it. No fairness for failures,
Ctrl+C or a stopped SimEx. In `BinanceSync` messages keep coming; without that
every client would wait in `ws.read` after Ctrl+C. In `EchoNet` the server with
the kernel's completions, and each client process, are weakly fair; nobody has to
type or leave, and nothing has to fail.

## 4. Properties that matter most

`ImplementsFifo`, `NoDataRace` (ring); `FlowControl`, `ReportsInOrder`,
`PositionAlternates`, `EveryOrderAccountedFor`, `NoRequestSleeps`,
`NoReportSleeps`, `OnlyDeadlock`, `Terminates` (trading loop);
`SymbolOrderKept`, `NothingVanishes` (pipeline); `KnownLinesArePrinted`
(logging); `BookIsExact`, `NoFalseGaps`, `ErrorsEndTheConnection` (clients);
`NothingLost`, `OneOperationEach`, `ServerKeepsUp`, `InputHandled` (net); and one
contract for each program of `MCPrograms`. Each relates several places of a
program; the comment above each says how.

## 5. Proofs

Proved for every value of the constants that satisfies the `...Assumption` of the
module, which says no more than the code does: sizes and limits are positive
numbers, the capacity of the ring a power of two, the symbols distinct, the
clients finitely many, a reserved value none of the data, `INT_MAX` ends in 7, a
line is shorter than the payload, quantities of a level are finitely many.

Each theorem rests on an inductive invariant. TLC was run on each of them before
it was proved, and more than once refuted a first form.

**`SpscRing_proofs`.** `RingInvariant`, from it `TypeCorrect`, `DataRaceFreedom`,
and `RingImplementsFifo`. `RingInv` is needed because the absence of races depends
on views: the producer's view of `tail` is never ahead of the real one, and the
distance to `head` stays below the capacity, so the slot it writes is none the
consumer can reach. The refinement maps `PushPublish` to Put, `PopPublish` to
Get, and everything else to a stutter.

**`TradingLoop_proofs`.** `LoopInvariant` (types, events left, flow control), from
it `TypeCorrect` and `FlowIsControlled`; `RequestsAreAnnounced`; `ReportsAreRead`,
which needs in addition that no handler is left over when thread B returns to
`epoll_wait` (`ReportInv`). `CountInvariant`: an event sends one order at most
(`OrdersPerEvent`) and an order has two reports at most, wherever they are
(`Budget`), so a wire with more room than events never fills: `SendersFindRoom`.
`InOrderInvariant`: the orders SimEx has done with, the one it handles, those on the
wire and the one being sent have successive ids (`OrdersInLine`), and so the reports
between SimEx and the strategy are Ack 1, Fill 1, Ack 2, ... from where the strategy
stands (`ReportsInLine`): `ReportsComeInOrder`. Behind the OMS the line may have gaps, for
the ring drops: what is in it is in order and newer than what was handled, at any
size of the ring, 1023 slots for 2000 events included. All orders are for one unit
(`AllForOne`), so two reports handled turn the position once (`PositionInv`), and
until a fill is dropped it alternates: `PositionStaysInRange`. `AccountInvariant`: quantities are the table's wherever they
are (`QtysKept`), and the table has booked the reports up to the one read last
(`BookedInLine`): `OrdersAreAccountedFor`. `OnlySendsDeadlock`: how the ends of
thread B, of the process, of the connection and of SimEx go together (`Endings`)
leaves no state without a guard that holds but the one where both send.
`OrdersThroughFifo`: the steps of both threads on the ring of orders are those of a
`BoundedFifo` whose last item popped is the last quantity recorded in `orders_`;
`RingImplementsFifo` says that the ring of the code is one. The ring of reports
drops what does not fit and keeps no trace of what was popped last, so it is not
stated as a refinement; `ReportsComeInOrder` is about what goes through it.

**`Pipeline_proofs`.** `OrderIsKept` and `NothingIsLost` from one invariant. Where
an event of a symbol can be is a path of places from the feed to the venue
(`Path`): its shard's queue is fixed by the symbol (`Routed`), numbers grow along
the path read backwards (`Ordered`), none is ahead of the feed's counter
(`Numbered`), and those on the path together with the lost and the sent are those
made (`Counted`). A move along the path keeps all of it, whichever stage makes it,
so each stage is an instance of the same lemmas. `SymbolList` must not name a
symbol twice; the feed's table of next numbers relies on that too.

**`BinanceSync_proofs`.** `BookStaysExact`: an update on the wire tells every level
that changed between the update before it and itself (`Sound`, `Faithful`), so a
book that is exact at `last_id` is exact after it, whatever the overlap. `TypeCorrect`;
`ErrorsEndIt`, which is about steps (`[][...]_vars`), as `TreapCallsEnd` is;
`GapsAreReal`, for which
`GapInv` gives every place between two messages on the wire the id up to which the
exchange has told everything.

**`EchoNet_proofs`.** `TypeCorrect`, `LinesAreNotLost`, `BuffersAreNotShared`, for
any number of clients, any shapes, any number of lines. `EchoInv` follows a line
from the terminal to the output and says which counters may differ while the
client or the server is where (`Input`, `Line`, `Places`), what may be left in a
batch (`Events`: an event reported with a shutdown is of a client that has left), and that a descriptor's request is in one of the submission
queue, the kernel and the completion queue (`Requests`). That the descriptor
`accept` returns is not in use is the kernel's rule of the lowest one free, and
here a lemma about finite sets (`FreeFd`).

**`Logging_proofs`.** `LoggingInvariant`, from it `LastDrainSuffices`. The invariant
says that what is owed is among the lines the logger is bound to see, and these are
in the queue in front of the others; and where in its last pass the logger is:
sources it has passed owe nothing. That lines it is not bound to see may stay
behind is no exception to it but the code's behaviour, and `owed` leaves them out.

**`Threads_proofs`.** Three programs with threads.
`SeqCstForbidsBothZero`: under seq_cst no store is buffered, and who is past its
store has it in memory, so the thread that loads last finds a 1 (`LitmusInv`).
`CopiesHoldTogether`: of each byte the reader copied, `RegionInv` says which line it
can be from, given where the writer is, and that an old one was loaded `early`. `ChurnStaysBalanced`, for any number of
threads: live sets hold distinct addresses, no two threads the same one, and the
counters are their sizes (`ChurnTypes`, `Owned`, `Counts`); the allocator's lowest
free address exists by the pigeonhole principle.

**`Programs_proofs`.** Seven programs without threads.
`EachOwnsItsCallable`: an empty Function points nowhere, so that deleting through
it deletes nothing; ownership is stated for any set of Functions (`Owns`), which
lets lemmas about one allocation (`MadeOwns`) and one deletion (`DropsOwns`) be
composed as `operator=` does.
`TextIsParsed`: what the parser holds is the exact value, clamped, refused or
wrapped, for texts of any length (`NumInv`); it proves `ParsedRight`, hence nothing
about what `ConvertAsDocumented` refutes.
`BookIsWhatItWasTold`: for any depth of the partial stream the book's levels are
those ever listed, each as last listed, and the listed ones of a book are the best
of it (`AsListed`); the synthetic book's best levels are those of the walk's
extremes (`BookInv`).
`VectorsKeepTheirContract`: each array has one owner and the length its owner
believes, through growth, copies and exceptions (`VecInv`).
`FramesStayIntact`: the bytes in the buffer, in the connection and at the sender
are one chain of whole frames from where the parser stands (`FramesInv` with
`Chain`, `Cursor`, `Handled`); a length prefix is therefore always read at a frame's
first byte.
`FiguresAreSound`: for any number of samples, `n * sum(x^2)` below 2^w leaves no sum
or product wrapped (Cauchy and Schwarz), and then the words are the numbers; a sum
beyond 2^w before its last addition has passed it at an addition that is looked at
(`CycInv`). The sums are recursive functions; that such a function exists and what
it computes is an induction over its argument, made without the library's
induction theorems by taking a least counterexample (`UpTo`, `Recursion`).
`TreapHoldsItsMap`: a function from nodes to the sets below them makes the heap a
forest (`Forest`), in calls as between them. `TreapInv` says how what waits and what
is in hand lie in it (`Layout`): an activation keeps its node and the subtree it did
not descend into (`Frag`), whatever is in hand fits on the side it is to be hung on
(`Hangs`), by key and, but for a key just inserted, by priority. A call takes a node
off (`Pushed`), a return puts one back (`Popped`, `Attached`), a rotation changes
which (`Rotated`); what the call makes of the content is `Outcome` from the moment it
has met the key (`Working`). That `destroy_subtree` visits the tree and `find` meets
the key are inductions by least counterexample, over sizes of subtrees.
`TreapCallsEnd`: the activations that wait have a node each (`OneNodeEach`, from
`Separate`), so there are at most as many as nodes and `StepsLeft` is never negative.

`Threads_proofs` and `Programs_proofs` are about each program's own specification
(`LitmusSpec`, `RegionSpec`, `ChurnSpec`, `CallablesSpec`, `NumbersSpec`, `BookSpec`,
`VectorsSpec`, `FramesSpec`, `CycleSpec`, `TreapSpec`), of which `MCPrograms` runs an instance.

Some properties were given a form that can be reasoned about, with the same
meaning: `Pipeline` counts along `Path`; `ChurnIsBalanced` speaks of disjoint live
sets instead of a sum over threads; `FramesIntact` and `StatsAreSound` of sequences
by index; `Treap` has a stack of activations instead of recursive operators, in whose
presence the prover has no arithmetic.

Only model-checked: all liveness (`AcceptedItemsAreServed`, `EveryLogThreadEnds`,
`ServerKeepsUp`, `InputHandled`, the `Terminates` of two modules), since fairness is beyond the prover, and of
`OnlyDeadlock` the part `GuardsSuffice`, which is about `ENABLED`:
`OnlySendsDeadlock` has it as its hypothesis.

## 6. Not modelled

- `perf_lab/perf_lab.cpp`, `clock_jitter.cpp`, `double_peak`, `flat-map-perf`,
  `false_sharing.cpp`, `treap/benchmark.cpp`: straight-line code around a clock;
  what it does is measure time. The threads of `false_sharing.cpp` touch different
  variables.
- `epoll_test`: one straight-line experiment with more descriptors ready than
  `epoll_wait` has room for. The rule it shows is part of `EchoNet`.
- `concept`, `crtp`, `fold_expr`, `param_pack`, `snippets`, `stl`, `template`,
  `static_init_order`: decided at compile time, or calls of the standard library
  one after the other.
- `others/brain_fuck.cpp`, an interpreter of one fixed text, and `print_type.cpp`.
- `crash`, `mem_leak`, `asm`, `cuda`, `net/conn`, `net/busy_loop`: deliberate
  crashes and leaks, one assembly function, kernels whose threads share nothing,
  scripts for kernel experiments.
- hft_test's telemetry, and averages and profit in floating point: nothing else
  depends on them.
- `rust_cpp/md.rs`, an earlier form of `src/main.rs` that is not built, and the
  build directories CMake generated.

## 7. What is left

1. The ring of reports as a `BoundedFifo` with refusals, which needs a history
   variable for the item popped last.
2. Termination of the trading loop and of the pipeline from their inductive
   invariants, once the prover takes fairness.
