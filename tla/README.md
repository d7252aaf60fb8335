# Verification of mpi_bcp_qos_sim

`mpi_bcp_qos_sim` is an MPI program that measures what priorities do for request
latency.  Client processes send high priority (HP) requests and wait for the answer,
and low priority (LP) requests nobody waits for; server threads (each an MPI process
of its own) answer an HP request after they have asked `serverNetLoad` other servers
and heard back from all of them.  This directory models the program in TLA+, checks
the models with TLC, and proves part of the results with TLAPS for all values of the
constants.  Paths are relative to the repository's parent: `src/src/client.c` is
`src/client.c` of the repository; comments in the modules use the repository's paths.

## 1. The system

| Part | Code | State it keeps | Operations |
|---|---|---|---|
| continuation slots | `common.c` 33-82 | `bitVector`: one bit per slot, 1 = free | `createBitVector`, `getFirstOne`, `clearBit`, `setBit` |
| topology maps | `common.c` 105-204, `mpi_bcp_qos_sim.c` 31-72 | `rankMap`, `clientMap`, `serverMap` | `calcProcInfo`, `configMaps` |
| client request loop | `client.c` | target server, warmup and sample counts, `client_keepRunning` | check and send LP, check, send and wait HP, signal handler, reports, SIM COMPLETE |
| server message loop | `server.c` | continuations, slot vector, request counts, log | one branch per kind of message |
| messages | `common.c` 206-239, MPI | two communicators, a FIFO channel per sender and receiver | `MPI_Send`, any-source receive |
| process start and end | `mpi_bcp_qos_sim.c` | arguments | asserts, start of client or server, sleep until killed |
| pacing, time arithmetic | `client.c` 186-235, `common.c` 355-400 | last send times | `client_shouldSend`, `timespec_subtract`, `compute_ipg`, `client_updateStats` |
| random choices | `common.c` 348-353, `client.c` 262-304, `server.c` 304-349 | a seed per process | `myRandom`, the search for another host, the choice of a thread |
| latency histogram | `hdr_histogram.c` (vendored) | counts per sub bucket, minimum, maximum, total | configure, record, add, reset, min, max, mean, percentile, iterate |
| phaser, interval recorder | `hdr_writer_reader_phaser.c`, `hdr_interval_recorder.c` (vendored) | three epochs, two histograms, a mutex | enter, exit, flip; update, sample; linked, not called |
| launcher | `run_sim.py` | the mpirun process | start, signal, kill |
| statistics scripts | `StatsParser.py`, `StatsAnalysis.py` | parsed logs | aggregation, plots |

How they interact: every process builds the maps for itself from its arguments, and
nothing is exchanged to confirm that they agree.  A client picks one server on another
host for its whole life and, for each request, one of that server's threads from
`serverMap`.  A server thread takes its priority, and with it the one communicator it
listens to, from its own rank.  An HP request that reaches a thread gets a slot of the
thread's vector; the slot number travels as the MPI tag of the server requests and of
the ACKs to them, and leads back to the continuation, which knows the client.  The
latency of an HP request goes into the client's histogram, whose percentiles it prints
at the end.  `SIGUSR1` stops the client loops; each client then sends `SIM COMPLETE` to
every server thread on both communicators, and a thread writes its log at the first one
it gets.

What is hard: requests of several clients interleave at one thread; replies come back
in any order over slots that are reused; a single lost or misrouted message leaves a
client spinning for ever; a send may wait for its receiver; the server logs are cut at a
moment only the message order defines; a signal comes at any statement; the subtraction
of two times changes one of them; the allocator works for small loads only; the phaser
lets writers and a sampler share two histograms without the writers ever waiting.
`PROJECT.json` lists the hazards with the line where each bites.

What makes each part correct:

- *slots*: `getFirstOne` returns the least free slot, says `INVALID_INDEX` exactly when
  there is none, and never a padding bit;
- *maps*: all writes inside the arrays, the maps agree with the layout the comment of
  `configMaps` draws, and with the priority a thread computes for itself;
- *client and server loops*: one answer for each HP request, from the server asked;
  replies counted to the request they belong to; the counters of both sides agree; every
  log written, and not before the requests it counts; nobody waits in a circle;
- *choices*: the search for another host ends, and what is chosen listens;
- *time*: requests keep the gap of their rate, latencies are true;
- *histogram*: every trackable value is counted in a range of the promised width, and
  minimum, maximum, mean, percentiles and printed lines are true of the values;
- *recorder*: nobody updates the histogram a sampler reads.

## 2. The modules

| Module | Models | Checked with | Proofs |
|---|---|---|---|
| `BitVector` | a vector as the set of its 1 bits, padding included; `getFirstOne` in closed form | `SlotAllocator`, `QosSim` | `BitVectorProofs` |
| `SlotAllocator` | one server thread and its vector: `getFirstOne` one word a step, claim, abort, release | `MCSlotAllocator.cfg` | `SlotAllocatorProofs` |
| `Topology` | the layout of the job in closed form, `server_getPriority` | used by `QosSim`, `BlockingSend`, `ConfigMaps` | |
| `ConfigMaps` | the loop of `configMaps`, one rank a step, arguments chosen at the start | by `ServerChoice` | `ServerChoiceProofs` |
| `ServerChoice` | one process after `ConfigMaps`: seed, generator, search, choice of a thread | `MCServerChoice.cfg` | `ServerChoiceProofs` |
| `QosSim` | all clients, server threads and channels of a running job | `MCQosSim`: `MCPair`, `MCShared`, `MCService`, `MCLost` | `QosSimProofs` |
| `HPService` | abstract: one request, one answer, by the thread that took it | refined by `QosSim` in `MCService` | `QosSimProofs` |
| `BlockingSend` | the same handlers send by send, when MPI's buffers are bounded | `MCBlocking.cfg`, `MCBlockedClient.cfg` | `BlockingSendProofs` |
| `TimeArithmetic` | `timespec_subtract` with the carry into its operand, `compute_ipg` | `ClientProcess` | |
| `ClientProcess` | one client from start to end: handler, loop, pacing, latency, report | `MCClient.cfg` | `ClientProcessProofs` |
| `Phaser` | the atomic accesses of the writer-reader phaser | `IntervalRecorder` | |
| `IntervalRecorder` | writers and samplers of the interval recorder, one shared access a step | `MCRecorder.cfg` | `IntervalRecorderProofs` |
| `HdrHistogram` | the histogram as operators on a record | `HistogramUse`, `HistogramIterators` | `HistogramProofs` |
| `HistogramUse` | histograms that are recorded into, added, reset and rebuilt | `MCHistogram.cfg` | `HistogramProofs` |
| `HistogramIterators` | the five iterators, one turn of their loops a step | `MCIterators.cfg` | `HistogramProofs` |

How they compose.  `QosSim` takes its ranks from `Topology` and its slots from
`BitVector`; `ConfigMaps` is checked and proved to build what `Topology` defines, and
`SlotAllocator` to compute what `BitVector` defines, so `QosSim` can use the closed
forms.  `QosSim` instantiates `HPService` with a refinement mapping.  `ServerChoice`
continues the run of `ConfigMaps` and chooses from the maps it built.  `ClientProcess`
takes for granted that a reply arrives, which is `EveryRequestAnswered` of `QosSim`;
`QosSim` in turn leaves open when a request is due and which thread it goes to, which
`ClientProcess` and `ServerChoice` settle.  `IntervalRecorder` extends `Phaser`.

Definitions whose comment begins "Mutant of X" are faulty variants of X, used by no
specification: each property is shown to fail when its variant takes X's place.

### SlotAllocator and BitVector

A vector is the set of positions whose bit is 1, over `NumInts` whole words of
`IntSizeBits` bits; `Slots` are the positions below `NumBits`.  `getFirstOne` has no
`break`: it adds up the trailing zeros of every word, which the closed form writes as a
cardinality.  `Request`, `ScanWord`, `ReturnIndex` and `Claim` are the lines of
`getFirstOne` and `clearBit`; `Release` is `setBit` on the last reply.  The thread is
the only user of its vector.  When no slot is free the tag is -1, and the first
`MPI_Send` of `serverCreateNetworkRequest` with a negative tag makes MPI abort the job
(`Abort`), before `clearBit` is reached.  `load`, chosen at the start up to `MaxLoad`, is
the number of clients that target the thread: each waits for its reply, so no more
requests are ever outstanding.

### ConfigMaps, Topology and ServerChoice

The arguments are variables, chosen once among those the asserts of `main`
(`mpi_bcp_qos_sim.c` 256-259) accept; the number of processes is a multiple of the
processes per host, as `mpirun -npernode` makes it.  A rank list with its count is a
sequence.  `T == INSTANCE Topology` gives the closed forms for the chosen arguments.

`ServerChoice` has the generator with all its bits: the product of `myRandom`, modulo
2^30, is computed in halves that fit TLC's integers.  The product in a seed overflows an
int from rank 2 on and is taken to wrap; the generator uses its last 30 bits only.
The draws of `perform_memory_task` use the same seed and come between two choices.

### QosSim

| Action | Code |
|---|---|
| `SendLPReq`, `SkipLPReq` | `client_checkSendLPReq`; `client_shouldSend` may say yes or no |
| `SendHPReq`, `SkipHPReq` | `client_checkSendRecvHPReq` up to the wait |
| `WaitHPReply`, `CountReply` | `client_waitHPReply`, the counters of `client_updateStats` |
| `Signal` | `client_intHandler` (the server's handler only sets a flag that is set already) |
| `Finish` | the end of `client_runThread` and the SIM COMPLETE loop of `runClient` |
| `AnswerHPRequest` | HP REQUEST with no network load |
| `SpreadHPRequest` | HP REQUEST: slot, `serverCreateNetworkRequest`, continuation |
| `AbortOnFullVector` | HP REQUEST with no free slot |
| `HandleLPRequest`, `HandleServerRequest` | LP REQUEST; HP and LP SERVER REQUEST |
| `HandleHPAck`, `HandleLPAck` | HP ACK and LP ACK from a server |
| `HandleSimComplete` | SIM COMPLETE and the log |

`net[<<k, s, d>>]` is the sequence of messages from `s` to `d` on communicator `k`: MPI
keeps the order between two processes on one communicator, and an any-source receive
takes the oldest message of any one sender.  A message is its kind and its tag.  A step
is a whole handler, from the receive to the last send.  With sends that never wait this
is sound: a handler touches only its own process's variables, receives first, and then
only appends to channels, so its parts commute with all steps of the other processes.
`BlockingSend` is the model without that premise.

`serverNetLoad` is an argument of each process, and a thread looks at its own only
(`server.c` 50, 130, 148, 294), so the model has one for each thread.  `mpirun` as
`run_sim.py` calls it gives all processes the same, which is the case of the constant
function; in the run `service` one host's threads have none, so that one run has both
branches of the HP REQUEST handler.

The continuations start with what `malloc` left (`MallocContents`): an LP ACK has tag 0
and counts into continuation 0 of an LP thread, which nothing ever initialised.
`AnyContents` in `MCQosSim` covers both kinds of leftover: one that a reply completes,
and one it never completes.

### BlockingSend

`MPI_Send` may return at once or wait for the receiver, as the MPI library's buffers
allow.  Here MPI keeps `Capacity` messages of one sender for one receiver; a further send
waits until one is taken, or until the receiver has posted a receive and nothing else is
there for it.  A handler is a receive, which fills `outbox` with its sends, and one
`SendReturns` for each; a thread with sends to do receives nothing.  Slots, tags and
counters are replaced by the client a message is for, as `QosSim` justifies.

The SIM COMPLETE sends are left out: a client does them when it waits for nothing any
more (`client.c` 96-111), and a thread that takes one sends nothing (`server.c` 230-233).
They may stand in a channel from a client to a thread behind that client's own requests,
where nobody else's messages are, so no circle among threads and no awaited reply can
depend on them.  Such a send may itself wait for ever for a thread that is in a circle,
as the request in `blocked_client` does.

### ClientProcess and TimeArithmetic

`timespec_subtract` carries by rewriting its second operand: `Carried(x, y)` is what it
leaves there and `Difference(x, y)` what it returns; `IsNegative` is its return value.
`client_shouldSend` tells with two subtractions whether the last send lies more than a gap
back, and `client_updateStats` leaves its carry in `lastHPReqTime`, which the next
decision reads.  The clock may tick between any two steps.  The signal may come at any
step: it kills the process before the handler is installed (`client.c` 32), is undone by
the loop's own assignment until line 118 is passed, and ends the loop after that; the
kill of the launcher may follow at any time.

### Phaser, IntervalRecorder

One step per atomic access.  The parity of the phase is the sign of the epoch.  The
sampler's `return r->inactive` is a step of its own, after the mutex is given back.
A function's locals go back to their initial values when it returns, so that states differ
by what is still in use only.  A writer's update of the histogram itself is the state
`updating`.  No epoch overflows: a writer enters only while `EpochsLeft` holds, since the
program would need 2^63 updates in one phase; `INT64_MAX` of the model bounds the updates of
a phase.

### HdrHistogram, HistogramUse, HistogramIterators

The bucket configuration is a record, the counts a function; index and range operators
carry the names of the C functions.  Shifts are products and quotients of powers of two
(`Pow2`, a recursive function).  The program computes some things in double precision:

- `LogFloor` and `LogCeil` are the integers its logarithms come to; for the floor that is
  so below 2^47 (the first argument that rounds up is 2^48 - 1), which is assumed of
  `lowest_trackable_value`; for the ceiling of 2 * 10^f it is so for all five f.
- A percentile of a number of values is rounded half up, but when it lies exactly between
  two integers, a `percentile / 100` that is no double may round it down: of 50 values,
  29% are 14 in the program.  `CountsAtPercentile` has both possibilities, unless
  `percentile / 100` is exact, so `hdr_value_at_percentile` is the set of what may be
  returned.  The percentiles of the client's log (50, 95, 99 and 100) always round up.

The 63 bits of an int64_t are `INT64_MAX` and `WidthAssumption`; an int32_t is cut by
`ToInt32`.  An iterator keeps the total of its histogram in an int32_t
(`hdr_histogram.c` 692) and compares the counts it has passed with it (616-619):
`AddedIndices` are the indices at which the iterator of `hdr_add` stops.

`samples` in `HistogramUse` is a bag beside the program that remembers the values a
histogram accepted; the properties compare the program's answers with the bag's.

In `HistogramIterators` a step is one turn of the loop of an iterator; `iter` is the
`struct hdr_iter` with its union, `shown` what the caller saw when `hdr_iter_next` last
returned true.  A percentile is a fraction; it is exact in the program's doubles for the
tick counts used.  `HalfDistances` is the logarithm in `_percentile_iter_next`: how often
the distance to 100% has been halved, which says how fine the next tick is.  The
logarithmic base is in tenths, so that the cast to an integer is visible.

## 3. What is checked

| Run | Instance | Shows |
|---|---|---|
| `slots` | 3 words of 3 bits, 8 slots, load up to 9 | the loop computes the closed form; `INVALID_INDEX` exactly when full; the least free slot while the load fits a word |
| `choice` | up to 3 hosts, 3 clients and 4 threads on each, every process | writes in bounds, maps as drawn, what is chosen listens, the search ends |
| `pair` | 2 hosts, 2+1 requests, network load 2, signals, leftover memory | counters agree; messages sent where they are heard; logs after requests, and all written |
| `shared` | 2 hosts, 3 clients of one share a thread with 2 slots, a fourth asks them, load 2 | one token per client; replies accounted; ACKs from the target; abort only when full |
| `service` | 2 hosts, two clients share a thread of load 2, 2 requests each; a third asks a thread of load 0 | every request is answered; the protocol implements `HPService` |
| `request_lost` | two clients, words of 1 bit | **violated**: two requests get the same slot, and one client waits for ever |
| `blocking` | 2 hosts, 1 client each, capacity 1, load 1, 2 requests of each kind | no circular wait among HP threads; every wait for a reply ends although sends wait and LP threads wait in circles |
| `blocked_client` | the same jobs, capacity 2, load 2, 3 LP requests of each client | **violated**: LP threads wait for each other, and a client's send to one never returns |
| `client` | seconds of 4 ns, 11 ns, rates with gaps 1, 2, 4 and none | requests keep their gap, latencies true, a signal the loop can see ends it with a log |
| `recorder` | 3 writers, 2 samplers, epochs up to 3 | flips exclusive, samples undisturbed unless another sampler overtakes, flips end |
| `histogram` | integers up to 1023, an int32 up to 3; 222 parameter sets, 4 of them used, with up to 4 of 5 values | extremes, percentiles, mean, index arithmetic, significant figures, additions |
| `iterators` | a histogram with units of 2 and counts at 4 indices, up to 2 at each, all iterators, levels finer and coarser than the units | lines true and ascending, levels reached, all seen, all iterations end |

The bounds.  A property of the allocator depends on how many words there are, where the
last one ends and whether a second word is touched: three words with padding have all of
these (the program has 157 words of 32 bits, the last one with 24 bits of padding), and a
load of 9 fills and overfills 8 slots.  In `QosSim` the interesting cases are two requests
at one thread at a time, a slot that is used again after its first request, replies of two
different servers or threads to one request, a full vector, and a server that is both
asked and asking; two hosts, two requests per client and a network load of 2 have them
all.  In `pair`, `shared` and `service` a word has at least as many bits as requests can
be held by a thread: this is a precondition of `OneTokenPerClient`, `RepliesAccounted`,
`EveryRequestAnswered` and `ImplementsService`, and `request_lost` is the run without it.
`MaxHPReqs` and `MaxLPReqs` bound the requests of each client, `Signalled` names the
clients that get a signal.  `NumWarmupSamples` is 1 where the program has 50, so that both
sides of the threshold are reached.  A second of 4 nanoseconds lets both carries of
`timespec_subtract`, and a carry left over from an earlier call, happen within three
seconds of clock.  `MaxHandled` bounds the requests of a process in `choice`: each starts from a seed
the generator left, as the ones before it did, so four from every process of every job
give the search many starting points.  In `histogram`
the width of the largest integer stands for the program's 63 bits: ranges next to it, at
powers of two and beside them are all among the parameters.  The largest int32 is 3, so
that four values in a histogram go beyond it.  In `recorder` two samplers are enough for
one to wait for the mutex while the other flips, and to overtake it after its unlock.
In `blocking` a channel holds one message and the load is 1, just the room that
`NoHPThreadsInACircle` asks for with a client per host; two low priority requests of each
client are enough for a circle of their threads.

The main properties.

- `OneTokenPerClient`: a waiting client has exactly one request, held slot or ACK in the
  system, any other client none.  This is what makes the reuse of slots and tags safe, up to
  one word's worth of requests at a thread.
- `RepliesAccounted`: a slot in use waits for exactly the replies still in flight, a free
  slot for none.
- `RequestsCounted`, `LogAfterRequests`: what the logs say and when they are written.
- `AbortOnlyWhenFull`: the FIXME at `server.c` 138-141 says that a full vector needs
  clients that do not block.  It does not: more blocking clients than slots are enough
  (5000 in the program), and the property says that nothing less does it.
- `NoCircularWait`: no set of HP threads waits in `MPI_Send` for one another.  It holds as
  long as a channel has room for all that one HP thread can wait for, which
  `NoHPThreadsInACircle` proves.  LP threads do come to wait for one another, in this very
  run; see the findings.
- `PacingExact`: a request is due when more than its gap has passed, and not before,
  whatever carries earlier subtractions left behind.
- `FlipExclusive`: what the flip is for, with samplers that compete for the mutex.
- `SampleQuiescent`: the point of the recorder.  The sample is looked up after the unlock,
  so it holds only as long as no other sampler swaps again (`NotOvertaken`).
- `AddAccounts`: `hdr_add` reports what it does not add, up to an int32 of values.
- `LinesAreTrue`, `PercentileIsTrue`: what the client's log prints is true of the
  latencies recorded, to within the resolution.

Deadlock.  `QosSim` ends in `Quiescent`, the processes' last loops, and `ServerChoice` in
`Stop`, so there the deadlock check is on and would show a process that is stuck.  It is
off where the system really stops: `slots` after an abort, `client` when the process is
killed, `blocking` and `blocked_client` when all requests are answered or threads wait in a
circle.

### Fairness

- `QosSim!FairSpec`: weak fairness of every process, and each signal of `Signalled`
  arrives.  A process is an operating system process bound to a core that spins on its
  receive (`server_receiveWrapper`, `client_ReceiveOne_spin`), so it takes its next step if
  it has one; the launcher signals the job (`run_sim.py`, `kill_sim`).  Fairness between
  the senders of one receiver is not assumed: the bounded requests make every queue drain.
  An MPI library that starves one sender for ever while others send without end is outside
  the model.
- `BlockingSend`: a send that can return returns, a process that waits for a message and
  has one takes one.  Clients need not send.
- `ServerChoice`: the search is a loop of one process, which runs on.
- `ClientProcess`: the process runs on; clock, signal and kill are left to themselves.
- `IntervalRecorder!FairSpec`: a thread inside an update or a sample runs on; nobody has
  to start one.
- `HistogramIterators`: the caller calls again until it gets false.

### Findings

- `common.c` 74-80 returns the least significant 1, as the comment at 67-70 promises, only
  while all slots in use are in the first word (proved for that case, section 4).  With
  32-bit words the 33rd request held by a thread is the first that can go wrong.  The sum
  over the words may even be the index of a slot in use: slots 0 and 32 in use, slot 0
  given back, and the first word adds 0, the second 1, and slot 1 is returned, whatever it
  holds.  `request_lost` shows the consequence with words of one bit and two clients: the
  continuation of the first request is overwritten, the replies to both count in it, and
  one client is never answered, against `README` 79-82, which has the server send an ACK to
  the client that asked.  Reaching it takes more than 32 clients that target one thread at
  a time.
- `client.c` 253-254 says of a request "Using non-blocking send", but the call is `MPI_Send`
  (255), and so are the sends of the servers.  LP requests are not awaited
  (`client.c` 127-141), so a client can have any number under way, and with enough of them LP
  threads fill the channels between each other and then wait in `MPI_Send` for one another,
  at any capacity.  `blocked_client` shows it at a capacity of 2: the send of a client to
  such a thread never returns, so that client sends no HP request any more either.

### Observations without a run

These came up while modelling; the models contain the behaviour, and the properties are
stated so as to allow it.

- SIM COMPLETE, which the comment at `client.c` 96 calls the sign that the simulation has
  completed, is sent by each client when its own loop ends; the first one closes the
  server logs.  `LogAfterRequests` is what is left of it.
- A signal between `client.c` 32 and 118 is lost, since the loop sets the flag again; one
  before the handler is installed kills the process without a log.
- `timespec_subtract` calls a difference of zero negative when the nanoseconds are exactly
  a second apart (`common.c` 361-363, against the comment at 355-357), so a request may go
  out at its gap instead of just after it.
- The cast of a latency from a long double may lose a nanosecond (`client.c` 204).
- How many messages MPI must buffer for the HP threads: the network load times the clients
  of the other hosts is enough, and one less is not: TLC finds a circle at a capacity of 1
  with a load of 2, and with two clients per host.
- `hdr_min` of an empty histogram is 0, where `hdr_histogram.h` 177-178 promises 2^63-1;
  `hdr_add` adds values above `highest_trackable_value` that the buckets cover, which
  `hdr_histogram.h` 153-155 says it drops; a logarithmic iterator with a base below 2
  never ends (`hdr_histogram.c` 917), since the base is cut to 1, so `IterationEnds` is
  checked with bases of 2 and more.  The program uses none of the three.
- An iterator cuts the total to an int32_t (`hdr_histogram.c` 692).  With more than 2^31 - 1
  values `hdr_add` may stop early or at once, and report 0 dropped, where
  `hdr_histogram.h` 152-153 promises "the number of values that are dropped when copying".
  A histogram with an int32 of 3 that has 33 once and 0 nine times, a total of 10, which is
  cut to 2, adds the zeros and silently loses the 33.  `AddAccounts` holds for totals that
  fit.  The program does not add histograms, and a client records one value a request.
- When only zeros were recorded `hdr_max` returns 0 (`hdr_histogram.c` 483-494), while the last
  percentile line, and `hdr_max` once the counters are rebuilt, show the highest value of the
  range of 0.  With `lowest_trackable_value` 1, as in `client.c`, that is 0 too.
- With two samplers the recorder may hand one of them the active histogram
  (`hdr_interval_recorder.c` 52); nothing in the program samples.

## 4. What is proved

All for every value of the constants under the named assumptions of the modules:
`BitVectorAssumption` (positive word size and length), `MaxLoadAssumption`,
`ArgumentsAssumption` and `LoadsAssumption` (the asserts of `main`), `SimulationAssumption`
(full hosts, at least two, at least one HP thread on each; types), `BlockingAssumption`
(the same), `BoundsAssumption`,
`EpochAssumption`, `ThreadAssumption` (finitely many writers), `SecondAssumption`,
`ClientAssumption`, `WidthAssumption` (63 bits at most), `UseAssumption`,
`IteratorAssumption`.

The last two are what the histogram needs and does not check.  `UseAssumption`: the mask of
the sub buckets fits 62 bits, which `hdr_init` leaves to its caller; no value is `INT64_MAX`,
which `hdr_min` takes for "no value"; `lowest_trackable_value` is below 2^47 and there are
fewer than 2^44 values in all, so that the doubles come to what the definitions say.  The
number of values need not fit an int32_t: `AddAccounts` has that as a condition of its own.
`IteratorAssumption` asks the same of the parameters, that the values of the histogram an
iterator is on fit the `int32_t` in which it keeps their number, and that no reporting level
overflows.  The client's histogram (1 to 10^10 ns, 3 figures, `client.c` 85-90) is far
inside all of it.

- `BitVectorProofs`: `GetFirstOneInvalidIffFull` for every vector with its padding bits
  set, `GetFirstOneIsLeast` as long as the slots in use lie in the first word.  The key is
  that the trailing zeros are slots in use: the padding is never cleared, so the sum
  reaches `NumBits` only if every slot is a trailing zero of its word.
- `SlotAllocatorProofs`: `ScanCorrect` and `FullPoolReported` from an inductive invariant
  `ScanInv` that says what the sum is after `i` words (`ScanWordCounts` is the step), and
  `ReturnsLeastWithinOneWord` from one that says the slots in use stay in the first word
  when the load fits a word.
- `ServerChoiceProofs`, first the loop of `ConfigMaps`: `MapsBuilt`, `WritesStayInBounds`,
  `MapsAreTopology`.  The inductive
  invariant `MapInv` gives the exact contents of the three arrays when the loop has passed
  the ranks below `rank`: entries of passed ranks are Topology's, a client's list is empty
  or its rank, and a server's lists are the part below `rank` of two blocks of consecutive
  ranks.  The steps rest on one piece of arithmetic, that block and place in it determine
  quotient and remainder (`DivUnique`), which makes ranks and places on hosts the same
  thing (`RankPlace`, `PlaceRank`, `ClientPlace`, `ClientOf`), and on what one rank adds to
  the lists of its host (`OwnHost`) and of the others (`OtherHost`).
- `ServerChoiceProofs`, then the choices: `RequestsReachListeners`.  The invariant `ChoiceInv` keeps `MapInv`
  of the loop that came before, says that the maps do not change once the choices begin,
  that the seed is one of `Seeds`, and that a chosen server is on another host; a thread is
  then an index into a list of `serverMap` that `MapInv` gives element by element.  The
  generator enters through its range only, but `perform_memory_task` runs it through a
  recursive function: `DrawsType` shows that the function exists and stays in `Seeds`, by
  induction on the number of draws.  The induction is that of the least counterexample
  (`LeastNat`, `SetInduction`), which needs no operator as a parameter.
- `QosSimProofs`, first `TypeCorrect`, `AcksComeFromTarget`, `SentWhereItIsHeard`,
  `LogsAfterRequests`.  The first three are not inductive by themselves: an ACK goes to the
  rank a continuation holds, the continuation is found by a tag that has travelled through
  another server, and the memory of a continuation starts arbitrary.  The inductive invariant `IInv` adds `MsgInv`, which says
  for every message in every channel what its kind implies about channel and tag
  (`MsgOK`); its core is `SlotOwned`: the tag of an HP server request or ACK names a slot
  that was given to a client of this server, and slots that were given once stay so,
  whether in use or free.  There is one lemma per side: `ClientStepInv` and `HandlerInv`,
  one step per action; what sending and receiving do to the channels is in `ConsumedNet`,
  `PostNet` and `PostAllNet`.  For `LogsAfterRequests` the order in a channel counts:
  `CompleteInv` says that behind a SIM COMPLETE there is nothing, and that only a client
  that is done has sent one, so the thread that takes it finds the channel empty.
- `QosSimProofs`, then the counting invariants and what follows from them, in three steps.
  - `RequestsAreCounted`, from `SentInv`: what a client has sent is counted in its own
    samples or in flight, and what is in flight loses one message with each that a server
    counts.  Totals and messages in flight are cardinalities of sets of pairs, so adding
    one to a counter adds one pair (`TotalIncrement`), and taking or appending a message removes
    or adds one place (`PendingTail`, `PendingPost`).
  - `RequestsAreKept` (`OneTokenPerClient`), `RepliesAreAccounted`, `AbortsOnlyWhenFull`,
    from `CountInv`: tokens, replies and the slots in use must be counted together.  That
    a client has one token needs each reply to find the continuation of its own request;
    that it does needs a slot never to be given out while replies for it are in flight;
    and that needs `getFirstOne` to return a free slot, for which the slots in use must
    lie in the first word.  This last part is where the number of clients comes in: all
    requests a thread holds are those of clients of its server, one of each, so by the
    pigeonhole principle some slot of the first word is free when one more comes
    (`NextSlotFits`).  The condition is `FewRequests`: a server is the target of no more
    clients than a word has bits, 32 in the program, or the vector is one word long.
    Without it the three properties are false (`request_lost`), so the theorems read
    `Spec => [](FewRequests => ...)`.  `targetServerID` never changes, so `FewRequests` is
    settled by the initial state.
  - `JobIsNotAborted` and `ServiceIsImplemented`, under `EnoughSlots`: `FewRequests`, and no
    server is the target of more clients than a thread has slots.  A thread whose slots
    were all taken would hold requests of all clients of its server but the one whose
    request arrives, which are too few (`SlotForRequest`).  The second theorem is the
    safety part of `ImplementsService`, `Service!Init /\ [][Service!Next]_(Service!vars)`.
    `PhaseInv` says in which phase and at which thread the refinement mapping finds the
    request of a client, wherever its token is; that there is one token (`TokenOnce`) makes
    the `CHOOSE` of the mapping harmless.  A step leaves all requests where they are but
    one (`ClientLocal`, `HandlerKeeps`), and for that one it is `Submit` or `Collect`
    (`ClientService`), `Serve` or `Answer` (`RequestService`), or `Answer` (`ReplyService`).
    Beyond `OneTokenPerClient` this says that a request is answered by the thread it was
    sent to, and that `Serve` finds fewer than `NumBits` clients being served.
- `BlockingSendProofs`: `NoThreadsInACircle` for any set T of server threads, under
  `EnoughRoom(T)`: for every thread of T, the clients of other hosts times what the thread
  can wait for on behalf of one of them (`Most`: the network load, for an LP thread times
  the LP requests of a client) are no more than `Capacity`.  `NoHPThreadsInACircle` is the
  case of the HP threads, for which the LP requests do not count.
  In a circle each thread has a full channel and one message more to send, and each of these
  messages is either a server request of its sender or an ACK to its receiver, so some thread
  of the circle waits for it (`SomeoneWaits`).  A circle of n threads thus has n * (`Capacity` + 1) messages under way,
  and its threads wait for n * `Capacity` at most (`NoCircle`).  That is what `BlockInv` is
  for: for an HP thread the messages under way that it waits for are those in its counter
  `replies` (`AwaitedInv`), and that counter is set only when the thread takes the one
  request of a client that no other thread has (`TokenInv`); the LP replies of
  all requests are counted into one continuation, on which no send depends and which the
  model leaves out, so for an LP thread the bound is the LP requests that have been taken
  (`UntakenInv`).  What a step does to the number of messages of any kind follows from
  what it does to one channel and to the sends of one process (`StepCounts`).  The
  instance of `blocking` meets the condition of `NoHPThreadsInACircle` with nothing to
  spare: 1 client, a load of 1, a capacity of 1.
- `ClientProcessProofs`: `PacingIsExact`, `LatenciesAreTrue`, `RepeatedMeasuresAreExact`,
  `CarriesFitAnInt`.  The invariant `TimeInv` says that a remembered time is worth the clock reading it was set
  to, and that its nanoseconds, with whatever carry is in them, stay less than a second to
  either side of zero.  For such operands a subtraction is exact and its sign
  is right but for a difference of zero (`DifferenceExact`, `SignOfDifference`), and it
  leaves such an operand behind (`CarriedLoose`).  `CarriesFitAnInt` bounds the products
  that the C code computes in an int to two seconds of nanoseconds.
- `IntervalRecorderProofs`: `RecorderTypeOK`, `FlipIsExclusive` and `SampleIsQuiescent` for
  any number of writers and samplers; `LoneSamplerKeepsSample`, that a single sampler is never
  overtaken, so that `SampleIsQuiescent` holds for it without condition.
  `EpochInv` relates the three epochs to the writers inside: what a phase has seen enter, less what has left, is the number of
  writers that carry a value of the phase.  When the flip's two numbers are equal no
  writer of the old phase is left, and `TargetInv` says that the writers of the new one
  update the histogram that is active now.
- `HistogramProofs`: the histogram for every configuration `hdr_init` accepts, every
  sequence of operations, and every iterator.
  - `TrackableValuesHaveIndices` and `SignificantFiguresKept` need the index arithmetic: a
    value v lies in bucket b and sub bucket s when v is s times the unit of the bucket and a
    rest, and s is in the upper half of the sub buckets unless b is 0 (`Located`); such b
    and s are unique, exist for every value the buckets cover, and are what
    `get_bucket_index` and `get_sub_bucket_index` compute.  Indices and ranges are in the
    same order (`IndicesInOrder`), and the loop of `buckets_needed_to_cover_value` ends
    with enough buckets, also when the next doubling would overflow.
  - `HistogramCounts` is the inductive invariant `HistInv` of `HistogramUse`.
    `Configured` says where the configurations come from.  `Good` says of a histogram by
    itself that its total is the sum of its counts (`Consistent`) and that the
    remembered extremes lie in the outermost ranges that have counts (`MaxFits`,
    `MinFits`), which is what `hdr_reset_internal_counters` can recover.  `Counts` ties it
    to the bag: the count at an index is the number of values in `samples` that have it.
    `hdr_add` folds over the indices of the other histogram, so its case is an invariant of
    a fold; sums, folds and bags are handled by induction over the subsets of a finite set,
    again as that of the least counterexample.
  - `ExtremesTrue`, `PercentilesTrue` and `MeanTrue` follow from it: the cumulated counts
    up to an index are the values up to the end of its range, so the first index that
    reaches the rank is that of the value that has the rank (`ValueAtCount`), and the counts
    the program may come to are the ranks nearest to the percentile (`CountIsRank`); the median
    of each range is half its width from the values in it at most, and the inequality is summed.
    `AddAccountsForAll`: as long as the total fits an int32_t the iterator of `hdr_add` comes to
    every recorded index (`AllAdded`), and those it cannot record it counts.
  - `IteratorsKnowTheirPlace` is the inductive invariant `IterInv` of `HistogramIterators`:
    the histogram is `Good`; an iterator knows the counts up to its index, and all of them
    behind the last (`At`); the percentile iterator's next percentile is a multiple of a
    tick below 1 (`IsTick`), is not reached without the counts at the index (`NotBefore`),
    and is beyond the last one shown; a level iterator's value has not passed its
    level (`LevelInv`).  `NextTickIs` shows that the next percentile is larger and below 1 even
    where the ticks become finer: the finer tick divides the coarser one, and the distance to
    1 is more than one tick, since the ticks are as fine as the halved distances ask.
    `LinesTrue`, `LinesAscending`, `EndIsComplete` and `StepsReachTheirLevel` follow.

Only model-checked:

- what needs fairness or `ENABLED`: `EveryRequestAnswered`, `EveryLogWritten`, `SearchEnds`,
  the waits of `BlockingSend`, the ends of flips, iterations and clients, and the fairness
  of `HPService` in `ImplementsService` (its steps are proved); they are out of the prover's reach.

Every invariant a passing run checks is stated by a theorem, some of them under the
conditions named above.

## 5. Not modelled

- Log texts, file formats, the `Server-N.hist` file (which a thread opens and never writes),
  and the number of LP samples a client reports.
- What `perform_memory_task` and `perform_compute_task` read, write and compute: nobody
  looks at it.  Their draws from the seed are in `ServerChoice`, the repeated measurement
  of the latter from one start is `RepeatedMeasuresExact`.
- Jobs whose processes are not a multiple of those per host, and `coresForHPThreads = 0`
  with HP requests, which divides by zero (`client.c` 298); a client of a job with one host,
  which searches for ever.
- Of the histogram: the standard deviation, the index offset nobody sets, addition with
  correction, printing; the iterators of a histogram whose total exceeds an
  int32 are in the model, but only `hdr_add`'s gets there in a run.
- Overflow of the phaser's epochs; the yield and sleep of its loop.
- MPI's start, the assert on the number of cores, ownership of memory at exit.
- The launcher beyond signal and kill, the statistics scripts, the portability shims
  (`hdr_thread.c`, `hdr_time.c`, `hdr_endian.h`, `hdr_atomic.h`) and the manual test: wrappers of system calls,
  text processing and plots, without state of their own that a step could spoil.

## 6. What could follow

The standard deviation of the histogram; an iterator beyond the int32 total.
