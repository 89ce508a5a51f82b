# A formal model of RTI Perftest Lite

RTI Perftest Lite measures latency and throughput between a publisher process
and a subscriber process over RTI Connext Micro. These TLA+ modules model the
protocol the two engines run, the threads inside each of them, the latency
statistics, the life of an engine from its call to its return, and the program
around it; TLC checks them on small instances and TLAPS proves every safety
property of theirs for every instance. File names below are relative to the repository.

## 1. Inventory

| Component | Code | State | Operations |
|---|---|---|---|
| Publisher engine | `src/core/perftest_lite_pub.c` | `PubCtx`: match counters, `finished_remote`, the binary semaphore, latency statistics and history, `last_seq`; locals `seq`, `total` | wait for a match, warm-up burst, send loop, wait for a pong, result, FINALIZATION retries, shutdown; listener callback for pongs |
| Subscriber engine | `src/core/perftest_lite_sub.c` | `SubCtx`: `total_received`, `last_seq`, `lost_samples`, `finished`, `matched_pubs`, throughput figures | wait for a match, reset, poll, capture the result, shutdown; listener callback for pings (loss accounting, echo) |
| Middleware adapter | `src/middleware/middleware_micro.c` | the singleton `MicroMW`: registry, participant, two topics; writers and readers | `init` and its unwinding, `create_writer`, `create_reader`, `write` (also zero copy), `take`, match callbacks, `shutdown` |
| RTI Connext Micro | external | queues, discovery | delivery, matching |
| OS layer | `src/os/` | the semaphore | take with timeout, give, clock, sleep |
| Sample types | `src/type/` | one sample | create, setters, getters, size validation, copies |
| Command line | `src/core/perftest_lite_args.c` | `PerftestLiteInputArgs` | parse, validate, defaults |
| Build | `CMakeLists.txt`, `src/core/perftest_lite_config.h` | constants | roles, sample type, transports, sizes of queues |
| Dispatch and results | `src/core/perftest_lite_main.c`, `src/app/` | result storage of one size, not initialised | validate, run one engine, render, exit code |
| Renderers | `src/render/` | the static `g_role` | begin, row, end |
| Embedded example | `examples/embedded/` | none | calls `perftest_lite_main` itself |
| Memory checkpoints | `src/middleware/memory_checkpoint.c` | none | output |

**Interaction.** The publisher writes on the *ping* topic and listens on *pong*;
the subscriber echoes on *pong* what it must answer. In each process a
middleware thread runs the listener while the main thread sleeps, polls or
waits; the two share the context struct with nothing but `volatile` between
them. One test is: both sides match, a burst of INITIALIZATION samples, a
one-second settle sleep, DATA and DATA_PING samples until the time is over, and
FINALIZATION, repeated up to ten times until its echo comes back.

**What is hard.** The reset of the subscriber's statistics races its callback.
A pong may come after its waiter gave up. Stale echoes of the warm-up must not
be taken for answers. Best-effort samples are lost anywhere, the last ones and
FINALIZATION included; FINALIZATION is also duplicated. Discovery is four
independent events, and the publisher waits for one of them. The history is
sorted while the callback appends. The listener is live before the endpoint it
belongs to is complete, and until the participant is deleted; a dozen calls may
fail on the way up, and each early return has a cleanup of its own. `PROJECT.json` lists each such hazard at its
line, with the properties that would notice it going wrong.

**What makes it correct.** The loss count is exact; the reports of the two
sides fit together; in strict reliable mode no latency sample is missing; a
wait is answered by its own pong; the handshake at the end misleads neither
side; a finished report does not change; both processes end; the percentiles
are read from recorded elements and are percentiles; no callback uses what does
not exist; every return gives back what it holds, but for what the code never frees
(the adapter's structures for the two endpoints) and what its early returns
forget; a zero copy loan is never lost silently; the exit code and what is rendered agree with
what happened.

## 2. Modules

`Dds.tla` - the transport as the engines see it. A topic is the log of the
samples sent plus the index of the last one taken, so the publisher's and the
subscriber's positions in it are comparable. The QoS of `micro_create_writer`
decides what may be missed: anything in best effort, what a KEEP_LAST writer
has overwritten in the reliable zero copy build (`MayMiss`), nothing with a
reliable KEEP_ALL writer, which refuses writes when it is full (`Full`).
Matching is four events; a writer that has not matched sends to nobody.

`Publisher.tla` - one action per step of `perftest_lite_publisher` and
`run_one_size` between two points where another thread can matter, and the pong
callback. `pub_pc` is the main thread's position: `await` (line 384), `warmup`
(173-183), `loop` (205), `take` (226), `final` (426), `done`.

`Subscriber.tla` - the same for `perftest_lite_sub.c`. Each access of the
callback and of the main thread's reset to a shared field is a step, and
`x += y` is a load into `register` and a store, so lost updates are possible.
Handling one sample takes up to seven steps, between which the main thread may
reset, report or shut down. `received` is a history variable.

`PerftestLite.tla` - the composition: four threads and discovery interleave.
It states the properties and the parts of the inductive invariant.

`Session.tla` - the abstract test: numbers used and sent, numbers counted and
lost, and the order in which the two sides end. `PerftestLite` implements it
(`S == INSTANCE Session WITH ...`, `SessionRefined`): `used` is the publisher's
`seq`, `sent` its `total`, `counted` and `lost` the subscriber's two counters,
`answered` is `finished_remote`, `stopped` the deleted participants. The point
of the refinement is that the counters, which are loaded and stored in separate
steps and reset by another thread, only ever move as one accounting would.

`LatencyStats.tla` - the publisher's statistics in a build with a latency
history, field by field: `Publisher.tla` treats the handling of a pong and the
filling in of the result as one step each, and this module opens them up.

`Build.tla`, `Middleware.tla`, `Lifecycle.tla` - one engine in one process.
`Build` says which transports a build has. `Middleware` has the calls of the
adapter. Its `init` is the sequence of the calls that may fail (`InitSteps`,
which depends on the transport and the discovery plugin), and `MicroInit(n)` is
`init` when the n-th of them fails; nothing in it is undone. `create_reader` is
four steps, because the listener may run from the second one on; what it, a
writer and the static assertions allocate (`reader_ctx`, `writer_ctx`,
`name_copies`) outlives them. A zero copy write
is a loan that is written, or fails and is discarded. `Lifecycle` is the
engine's main thread around these calls, each early return with its own list of
cleanup calls (`Exit`, `CleanUp`), against the listener callback, which goes
through the things it needs one by one (`cb`, `Needs`). The test itself is the
position `run`, in which only the writes are shown.

`SampleType.tla`, `CommandLine.tla`, `Program.tla` - the program around the
engines. `SampleType` gives the two types' sizes. `CommandLine` parses one
option per step, so that argv need not be enumerated before. `Program` goes from
`main` to the exit code; an engine in it is its outcome, the samples it writes
(kind and size) and the row it fills in, as the set of the fields written.
`MCProgram.tla` has the values of its constants.

`PerftestLite_proofs.tla` (types, the end of the test), `Account_proofs.tla` (loss,
reports and the refinement; it builds on the former), `Strict_proofs.tla` (strict
latency; it builds on both), `LatencyStats_proofs.tla`, `Lifecycle_proofs.tla` and
`Program_proofs.tla` - the theorems. The inductive invariants they need are stated
at the end of the modules they are about, where TLC checks them too.

The modules fall into four specifications: `PerftestLite` (a test), `LatencyStats`
(its statistics), `Lifecycle` (an engine's resources) and `Program` (the
process). Each treats as a step, or leaves open, what another one details:
`Program` lets an engine fail with the codes `Lifecycle` gives its early returns,
`Lifecycle` lets a test write and receive anything, and `PerftestLite` starts
where `Lifecycle` has passed its `Await`'s guard and ends with its shutdown.

The definitions marked "mutant" are not part of any specification: each is a
definition of the model with a plausible bug, and it must break the property it
is paired with in `PROJECT.json`.

## 3. Assumptions

**The settle sleep.**

After the warm-up the publisher sleeps for one second and then starts. Nothing
in the code checks that the subscriber is ready by then. The constant
`SettleSuffices` makes this explicit. With it, the step out of the warm-up
(`SettleDone`) happens only when all four endpoints have matched, the subscriber
has reset its statistics and polls, and no warm-up sample is left in a reliable
queue or in a callback (`Settled`). In best effort, warm-up samples and their
echoes may be delayed for ever, into the test and beyond it. The run
`late_match` drops the assumption and shows what it protects `finished` and the
match from (`SubscriberStops`). The counters are no better off: `MCLossy.cfg` with
`SettleSuffices` FALSE violates `LossExact`, because the reset of lines 163-165
runs beside the callback. The passing runs say nothing about these three races.

**Quiet set-up.** `Lifecycle`'s `QuietSetup` says that no sample arrives before
both endpoints of the process are complete. A match may. The code does not
ensure it; the other side normally needs far longer to discover a new reader
than this side to return from `create_reader`. `early_callback` drops it.

**Constants.** `LatenciesFit` says that no latency reaches 2^32 us (71 minutes),
beyond which the history, which holds 32 bits, is clamped (`Clamped`) and no
longer comparable with the 64 bit extremes. `HistoryFits` says that the unsigned
product `n * 99u` does not wrap, which nothing in the code checks: with it false
the percentiles are those of other positions (`UIntMod = 128` in
`MCLatencyStats.cfg` violates `PercentilesCorrect`). Both are hypotheses of the
theorems that need them. `CountFirst` says that the build may store
`lat_history_count` before the element (C leaves the order to the compiler).
`LayoutAssumption` types the sizes that the IDL and the configuration compile in.
Each constant's range is an assumption of the module that declares it.

**qsort.** It is taken to do what its contract says: `Sorted` is the set of the
ascending rearrangements of the first elements, and `SortHistory` picks one. What
the callback appends meanwhile lies behind those elements, with one exception: a
late pong whose element was counted before the sort and is stored during it
(line 105). Then `SortOverStore` takes the place of the two steps, and leaves in
each sorted place any of the elements or the new one (`Torn`).

**Micro.** These are taken from how the code uses the library. No listener
runs once the participant is deleted. A participant with static discovery
matches no writer before it has been told of it (so a DataReader whose
`assert_remote_publication` failed, and whose listener data is freed, is never
called). `DPSE_Remote*_assert` copies what it is told and takes over neither of
the two names the code duplicates for it. A factory that is registered is the
registry's. A reader gets samples only after its match. A process whose middleware
fails in `init` never gets a reader, so its leaked participant calls nobody.

## 4. Runs

| Run | Configuration | Question | Distinct states |
|---|---|---|---|
| `strict` | reliable, KEEP_ALL, `-latencyTest`, burst 3 over a queue of 2 | is every sent sample measured, is every wait answered by its own pong, does the publisher end although it waits without a timeout? | 16,644 |
| `lossy` | best effort, throughput, every second sample a ping, any write may fail | is loss counted exactly, is the handshake safe, do both sides end? | 186,526 |
| `zcopy` | reliable, KEEP_LAST 1 | is what a reliable reader misses counted? | 48,216 |
| `strict_lossy` | best effort, `-latencyTest` | the wait with its timeout, late pongs | 160,675 |
| `lifecycle` | every transport, both discoveries, both roles, any call failing; 2 loans | does the callback ever use what is not there, and what is left behind? | 7,808 |
| `program` | 12 builds, 6 layouts, up to 2 options, 5 ways to set arguments | are the defaults accepted, the wire sizes and the exit code right, the fields rendered written? | 2,242,872 |
| `latency_stats` | history of 3, up to 4 pongs, 3 latencies | are the percentiles in range and right? | 819,818 |
| `stale_pong` | as `strict_lossy` | does a wait return only for its own pong? (no) | |
| `late_match` | best effort, `SettleSuffices` FALSE | does a subscriber that handles FINALIZATION stop? (no) | |
| `percentiles_race` | as `latency_stats`, `CountFirst` FALSE | are the percentiles always those of a sorted history? (no) | |
| `early_callback` | as `lifecycle`, `QuietSetup` FALSE | is there a pong writer whenever an echo is written? (no) | |
| `null_nic` | as `program`, no options | is NULL replaced by the documented default? (no) | |

`lossy` and `zcopy` also check `SessionRefined`. `lossy` (`FinishInv`, `AccountInv`),
`strict` (`StrictInv`), `latency_stats` (`StatsInv`), `lifecycle` (`LifecycleInv`) and
`program` (`ProgramInv`) check the inductive invariants of the proofs.

**Bounds.** `MaxSeq = 3` samples give a first sample, a gap and a trailing
sample, or two losses in a row, each a ping or not; a send loop may end before
any of them. `FinalAttempts = 2` (ten in the code) is enough for a lost and a
repeated FINALIZATION. `InitBurst` is 3 where the burst must overflow the queue
of `MaxSamples = 2` (the code's latency default, against a burst of 50) and 1
elsewhere: one echo is enough to be stale. `LatencyCount = 2` mixes DATA and
DATA_PING. For the statistics, four pongs over a history of three reach the
full history, and `UIntMod = 1024` leaves the product unwrapped (`HistoryFits`),
as 2^32 does for histories below 43,383,509 elements. `latency_stats` has
`CountFirst` TRUE, which allows both orders of the two stores. In `lifecycle`
any call may fail wherever the code goes on after a failure too (the writer, the
history, a write); the counters
(matches, pongs) are Booleans, since only their first change is looked at, and
two loans are enough to have one written, one held, and none left. In `program`
`Values` and the layouts sit below, at and above each bound the parser and the
types test; two options suffice for one to follow, override or swallow another.

Deadlock is not checked: the processes stop at the end of a test, an engine when
it has returned, the program when it has exited. The liveness properties say
that they do.

**Properties.** Safety: `LossExact` compares the two counters with the history
of what was received, gap by gap, between any two callbacks. `ReportsReconcile`
relates the two processes' reports. `LatencyComplete` and `TakeAnswersPing` are
about the strict mode. `FinishAgreement` and `FinishedIsFinal` are about the
end of the test. `PercentilesCorrect` uses the definition of a percentile
instead of the code's index. `SessionRefined` says that nothing outside the
abstract test happens.
`CallbackSafe` is about all ways out of an engine at once: whatever the callback
uses next exists. `ReturnReleases` compares what is still allocated at each return
(`Held`) with the leaks of the code. Every engine that came past its test of the
endpoints leaves the MicroReader and the MicroWriter (`middleware_micro.c:818`, `:767`), and
with static discovery the topic and type names duplicated for the two assertions
(`:338`, `:358`): `micro_shutdown` frees none of them. That is `AdapterLeaks`, and after
a success exactly that is left. `Leaks` adds the participant and the UDP property when the
middleware fails, and the sample and the history when the log file cannot be
opened. `LoansAccounted` is a conservation law over writes, failures
and discards. `WireSize` and `RendersOnlyWritten` relate what was written by one
function to what another reads much later. Liveness: `PublisherStops`,
`SubscriberStops`, and `AwaitEnds`, by which a misassigned DPSE object id would
be seen.

**Fairness.** Weak fairness of both main threads (the OS schedules them; a sleep
or a timeout ends), of a callback that has begun, and of the matching of each
endpoint while both processes live. Delivery is fair only in reliable mode, by
retransmission, while both participants exist. In best effort no delivery is
ever promised. A reliable publisher in strict mode therefore ends only if its
pongs come. In `Lifecycle` the main thread is fair, the match of a discoverable
reader happens, and a callback that has begun goes on; nothing is said of
samples. `strict` sets `WriteMayFail` to FALSE, because an echo the pong
writer refuses blocks it for ever, as `doc/troubleshooting.md` says.

**What the violations show.** *stale_pong*: the binary semaphore is not emptied
after a timeout, so a late pong answers the next ping, and strict ping-pong
runs one pong behind from then on. *late_match*: `ctx.finished = 0` after the
match can erase a FINALIZATION already handled; its echo has ended the
publisher's retries and the subscriber polls for ever. It takes a subscriber
whose ping reader matches only during the retries, at the end of the test.
*percentiles_race*: the count is read again after `qsort`, which suffices for
percentiles that descend even where an element is stored before it is counted. *early_callback*:
`create_writer` may return NULL and leave a DataWriter that the peer matches;
the NULL test comes after `create_reader`, whose listener is already live.
*null_nic*: the header promises defaults for NULL that only
`perftest_lite_input_args_init` has.

## 5. Theorems

All are about the specifications as they stand, for every value of the
constants that satisfies the named assumptions.

* `Typing` - `TypeOK` and `CursorOK`. They are inductive only together: a
  callback takes its sequence number from the sample it handles, which must be
  within the log. `WriteGrows` and `TakeTypes` say what a write and a take do to
  the logs.
* `FinishInvariant`, `FinishAgrees`, `FinishFreezes` (assuming `SettleSuffices`)
  - `FinishAgreement` alone is not inductive: it says nothing of the
  FINALIZATION echo on its way. `FinishInv` follows the sample through the
  system: it is sent only by a publisher past its loop (`FinalIsLate`), at a
  time when the subscriber has reset its statistics; nothing but FINALIZATION
  follows it (`FinalIsLast`); the subscriber sets `finished` before it echoes,
  nothing clears it, and so every echo on the pong topic, and the publisher's
  flag, imply it (`FinishedFirst`). Since later samples are all FINALIZATION and
  `finished` is tested first, no counter moves again.
* `AccountInvariant`, and from it `LossIsExact`, `ReportsAgree` and `Refines`
  (assuming `SettleSuffices`) - `LossExact` speaks only of moments between two
  callbacks, and a callback changes the counters in several steps, each a load
  into its register and a store. `AccountInv` follows the books through them. A
  ledger relates the publisher's `seq`, `total` and failed writes to the numbers in
  the log (`SentSeqs`, `LogOrdered`, `PubLedger`); the numbers on the log beyond the
  reader's cursor are above `last_seq` (`CursorAhead`); `Counted`, `NoneMissed`,
  `LostUpTo` and `ExactTo` say, for each position of the callback, up to which number
  the total and the loss are already right, with the amount that is in the
  register but not yet in the counter. `SkippedCount` and `MissingCount` are the
  cardinality arguments: a gap in the log is as many missing numbers as the
  difference says. `ReportsReconcile` follows from the two ledgers. `Refines`
  takes every step of the implementation to a step of `Session` or a stutter;
  most are stutters by their `UNCHANGED`, and for the others the guard of the
  abstract step (what is counted was sent, what is lost was not counted) is a
  part of `AccountInv` (`PublisherRefines`, `SubscriberRefines`).
* `StrictInvariant`, `LatencyIsComplete`, `TakesAnswerPings` (reliable topics,
  `-latencyTest`, assuming `SettleSuffices`) - neither property is inductive: both
  rest on there being one sample under way. `StrictInv` says where it is. Outside a
  wait nothing is (`Drained`, `NothingOut`); in a wait the last ping is either
  in the ping topic, in the subscriber's callback, in the pong topic, or
  answered with the semaphore given, and in no two of these places
  (`OneSampleOut`, `Awaited`, `Answered`).
* `HistoryInvariant`, `PercentilesAreInRange`, `StatsTyping` - the count is capped
  by `HasRoom` and only grows; the main thread found it positive; so its second
  read is positive and within the array, and n * p / 100 < n: an unsigned product
  that wraps only makes the index smaller (`IndexBelowCount`). All three hold with
  late pongs and for every size of the history.
* `StatsInvariant`, `SummaryIsOrdered`, `PercentilesAreCorrect` (assuming
  `LatenciesFit` and `HistoryFits`) - `StatsInv` says what each field holds of the pongs at each step
  of the callback (`Past(steps)` is the number of pongs whose callback is past these
  steps): the sum by its bounds (`Between`), which is all an average
  needs and spares a recursive sum; the extremes (`IsMax`, `IsMin`); the
  history as the first pongs in their order (`RecordOK`) until it is sorted and
  ascending from then on (`AscendingPongs`, with the order that shows it to be a
  rearrangement). `PercentileRead` is the counting argument: the positions up to
  the index, taken through that order, are as many different pongs not above
  the value read (`OrderCounts`, by injection). Sorting needs no induction
  because qsort is taken by its contract.
* `LifecycleInvariant`, and from it `CallbackIsSafe` (assuming `QuietSetup`),
  `ReturnsRelease` and `LoansConserved` - what a callback may use or a return may
  leave behind depends on how far the engine came, which neither property says.
  `LifecycleInv` does: `PlaceOK` ties the main thread's position to what exists;
  `CleanupOK` says that the cleanup still to be done covers every resource that is
  held but those `Leaks` names, and frees nothing the callback uses before the
  participant; `AdapterOK` says what the adapter has put on the heap for a complete
  endpoint, which is there for good, so that a success leaves exactly that;
  `CallbackOK` says that a callback has a live participant and reader, and
  that the publisher's semaphore outlives every pong, because a pong answers a
  ping and a ping is written only in `run`. `InitEffect` says what `micro_init`
  leaves behind at whichever of its calls fails. Only `CallbackIsSafe` needs
  the assumption: what a return leaves is known whatever arrives during set-up.

  `EngineTyping` is its first conjunct: the pool never hands out a loan it does
  not have.
* `ProgramInvariant`, and from it `AcceptsDefaults`, `SendsSizeAsked`,
  `ExitIsReport` and `RendersWritten` - for command lines of any length. `ArgsOK`
  says that an argument that nothing has given is the default of the build;
  `AcceptedOK` which tests have been passed at each place and that the sample has
  the size of the test from the first DATA sample on; `ReportOK` that a row is
  there exactly for a success that had storage for it, with the fields of the
  role whose columns are rendered. `DefaultSizeFits` and `SentSample` are about the
  sample types.

Checked by TLC only: the liveness properties `PublisherStops`, `SubscriberStops` and
`AwaitEnds` (fairness and ENABLED are out of the prover's reach), and the violations.
Every invariant and every step property of the passing runs is stated by a
theorem. `SettleSuffices`, `QuietSetup`, `LatenciesFit` and `HistoryFits` are
hypotheses of the theorems named, not assumptions of the modules, so that a reader sees which
results depend on them; the runs `late_match` and `early_callback` show that the
first two are needed.

## 6. Not modelled, and why

* The reader's own KEEP_LAST queue: the listener takes everything in the
  middleware's receive thread as it arrives, so the queue is taken not to
  overflow. A sample a reliable reader has received counts as taken.
* Death of a process: nothing is persisted, and no code reacts to it.
* A second run in one process: `doc/porting-guide.md:92` says it is not a
  supported lifecycle yet. (`init` would register its factories again.) The
  MicroReader, the MicroWriter and the duplicated names, which `AdapterLeaks` lists,
  would then be left behind once more by each run.
* Time: sleeps and timeouts are steps that may come at any moment. `int32_t`
  sequence numbers do not wrap within a test that fits a model.
* Throughput figures and per-second lines, the configuration banner, memory
  checkpoints and all wording: output without effect on the state.
* Code nobody calls: `wait_for_match`, `on_start`, `on_end`, `copy_metadata`,
  and `copy_for_write` of the sequence type.
* The values of QoS and resource limits that no behaviour in these models
  depends on, and the byte order and lookup of the NIC's address.
* The QNX and FreeRTOS ports of the OS layer, which repeat the Linux one.

## 7. Plan

1. What holds without `SettleSuffices`: which conjuncts of `FinishInv` and
   `AccountInv` survive a subscriber that matches late, and a theorem for them.
2. `Session`'s own consequences (what its ledger bounds), so that they need not be
   proved of `PerftestLite` twice.
3. An abstract specification of `LatencyStats` in which a pong is recorded and the
   summary taken in one step each, as `Publisher` has it, implemented by
   `LatencyStats` in runs without a late pong.
