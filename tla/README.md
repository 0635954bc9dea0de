# A TLA+ model of cxl-nic

`cxl-nic` is a network interface that reorders packets and pushes them, by CXL,
into host memory or the host's last-level cache.  A packet is pushed as many
single writes that become visible in any order; a CPU that only polls memory
must still get every packet of a flow once, whole and in order.  This directory
holds TLA+ modules translated from the Python sources, the TLC configurations
that check them on small instances, and TLAPS proofs of the properties that
matter most.  Paths such as `model.py:252` are relative to `cxl_nic/`.

Contents: [inventory](#inventory), [modules](#modules-and-how-they-correspond-to-the-code),
[runs](#what-the-runs-check), [fairness](#fairness), [proofs](#proofs),
[limits](#what-is-not-modelled), [plan](#plan).

## Inventory

| Part | Source | State | Operations | Modelled |
|---|---|---|---|---|
| Delivery protocol | `model.py` | per flow four cursors, packets, slot generations, credit, halted flag; pending writes; slot contents and ready markers; global credit, round-robin turn | `receive`, `pump`, `complete` (with `_try_commit`), `acquire`, `observe_consumption`, `release`, `fail_gap` | yes |
| Trace checker | `checker.py` | an independent replica rebuilt from events: bases, cursors, credit, active slots, packets | `validate_trace`, one case per event kind | yes |
| Finite LLC | `cache.py` | sets of ways with address, bytes, dirty flag and an LRU clock; backing memory | `define`, `read`, `cpu_write`, `io_write`, `bypass_write`, `flush` | yes |
| Cache replay | `cache_replay.py` | the cache, per-flow placement policy, deferred withdrawals, what each slot holds | one step per trace event; a withdrawal served after a delay | yes |
| Timing simulation | `timing.py` | event heap, packet states, link, credit, gate, cache, CPU | one handler per event kind; nine policy arms | yes, but for statistics, the checks on them and the report |
| Integration driver, gate controller | `integration.py` | the driver's own books (window bases, releases, reports, held packets), flags, gate flag and control writes on their way | driver loop, gate sampling; starting and stopping server and guest, reports | yes, but for the conditions on counters after the loop |
| Guest CPU | `guest/integration.c` | packet count per flow, what it has read, its status word | poll marker, read, check, report, release | yes, from the handshake on |
| Transport client | `transport.py` | one stream, open or closed; a count per operation | one exchange at a time, `close` | yes |
| Schedules | `verify.py` | the driver's own copies of the cursors | random fair schedules, exhaustive two-packet exploration | as fairness, and as `Next` of `Protocol` |
| Sweeps | `timing_sweep.py`, `integration_gate_sweep.py`, `integration_matrix.py` | output directories, reports, a process for each arm | start an arm, judge its exit, read the reports, compare, write | processes and reports; not the arithmetic, nor `timing_sweep.py` |
| Scripts | `scripts/` | none | builds | no |

How they interact.  A *driver* (schedule, integration loop) calls the protocol class and is called back by nothing: `receive` when the
network hands a packet over, `pump` to issue writes, `complete` when the memory
system reports that one write is visible, `acquire` and `release` for the CPU.
Each call appends *events* to a trace; the checker and the cache replay read
that trace later and share only the trace with the class.  The guest shares
*memory* with the NIC: it polls the ready marker of the slot that its own count
of packets names, and it gives slots back by storing to their release words.  In
the integration test the driver reads those words and the guest's serial line.
The driver reaches memory through the *transport client*, one request at a time
over a stream to the server, and asks the server there for the occupancy that the
gate goes by.  A *sweep* starts the driver as a process for each arm, and learns
of it by its exit status and the report it leaves.  The timing simulation stands apart: it has packets, credit and publication of its
own, in virtual time, and shares only the cache with the rest.

Hard behaviours, and where they bite:

- writes become visible in any order, and packets of one flow are prepared in
  any order, yet are published in serial order (`model.py:248-285`);
- a slot is reused with the bytes, descriptor and marker of its last owner still
  in it (`model.py:165-186`); releases are out of order (`model.py:310-326`);
- credit is charged at issue and refunded at release against two budgets
  (`model.py:199-243`), and `pump` must share the global one;
- duplicates of packets arrive at any time and sequence numbers wrap
  (`model.py:151-164`);
- a gap is given up while everything before it is still on its way
  (`model.py:328-336`);
- the checker keeps the same books by other means and may drift, rejecting a
  legal run or accepting a wrong one (`checker.py`);
- the cache mixes lookups in all ways with allocation in admitted ways, and
  partial stores with evictions, bypasses and flushes (`cache.py:141-253`);
- a withdrawal of lines from the cache is served some events later, when its
  slot may have been released or published anew (`cache_replay.py:111-128`);
- control writes to the gate are on their way while the occupancy crosses the
  threshold again (`integration.py:152-170`);
- driver and guest work on the same memory without locks: the guest reports a
  packet before it releases it, prints a failure before it stores its status, and
  the driver holds writes of one flow until the other has moved while credit is
  kept (`integration.py:350-504`);
- in the simulation, whatever waits for credit, for its predecessor or for the
  CPU is tried again only by the handler that took the obstacle away
  (`timing.py:560`, `578`, `714`), and events of one time are kept apart by
  nothing but their number (`timing.py:370`);
- a reply bears no mark of its request, and may come after the client gave up on
  it (`transport.py:63-80`), while the driver counts what returned and compares
  with what the server did (`integration.py:550-590`);
- a case starts two processes and opens three connections in twelve steps, each of which may
  raise, and lets them go in eight, which may raise too (`integration.py:291-327`, `606-617`);
  its report is on disk before the last check (`integration.py:617-631`);
- a sweep may be interrupted or killed while an arm runs, and started again on
  the same output (`integration_matrix.py:195-235`).

What makes each part correct:

- *protocol*: each serial of each flow is handed to the CPU at most once, in
  order and intact; no slot has two owners; a write never lands in a slot that
  was handed back; credit in use is exactly that of the packets issued and not
  released; the marker in memory can be trusted by a CPU that only counts; no
  internal error is reachable; nothing gets stuck, and flows do not block each
  other except through the global budget, and there only for a bounded number
  of turns;
- *checker*: it accepts every run of the protocol and nothing that is not
  ordered delivery;
- *cache*: whatever is resident where, a read returns the last store;
- *cache replay*: a deferred withdrawal never takes away bytes of a later owner
  of the slot, and what the CPU demands is what was published;
- *timing*: events of a packet happen in protocol order, the credit is never
  oversubscribed, nothing waits that could go on, every workload ends or is
  refused;
- *gate*: a line goes where the newest sample that is old enough said;
- *integration*: no check of driver or guest fails but for a planted fault, a
  planted fault is always noticed, the guest reads slots nobody touches, and
  every run ends;
- *transport*: a reply is never taken for the reply to another request; a call
  that raised may have been carried out, once, and no later call is; every call ends;
- *sweeps*: a report says passed only if everything under it was run and every
  check held; nothing is left running by an error; executions do not mix.

`PROJECT.json` lists each hazard at its line with the properties that cover it.

## Modules and how they correspond to the code

`Mutant:` comments mark operators that are *not* part of a model.  Each is the
operator below it with a plausible bug, and `PROJECT.json` records which property
fails when it is put in its place: the evidence that the property can fail.

### Delivery protocol

`OrderedDelivery` is the promise: per flow a bounded buffer of serials, each
*new*, then *accepted*, *held* by the CPU and *settled*.  It knows nothing of
slots, writes, markers or credit.

`Protocol` is `model.py`.  State has the names of the class's fields.

| Action | Code | Remarks |
|---|---|---|
| `Receive` | `receive` 151-186 | duplicate, late, out-of-window, halted: nothing changes, so they are guards |
| `PumpCall`, `PumpIssue`, `PumpPass` | `pump` 199-243 | the nested loops as steps: a pass scans the flows from `start`, issues at most one packet per flow, and is repeated until one issues nothing.  No other call runs while `pumping` |
| `CompleteReady`, `CompleteData` | `complete` 245-270 | with `_try_commit` 272-285 run on the state just updated, as in the code |
| `Acquire` | `acquire` 287-308 | `observe_consumption` is the same step with the bytes supplied by an external reader |
| `Release` | `release` 310-326 | with the loop that advances `base` |
| `FailGap` | `fail_gap` 328-336 | |

Abstractions.  A payload is a model value with a length; a host line holds the
pair of payload and line number (so mixed-up lines show); an operation is known
by the write it carries, because no two carry the same one; the padding of the
last line is left out; `Fields` says which of the five descriptor fields an
instance keeps.  Packets leave the class's dictionaries by going back to phase
`ABSENT`.  Serials are bounded by the wire numbers and epochs an instance offers.
The raised errors are not steps; they are the subject of `NoInternalFault`.

`ProtocolInvariants` holds the inductive invariant, `PushFairness` a history
variable over `Protocol` that counts how often a waiting flow is passed.  `Sums`
adds up rows of numbers, for the credit; it serves the simulation too.

### Trace checker

`Checker` is `validate_trace` as a machine: for each kind of event the `May...`
operator is the conjunction of its `require` calls and the action is what it does
to the replica.  `Drained` is `require_drained`.  The report's counters and the
checks that an event is well formed are left out.

`CheckedTraces` runs it alone, against arbitrary events, right and wrong.
`CheckedProtocol` composes it with `Protocol`: each call appends its events in
the order of its `_emit` calls, the checker reads them one at a time, and the
next call starts when it has read them (the code checks a trace after the run;
reading earlier changes nothing, since the checker gives nothing back, and it
keeps the unread trace short).

### Cache

`Memory` is flat memory.  `Cache` is `cache.py`: `Victim`, `Allocate`,
`Touched`, `StoreHit`, `Bypass` are its helpers, `Define`, `Read`, `CpuWrite`,
`IoWrite`, `BypassWrite`, `Flush` its operations.  A line has a few cells instead
of 64 bytes, and a store covers a non-empty subset of them; the LRU clock, which
only grows, is kept as the relation `older` between ways, which is all that
comparing clocks can tell.  `done`, the last call and its bytes, is what a caller
sees.  `CacheRecency` adds the order in which lines were last used, by line
instead of way, to judge replacement from outside.  The counters, the listed
events and whether a home is host or NIC memory are left out: nothing in the
cache depends on them.

### Cache replay

`CacheReplay` runs `Replay.run` on top of `Cache`: it reads the events of a trace
one at a time and turns each into accesses to the cache, made one by one.
`ReadVisible`, `ReadConsume`, `ReadRelease`, `ReadReject`, `ReadQuiet` are the
branches of `run`, `Served` is `service_deferred`, which comes first at each
event.  The traces are those that `Checker` accepts (`Check`, an instance of it): the
tables of the replay are written by the same events as the checker's and are not
kept twice.  An event publishes one packet at most and every withdrawal waits for
the same number of events, so `service_deferred` finds at most one that is due
(`OneDue`; that the times left are different is the part `WithdrawalsApart` of the
invariant proved).  A payload line is stored whole, padded with zeros, as it is pushed and withdrawn.

### Integration test

`GateController` is the class of that name, with `below` and `pushes` as
histories of what each line found and where it went.

`Integration` extends `Protocol`: `Guest...` actions are `guest/integration.c`,
one load or store each, `Driver...` actions the loop of `run_case`, in the order
of the loop (`turn`), with the access to memory in an action of its own.  The
driver calls `Receive`, `Pump`, `Complete` and `Release` of `Protocol`; a packet
that the guest reports goes to `ObserveConsumption`.  A raise of the driver, or of
the class called by it, ends the run with outcome `"raised"`.  Any credit that `run_case` accepts will do (`Bearable`): none at all, or in the
adversarial mode at least two packets of maximum size.  Caches and
transport are not between driver and guest here: that each read returns the last
store is what `CacheIsMemory` proves.

### Transport, and the gate that uses it

`Calls` is the promise of a client: a call that returns was carried out once and
its answer is about that; a call that raises may be carried out, before or after,
or never; nothing is carried out after it but its own.

`Transport` is `Client`: `TurnAway` (`ValueError`, or closed already), `Send` and
`SendFails` (`sendall`), `Receive` (one `recv`, of any number of pieces),
`NothingComes` (the timeout of `recv`, or its empty result), `Finish` (status and the checks of
the callers), `Raise` (which closes), `Close`.  A request is its operation; a
reply is `Parts` pieces, each with the status and whether the contents pass the
check of `configure_host_llc` and the queries.  `Serve` and `ServerStops` are
external: the server takes requests in order, may refuse, do what was asked and say it did
not, answer late or stop.  `chunks`, `closed` and `counts` are the client's;
`calls` and `performed` are histories.  Left out: an interrupt inside `recv`, which passes the
`except` clause and leaves the stream open with a reply to come; `run_case` does
nothing with the client after that but close it.

`GatedIngress` puts both together as `integration.py:467-477` does: `TakeLine`
asks for the occupancy when a sample is due, `ChooseAsked` is `choose_push` with
what came back, `WriteLine` writes the line by the flag, and an error ends the lines.  Other
calls on the same client come between lines.

### Sweeps, processes and reports

`Evidence` has three levels, each with its report.  The *sweep*: `StartSweep`,
`StartArm`, `ArmReturns`, `Compare`, `WriteComparison` (`main` of
`integration_matrix.py`, `run_sweep` of `integration_gate_sweep.py`).  The *process of an arm*:
`CheckPins`, `StartCase`, `FinishMain`, `WriteMain` (`main` of `integration.py`).
The *case*: from `StartServer` to `ChecksHold` the steps of `run_case`, with `held` for
what it has opened, then the steps of its `finally` clause (`CleanUp`, `WriteCase`) and
`CheckLogs` after it.  `CaseRaises` may come at any step, deadlines included.
`InterruptMain`, `KillMain`, `InterruptSweep` with `Reap` (`subprocess.run` kills
its child), `KillSweep` and `CleanupFails` disturb all that, at most
`MaxDisturbances` times; a kill may leave the report torn that is being written.
A case may also raise before its `try` clause (`StartCase`), which leaves a directory
without a report.  A killed sweep may leave the process of its arm running, and a new
sweep may start beside it, so `sweep_attempt` and `main_attempt` say whose reports
each writes.  `LeftClean` leaves out cleanups that were cut off, since the code lets the rest of
a cleanup go when a step of it raises; `CaseReportsHold` speaks of undisturbed runs
only, and not of the time between the report and its correction.
What happens inside the loop is `Integration`; here it ends well or raises.

### Timing simulation

`Timing` is `timing.py` in its own virtual time: nanoseconds for events,
picoseconds on the link, `ns_ceil` between them.  The queue, in a module of its own
(`EventQueue`), is what `heapq` with event
numbers gives: `ScheduleAll` puts the events in the order of their `Rank`, which
counts those taken first (an earlier time, or the same time and an earlier number).  An
action per kind of event is a pass of the loop in `run`; where a handler calls
`_try_issue` or `_try_cpu` last, the call is a step of its own that must come
next (`calls`), one packet at a time in `TryIssue`.  `policy` has the fields of
`Policy` that matter, `config` those of `TimingConfig`.  The flags of
`_PacketState` are one `stage`, since each implies those before it.  The cache
answers hit or miss for each line (`HitPatterns` lists the answers an instance allows), and the
gate samples any occupancy;
withdrawals and background reads leave their mark on the queue and the counts.
`Finish` makes the checks that follow the loop: order of delivery, leaks, the counts of
lines and withdrawals, the times of each packet and when its last line became visible.
Left out are those of the cache's counts and of sums of two counts made in one step
(`timing.py:781-788`, `793-794`), of peaks (795-801, which `CreditCoversPushed` bounds in every
state) and of demands before visibility (809-810, which the order of times implies).  A check that fails ends the run
with `"raised"`, a full buffer with `"overflow"`, an empty queue with `"drained"`
and a late event with `"deadline"`.

## What the runs check

All runs finish; none depends on a state constraint.  In the protocol and trace runs
finitely many serials exist, so a run of the system ends when they are used up:
those configurations switch deadlock checking off, and so do the gate (a bounded
number of lines and calls), the replay (a trace ends) and the sweeps (a bounded
number of them).  The cache never stops and is
checked for deadlock; so is the integration test, which stops only with an
outcome, and the simulation.

| Run | Instance | Shows |
|---|---|---|
| `one_flow` | 1 flow, window 3, serials 7..11 of an 8-number space (the epoch wraps at the second packet), payloads of 64 and 65 bytes | inductive invariant (the type invariant is part of it), `SlotsExclusive`, `PublishedImage`, `NoInternalFault`, `ReadyMeansPrefixVisible`, `HeldIntact`, `HaltNeverSkips`, and that `Protocol` implements `OrderedDelivery` |
| `two_flows` | 2 flows, window 2, 3 serials each, 64 and 65 bytes, global credit 128 for four packets that want up to 512 | `CreditConserved`; liveness: `PrefixDelivered` |
| `stalled_flow` | 2 flows, no global budget, flow 0 without fairness | liveness: `StalledFlowIsolated` |
| `push_turns` | 3 flows, window 2, two packets of credit for all | `BoundedBypass`: a flow waiting for the global budget is passed at most once by each other flow |
| `checked_protocol` | as `one_flow` with four serials, both budgets | `NeverRejected`, `ReplicaAgrees` |
| `checked_traces` | arbitrary events over 1 flow, window 3, 4 serials, 2 generations, 3 payloads | `AcceptedTracesAreOrdered` |
| `cache_ways` | 3 lines in the 2 ways of a set, every set of ways as admission | `OneCopy`, `EvictedAreOlder`, `ImplementsMemory` |
| `replay` | one slot, three packets, a cache of two lines, withdrawals at once, after 6 and 10 events, or never | `NeverFails`, `PublishedBytesHold` |
| `gated_ingress` | 5 lines, sampling every 1, 2 or 3 lines or at each line, delays 0 to 2; at most 12 calls of which one is about something else; replies in two pieces; the server may fail anywhere | `PushesFollowSamples`, `ControlWritesAlternate`, `LinesPlacedAsDecided`, `SamplesAreCurrent`, `CountsMatchServer`, and that `Transport` implements `Calls`; liveness: `EveryCallEnds` |
| `integration` | 2 flows, window 2, three packets each from the last serial of an epoch on, credit for exactly two packets of maximum size, all three modes, withdrawal before publication or not | `NeverRaises`, `GuestAlone`; liveness: `Ends` |
| `timing` | 2 flows of a two-line and a one-line packet, every arrival order at times 0, 1, 20, nine policy arms; ample credit with a gate sampled every 4 and obeyed after 9 ns; shared credit with a small NIC buffer and withdrawals after 12 ns; credit too small for a long packet with a small reorder buffer and background reads; a packet's lines all hit or all miss, or the second payload line differs from the others | `NeverRaises`, `NothingLeftWaiting`, `CreditCoversPushed`, `OnlyOversizedStarve`, `GateChangesAlternate` |
| `evidence` | a sweep run twice on one output, two arms with two and one case, two disturbances, guest with and without an ingress of its own | `PassedMeansProven`, `CaseReportsHold`, `LeftClean`, `OneExecution`; liveness: `SweepEnds` |

Why the bounds suffice.  The interesting events of the protocol need: a window
with at least one packet below and one above an out-of-order one (3); one serial
more than the window so that a slot is reused and a marker is stale (4, and 5 in
`one_flow`, so that two slots are reused and one is reused while the other is
still held); an epoch boundary inside the window; packets of one and of two
lines; and a gap in front of an accepted packet (`FailGap` may strike at any
missing serial).  A second flow adds nothing to slots and markers, which are per
flow, but everything to credit and turns; three flows are the least number for
which "passed once by each other flow" differs from "passed once".  A cache
needs one line more than ways for an eviction, one way more than an admission
for a hit outside it.  Its lines have one cell: with two, the run no longer ends in time.
The replay stores parts of lines of five cells, but that a part which bypasses the cache
is merged with the line's newest bytes (`MergeBase`) is left to the proof, `CacheIsMemory`,
which is about lines of any length.  The gate needs
a delay longer than the sampling interval, so that several control writes are on
their way, and lines enough for them to arrive.  A client needs two pieces for a
reply that is cut in the middle, and one call after a call in doubt; twelve calls are a
sample and a write for each line, and two more.  The integration test needs one packet more
than the window, so that a release word of a former packet is met again.  The
simulation needs two flows to share credit and two packets to be out of order;
with 2 ps per ns and lines that take 1 ps, descriptor and ready line meet in one
nanosecond or not, as on any link above 512 Gb/s (`TimingConfig` takes any).  The three arrival times let packets meet in the NIC or miss each other, so that its
small buffer overflows or not; withdrawals come before the CPU's reads, after
them, after the release, and after the end.  What a line's hit or miss changes is when the
reads end and whether they use the link, so one line of four that differs is enough.  Time ends at
100, after all packets are through: only the last change of the gate is later.

Findings.  The runs found no disagreement between code and documents.  Two
behaviours are worth knowing.  `timing.py` refuses a packet larger than the shared
credit, but not one larger than the credit of its flow: that flow is never issued
and the run ends with a drained queue or the deadline (`OnlyOversizedStarve` says
that nothing else ends so).  And under a global budget, a packet of two lines can be
overtaken without bound by one-line packets of other flows, since `pump` skips a
head that does not fit (`model.py:210-215`).  No document promises otherwise, and
`BoundedBypass` is therefore stated for packets of one aligned size.

## Fairness

`Protocol!Fairness` is weak fairness of: `pump`; completing *some* pending write
of each flow; `acquire` of each flow; handing back *some* buffer of each flow.
The drivers justify it: `verify.py:66-100` calls `pump` after every step, picks
among pending writes, flows to poll and held deliveries at random until all is
drained (a watchdog bounds the number of steps), and the integration and timing
loops do the same in a fixed order.  Weak fairness of "some write of the flow" is
enough, as each completed write shrinks a finite set.  No fairness is put on
`Receive` or `FailGap`: the network may stop, and a gap need not be declared.

`StalledFlowSpec` drops the fairness of flow 0 altogether: its writes may hang,
its CPU may not poll or not release (`tests/test_protocol.py`, the tests of
blocked flows).  Without a global budget flow 1 must not notice.

`Transport` has weak fairness of `Await`: the socket has a timeout (`transport.py:31`), so that
a `recv` returns or raises.  Server and network have none.

`Evidence` has weak fairness of the sweep, of the process of an arm, and of its
case, three sequential programs; `CaseRaises` stands for the deadline of each
wait (`integration.py:297`, `321`, `351`), and nothing obliges server or guest to listen or end.

`Integration!FairISpec` is weak fairness of the guest and of the driver: two
processes, each of which goes on running (the guest loops without waiting, the
driver's loop has no blocking step but the transport's exchange).  The driver's
random choice among eligible writes needs no fairness: each choice completes one.
The deadline of the test is left out, so `Ends` says more than the code needs.

## Proofs

Everything about the protocol is proved for all values of the constants that
satisfy `ConfigAssumption` (the checks of `Config.__post_init__` and of `receive`) and
`WorldAssumption` (serials are naturals, payloads have admissible lengths).

**The inductive invariant.**  `IndInv` has twelve parts.  None of the safety
properties is inductive alone.  The argument, in the order of the parts:

- `CursorOrder`, `PacketInWindow`, `PhaseAmongCursors`, `ReleasedInWindow`,
  `IssuedStays` place each packet between two cursors by its phase, all in one
  window above `base`.  Two serials in one window with one slot are equal
  (lemma on `%`), which gives `SlotsExclusive` and makes the "slot still owned"
  error unreachable.
- `WritesOwned` and `DataWritesPending` tie pending writes to packets, in both
  directions: a pending write belongs to the present owner of its slot and a
  packet waits only for pending writes.  So a completion touches only its own
  packet's slot.
- `ImageInSlot` says that every line and field of an issued packet is in its
  slot already or still waited for.  When nothing is waited for, the slot holds
  the packet: `PublishedImage`.  `HeldIsImage` carries it to the CPU.
- `MarkerBehindOwner` and `GenerationsCount`: the marker of a slot is below its
  owner's generation until publication, and the generation of a slot counts the
  serials that mapped to it.  Together they make the number that a CPU computes
  from its own packet count equal to the marker exactly for published packets:
  `ReadyMeansPrefixVisible`.

| Theorem | Module | Property |
|---|---|---|
| `Invariance` | `ProtocolProofs` | `Spec => []IndInv`, one lemma per action, one step per part it can disturb |
| `TypeCorrect` | `ProtocolProofs` | `TypeOK` |
| `SlotsAreExclusive`, `WritesAreOwned`, `PublishedIsImage`, `DeliveriesAreIntact`, `InternalFaultsUnreachable`, `MarkerIsTrustworthy` | `ProtocolProofs` | the safety properties of `one_flow` |
| `HaltIsTerminal` | `ProtocolProofs` | the action property `HaltNeverSkips` |
| `DeliversInOrder` | `ProtocolProofs` | `Spec => ImplementsOrderedDelivery`: `Receive`, `Acquire`, `Release`, `FailGap` map to `Accept`, `Deliver`, `Release`, `GiveUp`, every other step to a stutter |
| `CreditIsConserved` | `ProtocolProofs` | `CreditConserved`, both budgets |
| `TurnsAreFair` | `ProtocolProofs` | `BoundedBypass` of `PushFairness`, under `OneSize` |
| `AcceptedMeansOrdered` | `CheckedTracesProofs` | `AcceptedTracesAreOrdered`: the checker against arbitrary events |
| `CheckerNeverRejects`, `CheckerAgrees` | `CheckedProtocolProofs` | `NeverRejected`, `ReplicaAgrees`: the checker behind the protocol |
| `LinesAreSingle`, `CleanLinesAreHome`, `CacheIsMemory` | `CacheProofs` | `OneCopy`, `CleanIsHome` and `Spec => ImplementsMemory` of `Cache` |
| `EvictedWereOlder` | `CacheProofs` | `EvictedAreOlder` of `CacheRecency` |
| `ReplayInvariance` | `CacheProofs` | `ReplaySpec => []ReplayInv` of `CacheReplayInvariants`, one lemma per event and one for an access |
| `ReplayNeverFails`, `ReplayKeepsBytes` | `CacheProofs` | `NeverFails` and `PublishedBytesHold` of `CacheReplay` |
| `GateInvariance`, `GateFollowsSamples`, `ControlWritesInTurn` | `GatedIngressProofs` | `IndInv`, `PushesFollowSamples` and `ControlWritesAlternate` of `GateController` |
| `TransportInvariance`, `TransportIsCalls`, `CountsAreServers` | `GatedIngressProofs` | `TransportInv`, `TransportSpec => ImplementsCalls` and `CountsMatchServer` of `Transport` |
| `LinesGoAsDecided`, `SamplesGoFirst`, `PartsStand` | `GatedIngressProofs` | `LinesPlacedAsDecided` and `SamplesAreCurrent` of `GatedIngress`, and that gate and client keep theirs |
| `TimingInvariance` | `TimingProofs` | `Spec => []IndInv` of the simulation, one lemma per action and part |
| `ChecksNeverFail`, `NothingForgotten`, `CreditCoversWhatIsPushed` | `TimingProofs` | `NeverRaises`, `NothingLeftWaiting`, `CreditCoversPushed` of `Timing` |
| `GateFollowsRequests` | `TimingProofs` | `GateChangesAlternate` |
| `NeverDrains` | `TimingProofs` | the queue runs dry only with an oversized packet: the half of `OnlyOversizedStarve` that holds for every `MaxTime` |
| `IntegrationInvariance` | `IntegrationProofs` | `ISpec => []IntegrationInv`: driver, guest and class together, one part of the invariant at a time |
| `DriverNeverRaises`, `GuestReadsAlone` | `IntegrationProofs` | `NeverRaises` and the action property `GuestAlone` of `Integration` |
| `PassedIsProven`, `CaseReportsAgree`, `NothingLeftBehind`, `FromOneExecution` | `CheckedTracesProofs` | `PassedMeansProven`, `CaseReportsHold`, `LeftClean`, `OneExecution` of `Evidence` |

The refinement mapping of the protocol is `Standing` (the phase of a packet, or whether its
serial is settled), `payload`, `Observed` (what the CPU's copy of descriptor and
lines is the image of) and `halted`.

**Credit.**  `CreditConserved` says that each budget's use is the sum of the sizes of
the packets issued and not released.  The sum is written with a recursive function
(`Sums`), about which the library gives nothing; its few laws are proved from the
least index at which they would fail.  The proof then follows one packet: issuing
it adds its size to the sum of its flow and to the sum over flows, releasing it
takes it away, and every other step leaves all terms alone.

**Turns.**  `OneSize` says that all packets have one aligned size, as the run does:
without it the property is false.  `ScanAtTurn` ties the position of the scan to
`round_robin`, and `PassedBounded` is the bound made inductive: a flow that has passed the one that waits
comes behind it in the scan (`Ahead`).  A packet issued moves the turn past its flow, and
while a flow waits the scan reaches it before it can come to those that passed it again.

**The checker alone.**  Assumed are `CheckerAssumption` (the checks of `Config`) and
`TracesAssumption` (names differ from what stands for none).  Events are arbitrary, so the invariant `TracesInv` cannot use
the protocol: it says of the replica what the `require` calls have established,
that the cursors are in order (`CursorsOrdered`), what is live is in the window and
owns its slot (`LiveInWindow`, `SlotsOwned`), that what was written was charged in turn
and what was consumed read in turn (`PacketsInTurn`), and that no serial is left out of those
before `next_consume` (`PrefixConsumed`).  The accepted steps then map to `OrderedDelivery`.

**The checker behind the protocol.**  Assumed is `TraceAssumption`: besides names,
that `FieldOrder` lists the fields kept, each once.  The protocol runs ahead of the checker by the
events of one call, so the two never agree while there are unread events.  A *view* is
what the checker should believe: `Now` is that of the protocol's state, and `Sees` is how one
event changes a view, with all that entitles the class to the event.  The invariant is that
the replica agrees with some view (`Agree`) from which the unread events lead, one
`Sees` after the other, to `Now` (`Unread`).  It has two halves: each
call of the protocol emits events that lead from one view to the next (an issue of
many writes goes through the views `IssuingFrom`), and a checker that agrees with a
view accepts what `Sees` allows and agrees with the next one.  A rejection is impossible
because of the first half, and agreement with a drained trace is `ReplicaAgrees`.

**The cache.**  Assumed is `CacheAssumption` (sizes are positive, `NoData` and
`NoLine` are not data and lines).  The invariant is the type invariant with
`OneCopy` and `CleanIsHome`, which is not checked by a run (a breach of it shows in
`ImplementsMemory` at the next eviction); it needs no strengthening, but each of the two needs
the other parts: an eviction keeps the newest bytes of its victim only because a
clean victim equals its home, and the victim's line is really gone afterwards
only because there was one copy.  One lemma per helper (`AllocateKeeps`,
`StoreHitKeeps`, `BypassKeeps`, `DefineKeeps`, `FlushKeeps`) shows that it keeps
the invariant and moves the newest bytes of one line at most, to what the caller
says; the operations then map to those of `Memory`, whose memory is `Newest`.

Replacement needs the clock of each way (`older`) tied to the history `used` of lines: of two
lines that are in, the one in the older way was used before the other (`OlderIsUsed`), and
a line that an allocation with every way to choose from pushed out was used before all
that are still in its set (`GoneAreOlder`), which is `EvictedAreOlder`.  An
allocation in fewer ways may push out a newer line; the property leaves those out, and the
proof shows that they do no harm to it afterwards.

**The cache replay.**  Assumed is `ReplayAssumption`: a packet fits its slot and the
background lies above all slots, both of which `Replay.__init__` raises for; a line has a cell for
each field; the cache's lines and values include those of the replay; `NoToken` is no token.  Flows,
window, packets, trace, size of the cache, admitted ways, background and delay are free.
`ReplayInv` was checked by TLC on the instance of the run `replay` before it was proved.  The bytes
of a packet say nothing of the accesses that are still to be made, so neither property is inductive.
The invariant looks at both, through what the cache is as memory (`Newest`, and the lemmas of its operations above):

- `SlotsHold`: each part a packet has stored is in its line or an access to come brings it
  (`Coming`), what was published is there already, and no store to come disagrees with it (`Agreed`).
  A store to come may be the packet's own, a withdrawal's, a release marker or the background's.
- `ReadsRight`: the same for what a consumer is about to read.
- `PacketsInOrder`, `Owners`, from the checker's guards: a slot has one owner, its marker comes
  after its parts, and its release after its consumption.
- `WithdrawalsApart`: the times left of the deferred withdrawals increase strictly, and each is
  of a packet that was published.  That a withdrawal finds the payload of the owner is due to the identity it
  compares (`StillOwned`), not to its time.
- `Counted`: lines pushed and not yet demanded are those of the packets not consumed, and
  each serial consumed has used its share of the background, so background lines are fresh.

An access to come moves one line, as it says, and each of those left keeps what it had
(`AccessKeeps`).  An event moves nothing but adds accesses; `EventKeeps` says when that keeps the
invariant.  What remains is that lines of two slots are never the same (`SlotsDisagree`, a lemma on
`SlotLine`), that stores of one packet, and its withdrawal padded with zeros, agree where they overlap
(`OwnAgree`, `WithdrawalAgrees`), and that the release marker is in a line by itself.

**The gate.**  Assumed is `GateAssumption` (intervals are positive, delays
naturals).  `PushesFollowSamples` looks back over the whole run and is not
inductive: nothing in it speaks of control writes on their way.  The invariant
adds that these fall due in increasing order on lines that are one delay after a
sample, that the newest sample is `requested`, and `FlagsAsWanted`: for every line
still to come within the delay, the flag that the control writes leave in force
then (`InForce`) is the one wanted.  `ControlWritesAlternate` follows from `AlternateInv`: each
write on its way changes the flag left by the one before it, the last leaves what was
requested, and they are due at least one sampling interval apart, each one delay after a
line that sampled.

**The client.**  Assumed is `TransportAssumption` (a reply has at least one piece).
`ImplementsCalls` needs to know that the reply that has come in is the answer to the
call that waits, though nothing in it says so.  `TransportInv` has it from the
discipline of the client: only the newest call waits, and after one that raised all
are turned away (`CallsInOrder`), so at most one call is in doubt; a request on its way
is that call's and not carried out yet (`StreamClean`); what the server carried out
are the calls that returned and at most the one in doubt, after them
(`ServedInOrder`); so the pieces in the stream and those taken from it are the
beginning of one reply, to that call (`OneReply`).  `CountsMatchServer` follows from
`CountsAgree`: the books differ by the last call carried out, exactly while it has not
returned.  Here the server is slow, stops, or answers nonsense at will.

**The gate and the client together.**  Each step of `GatedIngress` is a step of the gate or
leaves it alone, and a step of the client or leaves it alone, so both keep
their invariants.  Assumed besides is `IngressAssumption`: other calls are told apart
from those about lines (a marker may go by the same method as a line).  `IngressInv` says how far the server
is in each stage of a line: all lines are in when the next one is taken or asked about,
all but the last when it was chosen, and that one too exactly when the call for it was
carried out (`LinesOfStage`); what the server has not seen yet is the call of the stage
(`RequestOfStage`).  After an error the last line may still arrive, once, where it was
to go.  A sample that no line went by yet is of the last call (`SamplesUsed`), whose answer is
about itself (`AnswersOwn`), so it cannot be that of an earlier line.

**The sweeps.**  Assumed is `PlanAssumption`, the form of the table of cases.  `EvidenceInv` says for each
report on disk and each process what it stands for: a process runs only under one that
waits for it (`Nested`); what is proven or reported lies in a directory that was made, and only
the first attempt gets that far (`OnDisk`, `FirstOnly`); a case report, the report of an
arm, its exit status and the comparison each stand for the level below (`CaseStands`,
`MainStands`, `ArmsStand`, `SweepStands`), which was not yet proven when it began
(`NotYetProven`); and whatever a case has opened is held until its cleanup
(`HeldUntilCleaned`).

**The simulation.**  Assumed are `TimingAssumption` (latencies are positive, a packet has a
line at least), `PolicyAssumption` (an arm that reserves credit restores the order before it
pushes, and what is never pushed is at home on the NIC: so are the nine of
`POLICIES`, timing.py:87-100; a gate is for lines that are pushed), `HitAssumption` (each read is
a hit or a miss) and `ConfigAssumption` (what `__post_init__` lets by).
`IndInv` of `TimingInvariants` was checked by TLC on the instance of the run `timing` before it was proved.
Its parts:

- The queue.  That events are taken by their rank is proved to be a sort
  (`ScheduleAll` neither loses nor doubles an event, `QueueInv` keeps times in order), and
  that events of one time keep the order in which they were put there.  So a descriptor comes before its marker,
  and a change of the gate before a later one (`GateInv`).
- The desk.  `EventsApart`, `EventsFit`, `PacketsFit`, `CpuFits`: a packet that waits for
  something has exactly one event for it, and an event finds its packet at the stage
  it is for.  An issued packet waits for as many lines as it has payload events.
- The flows.  `FlowsInv` ties the stage of a packet to where its serial stands among the
  cursors of its flow, which differs with the arm that restores the order.
- The calls.  `CallsInv` says which calls a handler may still have to make, and `WaitingInv` that
  whatever may go on is going on or is about to be tried: that is `NothingLeftWaiting` when a
  handler is done.
- The books.  `CreditInv` (credit and buffers are sums of the lines under way, by the laws
  of `CommonProofs`), `TimesInv`, `LinesInv` (lines pushed, sent, classified and demanded by
  the stages of their packets), `DeliveredInv`, `WithdrawnInv` are what the checks at the end
  of a run need.

`NeverDrains` combines them: as long as a packet is not delivered, an event is queued for it or
it may be issued, for credit that nobody holds is enough for any packet that is not oversized.

**The integration test.**  Assumed is `IntegrationAssumption`: two flows at least (the
harness has two), packets that the network can send, a planted line that is no packet's, and the three
modes.  Number of packets, lengths, streams, credit and the pace of the guest are free.
`IntegrationInv` of `IntegrationInvariants` was checked by TLC on the instance of the run `integration` before it was
proved.  It contains `IndInv` of the protocol, whose lemmas carry each call of the class,
and says how far the four views of a packet are apart at each place of the driver's loop:

- `TurnInvariant` and `BooksAgree`: where in its loop the driver is, and that `bases`,
  `freed` and `consumed` are the class's `base`, `released` and `next_consume`, so what it offers
  lies in the window and is accepted.
- `HoldingInv`: a token held is that of a packet the guest has reported, once; so a release is legal.
- `MemoryShown`: memory is what the class believes, except for the one write that is made and
  not yet completed, and the planted faults.
- `FaultInv`: the packet that a fault is planted at is held back until the fault is in
  (`TargetComing`, `TargetHeld`), so the fault is read whenever that packet is.
- `FreedByGuest`, `ReleaseWords`, `GuestInv`: the guest is between what was published and
  what was released, a release word is the generation of a packet it is done with, and the copy it has
  made so far equals the slot it is reading (`Entitled` to it by the marker).  As no write to that slot
  is pending, this is `GuestAlone`.
- `ReportsInTurn`, `LinesInv`: the lines printed and not yet read are those of the serials
  from `next_consume` on, in turn for each flow and each an image of its packet; a failure is among them
  only after a fault was planted, and the last line comes when everything is consumed.

`NeverRaises` is part of the invariant: a raise is impossible in the next step because the
books agree now, and they agree because no earlier call was refused.

**Data by induction.**  The prover cannot instantiate the library's theorems of
induction.  Where a proof needs one (sums, the loop of `_apply_due`, the turns, the least
recently used way), it takes the least counterexample instead, which exists because `<` on the
naturals is well-founded.

**Only model-checked.**  Liveness (`PrefixDelivered`, `StalledFlowIsolated`, `EveryCallEnds`,
`Ends`, `SweepEnds`: fairness is out of the prover's reach), and that no run of the simulation misses its deadline
(the other half of `OnlyOversizedStarve`): that depends on `MaxTime` being ample for the
workload, which is a fact about the numbers of the instance.

## What is not modelled

- UART parsing, the contents of report and trace files, the command
  lines, `timing_sweep.py` and the scripts: I/O around the components.
- The arithmetic of `compare_results` and `validate_results`, and the conditions that
  `run_case` puts on counters after the loop (`integration.py:506-602`): in
  `Evidence` they hold or do not.  Two of them, that client and server have counted
  the same and that the gate's lines are those of the server, are `CountsMatchServer` and
  `LinesPlacedAsDecided`.
- Statistics of the class, the checker, the cache and the simulation, but for the counts of
  lines and withdrawals of the simulation: written, never read back but by the checks
  of the simulation that `Finish` leaves out.
- What withdrawals and background reads of the simulation do to the cache, whose
  answers are free there (what a withdrawal may do to bytes is the subject
  of `CacheReplay`).
- The CXL transactions inside QEMU and CXLMemSim (submodules, not in this
  repository): the model sees them as "a write becomes visible".
- The guest's start-up code, linker script, HDM decoder set-up, trap handler and
  check of its control block; the driver's deadline inside the loop.

## Plan

Every safety property that a run checks is proved, but for the deadline of
the simulation.  What is left is to widen the model: the arithmetic of
`compare_results` and of the conditions on counters, and the scripts around the harness.
