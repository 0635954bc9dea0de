--------------------------------- MODULE Timing ---------------------------------
(***************************************************************************)
(* The simulation of cxl_nic/timing.py: packets arrive out of order at a    *)
(* NIC, cross a link line by line into the host's memory, and a single CPU *)
(* consumes them.  A policy says who restores the order and how much may   *)
(* be pushed ahead of the CPU.                                             *)
(*                                                                         *)
(* Time is the program's: whole nanoseconds, picoseconds on the link, and  *)
(* events of one time in the order in which they were scheduled.  The      *)
(* cache is left out: what it answers (hit or miss, occupancy) is free,    *)
(* and what it returns is what was stored.  Of the statistics, the counts  *)
(* of withdrawals and of lines are kept, which the run checks at its end.  *)
(***************************************************************************)
EXTENDS EventQueue, Sums

CONSTANTS
    NumFlows, Count,    \* flows, and packets in each
    LinesOf,            \* LinesOf[p]: charge of a packet, in lines
    Arrivals,           \* possible arrival_ns
    Policies, Configs,  \* the arms, and what is configured for one
    HitPatterns,        \* hits and misses the cache may answer to the reads of a packet
    SerializationPs,    \* of one line on the link
    LinkLatency, CpuBase, LlcHit, HostMiss, NicMiss,
    PsPerNs,            \* PS_PER_NS
    MaxTime, NoLimit

Flows == 0..(NumFlows - 1)
Packets == Flows \X (0..(Count - 1))
FlowOf(p) == p[1]
SerialOf(p) == p[2]

ASSUME TimingAssumption ==
    /\ NumFlows \in Nat \ {0} /\ Count \in Nat \ {0}
    /\ LinesOf \in [Packets -> Nat \ {0}]
    /\ Arrivals \subseteq Nat
    /\ {SerializationPs, LinkLatency, CpuBase, LlcHit, HostMiss, NicMiss, PsPerNs, MaxTime}
        \subseteq Nat \ {0}

(* Those of POLICIES that reserve credit restore the order before they     *)
(* push, what none pushes is at home on the NIC, and a gate is for lines   *)
(* that are pushed (timing.py:87-100).                                     *)
ASSUME PolicyAssumption ==
    \A arm \in Policies :
        /\ arm \in [family : {"ddio", "ncp", "demand"}, home : {"host", "nic"},
                        reorder_before_push : BOOLEAN, use_credit : BOOLEAN,
                        push_payload : BOOLEAN, cpu_reorder : BOOLEAN, gated : BOOLEAN]
        /\ arm.use_credit => arm.reorder_before_push
        /\ ~arm.push_payload => arm.home = "nic"
        /\ arm.gated => arm.push_payload

(* What __post_init__ accepts (timing.py:128-155).  Credit and buffers are  *)
(* counted in whole lines here, of which some bytes may be none.           *)
ASSUME ConfigAssumption ==
    /\ NoLimit \notin Nat
    /\ Configs \subseteq
        [push_credit : Nat, global_credit : Nat \cup {NoLimit},
         nic_buffer : Nat, cpu_reorder_buffer : Nat,
         sample_interval : (Nat \ {0}) \cup {NoLimit}, control_latency : Nat,
         withdraw : Nat \cup {NoLimit}, background : (Nat \ {0}) \cup {NoLimit}]

VARIABLES
    policy, config, arrival_ns,             \* inputs
    events,                                 \* in the order they will be taken
    calls,                                  \* calls the present handler still makes
    now, link_available_ps,
    stage, pending_payload_lines, visible,  \* of each packet
    times,                                  \* of each packet: what happened when
    next_issue, next_publish, next_consume,
    credit, global_credit, issue_round_robin,
    cpu_scheduled, cpu_round_robin,
    nic_buffer, cpu_reorder_buffer, delivered,
    gate_requested, gate_push_enabled,
    withdrawals,                            \* how many of each class
    line_counts,                            \* lines demanded, pushed, produced, gated
    last_visible_ns,                        \* of each packet: when its last line came
    outcome

inputs == <<policy, config, arrival_ns>>
books == <<next_issue, credit, global_credit, issue_round_robin>>
packets == <<stage, pending_payload_lines, visible, times>>
cpu == <<cpu_scheduled, cpu_round_robin>>
buffers == <<nic_buffer, cpu_reorder_buffer>>
gate == <<gate_requested, gate_push_enabled>>
tallies == <<line_counts, last_visible_ns>>
vars == <<inputs, events, calls, now, link_available_ps, packets, books,
          next_publish, next_consume, cpu, buffers, delivered, gate, withdrawals, tallies, outcome>>

--------------------------------------------------------------------------------
(* Time, events and the link.                                              *)

ns_ceil(ps) == (ps + PsPerNs - 1) \div PsPerNs

Later(a, b) == IF a >= b THEN a ELSE b

Event(time, kind, what) == [time |-> time, kind |-> kind, what |-> what]

LinkStart(t) == Later(t * PsPerNs, link_available_ps)

(* Lines that are put on the link one after the other at time t.           *)
OnLink(t, lines) ==
    [k \in DOMAIN lines |->
        Event(ns_ceil(LinkStart(t) + k * SerializationPs + LinkLatency * PsPerNs),
              lines[k].kind, lines[k].what)]

AvailableAfter(t, lines) ==
    IF lines = <<>> THEN link_available_ps ELSE LinkStart(t) + Len(lines) * SerializationPs

Line(kind, what) == [kind |-> kind, what |-> what]
--------------------------------------------------------------------------------
(* The lines of a packet's slot.                                           *)
PayloadLine(k) == Line("payload", k)
DescriptorLine == Line("descriptor", 0)
ReadyLine == Line("ready", 0)

NotYet == -1

Untimed == [issue |-> NotYet, ready |-> NotYet, consume |-> NotYet,
            processed |-> NotYet, delivery |-> NotYet]

ZeroForAll == [f \in Flows |-> 0]

(* Packets in the order of flow and serial.                                *)
PacketAt(k) == <<(k - 1) \div Count, (k - 1) % Count>>

(* The lines of some packets together.                                     *)
LinesIn(ps) ==
    PartialSums([k \in Nat |-> IF PacketAt(k + 1) \in ps THEN LinesOf[PacketAt(k + 1)] ELSE 0])
        [NumFlows * Count]

ArrivalEvents ==
    [k \in 1..(NumFlows * Count) |-> Event(arrival_ns[PacketAt(k)], "arrival", PacketAt(k))]

Sampled == policy.gated /\ config.sample_interval # NoLimit

FirstSample == IF Sampled THEN <<Event(0, "gate_sample", FALSE)>> ELSE <<>>

FirstBackground ==
    IF config.background # NoLimit THEN <<Event(0, "background", FALSE)>> ELSE <<>>

(* Turned away before the first event: a packet larger than the shared    *)
(* credit, and a gate together with withdrawals.                           *)
Refused ==
    \/ /\ policy.use_credit /\ config.global_credit # NoLimit
       /\ \E p \in Packets : LinesOf[p] > config.global_credit
    \/ policy.gated /\ config.withdraw # NoLimit

Init ==
    /\ policy \in Policies /\ config \in Configs
    /\ arrival_ns \in [Packets -> Arrivals]
    /\ ~Refused
    /\ events = ScheduleAll(<<>>, ArrivalEvents \o FirstBackground \o FirstSample)
    /\ calls = <<>>
    /\ now = 0 /\ link_available_ps = 0
    /\ stage = [p \in Packets |-> "coming"]
    /\ pending_payload_lines = [p \in Packets |-> 0]
    /\ visible = [p \in Packets |-> {}]
    /\ times = [p \in Packets |-> Untimed]
    /\ next_issue = ZeroForAll /\ next_publish = ZeroForAll /\ next_consume = ZeroForAll
    /\ credit = ZeroForAll /\ global_credit = 0 /\ issue_round_robin = 0
    /\ cpu_scheduled = FALSE /\ cpu_round_robin = 0
    /\ nic_buffer = 0 /\ cpu_reorder_buffer = 0
    /\ delivered = <<>>
    /\ gate_requested = TRUE /\ gate_push_enabled = TRUE
    /\ withdrawals = [class \in {"scheduled", "before", "after", "stale"} |-> 0]
    /\ line_counts = [class \in {"demanded", "pushed", "produced", "gated"} |-> 0]
    /\ last_visible_ns = [p \in Packets |-> NotYet]
    /\ outcome = "running"
--------------------------------------------------------------------------------
Running == outcome = "running"

Unfinished == Len(delivered) < NumFlows * Count

Between == Running /\ calls = <<>>

(* run pops an event; t is its time and what its arguments.                *)
Take(kind) ==
    /\ Between /\ Unfinished
    /\ events # <<>>
    /\ Head(events).kind = kind
    /\ Head(events).time <= MaxTime
    /\ now' = Head(events).time

Taken == Head(events).what

Rest == Tail(events)

At == Head(events).time

(* What a handler calls last, one after the other.                         *)
Call(name, p) == [name |-> name, packet |-> p]

InCall(name) == Running /\ calls # <<>> /\ Head(calls).name = name

Return == calls' = Tail(calls)

Raise(kind) == outcome' = kind

Metadata(c) == <<Line("descriptor_visible", c), Line("ready_visible", c)>>

(* _try_publish: c is published if its data is complete and it was not yet. *)
Publishable(stages, c) == c \in Packets /\ stages[c] = "complete"

PublishLines(stages, c) == IF Publishable(stages, c) THEN Metadata(c) ELSE <<>>

StagesAfterPublish(stages, c) ==
    IF Publishable(stages, c) THEN [stages EXCEPT ![c] = "publishing"] ELSE stages

(* The one to publish is the packet itself or the next of its flow.        *)
ToPublish(p) == IF policy.cpu_reorder THEN p ELSE <<FlowOf(p), next_publish[FlowOf(p)]>>
--------------------------------------------------------------------------------
(* Arrival and issue.                                                      *)

Arrival ==
    /\ Take("arrival")
    /\ LET p == Taken
       IN  /\ stage' = [stage EXCEPT ![p] = "arrived"]
           /\ nic_buffer' = nic_buffer + LinesOf[p]
           /\ IF nic_buffer' > config.nic_buffer THEN Raise("overflow") /\ UNCHANGED calls
              ELSE /\ calls' = <<Call(IF policy.reorder_before_push THEN "try_issue"
                                      ELSE "issue", p)>>
                   /\ UNCHANGED outcome
    /\ events' = Rest
    /\ UNCHANGED <<inputs, link_available_ps, pending_payload_lines, visible, times, books,
                   next_publish, next_consume, cpu, cpu_reorder_buffer, delivered, gate, withdrawals, tallies>>

PayloadEvents(p) == [k \in 1..LinesOf[p] |-> Line("payload_visible", <<p, k - 1>>)]

(* _issue: the payload goes on the link; under a policy that pushes none,  *)
(* the packet can be published at once.                                    *)
Issue(p) ==
    LET complete == [stage EXCEPT ![p] = "complete"]
        c == ToPublish(p)
        lines == IF policy.push_payload THEN PayloadEvents(p) ELSE PublishLines(complete, c)
    IN  IF stage[p] # "arrived"
        THEN /\ Raise("raised")
             /\ UNCHANGED <<stage, times, pending_payload_lines, credit, global_credit,
                            events, link_available_ps, line_counts>>
        ELSE /\ IF policy.push_payload
                THEN /\ stage' = [stage EXCEPT ![p] = "issued"]
                     /\ pending_payload_lines' = [pending_payload_lines EXCEPT ![p] = LinesOf[p]]
                ELSE /\ stage' = StagesAfterPublish(complete, c)
                     /\ UNCHANGED pending_payload_lines
             /\ times' = [times EXCEPT ![p].issue = now]
             /\ IF policy.use_credit
                THEN /\ credit' = [credit EXCEPT ![FlowOf(p)] = @ + LinesOf[p]]
                     /\ global_credit' = global_credit + LinesOf[p]
                ELSE UNCHANGED <<credit, global_credit>>
             /\ events' = ScheduleAll(events, OnLink(now, lines))
             /\ link_available_ps' = AvailableAfter(now, lines)
             /\ line_counts' =
                    [line_counts EXCEPT
                        !.pushed = @ + (IF policy.push_payload THEN LinesOf[p] ELSE 0),
                        !.produced = @ + Len(lines)]
             /\ UNCHANGED outcome

UnchangedByIssue ==
    UNCHANGED <<inputs, now, visible, next_publish, next_consume, cpu, buffers,
                delivered, gate, withdrawals, last_visible_ns>>

IssueAtOnce ==
    /\ InCall("issue")
    /\ Issue(Head(calls).packet)
    /\ Return
    /\ UNCHANGED <<next_issue, issue_round_robin>>
    /\ UnchangedByIssue

NextPacket(f) == <<f, next_issue[f]>>

Shared == config.global_credit # NoLimit /\ policy.use_credit

(* Mutant: asks whether there is credit, not whether there is enough.      *)
AnyCredit(f) ==
    policy.use_credit =>
        /\ credit[f] < config.push_credit
        /\ Shared => global_credit < config.global_credit

FitsCredit(f) ==
    policy.use_credit =>
        /\ credit[f] + LinesOf[NextPacket(f)] <= config.push_credit
        /\ Shared => global_credit + LinesOf[NextPacket(f)] <= config.global_credit

Issuable(f) ==
    /\ NextPacket(f) \in Packets
    /\ stage[NextPacket(f)] # "coming"
    /\ FitsCredit(f)

(* Mutant: tries the flow whose packet arrived or was released, only.      *)
OwnFlow(f) == {f}

(* The flows a call of _try_issue looks at.                                *)
Considered(f) == IF Shared THEN Flows ELSE {f}

TurnsTo(f) == (f - issue_round_robin + NumFlows) % NumFlows

(* _try_issue and _try_issue_global, one packet after the other.           *)
TryIssue ==
    /\ InCall("try_issue")
    /\ LET candidates ==
               {f \in Considered(FlowOf(Head(calls).packet)) :
                   policy.reorder_before_push /\ Issuable(f)}
       IN  IF candidates = {}
           THEN /\ Return
                /\ UNCHANGED <<packets, books, events, link_available_ps, line_counts, outcome>>
           ELSE \E f \in candidates :
                /\ \A g \in candidates : TurnsTo(f) <= TurnsTo(g)
                /\ Issue(NextPacket(f))
                /\ next_issue' = [next_issue EXCEPT ![f] = @ + 1]
                /\ issue_round_robin' =
                       IF Shared THEN (f + 1) % NumFlows ELSE issue_round_robin
                /\ UNCHANGED <<calls, visible>>
    /\ UNCHANGED <<inputs, now, next_publish, next_consume, cpu, buffers, delivered, gate,
                   withdrawals, last_visible_ns>>
--------------------------------------------------------------------------------
(* Lines reach the host.                                                   *)

(* Withdrawals follow the pushes of the family alone.                      *)
WithdrawLater(line) ==
    IF policy.family = "ncp" /\ config.withdraw # NoLimit
    THEN <<Event(At + config.withdraw, "withdraw", line)>> ELSE <<>>

(* Where the gate sends a line makes no difference but to the cache; the   *)
(* two counts of it are one here.                                          *)
PayloadVisible ==
    /\ Take("payload_visible")
    /\ LET p == Taken[1]
           left == pending_payload_lines[p] - 1
           stages == IF left = 0 THEN [stage EXCEPT ![p] = "complete"] ELSE stage
           c == ToPublish(p)
           lines == IF left = 0 THEN PublishLines(stages, c) ELSE <<>>
       IN  /\ visible' = [visible EXCEPT ![p] = @ \cup {PayloadLine(Taken[2])}]
           /\ pending_payload_lines' = [pending_payload_lines EXCEPT ![p] = left]
           /\ stage' = IF left = 0 THEN StagesAfterPublish(stages, c) ELSE stage
           /\ events' = ScheduleAll(Rest, WithdrawLater(Taken) \o OnLink(At, lines))
           /\ link_available_ps' = AvailableAfter(At, lines)
           /\ withdrawals' = [withdrawals EXCEPT !.scheduled = @ + Len(WithdrawLater(Taken))]
           /\ line_counts' = [line_counts EXCEPT !.produced = @ + Len(lines),
                                                 !.gated = @ + (IF policy.gated THEN 1 ELSE 0)]
           /\ last_visible_ns' = [last_visible_ns EXCEPT ![p] = At]
    /\ UNCHANGED <<inputs, calls, times, books, next_publish, next_consume, cpu, buffers,
                   delivered, gate, outcome>>

DescriptorVisible ==
    /\ Take("descriptor_visible")
    /\ visible' = [visible EXCEPT ![Taken] = @ \cup {DescriptorLine}]
    /\ events' = Rest
    /\ UNCHANGED <<inputs, calls, link_available_ps, stage, pending_payload_lines, times, books,
                   next_publish, next_consume, cpu, buffers, delivered, gate, withdrawals, tallies, outcome>>

SuccessorOf(p) == <<FlowOf(p), SerialOf(p) + 1>>

ReadyVisible ==
    /\ Take("ready_visible")
    /\ LET p == Taken
           stages == [stage EXCEPT ![p] = "ready"]
           ordered == ~policy.cpu_reorder
           c == SuccessorOf(p)
           lines == IF ordered THEN PublishLines(stages, c) ELSE <<>>
       IN  /\ visible' = [visible EXCEPT ![p] = @ \cup {ReadyLine}]
           /\ times' = [times EXCEPT ![p].ready = At]
           /\ IF ordered /\ SerialOf(p) # next_publish[FlowOf(p)]
              THEN /\ Raise("raised") /\ stage' = stages /\ events' = Rest
                   /\ UNCHANGED <<next_publish, link_available_ps, calls, line_counts>>
              ELSE /\ stage' = IF ordered THEN StagesAfterPublish(stages, c) ELSE stages
                   /\ next_publish' = IF ordered THEN [next_publish EXCEPT ![FlowOf(p)] = @ + 1]
                                      ELSE next_publish
                   /\ events' = ScheduleAll(Rest, OnLink(At, lines))
                   /\ link_available_ps' = AvailableAfter(At, lines)
                   /\ calls' = <<Call("try_cpu", p)>>
                   /\ line_counts' = [line_counts EXCEPT !.produced = @ + Len(lines)]
                   /\ UNCHANGED outcome
    /\ UNCHANGED <<inputs, pending_payload_lines, books, next_consume, cpu, buffers,
                   delivered, gate, withdrawals, last_visible_ns>>
--------------------------------------------------------------------------------
(* The CPU.                                                                *)

FlowTurnsTo(f) == (f - cpu_round_robin + NumFlows) % NumFlows

(* Before in the order of (ready_ns, flow, serial).                        *)
ReadyBefore(p, q) ==
    \/ times[p].ready < times[q].ready
    \/ times[p].ready = times[q].ready /\ FlowOf(p) < FlowOf(q)
    \/ times[p].ready = times[q].ready /\ FlowOf(p) = FlowOf(q) /\ SerialOf(p) < SerialOf(q)

(* What the CPU may take: any ready packet, or the next of each flow.      *)
Consumable ==
    IF policy.cpu_reorder THEN {p \in Packets : stage[p] = "ready"}
    ELSE {p \in Packets : SerialOf(p) = next_consume[FlowOf(p)] /\ stage[p] \in {"ready", "consuming"}}

(* The one it takes of them: the oldest, or the one whose turn it is.      *)
Preferred(p, q) ==
    IF policy.cpu_reorder THEN ReadyBefore(p, q) ELSE FlowTurnsTo(FlowOf(p)) < FlowTurnsTo(FlowOf(q))

TryCpu ==
    /\ InCall("try_cpu")
    /\ IF cpu_scheduled \/ Consumable = {}
       THEN UNCHANGED <<stage, cpu, events>>
       ELSE \E p \in Consumable :
            /\ \A q \in Consumable \ {p} : Preferred(p, q)
            /\ stage' = [stage EXCEPT ![p] = "consuming"]
            /\ cpu_scheduled' = TRUE
            /\ cpu_round_robin' = IF policy.cpu_reorder THEN cpu_round_robin
                                  ELSE (FlowOf(p) + 1) % NumFlows
            /\ events' = Schedule(events, Event(now, "cpu_consume", p))
    /\ Return
    /\ UNCHANGED <<inputs, now, link_available_ps, pending_payload_lines, visible, times, books,
                   next_publish, next_consume, buffers, delivered, gate, withdrawals, tallies, outcome>>

(* Marker, descriptor and payload, line by line.                           *)
Reads(p) == LinesOf[p] + 2

ASSUME HitAssumption ==
    \A hits \in HitPatterns : \A p \in Packets : \A n \in 1..Reads(p) : hits[n] \in BOOLEAN

(* _cpu_access_complete: a miss on a line whose home is the NIC crosses    *)
(* the link after what is on it already.                                   *)
AfterAccess(hit, clock) ==
    LET start == Later(clock.cursor * PsPerNs, clock.link)
    IN  IF hit THEN [clock EXCEPT !.cursor = @ + LlcHit]
        ELSE IF policy.home = "host" THEN [clock EXCEPT !.cursor = @ + HostMiss]
        ELSE [cursor |-> ns_ceil(start + SerializationPs + LinkLatency * PsPerNs) + NicMiss,
              link |-> start + SerializationPs]

(* hits[n] is what the cache answers to the n-th read.                     *)
AfterReads(hits, p) ==
    LET clock[n \in 0..Reads(p)] ==
            IF n = 0 THEN [cursor |-> At + CpuBase, link |-> link_available_ps]
            ELSE AfterAccess(hits[n], clock[n - 1])
    IN  clock[Reads(p)]

(* The bytes are those of the packet if each line came, or is at home on   *)
(* the NIC from the start.                                                 *)
PacketInMemory(p) ==
    /\ {ReadyLine, DescriptorLine} \subseteq visible[p]
    /\ policy.home = "nic" \/ \A k \in 0..(LinesOf[p] - 1) : PayloadLine(k) \in visible[p]

CpuConsume ==
    /\ Take("cpu_consume")
    /\ LET p == Taken
       IN  IF \/ ~policy.cpu_reorder /\ SerialOf(p) # next_consume[FlowOf(p)]
              \/ ~PacketInMemory(p)
           THEN /\ Raise("raised") /\ events' = Rest
                /\ UNCHANGED <<times, link_available_ps, line_counts>>
           ELSE \E hits \in HitPatterns :
                LET clock == AfterReads(hits, p)
                IN  /\ times' = [times EXCEPT ![p].consume = At, ![p].processed = clock.cursor]
                    /\ link_available_ps' = clock.link
                    /\ events' = Schedule(Rest, Event(clock.cursor, "release", p))
                    /\ line_counts' = [line_counts EXCEPT !.demanded = @ + LinesOf[p]]
                    /\ UNCHANGED outcome
    /\ UNCHANGED <<inputs, calls, stage, pending_payload_lines, visible, books, next_publish,
                   next_consume, cpu, buffers, delivered, gate, withdrawals, last_visible_ns>>

(* The packets of p's flow that can be delivered in order once p is done:  *)
(* those up to the first that is not there or that the CPU is not done     *)
(* with.                                                                   *)
HeldUp(p, s) ==
    <<FlowOf(p), s>> \notin Packets \/ (s # SerialOf(p) /\ stage[<<FlowOf(p), s>>] # "buffered")

DeliverableUpTo(p) ==
    LET first == next_consume[FlowOf(p)]
    IN  CHOOSE s \in first..Count : HeldUp(p, s) /\ \A r \in first..(s - 1) : ~HeldUp(p, r)

Delivery(p) ==
    LET first == next_consume[FlowOf(p)]
    IN  IF policy.cpu_reorder
        THEN [k \in 1..(DeliverableUpTo(p) - first) |-> <<FlowOf(p), first + k - 1>>]
        ELSE <<p>>

(* Mutant: packets held up by credit are not tried again.                  *)
Retry(p) == <<Call("try_cpu", p)>>

CallsAfterRelease(p) == <<Call("try_issue", p), Call("try_cpu", p)>>

Release ==
    /\ Take("release")
    /\ LET p == Taken
           f == FlowOf(p)
           deliver == {Delivery(p)[k] : k \in DOMAIN Delivery(p)}
           buffered == cpu_reorder_buffer
                       + (IF policy.cpu_reorder /\ SerialOf(p) # next_consume[f] THEN LinesOf[p] ELSE 0)
       IN  /\ nic_buffer' = nic_buffer - LinesOf[p]
           /\ IF policy.use_credit
              THEN /\ credit' = [credit EXCEPT ![f] = @ - LinesOf[p]]
                   /\ global_credit' = global_credit - LinesOf[p]
              ELSE UNCHANGED <<credit, global_credit>>
           /\ cpu_scheduled' = FALSE
           /\ IF buffered > config.cpu_reorder_buffer
              THEN /\ Raise("overflow")
                   /\ stage' = [stage EXCEPT ![p] = "buffered"]
                   /\ cpu_reorder_buffer' = buffered
                   /\ UNCHANGED <<times, next_consume, delivered, calls>>
              ELSE /\ stage' = [q \in Packets |-> IF q \in deliver THEN "released"
                                                  ELSE IF q = p THEN "buffered" ELSE stage[q]]
                   /\ cpu_reorder_buffer' =
                          buffered - LinesIn({q \in deliver : stage[q] = "buffered"})
                   /\ times' = [q \in Packets |-> IF q \in deliver THEN [times[q] EXCEPT !.delivery = At]
                                                  ELSE times[q]]
                   /\ next_consume' = [next_consume EXCEPT ![f] = @ + Len(Delivery(p))]
                   /\ delivered' = delivered \o Delivery(p)
                   /\ calls' = CallsAfterRelease(p)
                   /\ UNCHANGED outcome
    /\ events' = Rest
    /\ UNCHANGED <<inputs, link_available_ps, pending_payload_lines, visible, next_issue,
                   issue_round_robin, next_publish, cpu_round_robin, gate, withdrawals, tallies>>
--------------------------------------------------------------------------------
(* Events that change no more than the cache and the counts.               *)

Class(p) ==
    IF stage[p] = "released" THEN "stale"
    ELSE IF times[p].consume = NotYet THEN "before" ELSE "after"

Withdraw ==
    /\ Take("withdraw")
    /\ withdrawals' = [withdrawals EXCEPT ![Class(Taken[1])] = @ + 1]
    /\ events' = Rest
    /\ UNCHANGED <<inputs, calls, link_available_ps, packets, books, next_publish, next_consume,
                   cpu, buffers, delivered, gate, tallies, outcome>>

Again(kind, interval) ==
    IF At + interval <= MaxTime THEN <<Event(At + interval, kind, FALSE)>> ELSE <<>>

Background ==
    /\ Take("background")
    /\ events' = ScheduleAll(Rest, Again("background", config.background))
    /\ UNCHANGED <<inputs, calls, link_available_ps, packets, books, next_publish, next_consume,
                   cpu, buffers, delivered, gate, withdrawals, tallies, outcome>>
--------------------------------------------------------------------------------
(* The gate: the occupancy of the cache is sampled now and then, and what  *)
(* it asks for takes effect later.                                         *)

(* Mutant: compares with the flag in force, not with the one asked for.    *)
DiffersFromFlag(enabled) == enabled # gate_push_enabled

DiffersFromRequest(enabled) == enabled # gate_requested

GateSample ==
    /\ Take("gate_sample")
    /\ \E enabled \in BOOLEAN :
        /\ gate_requested' = IF DiffersFromRequest(enabled) THEN enabled ELSE gate_requested
        /\ events' =
             ScheduleAll(Rest,
                (IF DiffersFromRequest(enabled)
                 THEN <<Event(At + config.control_latency, "gate_apply", enabled)>> ELSE <<>>)
                \o Again("gate_sample", config.sample_interval))
    /\ UNCHANGED <<inputs, calls, link_available_ps, packets, books, next_publish, next_consume,
                   cpu, buffers, delivered, gate_push_enabled, withdrawals, tallies, outcome>>

GateApply ==
    /\ Take("gate_apply")
    /\ gate_push_enabled' = Taken
    /\ events' = Rest
    /\ UNCHANGED <<inputs, calls, link_available_ps, packets, books, next_publish, next_consume,
                   cpu, buffers, delivered, gate_requested, withdrawals, tallies, outcome>>
--------------------------------------------------------------------------------
(* The end of the run.                                                     *)

(* The serials of a flow are delivered all, each once and ascending.       *)
InOrder(f) ==
    /\ \A s \in 0..(Count - 1) : \E i \in DOMAIN delivered : delivered[i] = <<f, s>>
    /\ \A i, j \in DOMAIN delivered :
        i < j /\ FlowOf(delivered[i]) = f /\ FlowOf(delivered[j]) = f =>
            SerialOf(delivered[i]) < SerialOf(delivered[j])

NothingLeaked ==
    /\ nic_buffer = 0 /\ cpu_reorder_buffer = 0
    /\ credit = ZeroForAll /\ global_credit = 0

TimesInOrder(p) ==
    LET t == times[p]
    IN  /\ NotYet \notin {t.issue, t.ready, t.consume, t.processed, t.delivery}
        /\ arrival_ns[p] <= t.issue /\ t.issue <= t.ready /\ t.ready <= t.consume
        /\ t.consume <= t.processed /\ t.processed <= t.delivery
        /\ last_visible_ns[p] <= t.ready

(* Each line was demanded once, pushed once if at all, and classified once *)
(* under a gate; the link carried what was pushed and two lines for each   *)
(* packet.                                                                 *)
LinesAccounted ==
    LET expected == LinesIn(Packets)
        pushed == IF policy.push_payload THEN expected ELSE 0
    IN  line_counts = [demanded |-> expected, pushed |-> pushed,
                       produced |-> pushed + 2 * NumFlows * Count,
                       gated |-> IF policy.gated THEN expected ELSE 0]

Withdrawn == withdrawals.before + withdrawals.after + withdrawals.stale

StillQueued == Cardinality({i \in DOMAIN events : events[i].kind = "withdraw"})

(* The checks after the loop. Left out are those of counts kept by the     *)
(* cache or made of two others in one step (781-788, 793-794), of the      *)
(* peaks of credit (795-801), which CreditCoversPushed bounds in every     *)
(* state, and of demands before visibility (809-810): no line is demanded  *)
(* before its packet is consumed, which TimesInOrder puts after the last   *)
(* line became visible.                                                    *)
Finish ==
    /\ Between /\ ~Unfinished
    /\ Raise(IF /\ \A f \in Flows : InOrder(f)
                /\ NothingLeaked
                /\ \A p \in Packets : TimesInOrder(p)
                /\ LinesAccounted
                /\ Withdrawn + StillQueued = withdrawals.scheduled
             THEN "passed" ELSE "raised")
    /\ UNCHANGED <<inputs, events, calls, now, link_available_ps, packets, books, next_publish,
                   next_consume, cpu, buffers, delivered, gate, withdrawals, tallies>>

Fail ==
    /\ Between /\ Unfinished
    /\ \/ events = <<>> /\ Raise("drained")
       \/ events # <<>> /\ Head(events).time > MaxTime /\ Raise("deadline")
    /\ UNCHANGED <<inputs, events, calls, now, link_available_ps, packets, books, next_publish,
                   next_consume, cpu, buffers, delivered, gate, withdrawals, tallies>>

Ended == ~Running /\ UNCHANGED vars

Next ==
    \/ Arrival \/ IssueAtOnce \/ TryIssue
    \/ PayloadVisible \/ DescriptorVisible \/ ReadyVisible
    \/ TryCpu \/ CpuConsume \/ Release
    \/ Withdraw \/ Background
    \/ GateSample \/ GateApply
    \/ Finish \/ Fail \/ Ended

Spec == Init /\ [][Next]_vars
--------------------------------------------------------------------------------
(* None of the simulation's checks on itself ever fails: no packet is      *)
(* issued or published twice or out of turn, the CPU finds each packet     *)
(* whole and in order, the times of its life are in order, each line is    *)
(* counted once and nothing is left over (timing.py:413, 574, 629, 639,    *)
(* 662, 751-758, 767-780, 789-792, 802-808).                               *)
NeverRaises == outcome # "raised"

(* When a handler is done, everything that may go on is going on: whatever *)
(* was held up by credit, by order or by the CPU was tried again when the  *)
(* reason went away (the calls at timing.py:530, 560, 578, 714).           *)
NothingLeftWaiting ==
    Between =>
        /\ policy.reorder_before_push => \A f \in Flows : ~Issuable(f)
        /\ cpu_scheduled \/ Consumable = {}
        /\ \A p \in Packets : stage[p] = "complete" =>
               ~policy.cpu_reorder /\ SerialOf(p) > next_publish[FlowOf(p)]

InNic(p) == stage[p] \notin {"coming", "buffered", "released"}

Pushed(p) == InNic(p) /\ stage[p] # "arrived"

(* Credit and buffers hold what is under way, no more and no less, and     *)
(* what is pushed ahead of the CPU stays within the flow's and the shared  *)
(* limit (timing.py:418, 452, 470-475, 693, 795-801).                      *)
CreditCoversPushed ==
    Running =>
        /\ nic_buffer = LinesIn({p \in Packets : InNic(p)})
        /\ policy.use_credit =>
            /\ \A f \in Flows :
                /\ credit[f] = LinesIn({p \in Packets : Pushed(p) /\ FlowOf(p) = f})
                /\ credit[f] <= config.push_credit
            /\ Shared => global_credit <= config.global_credit

Oversized == policy.use_credit /\ \E p \in Packets : LinesOf[p] > config.push_credit

(* A workload that is taken in gets done: the queue never runs dry, unless *)
(* a packet alone is larger than the credit of its flow, which the         *)
(* constructor does not look at (timing.py:294-297, 452, 723).             *)
OnlyOversizedDrain == outcome = "drained" => Oversized

(* Nor does the deadline come, which is ample in this instance             *)
(* (timing.py:725).                                                        *)
OnlyOversizedStarve == OnlyOversizedDrain /\ (outcome = "deadline" => Oversized)

(* The flag in force, as number 0, and those on their way.                 *)
Flags == {0} \cup {i \in DOMAIN events : events[i].kind = "gate_apply"}

Flag(i) == IF i = 0 THEN gate_push_enabled ELSE events[i].what

(* Each change of the gate that is on its way differs from the one before, *)
(* and the last is what was asked for: changes arrive in the order in      *)
(* which they were sent (timing.py:611-615).                               *)
GateChangesAlternate ==
    \A i \in Flags :
        /\ \A j \in Flags : (i < j /\ \A k \in Flags : k <= i \/ j <= k) => Flag(i) # Flag(j)
        /\ (\A j \in Flags : j <= i) => Flag(i) = gate_requested
================================================================================
