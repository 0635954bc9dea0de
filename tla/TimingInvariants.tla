--------------------------- MODULE TimingInvariants ---------------------------
(***************************************************************************)
(* The inductive invariant of Timing, part by part: what has a type, what  *)
(* the queue of events holds for each packet, where a packet stands in its *)
(* flow, and what the books say of it.                                     *)
(***************************************************************************)
EXTENDS Timing

Total == NumFlows * Count

Stages == {"coming", "arrived", "issued", "complete", "publishing", "ready",
           "consuming", "buffered", "released"}

OfPacket == {"arrival", "descriptor_visible", "ready_visible", "cpu_consume", "release"}
OfLine == {"payload_visible", "withdraw"}
OfGate == {"background", "gate_sample", "gate_apply"}

Events == [time : Nat, kind : OfPacket, what : Packets]
          \cup [time : Nat, kind : OfLine, what : Packets \X Nat]
          \cup [time : Nat, kind : OfGate, what : BOOLEAN]

CallSet == [name : {"issue", "try_issue", "try_cpu"}, packet : Packets]

Classes == {"scheduled", "before", "after", "stale"}

Counted == {"demanded", "pushed", "produced", "gated"}

AllTimes == [issue : Int, ready : Int, consume : Int, processed : Int, delivery : Int]

TypeInv ==
    /\ policy \in Policies /\ config \in Configs
    /\ arrival_ns \in [Packets -> Nat]
    /\ events \in Seq(Events)
    /\ calls \in Seq(CallSet)
    /\ now \in Nat /\ link_available_ps \in Nat
    /\ stage \in [Packets -> Stages]
    /\ pending_payload_lines \in [Packets -> Int]
    /\ visible \in [Packets -> SUBSET [kind : {"payload", "descriptor", "ready"}, what : Nat]]
    /\ times \in [Packets -> AllTimes]
    /\ next_issue \in [Flows -> Nat] /\ next_publish \in [Flows -> Nat]
    /\ next_consume \in [Flows -> Nat]
    /\ credit \in [Flows -> Int] /\ global_credit \in Int
    /\ issue_round_robin \in Int /\ cpu_round_robin \in Int
    /\ cpu_scheduled \in BOOLEAN
    /\ nic_buffer \in Int /\ cpu_reorder_buffer \in Int
    /\ delivered \in Seq(Packets)
    /\ gate_requested \in BOOLEAN /\ gate_push_enabled \in BOOLEAN
    /\ withdrawals \in [Classes -> Int]
    /\ line_counts \in [Counted -> Int] /\ last_visible_ns \in [Packets -> Int]
    /\ outcome \in {"running", "passed", "raised", "overflow", "drained", "deadline"}
--------------------------------------------------------------------------------
(* Events are taken in the order of their times, and what recurs is         *)
(* configured.                                                             *)
QueueInv ==
    /\ \A i, j \in DOMAIN events : i < j => events[i].time <= events[j].time
    /\ \A i \in DOMAIN events :
        /\ now <= events[i].time
        /\ events[i].kind = "background" => config.background # NoLimit
        /\ events[i].kind = "gate_sample" => config.sample_interval # NoLimit

(* A change of the gate that is sent now comes after those on their way.   *)
GateInv ==
    /\ \A i \in DOMAIN events :
        events[i].kind = "gate_apply" => events[i].time <= now + config.control_latency
    /\ GateChangesAlternate
--------------------------------------------------------------------------------
IsQueued(kind, what) == \E i \in DOMAIN events : events[i].kind = kind /\ events[i].what = what

Awaited(p) == {k \in 0..(LinesOf[p] - 1) : PayloadLine(k) \notin visible[p]}

Same(d, e) == d.kind = e.kind /\ d.what = e.what /\ d.kind \in OfPacket \cup {"payload_visible"}

BothCpu(d, e) == d.kind \in {"cpu_consume", "release"} /\ e.kind \in {"cpu_consume", "release"}

Announces(d, e) ==
    d.kind = "descriptor_visible" /\ e.kind = "ready_visible" /\ d.what = e.what

(* No event is queued twice, the CPU has at most one, and a descriptor     *)
(* comes before the marker.                                                *)
Apart(q) ==
    \A i, j \in DOMAIN q :
        /\ Same(q[i], q[j]) \/ BothCpu(q[i], q[j]) => i = j
        /\ Announces(q[i], q[j]) => i < j

EventsApart == Apart(events)

EventFits(e) ==
    /\ e.kind = "arrival" => stage[e.what] = "coming" /\ e.time = arrival_ns[e.what]
    /\ e.kind = "payload_visible" =>
        stage[e.what[1]] = "issued" /\ e.what[2] \in Awaited(e.what[1])
    /\ e.kind \in {"descriptor_visible", "ready_visible"} => stage[e.what] = "publishing"
    /\ e.kind \in {"cpu_consume", "release"} => stage[e.what] = "consuming"

EventsFit == \A i \in DOMAIN events : EventFits(events[i])

PacketFits(p) ==
    /\ stage[p] = "coming" => IsQueued("arrival", p)
    /\ stage[p] \in {"coming", "arrived"} => visible[p] = {}
    /\ stage[p] = "issued" =>
        /\ pending_payload_lines[p] = Cardinality(Awaited(p))
        /\ Awaited(p) # {}
        /\ \A k \in Awaited(p) : IsQueued("payload_visible", <<p, k>>)
    /\ stage[p] \notin {"coming", "arrived", "issued"} => policy.home = "nic" \/ Awaited(p) = {}
    /\ stage[p] = "publishing" =>
        /\ IsQueued("ready_visible", p)
        /\ IsQueued("descriptor_visible", p) \/ DescriptorLine \in visible[p]
    /\ stage[p] \in {"ready", "consuming"} => {ReadyLine, DescriptorLine} \subseteq visible[p]
    /\ stage[p] = "consuming" => IsQueued("cpu_consume", p) \/ IsQueued("release", p)

CpuFits ==
    /\ \A p, q \in Packets : stage[p] = "consuming" /\ stage[q] = "consuming" => p = q
    /\ cpu_scheduled <=> \E p \in Packets : stage[p] = "consuming"

PacketsFit == \A p \in Packets : PacketFits(p)

(* Where a packet stands in its flow.                                      *)
InFlow(p) ==
    LET f == FlowOf(p)
        s == SerialOf(p)
    IN  /\ stage[p] = "released" <=> s < next_consume[f]
        /\ stage[p] = "buffered" => policy.cpu_reorder /\ s # next_consume[f]
        /\ stage[p] = "complete" => ~policy.cpu_reorder
        /\ ~policy.cpu_reorder =>
            /\ stage[p] \in {"ready", "consuming", "released"} <=> s < next_publish[f]
            /\ stage[p] = "publishing" => s = next_publish[f]
            /\ stage[p] = "complete" => s # next_publish[f]
            /\ stage[p] = "consuming" => s = next_consume[f]
        /\ policy.reorder_before_push =>
            (stage[p] \in {"coming", "arrived"} <=> next_issue[f] <= s)
        /\ ~policy.reorder_before_push /\ stage[p] = "arrived" => calls = <<Call("issue", p)>>

FlowsInv ==
    /\ \A p \in Packets : InFlow(p)
    /\ \A f \in Flows : next_consume[f] <= Count

CallsInv ==
    calls = <<>>
    \/ \E p \in Packets :
        \/ ~policy.reorder_before_push /\ calls = <<Call("issue", p)>> /\ stage[p] = "arrived"
        \/ policy.reorder_before_push /\ calls = <<Call("try_issue", p)>>
        \/ calls = <<Call("try_issue", p), Call("try_cpu", p)>>
        \/ calls = <<Call("try_cpu", p)>>
--------------------------------------------------------------------------------
Calls(name) == \E i \in DOMAIN calls : calls[i].name = name

(* What may go on does go on, or is about to be tried.                     *)
WaitingInv ==
    /\ policy.reorder_before_push =>
        \A f \in Flows : Issuable(f) =>
            \E i \in DOMAIN calls : calls[i].name = "try_issue" /\ f \in Considered(FlowOf(calls[i].packet))
    /\ cpu_scheduled \/ Consumable = {} \/ Calls("try_cpu")

CreditInv ==
    /\ nic_buffer = LinesIn({p \in Packets : InNic(p)})
    /\ cpu_reorder_buffer = LinesIn({p \in Packets : stage[p] = "buffered"})
    /\ IF policy.use_credit
       THEN /\ \A f \in Flows : credit[f] = LinesIn({p \in Packets : Pushed(p) /\ FlowOf(p) = f})
            /\ global_credit = LinesIn({p \in Packets : Pushed(p)})
            /\ \A f \in Flows : credit[f] <= config.push_credit
            /\ Shared => global_credit <= config.global_credit
       ELSE credit = ZeroForAll /\ global_credit = 0

TimeInv(p) ==
    LET t == times[p]
    IN  /\ stage[p] # "coming" => arrival_ns[p] <= now
        /\ stage[p] \notin {"coming", "arrived"} => arrival_ns[p] <= t.issue /\ t.issue <= now
        /\ stage[p] \in {"ready", "consuming", "buffered", "released"} =>
            t.issue <= t.ready /\ t.ready <= now
        /\ stage[p] \in {"buffered", "released"} =>
            t.ready <= t.consume /\ t.consume <= t.processed /\ t.processed <= now
        /\ stage[p] = "released" => t.processed <= t.delivery /\ t.delivery <= now
        /\ \A i \in DOMAIN events : events[i].kind = "release" /\ events[i].what = p =>
            t.ready <= t.consume /\ t.consume <= t.processed /\ t.processed = events[i].time

TimesInv == \A p \in Packets : TimeInv(p)

DeliveredInv ==
    /\ \A p \in Packets : stage[p] = "released" <=> \E i \in DOMAIN delivered : delivered[i] = p
    /\ \A i, j \in DOMAIN delivered :
        i < j /\ FlowOf(delivered[i]) = FlowOf(delivered[j])
            => SerialOf(delivered[i]) < SerialOf(delivered[j])

WithdrawnInv == Withdrawn + StillQueued = withdrawals.scheduled

(* What a packet's lines have been through, by its stage.                  *)
LineInv(p) ==
    LET t == times[p]
    IN  /\ stage[p] \in {"coming", "arrived"} => t.issue = NotYet
        /\ stage[p] \notin {"consuming", "buffered", "released"} => t.consume = NotYet
        /\ stage[p] = "consuming" => t.consume = NotYet \/ IsQueued("release", p)
        /\ stage[p] \notin {"coming", "arrived", "issued"} =>
            (policy.push_payload => Awaited(p) = {})
        /\ last_visible_ns[p] <= now
        /\ stage[p] \in {"ready", "consuming", "buffered", "released"} =>
            last_visible_ns[p] <= t.ready

Sent == {p \in Packets : times[p].issue # NotYet}
Announced == {p \in Packets : stage[p] \notin {"coming", "arrived", "issued", "complete"}}
Demanded == {p \in Packets : times[p].consume # NotYet}

(* The payload lines that came.                                            *)
CameOf(p) == IF p \in Packets THEN LinesOf[p] - Cardinality(Awaited(p)) ELSE 0
LinesCame == PartialSums([k \in Nat |-> CameOf(PacketAt(k + 1))])[NumFlows * Count]

LinesInv ==
    /\ \A p \in Packets : LineInv(p)
    /\ line_counts.demanded = LinesIn(Demanded)
    /\ line_counts.pushed = IF policy.push_payload THEN LinesIn(Sent) ELSE 0
    /\ line_counts.produced = line_counts.pushed + 2 * Cardinality(Announced)
    /\ line_counts.gated = IF policy.gated THEN LinesCame ELSE 0
--------------------------------------------------------------------------------
RunInv ==
    /\ EventsApart /\ EventsFit /\ PacketsFit /\ CpuFits /\ FlowsInv /\ CallsInv
    /\ WaitingInv /\ CreditInv /\ TimesInv /\ DeliveredInv /\ WithdrawnInv
    /\ LinesInv

IndInv ==
    /\ TypeInv /\ QueueInv /\ GateInv /\ ~Refused
    /\ NeverRaises /\ OnlyOversizedDrain
    /\ Running => RunInv
================================================================================
