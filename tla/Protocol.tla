------------------------------- MODULE Protocol -------------------------------
(***************************************************************************)
(* The delivery protocol of cxl_nic/model.py: one fixed session that       *)
(* reorders each flow into reserved host slots, pushes packets as single   *)
(* line and descriptor writes that become visible in any order, publishes  *)
(* a packet with an atomic generation marker once all before it are        *)
(* published, and leaves a slot to the CPU until it releases it.           *)
(*                                                                         *)
(* One action per call of the class.  A call runs to its end before the    *)
(* next one starts; pump() is a loop, so it is a few steps during which    *)
(* (pumping = TRUE) no other call is enabled.  A call that raises or that  *)
(* returns a rejection leaves the state alone and is not a step.           *)
(*                                                                         *)
(* Data: a payload is a value with a length, one host line holds a pair of *)
(* payload and line number, and an issued operation is known by the write  *)
(* it carries (no two operations carry the same write).                    *)
(***************************************************************************)
EXTENDS Integers, FiniteSets, Sums

CONSTANTS
    NumFlows,       \* flows are named by their position in _flow_order
    Window,         \* config.window
    SequenceSpace,  \* 1 << config.sequence_bits
    Sequences,      \* wire sequence numbers the network presents
    Epochs,         \* sender epochs the network presents
    InitialSerial,  \* initial_serials
    MaxPacketBytes, \* config.max_packet_bytes
    PerFlowCredit,  \* config.per_flow_credit_bytes
    GlobalCredit,   \* config.global_push_credit_bytes, 0 standing for None
    Payloads, NoPayload,
    Length,         \* Length[p] = len(p)
    Fields,         \* the descriptor fields kept, of the five of DESCRIPTOR_FIELDS
    Stale           \* what a host line holds before its first write (0xA5)

LineBytes == 64

aligned_size(size) == ((size + LineBytes - 1) \div LineBytes) * LineBytes

Flows == 0..(NumFlows - 1)

WireSerial(epoch, sequence) == epoch * SequenceSpace + sequence

Serials == {WireSerial(e, q) : e \in Epochs, q \in Sequences}

ASSUME ConfigAssumption ==
    /\ NumFlows \in Nat \ {0}
    /\ Window \in Nat \ {0}
    /\ SequenceSpace \in Nat
    /\ 2 * Window < SequenceSpace
    /\ MaxPacketBytes \in Nat \ {0}
    /\ PerFlowCredit \in Nat
    /\ PerFlowCredit >= aligned_size(MaxPacketBytes)
    /\ GlobalCredit \in Nat
    /\ GlobalCredit = 0 \/ GlobalCredit >= aligned_size(MaxPacketBytes)

ASSUME WorldAssumption ==
    /\ Epochs \subseteq Nat
    /\ Sequences \subseteq 0..(SequenceSpace - 1)
    /\ InitialSerial \in [Flows -> Nat]
    /\ Length \in [Payloads -> 1..MaxPacketBytes]
    /\ NoPayload \notin Payloads
    /\ Fields \subseteq {"flow", "serial", "slot", "generation", "length"}
    /\ "length" \in Fields

VARIABLES
    base, next_issue, next_publish, next_consume, \* the cursors of each flow
    released,     \* serials above base already handed back
    generations,  \* packets that ever owned each slot
    credit,       \* push credit each flow has in use
    halted,
    phase,        \* phase[f][s]: of the packet that holds serial s, or ABSENT
    payload, generation, data_writes, \* the rest of that packet
    pending,      \* issued writes that are not visible yet
    host_data, host_descriptor, host_ready, \* what the CPU can see of a slot
    held,         \* held[f][s]: the delivery acquire() returned to the CPU
    global_credit, round_robin,
    pumping, start, from \* the loop of pump(): in it, its pass, its next offset

cursors == <<base, next_issue, next_publish, next_consume>>
budgets == <<credit, global_credit, round_robin>>
packets == <<phase, payload, generation, data_writes>>
host    == <<host_data, host_descriptor, host_ready>>
loop    == <<pumping, start, from>>
vars == <<cursors, released, generations, budgets, halted, packets, pending,
          host, held, loop>>
--------------------------------------------------------------------------------
(* Tokens, descriptors and the writes that carry a packet to its slot.     *)

SlotOf(s) == s % Window

Slots == 0..(Window - 1)

LineNumbers(size) == 0..((aligned_size(size) \div LineBytes) - 1)

HostLines == LineNumbers(MaxPacketBytes)

Token(f, s, g) == [flow |-> f, serial |-> s, slot |-> SlotOf(s), generation |-> g]

TokenOf(f, s) == Token(f, s, generation[f][s])

Descriptor(token, size) ==
    [k \in Fields |-> CASE k = "flow"       -> token.flow
                        [] k = "serial"     -> token.serial
                        [] k = "slot"       -> token.slot
                        [] k = "generation" -> token.generation
                        [] k = "length"     -> size]

(* The bytes of p as the lines that hold them; the rest of the last line   *)
(* is padding that no reader looks at.                                     *)
Lines(p) == [i \in LineNumbers(Length[p]) |-> <<p, i>>]

PayloadWrite(token, p, i) ==
    [token |-> token, kind |-> "payload", offset |-> i, data |-> Lines(p)[i]]

DescriptorWrite(token, p, k) ==
    [token |-> token, kind |-> "descriptor", field |-> k,
     value |-> Descriptor(token, Length[p])[k]]

(* Mutant: a last line that is not full is not written.                    *)
FullLineWrites(token, p) ==
    {PayloadWrite(token, p, i) : i \in 0..((Length[p] \div LineBytes) - 1)}
    \cup {DescriptorWrite(token, p, k) : k \in Fields}

DataWrites(token, p) ==
    {PayloadWrite(token, p, i) : i \in LineNumbers(Length[p])}
    \cup {DescriptorWrite(token, p, k) : k \in Fields}

ReadyWrite(token) == [token |-> token, kind |-> "ready"]

UnsetField == -1   \* a field host.descriptor does not have yet
NotReady == 0      \* host.ready is None; generations start at 1

NoDelivery == [descriptor |-> [k \in Fields |-> UnsetField], lines |-> <<>>]

(* The delivery the CPU would get of an untouched slot image.              *)
Image(token, p) == [descriptor |-> Descriptor(token, Length[p]), lines |-> Lines(p)]
--------------------------------------------------------------------------------
Init ==
    /\ base = InitialSerial
    /\ next_issue = InitialSerial
    /\ next_publish = InitialSerial
    /\ next_consume = InitialSerial
    /\ released = [f \in Flows |-> {}]
    /\ generations = [f \in Flows |-> [k \in Slots |-> 0]]
    /\ credit = [f \in Flows |-> 0]
    /\ halted = [f \in Flows |-> FALSE]
    /\ phase = [f \in Flows |-> [s \in Serials |-> "ABSENT"]]
    /\ payload = [f \in Flows |-> [s \in Serials |-> NoPayload]]
    /\ generation = [f \in Flows |-> [s \in Serials |-> 0]]
    /\ data_writes = [f \in Flows |-> [s \in Serials |-> {}]]
    /\ pending = {}
    /\ host_data = [f \in Flows |-> [k \in Slots |-> [i \in HostLines |-> Stale]]]
    /\ host_descriptor = [f \in Flows |-> [k \in Slots |-> [d \in Fields |-> UnsetField]]]
    /\ host_ready = [f \in Flows |-> [k \in Slots |-> NotReady]]
    /\ held = [f \in Flows |-> [s \in Serials |-> NoDelivery]]
    /\ global_credit = 0
    /\ round_robin = 0
    /\ pumping = FALSE /\ start = 0 /\ from = 0
--------------------------------------------------------------------------------
(* receive                                                                 *)

Present(f, s) == s \in Serials /\ phase[f][s] # "ABSENT"

(* Mutant: forgets the serials handed back above base.                     *)
LateBelowBase(f, s) == s < base[f]

Late(f, s) == s < base[f] \/ s \in released[f]

(* Mutant: one serial too many.                                            *)
BeyondWindow(f, s) == s > base[f] + Window

OutsideWindow(f, s) == s >= base[f] + Window

(* Mutant: a halted flow still takes packets in.                           *)
AdmissibleWhenHalted(f, s) ==
    ~Late(f, s) /\ ~OutsideWindow(f, s) /\ ~Present(f, s)

Admissible(f, s) ==
    ~halted[f] /\ ~Late(f, s) /\ ~OutsideWindow(f, s) /\ ~Present(f, s)

(* The guard of "slot still owned".                                        *)
SlotOwned(f, s) == \E t \in Serials : Present(f, t) /\ SlotOf(t) = SlotOf(s)

(* Mutant: the first generation for every owner of a slot.                 *)
FirstGeneration(f, s) == 1

NextGeneration(f, s) == generations[f][SlotOf(s)] + 1

(* The first copy of a serial inside the window reserves its slot; the     *)
(* slot keeps its old contents and its old ready marker.                   *)
Receive(f, e, q, p) ==
    LET s == WireSerial(e, q)
        g == NextGeneration(f, s)
    IN  /\ ~pumping
        /\ Admissible(f, s)
        /\ ~SlotOwned(f, s)
        /\ generations' = [generations EXCEPT ![f][SlotOf(s)] = g]
        /\ phase' = [phase EXCEPT ![f][s] = "WAIT_SEQ"]
        /\ payload' = [payload EXCEPT ![f][s] = p]
        /\ generation' = [generation EXCEPT ![f][s] = g]
        /\ UNCHANGED <<cursors, released, budgets, halted, data_writes, pending,
                       host, held, loop>>
--------------------------------------------------------------------------------
(* pump                                                                    *)

HeadSize(f) == aligned_size(Length[payload[f][next_issue[f]]])

HeadWaits(f) ==
    /\ ~halted[f]
    /\ Present(f, next_issue[f])
    /\ phase[f][next_issue[f]] = "WAIT_SEQ"

(* Mutant: every flow is charged for what all of them have in use.         *)
SharedCreditFits(f) == global_credit + HeadSize(f) <= PerFlowCredit

FlowCreditFits(f) == credit[f] + HeadSize(f) <= PerFlowCredit

GlobalCreditFits(f) ==
    GlobalCredit = 0 \/ global_credit + HeadSize(f) <= GlobalCredit

Issuable(f) == HeadWaits(f) /\ FlowCreditFits(f) /\ GlobalCreditFits(f)

(* The flow a pass looks at, offset steps after the one it started with.   *)
FlowAt(offset) == (start + offset) % NumFlows

NothingLeftInPass == \A k \in from..(NumFlows - 1) : ~Issuable(FlowAt(k))

(* A pump() that finds nothing to issue changes nothing, so only the calls *)
(* that issue something are steps.                                         *)
PumpCall ==
    /\ ~pumping
    /\ \E f \in Flows : Issuable(f)
    /\ pumping' = TRUE
    /\ start' = round_robin
    /\ from' = 0
    /\ UNCHANGED <<cursors, released, generations, budgets, halted, packets,
                   pending, host, held>>

(* Mutant: the turn does not move.                                         *)
SameTurn(f) == round_robin

NextTurn(f) == (f + 1) % NumFlows

(* The pass skips the flows that cannot issue and issues the head packet   *)
(* of the next one that can.                                               *)
PumpIssue(k) ==
    LET f == FlowAt(k)
        s == next_issue[f]
        writes == DataWrites(TokenOf(f, s), payload[f][s])
    IN  /\ pumping
        /\ k >= from
        /\ Issuable(f)
        /\ \A j \in from..(k - 1) : ~Issuable(FlowAt(j))
        /\ credit' = [credit EXCEPT ![f] = @ + HeadSize(f)]
        /\ global_credit' = global_credit + HeadSize(f)
        /\ phase' = [phase EXCEPT ![f][s] = "PUSHING"]
        /\ data_writes' = [data_writes EXCEPT ![f][s] = writes]
        /\ pending' = pending \cup writes
        /\ next_issue' = [next_issue EXCEPT ![f] = s + 1]
        /\ round_robin' = NextTurn(f)
        /\ from' = k + 1
        /\ UNCHANGED <<base, next_publish, next_consume, released, generations,
                       halted, payload, generation, host, held, pumping, start>>

(* A pass that issued something (from > 0) is followed by another, which   *)
(* starts where round_robin points by then; one that did not ends the call. *)
PumpPass ==
    /\ pumping
    /\ NothingLeftInPass
    /\ IF from > 0
       THEN start' = round_robin /\ from' = 0 /\ UNCHANGED pumping
       ELSE pumping' = FALSE /\ start' = 0 /\ from' = 0
    /\ UNCHANGED <<cursors, released, generations, budgets, halted, packets,
                   pending, host, held>>
--------------------------------------------------------------------------------
(* complete, for the three raises it guards and the two kinds of write     *)

Outlived(w) ==
    LET f == w.token.flow
        s == w.token.serial
    IN  ~Present(f, s) \/ TokenOf(f, s) # w.token

EarlyPublication(w) ==
    LET f == w.token.flow
        s == w.token.serial
    IN  \/ phase[f][s] # "COMMITTING"
        \/ data_writes[f][s] # {}
        \/ next_publish[f] # s

LateData(w) ==
    LET f == w.token.flow
        s == w.token.serial
    IN  phase[f][s] # "PUSHING" \/ w \notin data_writes[f][s]

Committable(phases, f, s) == s \in Serials /\ phases[f][s] = "PREPARED"

(* _try_commit, run on the phases, cursor and pending writes that complete *)
(* has just updated: the packet that is next to publish gets its ready     *)
(* write once its data is visible.                                         *)
TryCommit(f, phases, s, writes) ==
    IF Committable(phases, f, s)
    THEN /\ phase' = [phases EXCEPT ![f][s] = "COMMITTING"]
         /\ pending' = writes \cup {ReadyWrite(TokenOf(f, s))}
    ELSE /\ phase' = phases
         /\ pending' = writes

(* Mutant: the cursor as it was before this publication.                   *)
SerialJustPublished(f) == next_publish[f]

SerialToPublish(f) == next_publish[f] + 1

(* A ready write publishes its packet by storing the generation.           *)
CompleteReady(w) ==
    LET f == w.token.flow
        s == w.token.serial
    IN  /\ ~pumping
        /\ w \in pending /\ w.kind = "ready"
        /\ ~Outlived(w) /\ ~EarlyPublication(w)
        /\ host_ready' = [host_ready EXCEPT ![f][w.token.slot] = w.token.generation]
        /\ next_publish' = [next_publish EXCEPT ![f] = @ + 1]
        /\ TryCommit(f, [phase EXCEPT ![f][s] = "READY"], SerialToPublish(f),
                     pending \ {w})
        /\ UNCHANGED <<base, next_issue, next_consume, released, generations,
                       budgets, halted, payload, generation, data_writes,
                       host_data, host_descriptor, held, loop>>

(* Mutants: prepared when one write is still missing; prepared on the      *)
(* payload alone.                                                          *)
PhaseBeforeLast(rest) == IF Cardinality(rest) <= 1 THEN "PREPARED" ELSE "PUSHING"
PhaseAfterPayload(rest) ==
    IF \A w \in rest : w.kind # "payload" THEN "PREPARED" ELSE "PUSHING"

(* The phase after a data write: the last one prepares the packet.         *)
PhaseAfterData(rest) == IF rest = {} THEN "PREPARED" ELSE "PUSHING"

StoreData(f, k, w) ==
    IF w.kind = "payload"
    THEN /\ host_data' = [host_data EXCEPT ![f][k][w.offset] = w.data]
         /\ UNCHANGED host_descriptor
    ELSE /\ host_descriptor' = [host_descriptor EXCEPT ![f][k][w.field] = w.value]
         /\ UNCHANGED host_data

CompleteData(w) ==
    LET f == w.token.flow
        s == w.token.serial
        rest == data_writes[f][s] \ {w}
    IN  /\ ~pumping
        /\ w \in pending /\ w.kind # "ready"
        /\ ~Outlived(w) /\ ~LateData(w)
        /\ StoreData(f, w.token.slot, w)
        /\ data_writes' = [data_writes EXCEPT ![f][s] = rest]
        /\ TryCommit(f, [phase EXCEPT ![f][s] = PhaseAfterData(rest)],
                     next_publish[f], pending \ {w})
        /\ UNCHANGED <<cursors, released, generations, budgets, halted, payload,
                       generation, host_ready, held, loop>>

Complete(w) == CompleteReady(w) \/ CompleteData(w)
--------------------------------------------------------------------------------
(* acquire                                                                 *)

VisibleLength(f, s) == host_descriptor[f][SlotOf(s)]["length"]

LengthFits(f, s) == VisibleLength(f, s) \in 1..MaxPacketBytes

(* bytes(host.data[:length]) and dict(host.descriptor)                     *)
Snapshot(f, s) ==
    [descriptor |-> host_descriptor[f][SlotOf(s)],
     lines |-> [i \in LineNumbers(VisibleLength(f, s)) |-> host_data[f][SlotOf(s)][i]]]

(* The ready marker of the slot names the packet the CPU expects.          *)
MarkerSeen(f, s) == Present(f, s) /\ host_ready[f][SlotOf(s)] = generation[f][s]

Acquire(f) ==
    LET s == next_consume[f]
    IN  /\ ~pumping
        /\ MarkerSeen(f, s)
        /\ phase[f][s] = "READY"
        /\ LengthFits(f, s)
        /\ phase' = [phase EXCEPT ![f][s] = "CPU_OWNED"]
        /\ next_consume' = [next_consume EXCEPT ![f] = s + 1]
        /\ held' = [held EXCEPT ![f][s] = Snapshot(f, s)]
        /\ UNCHANGED <<base, next_issue, next_publish, released, generations,
                       budgets, halted, payload, generation, data_writes, pending,
                       host, loop>>
--------------------------------------------------------------------------------
(* release and fail_gap                                                    *)

WritesInFlight(f, s) == \E w \in pending : w.token = TokenOf(f, s)

(* base moves over every serial handed back without a gap.                 *)
AdvanceBase(f, back) ==
    \E b \in base[f]..(base[f] + Window) :
        /\ b \notin back
        /\ base[f]..(b - 1) \subseteq back
        /\ base' = [base EXCEPT ![f] = b]
        /\ released' = [released EXCEPT ![f] = back \ (base[f]..(b - 1))]

(* Mutant: gives back the bytes of the packet, not of its lines.           *)
UnalignedRefund(f, s) == Length[payload[f][s]]

Refund(f, s) == aligned_size(Length[payload[f][s]])

(* The CPU may hand back the packets it holds in any order.                *)
Release(f, s) ==
    /\ ~pumping
    /\ phase[f][s] = "CPU_OWNED"
    /\ ~WritesInFlight(f, s)
    /\ credit' = [credit EXCEPT ![f] = @ - Refund(f, s)]
    /\ global_credit' = global_credit - Refund(f, s)
    /\ phase' = [phase EXCEPT ![f][s] = "ABSENT"]
    /\ payload' = [payload EXCEPT ![f][s] = NoPayload]
    /\ generation' = [generation EXCEPT ![f][s] = 0]
    /\ held' = [held EXCEPT ![f][s] = NoDelivery]
    /\ AdvanceBase(f, released[f] \cup {s})
    /\ UNCHANGED <<next_issue, next_publish, next_consume, generations,
                   round_robin, halted, data_writes, pending, host, loop>>

GapBehind(f) == \E s \in Serials : s > next_issue[f] /\ Present(f, s)

FailGap(f) ==
    /\ ~pumping
    /\ ~halted[f]
    /\ ~Present(f, next_issue[f])
    /\ GapBehind(f)
    /\ halted' = [halted EXCEPT ![f] = TRUE]
    /\ UNCHANGED <<cursors, released, generations, budgets, packets, pending,
                   host, held, loop>>
--------------------------------------------------------------------------------
Pump == PumpCall \/ PumpPass \/ \E k \in 0..(NumFlows - 1) : PumpIssue(k)

Next ==
    \/ \E f \in Flows, e \in Epochs, q \in Sequences, p \in Payloads : Receive(f, e, q, p)
    \/ Pump
    \/ \E w \in pending : Complete(w)
    \/ \E f \in Flows : Acquire(f) \/ FailGap(f)
    \/ \E f \in Flows, s \in Serials : Release(f, s)

Spec == Init /\ [][Next]_vars

(* What a driver of the class does until it is drained (verify.py, the     *)
(* integration and timing loops): it pumps, completes every write it       *)
(* issued, polls every flow and hands back what it holds.  Nothing makes   *)
(* the network send or a gap be declared.                                  *)
FlowFairness(f) ==
    /\ WF_vars(\E w \in pending : w.token.flow = f /\ Complete(w))
    /\ WF_vars(Acquire(f))
    /\ WF_vars(\E s \in Serials : Release(f, s))

Fairness == WF_vars(Pump) /\ \A f \in Flows : FlowFairness(f)

FairSpec == Spec /\ Fairness
--------------------------------------------------------------------------------
Phases == {"ABSENT", "WAIT_SEQ", "PUSHING", "PREPARED", "COMMITTING", "READY",
           "CPU_OWNED"}
Visible == {"PREPARED", "COMMITTING", "READY", "CPU_OWNED"}
Published == {"READY", "CPU_OWNED"}

Tokens == [flow : Flows, serial : Serials, slot : Slots, generation : Nat \ {0}]

LineValues == Payloads \X HostLines

Writes ==
    [token : Tokens, kind : {"payload"}, offset : HostLines, data : LineValues]
    \cup [token : Tokens, kind : {"descriptor"}, field : Fields, value : Int]
    \cup [token : Tokens, kind : {"ready"}]

LineSequences ==
    UNION {[D -> LineValues \cup {Stale}] :
            D \in {LineNumbers(n) : n \in 0..MaxPacketBytes}}

Deliveries == [descriptor : [Fields -> Int], lines : LineSequences]

(* The shape of the state.                                                 *)
TypeOK ==
    /\ base \in [Flows -> Nat]
    /\ next_issue \in [Flows -> Nat]
    /\ next_publish \in [Flows -> Nat]
    /\ next_consume \in [Flows -> Nat]
    /\ released \in [Flows -> SUBSET Serials]
    /\ generations \in [Flows -> [Slots -> Nat]]
    /\ credit \in [Flows -> Int]
    /\ global_credit \in Int
    /\ round_robin \in Flows
    /\ halted \in [Flows -> BOOLEAN]
    /\ phase \in [Flows -> [Serials -> Phases]]
    /\ payload \in [Flows -> [Serials -> Payloads \cup {NoPayload}]]
    /\ generation \in [Flows -> [Serials -> Nat]]
    /\ data_writes \in [Flows -> [Serials -> SUBSET Writes]]
    /\ pending \subseteq Writes
    /\ host_data \in [Flows -> [Slots -> [HostLines -> LineValues \cup {Stale}]]]
    /\ host_descriptor \in [Flows -> [Slots -> [Fields -> Int]]]
    /\ host_ready \in [Flows -> [Slots -> Nat]]
    /\ held \in [Flows -> [Serials -> Deliveries]]
    /\ pumping \in BOOLEAN
    /\ start \in Flows
    /\ from \in 0..NumFlows

Issued(f) == {s \in Serials : Present(f, s) /\ phase[f][s] # "WAIT_SEQ"}

(* What each serial of a flow is charged: its packet from issue to release. *)
Charged(f) ==
    [s \in Nat |-> IF s \in Issued(f) THEN aligned_size(Length[payload[f][s]]) ELSE 0]

InUse == [f \in Nat |-> IF f \in Flows THEN credit[f] ELSE 0]

(* The credit a flow has in use is the aligned size of the packets it      *)
(* issued and the CPU has not released, the global figure is their total,  *)
(* and neither passes its budget, whatever order releases come in          *)
(* (model.py:338-346).                                                     *)
CreditConserved ==
    /\ \A f \in Flows :
        /\ credit[f] = PartialSums(Charged(f))[next_issue[f]]
        /\ credit[f] <= PerFlowCredit
    /\ global_credit = PartialSums(InUse)[NumFlows]
    /\ GlobalCredit # 0 => global_credit <= GlobalCredit

(* A slot has one owner at a time: the cursors never overtake each other,  *)
(* what is owned or waits for base lies in one window, and two packets of  *)
(* a flow never share a slot even while serials are released out of order  *)
(* (model.py:342-352).                                                     *)
SlotsExclusive ==
    \A f \in Flows :
        /\ base[f] <= next_consume[f]
        /\ next_consume[f] <= next_publish[f]
        /\ next_publish[f] <= next_issue[f]
        /\ \A s \in Serials : Present(f, s) \/ s \in released[f] =>
                s \in base[f]..(base[f] + Window - 1)
        /\ \A s, t \in Serials :
                Present(f, s) /\ Present(f, t) /\ SlotOf(s) = SlotOf(t) => s = t
        /\ \A s \in Serials : Present(f, s) =>
                generations[f][SlotOf(s)] = generation[f][s]

(* No physical write outlives the packet it was issued for, what is        *)
(* pending for a packet is what the packet waits for, and a flow has at    *)
(* most one ready write in flight, that of the serial it publishes next    *)
(* (model.py:353-368).                                                     *)
WritesOwned ==
    \A w \in pending :
        LET f == w.token.flow
            s == w.token.serial
        IN  /\ Present(f, s)
            /\ w.token = TokenOf(f, s)
            /\ IF w.kind = "ready"
               THEN phase[f][s] = "COMMITTING" /\ s = next_publish[f]
               ELSE phase[f][s] = "PUSHING" /\ w \in data_writes[f][s]

(* From the moment a packet is prepared until the CPU hands it back, its   *)
(* slot holds exactly its bytes and its descriptor, and from publication   *)
(* on its own generation (model.py:355-363).                               *)
PublishedImage ==
    \A f \in Flows, s \in Serials :
        /\ phase[f][s] \in Visible =>
            /\ LengthFits(f, s)
            /\ Snapshot(f, s) = Image(TokenOf(f, s), payload[f][s])
            /\ data_writes[f][s] = {}
        /\ phase[f][s] \in Published =>
            host_ready[f][SlotOf(s)] = generation[f][s]

(* None of the internal errors of the class can be reached by legal calls: *)
(* "slot still owned" (174), "outlived" (249), "before visible prefix"     *)
(* (253), "after publication" (259), "without published ownership" (298),  *)
(* "invalid visible descriptor length" (302), "release while ... in        *)
(* flight" (316).                                                          *)
NoInternalFault ==
    /\ \A f \in Flows, s \in Serials : Admissible(f, s) => ~SlotOwned(f, s)
    /\ \A w \in pending :
        /\ ~Outlived(w)
        /\ w.kind = "ready" => ~EarlyPublication(w)
        /\ w.kind # "ready" => ~LateData(w)
    /\ \A f \in Flows :
        LET s == next_consume[f]
        IN  MarkerSeen(f, s) => phase[f][s] = "READY" /\ LengthFits(f, s)
    /\ \A f \in Flows, s \in Serials :
        phase[f][s] = "CPU_OWNED" => ~WritesInFlight(f, s)

(* The generation a polling CPU waits for when it has consumed the serials *)
(* below s, which it computes without asking the NIC.                      *)
ExpectedGeneration(f, s) == ((s - InitialSerial[f]) \div Window) + 1

(* A CPU that knows only its own count of packets can trust the marker:    *)
(* when the slot of s shows the generation it computes for s, then s and   *)
(* every serial below it have been published, and conversely a published   *)
(* serial that was not released shows that generation.                     *)
ReadyMeansPrefixVisible ==
    \A f \in Flows, s \in Serials :
        s >= InitialSerial[f] =>
            /\ host_ready[f][SlotOf(s)] = ExpectedGeneration(f, s) =>
                    s < next_publish[f]
            /\ Present(f, s) /\ s < next_publish[f] =>
                    host_ready[f][SlotOf(s)] = ExpectedGeneration(f, s)

(* The buffer the CPU holds is the packet that came in, and it stays so    *)
(* under the CPU's eyes until it is handed back, while the packets around  *)
(* it are pushed and published (ownership until release, model.py:111-118). *)
HeldIntact ==
    \A f \in Flows, s \in Serials :
        phase[f][s] = "CPU_OWNED" =>
            /\ held[f][s] = Image(TokenOf(f, s), payload[f][s])
            /\ Snapshot(f, s) = held[f][s]

(* Giving up on a gap never skips its serial (fail_gap, model.py:328): from *)
(* then on nothing at or behind the gap is taken in, issued or handed over, *)
(* and the packets before it still go their way.                           *)
HaltNeverSkips ==
    [][\A f \in Flows : halted[f] =>
        /\ halted'[f]
        /\ next_issue'[f] = next_issue[f]
        /\ base'[f] <= next_issue[f]
        /\ \A s \in Serials : s >= next_issue[f] => phase'[f][s] = phase[f][s]]_vars

Settled(f, s) == s < base[f] \/ s \in released[f]

PrefixReceived(f, s) ==
    \A t \in Serials : t <= s => Settled(f, t) \/ Present(f, t)

(* Once every serial up to s has come in, s is delivered and handed back,  *)
(* in whatever order the writes become visible, and even if the flow gives *)
(* up on a later gap.                                                      *)
PrefixDelivered ==
    \A f \in Flows, s \in Serials : PrefixReceived(f, s) ~> Settled(f, s)
--------------------------------------------------------------------------------
StatusOf(f, s) ==
    IF phase[f][s] = "CPU_OWNED" THEN "held"
    ELSE IF phase[f][s] # "ABSENT" THEN "accepted"
    ELSE IF Settled(f, s) THEN "settled" ELSE "new"

(* What the CPU saw, when it is all of the packet and nothing else.        *)
ObservedBy(f, s) ==
    IF /\ phase[f][s] = "CPU_OWNED"
       /\ held[f][s] = Image(TokenOf(f, s), payload[f][s])
    THEN payload[f][s]
    ELSE NoPayload

Standing == [f \in Flows |-> [s \in Serials |-> StatusOf(f, s)]]

Observed == [f \in Flows |-> [s \in Serials |-> ObservedBy(f, s)]]

Ordered == INSTANCE OrderedDelivery WITH
    status <- Standing, content <- payload, observed <- Observed

(* The class keeps the promise of OrderedDelivery: each serial is taken in *)
(* once, handed to the CPU once, intact and in order, and no step of slots, *)
(* writes, credit or markers shows through.                                *)
ImplementsOrderedDelivery == Ordered!Spec
================================================================================
