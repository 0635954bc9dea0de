------------------------- MODULE IntegrationInvariants -------------------------
(***************************************************************************)
(* The inductive invariant of Integration: how far the driver's books, the *)
(* memory, the guest and the lines between them are apart from what the    *)
(* class knows, at each place of the driver's loop.                        *)
(***************************************************************************)
EXTENDS Integration, ProtocolInvariants

Printed == input \o serial_line

FieldCopies == UNION {[D -> Int] : D \in SUBSET Fields}

LineCopies == UNION {[D -> LineValues \cup {Stale, Corrupt}] : D \in SUBSET HostLines}

Copies == [field : FieldCopies, line : LineCopies]

LastWords == <<"DONE", NumFlows * Count>>

Prints == {<<"READY">>, InjectedFailure, LastWords} \cup ({"PACKET"} \X Flows \X Copies)

Memories ==
    [line : [Flows -> [Slots -> [HostLines -> LineValues \cup {Stale, Corrupt}]]],
     field : [Flows -> [Slots -> [Fields -> Int]]],
     ready : [Flows -> [Slots -> Nat]],
     release : [Flows -> [Slots -> Nat]]]

Statuses == {0, 1, 2, Failed + 2}

Places == {"start", "announce", "poll", "descriptor", "payload", "release",
           "done", "fail payload", "parked"}

(* The shape of the state.                                                 *)
ITypeOK ==
    /\ mode \in Modes /\ post_push \in BOOLEAN
    /\ post_push => mode = "adversarial"
    /\ memory \in Memories /\ status \in Statuses
    /\ serial_line \in Seq(Prints) /\ input \in Seq(Prints)
    /\ turn \in {"poll", "lines", "release", "feed", "pump", "withdraw", "write",
                 "complete", "inject", "finish"}
    /\ unread \in Seq(Tokens) /\ holding \in Seq(Tokens)
    /\ writing \in Writes \cup {NoWrite}
    /\ remaining \in [Flows -> SUBSET Serials]
    /\ bases \in [Flows -> Nat]
    /\ freed \in [Flows -> SUBSET Serials]
    /\ consumed \in [Flows -> Nat]
    /\ guest_ready \in BOOLEAN /\ guest_done \in BOOLEAN
    /\ guest_failure \in {<<>>, InjectedFailure}
    /\ fault_injected \in BOOLEAN /\ held_progress \in BOOLEAN
    /\ outcome \in {"running", "passed", "expected_rejection", "raised"}
    /\ at \in Places /\ flow_at \in Flows /\ copy \in Copies
    /\ guest_consumed \in [Flows -> 0..Count]
--------------------------------------------------------------------------------
(* What goes with the place of the driver's loop.                          *)
TurnInvariant ==
    /\ pumping => turn = "pump"
    /\ turn # "lines" => input = <<>>
    /\ turn = "complete" <=> writing # NoWrite
    /\ turn = "complete" => writing \in pending /\ ~HeldBack(writing)
    /\ turn = "withdraw" => mode = "adversarial"
    /\ turn = "finish" => guest_done
    /\ turn \notin {"poll", "lines"} => guest_ready

(* The driver's own windows, counts and packets are those of the class.    *)
BooksAgree ==
    /\ bases = base /\ freed = released
    /\ \A f \in Flows :
        /\ ~halted[f]
        /\ next_consume[f] = InitialSerial[f] + consumed[f]
        /\ \A s \in remaining[f] : s \in Sent(f) /\ phase[f][s] = "ABSENT" /\ s \notin released[f]
        /\ \A s \in Serials : phase[f][s] # "ABSENT" =>
            s \in Sent(f) /\ payload[f][s] = PayloadOf[f][s]

(* The tokens held name packets that the guest has reported.               *)
IsHeld(t) == phase[t.flow][t.serial] = "CPU_OWNED" /\ t = TokenOf(t.flow, t.serial)

Distinct(seq) == \A i, j \in DOMAIN seq : seq[i] = seq[j] => i = j

Within(seq, others) == \A i \in DOMAIN seq : \E j \in DOMAIN others : seq[i] = others[j]

HoldingInv ==
    /\ \A i \in DOMAIN holding : IsHeld(holding[i])
    /\ Distinct(holding) /\ Distinct(unread) /\ Within(unread, holding)
--------------------------------------------------------------------------------
(* Memory is what the class believes, but for the write that is made and   *)
(* not completed and for the planted faults.                               *)

Writing(kind, f, k) ==
    /\ writing # NoWrite
    /\ writing.kind = kind /\ writing.token.flow = f /\ writing.token.slot = k

AtTarget(f, k) == f = 0 /\ k = SlotOf(FirstSerial)

LineShown(f, k, i) ==
    IF mode = "corrupt-payload" /\ fault_injected /\ AtTarget(f, k) /\ i = 0 THEN Corrupt
    ELSE IF Writing("payload", f, k) /\ writing.offset = i THEN writing.data
    ELSE host_data[f][k][i]

FieldShown(f, k, d) ==
    IF Writing("descriptor", f, k) /\ writing.field = d THEN writing.value
    ELSE IF host_descriptor[f][k][d] = UnsetField THEN 0
    ELSE host_descriptor[f][k][d]

ReadyShown(f, k) ==
    IF mode = "early-ready" /\ fault_injected /\ AtTarget(f, k) THEN 1
    ELSE IF Writing("ready", f, k) THEN writing.token.generation
    ELSE host_ready[f][k]

MemoryShown ==
    \A f \in Flows, k \in Slots :
        /\ \A i \in HostLines : memory.line[f][k][i] = LineShown(f, k, i)
        /\ \A d \in Fields : memory.field[f][k][d] = FieldShown(f, k, d)
        /\ memory.ready[f][k] = ReadyShown(f, k)
--------------------------------------------------------------------------------
(* The planted faults, and the packet that is held back.                   *)

TargetPhase == phase[0][FirstSerial]

TargetWrite(i) == PayloadWrite(TokenOf(0, FirstSerial), PayloadOf[0][FirstSerial], i)

(* The target waits for its last line, and so does its flow.               *)
TargetHeld ==
    /\ next_publish[0] = FirstSerial
    /\ TargetPhase \in {"ABSENT", "WAIT_SEQ", "PUSHING"}
    /\ TargetPhase = "PUSHING" => TargetWrite(LastLine) \in data_writes[0][FirstSerial]

(* The target's first line is still to come.                               *)
TargetComing ==
    \/ TargetPhase \in {"ABSENT", "WAIT_SEQ"}
    \/ TargetPhase = "PUSHING" /\ TargetWrite(0) \in data_writes[0][FirstSerial] /\ writing # TargetWrite(0)

FaultInv ==
    /\ mode = "adversarial" =>
        /\ ~fault_injected
        /\ consumed[1] = 0 => TargetHeld
        /\ consumed[1] # 0 => held_progress
    /\ mode = "corrupt-payload" =>
        IF fault_injected
        THEN /\ TargetPhase \notin {"ABSENT", "WAIT_SEQ"}
             /\ TargetWrite(0) \in pending => writing = TargetWrite(0)
        ELSE TargetComing
    /\ mode = "early-ready" =>
        /\ TargetHeld
        /\ host_data[0][SlotOf(FirstSerial)][LastLine] = Stale
        /\ fault_injected =>
            /\ TargetPhase = "PUSHING"
            /\ \A w \in pending : IsTarget(w) => IsLastLine(w)
    /\ mode # "adversarial" => guest_consumed[0] = 0 /\ (at = "release" => flow_at # 0)
--------------------------------------------------------------------------------
(* The guest.                                                              *)

NextOf(f) == InitialSerial[f] + guest_consumed[f]

Reading == at \in {"descriptor", "payload", "release"}

(* The first serial of a flow whose marker was not stored in memory.       *)
ShownTo(f) ==
    next_publish[f] + (IF writing # NoWrite /\ writing.kind = "ready" /\ writing.token.flow = f
                       THEN 1 ELSE 0)

(* The guest reads a packet after its marker was stored, and gives it back *)
(* before the class hears of it.                                           *)
FreedByGuest ==
    \A f \in Flows :
        /\ NextOf(f) <= ShownTo(f)
        /\ base[f] <= NextOf(f)
        /\ \A s \in released[f] : s < NextOf(f)

(* A release word is the generation of a packet that the guest is done     *)
(* with.                                                                   *)
ReleaseWords ==
    \A f \in Flows, k \in Slots :
        memory.release[f][k] # 0 =>
            \E n \in 0..(guest_consumed[f] - 1) :
                /\ SlotOf(InitialSerial[f] + n) = k
                /\ memory.release[f][k] = n \div Window + 1

(* The packet that the guest reads is published, or just about to be, or   *)
(* its marker is the planted one.                                          *)
Entitled(f, s) ==
    \/ phase[f][s] \in Published
    \/ Writing("ready", f, SlotOf(s)) /\ writing.token.serial = s
    \/ mode = "early-ready" /\ fault_injected /\ f = 0 /\ s = FirstSerial

GuestInv ==
    /\ Reading => guest_consumed[flow_at] < Count /\ Entitled(flow_at, SerialAt)
    /\ at = "payload" => DOMAIN copy.field = Fields /\ DOMAIN copy.line \subseteq LinesAt
    /\ at = "release" => DOMAIN copy.field = Fields /\ DOMAIN copy.line = LinesAt
    /\ at = "descriptor" => copy.line = <<>>
    /\ at \in {"start", "announce", "poll"} => copy = EmptyCopy
    /\ Reading =>
        /\ \A d \in DOMAIN copy.field : copy.field[d] = memory.field[flow_at][SlotAt][d]
        /\ \A i \in DOMAIN copy.line : copy.line[i] = memory.line[flow_at][SlotAt][i]
--------------------------------------------------------------------------------
(* The lines between guest and driver.                                     *)

(* The guest has reported the packets of a flow below this one.            *)
ReportedTo(f) == NextOf(f) + (IF at = "release" /\ flow_at = f THEN 1 ELSE 0)

IsPacketOf(line, f) == line[1] = "PACKET" /\ line[2] = f

CopyOf(f, s) ==
    [field |-> Descriptor(Token(f, s, ExpectedGeneration(f, s)), Length[PayloadOf[f][s]]),
     line |-> Lines(PayloadOf[f][s])]

(* Each report that was not read yet is that of one serial, in turn.       *)
Numbers(lines, n) ==
    \A f \in Flows :
        /\ \A i \in DOMAIN lines : IsPacketOf(lines[i], f) =>
            /\ n[i] \in next_consume[f]..(ReportedTo(f) - 1)
            /\ lines[i][3] = CopyOf(f, n[i])
        /\ \A i, j \in DOMAIN lines :
            i < j /\ IsPacketOf(lines[i], f) /\ IsPacketOf(lines[j], f) => n[i] < n[j]
        /\ \A s \in next_consume[f]..(ReportedTo(f) - 1) :
            \E i \in DOMAIN lines : IsPacketOf(lines[i], f) /\ n[i] = s

ReportsInTurn ==
    /\ \E n \in [DOMAIN Printed -> Serials] : Numbers(Printed, n)
    /\ \A f \in Flows : next_consume[f] <= ReportedTo(f)

(* Before the driver has read READY nothing has come in.                   *)
BeforeReady ==
    /\ memory.ready = [f \in Flows |-> [k \in Slots |-> 0]]
    /\ \A f \in Flows : guest_consumed[f] = 0
    /\ status = (IF at = "start" THEN 0 ELSE 1)
    /\ at \in {"start", "announce", "poll"}
    /\ Printed = (IF at = "poll" THEN <<<<"READY">>>> ELSE <<>>)

LinesInv ==
    /\ IF guest_ready
       THEN /\ at \notin {"start", "announce"}
            /\ \A i \in DOMAIN Printed : Printed[i] # <<"READY">>
       ELSE BeforeReady
    /\ \A i \in DOMAIN Printed :
        /\ Printed[i] = InjectedFailure => mode # "adversarial" /\ fault_injected
        /\ Printed[i] = LastWords => i = Len(Printed) /\ at \in {"done", "parked"} /\ AllConsumed
    /\ guest_failure # <<>> => mode # "adversarial" /\ fault_injected
    /\ guest_done => Printed = <<>> /\ at \in {"done", "parked"} /\ AllConsumed
--------------------------------------------------------------------------------
RunningInv ==
    /\ TurnInvariant /\ BooksAgree /\ HoldingInv /\ MemoryShown /\ FaultInv
    /\ FreedByGuest /\ ReleaseWords /\ GuestInv /\ ReportsInTurn /\ LinesInv

IntegrationInv == IndInv /\ ITypeOK /\ NeverRaises /\ (Running => RunningInv)
================================================================================
