-------------------------- MODULE ProtocolInvariants --------------------------
(***************************************************************************)
(* The inductive invariant behind the safety properties of Protocol, part  *)
(* by part.  Each part says where a piece of state stands relative to the  *)
(* cursors of its flow; none of them holds by itself.                      *)
(***************************************************************************)
EXTENDS Protocol

CursorOrder ==
    \A f \in Flows :
        /\ InitialSerial[f] <= base[f]
        /\ base[f] <= next_consume[f]
        /\ next_consume[f] <= next_publish[f]
        /\ next_publish[f] <= next_issue[f]

(* A packet lies in the window of its flow and is the last owner of its    *)
(* slot; its phase tells between which cursors it is.                      *)
PacketInWindow ==
    \A f \in Flows, s \in Serials :
        phase[f][s] # "ABSENT" =>
            /\ base[f] <= s /\ s < base[f] + Window
            /\ s \notin released[f]
            /\ payload[f][s] \in Payloads
            /\ generation[f][s] > 0
            /\ generation[f][s] = generations[f][SlotOf(s)]

PhaseAmongCursors ==
    \A f \in Flows, s \in Serials :
        /\ phase[f][s] = "WAIT_SEQ" => next_issue[f] <= s
        /\ phase[f][s] \in {"PUSHING", "PREPARED"} =>
                next_publish[f] <= s /\ s < next_issue[f]
        /\ phase[f][s] = "COMMITTING" => s = next_publish[f] /\ s < next_issue[f]
        /\ phase[f][s] = "READY" => next_consume[f] <= s /\ s < next_publish[f]
        /\ phase[f][s] = "CPU_OWNED" => s < next_consume[f]

ReleasedInWindow ==
    \A f \in Flows : \A s \in released[f] :
        base[f] < s /\ s < base[f] + Window /\ s < next_consume[f]

(* Between base and next_issue, a serial has its packet or is handed back. *)
IssuedStays ==
    \A f \in Flows, s \in Serials :
        base[f] <= s /\ s < next_issue[f] =>
            phase[f][s] # "ABSENT" \/ s \in released[f]

(* The writes a packet waits for are issued, not yet visible, and its own. *)
DataWritesPending ==
    \A f \in Flows, s \in Serials : \A w \in data_writes[f][s] :
        /\ phase[f][s] = "PUSHING"
        /\ w \in pending
        /\ w \in DataWrites(TokenOf(f, s), payload[f][s])

(* What a packet does not wait for any more is in its slot.                *)
LineArrived(f, s, i) ==
    \/ PayloadWrite(TokenOf(f, s), payload[f][s], i) \in data_writes[f][s]
    \/ host_data[f][SlotOf(s)][i] = Lines(payload[f][s])[i]

FieldArrived(f, s, k) ==
    \/ DescriptorWrite(TokenOf(f, s), payload[f][s], k) \in data_writes[f][s]
    \/ host_descriptor[f][SlotOf(s)][k]
            = Descriptor(TokenOf(f, s), Length[payload[f][s]])[k]

ImageInSlot ==
    \A f \in Flows, s \in Serials :
        phase[f][s] \in Visible \cup {"PUSHING"} =>
            /\ \A i \in LineNumbers(Length[payload[f][s]]) : LineArrived(f, s, i)
            /\ \A k \in Fields : FieldArrived(f, s, k)

(* The ready marker of a slot never runs ahead of the owners of the slot,  *)
(* and equals the generation of the present one exactly when published.    *)
MarkerBehindOwner ==
    /\ \A f \in Flows, k \in Slots : host_ready[f][k] <= generations[f][k]
    /\ \A f \in Flows, s \in Serials :
        /\ phase[f][s] \in Published => host_ready[f][SlotOf(s)] = generation[f][s]
        /\ phase[f][s] \notin Published \cup {"ABSENT"} =>
                host_ready[f][SlotOf(s)] < generation[f][s]

HeldIsImage ==
    \A f \in Flows, s \in Serials :
        phase[f][s] = "CPU_OWNED" =>
            held[f][s] = Image(TokenOf(f, s), payload[f][s])

Taken(f, s) == (s \in Serials /\ phase[f][s] # "ABSENT") \/ s \in released[f]

(* A slot has had one owner for each of its serials up to the one in the   *)
(* window, that one included once it has been taken in.                    *)
GenerationsCount ==
    \A f \in Flows : \A s \in base[f]..(base[f] + Window - 1) :
        generations[f][SlotOf(s)] =
            IF Taken(f, s) THEN ExpectedGeneration(f, s)
            ELSE ExpectedGeneration(f, s) - 1

(* What every call of the class preserves (the argument of the proofs).    *)
IndInv ==
    /\ TypeOK
    /\ CursorOrder
    /\ PacketInWindow
    /\ PhaseAmongCursors
    /\ ReleasedInWindow
    /\ IssuedStays
    /\ WritesOwned
    /\ DataWritesPending
    /\ ImageInSlot
    /\ MarkerBehindOwner
    /\ HeldIsImage
    /\ GenerationsCount
================================================================================
