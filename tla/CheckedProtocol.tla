---------------------------- MODULE CheckedProtocol ----------------------------
(***************************************************************************)
(* Protocol and the checker put together the way verify.py does it: every  *)
(* call appends its events to the trace in the order the code emits them,  *)
(* and the checker reads the trace.  The checker is given each call's      *)
(* events before the next call; as it reads a trace from the front and     *)
(* answers nothing to the class, this loses no outcome.  Rejections change *)
(* neither side and are left out.                                          *)
(***************************************************************************)
EXTENDS Protocol, Sequences

CONSTANTS
    NoToken, NotHalted,
    FieldOrder \* the descriptor fields kept, in the order of DESCRIPTOR_FIELDS

ASSUME TraceAssumption ==
    /\ NoToken \notin Tokens
    /\ NotHalted \notin Nat
    /\ FieldOrder \in Seq(Fields)
    /\ \A k \in Fields : \E i \in DOMAIN FieldOrder : FieldOrder[i] = k
    /\ \A i, j \in DOMAIN FieldOrder : FieldOrder[i] = FieldOrder[j] => i = j

VARIABLES
    unread, \* events of the trace the checker has not read
    c_bases, c_next_issue, c_next_ready, c_next_consume, c_credit, c_global_credit,
    c_released, c_pending_ready, c_generations, c_active_slots, c_packets, c_halted

Check == INSTANCE Checker WITH
    CreditLimit <- PerFlowCredit, GlobalLimit <- GlobalCredit,
    bases <- c_bases, next_issue <- c_next_issue, next_ready <- c_next_ready,
    next_consume <- c_next_consume, credit <- c_credit,
    global_credit <- c_global_credit, released_serials <- c_released,
    pending_ready <- c_pending_ready, generations <- c_generations,
    active_slots <- c_active_slots, packets <- c_packets, halted <- c_halted

replica == <<c_bases, c_next_issue, c_next_ready, c_next_consume, c_credit,
             c_global_credit, c_released, c_pending_ready, c_generations,
             c_active_slots, c_packets, c_halted>>

cvars == <<vars, unread, replica>>

CInit == Init /\ unread = <<>> /\ Check!Init
--------------------------------------------------------------------------------
(* The events of each call, in the order of its _emit calls.               *)

Component(w) ==
    CASE w.kind = "payload"    -> <<"payload", w.offset>>
      [] w.kind = "descriptor" -> <<"descriptor", w.field>>
      [] w.kind = "ready"      -> Check!ReadyComponent

Content(w) ==
    CASE w.kind = "payload"    -> w.data
      [] w.kind = "descriptor" -> w.value
      [] w.kind = "ready"      -> Check!NoContent

WriteEvent(name, w) ==
    [event |-> name, token |-> w.token, component |-> Component(w), content |-> Content(w)]

ReceiveEvent(token, p) == [event |-> "receive", token |-> token, payload |-> p]

ConsumeEvent(token, delivery) ==
    [event |-> "consume", token |-> token, descriptor |-> delivery.descriptor,
     lines |-> delivery.lines]

ReleaseEvent(token) == [event |-> "release", token |-> token]

HaltEvent(f, s) == [event |-> "halt", flow |-> f, serial |-> s]

LineCount(p) == aligned_size(Length[p]) \div LineBytes

(* The writes of a packet in the order they are issued: payload lines from *)
(* the front, then the descriptor field by field.                          *)
WriteAt(token, p, i) ==
    IF i <= LineCount(p)
    THEN PayloadWrite(token, p, i - 1)
    ELSE DescriptorWrite(token, p, FieldOrder[i - LineCount(p)])

IssueEvents(token, p) ==
    [i \in 1..(LineCount(p) + Len(FieldOrder)) |->
        WriteEvent("issue", WriteAt(token, p, i))]

(* The write that became visible, then the ready write it allowed if any.  *)
CompleteEvents(w) ==
    IF pending' \subseteq pending
    THEN <<WriteEvent("visible", w)>>
    ELSE <<WriteEvent("visible", w),
           WriteEvent("issue", CHOOSE r \in pending' \ pending : TRUE)>>

Emit(events) == unread' = events /\ UNCHANGED replica

Call ==
    \/ \E f \in Flows, e \in Epochs, q \in Sequences, p \in Payloads :
        /\ Receive(f, e, q, p)
        /\ Emit(<<ReceiveEvent(TokenOf(f, WireSerial(e, q))', p)>>)
    \/ (PumpCall \/ PumpPass) /\ Emit(<<>>)
    \/ \E k \in 0..(NumFlows - 1) :
        LET f == FlowAt(k)
            s == next_issue[f]
        IN  PumpIssue(k) /\ Emit(IssueEvents(TokenOf(f, s), payload[f][s]))
    \/ \E w \in pending : Complete(w) /\ Emit(CompleteEvents(w))
    \/ \E f \in Flows :
        LET s == next_consume[f]
        IN  Acquire(f) /\ Emit(<<ConsumeEvent(TokenOf(f, s), Snapshot(f, s))>>)
    \/ \E f \in Flows, s \in Serials : Release(f, s) /\ Emit(<<ReleaseEvent(TokenOf(f, s))>>)
    \/ \E f \in Flows : FailGap(f) /\ Emit(<<HaltEvent(f, next_issue[f])>>)

ReadOne ==
    /\ unread # <<>>
    /\ Check!Read(Head(unread))
    /\ unread' = Tail(unread)
    /\ UNCHANGED vars

CNext == (unread = <<>> /\ Call) \/ ReadOne

CSpec == CInit /\ [][CNext]_cvars
--------------------------------------------------------------------------------
(* The checker refuses no event of a legal run, whatever order writes      *)
(* become visible, packets are released and gaps are given up in           *)
(* (verify.py:101, tests/test_checker.py).                                 *)
NeverRejected == unread # <<>> => Check!Allowed(Head(unread))

(* Two implementations that share no code count alike: when the checker    *)
(* has read all of the trace, its cursors, its credit, its free slots and  *)
(* its verdict on "drained" are those of the class (checker.py:307-314).   *)
ReplicaAgrees ==
    unread = <<>> =>
        /\ <<c_bases, c_next_issue, c_next_ready, c_next_consume>>
            = <<base, next_issue, next_publish, next_consume>>
        /\ c_released = released
        /\ c_credit = credit /\ c_global_credit = global_credit
        /\ \A f \in Flows, k \in Slots :
            c_active_slots[f][k] =
                IF \E s \in Serials : Present(f, s) /\ SlotOf(s) = k
                THEN TokenOf(f, CHOOSE s \in Serials : Present(f, s) /\ SlotOf(s) = k)
                ELSE NoToken
        /\ \A f \in Flows : halted[f] <=> c_halted[f] # NotHalted
        /\ Check!Drained <=>
            /\ pending = {}
            /\ \A f \in Flows : ~halted[f] /\ \A s \in Serials : ~Present(f, s)
================================================================================
