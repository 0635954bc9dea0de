-------------------------------- MODULE Checker --------------------------------
(***************************************************************************)
(* The trace checker of cxl_nic/checker.py, validate_trace: a machine that *)
(* reads the events of a run one by one, rebuilds from them who owns what, *)
(* and refuses the first event its rules do not allow.  It shares no code  *)
(* with the class whose runs it judges, and this module shares no          *)
(* definition with Protocol.                                               *)
(*                                                                         *)
(* An operation is named by its packet and component, which the checker    *)
(* lets be issued once.  Counters and peaks of the report are left out, as *)
(* are the checks that an event is a well-formed record.                   *)
(***************************************************************************)
EXTENDS Integers, FiniteSets

CONSTANTS
    Flows, InitialSerial, Window, MaxPacketBytes,
    CreditLimit,
    GlobalLimit,     \* 0 standing for None
    Payloads, Length,
    Fields,          \* the descriptor fields kept, of DESCRIPTOR_FIELDS
    NoToken, NotHalted

LineBytes == 64

Charge(p) == ((Length[p] + LineBytes - 1) \div LineBytes) * LineBytes

ASSUME CheckerAssumption ==
    /\ Window \in Nat \ {0}
    /\ MaxPacketBytes \in Nat \ {0}
    /\ CreditLimit \in Nat /\ GlobalLimit \in Nat
    /\ InitialSerial \in [Flows -> Nat]
    /\ \A p \in Payloads : Length[p] <= MaxPacketBytes =>
            Charge(p) <= CreditLimit /\ (GlobalLimit = 0 \/ Charge(p) <= GlobalLimit)

Slots == 0..(Window - 1)

VARIABLES
    bases, next_issue, next_ready, next_consume,
    credit, global_credit,
    released_serials, pending_ready,
    generations, active_slots,
    packets,     \* everything ever received, by token
    halted

vars == <<bases, next_issue, next_ready, next_consume, credit, global_credit,
          released_serials, pending_ready, generations, active_slots, packets, halted>>

Init ==
    /\ bases = InitialSerial
    /\ next_issue = InitialSerial
    /\ next_ready = InitialSerial
    /\ next_consume = InitialSerial
    /\ credit = [f \in Flows |-> 0]
    /\ global_credit = 0
    /\ released_serials = [f \in Flows |-> {}]
    /\ pending_ready = [f \in Flows |-> NoToken]
    /\ generations = [f \in Flows |-> [k \in Slots |-> 0]]
    /\ active_slots = [f \in Flows |-> [k \in Slots |-> NoToken]]
    /\ packets = [t \in {} |-> NoToken]
    /\ halted = [f \in Flows |-> NotHalted]
--------------------------------------------------------------------------------
(* What the checker knows of a packet from its receive event.              *)

ReadyComponent == <<"ready", 0>>

NoContent == <<>>  \* a ready write carries nothing but its token

RequiredData(p) ==
    {<<"payload", i>> : i \in 0..((Charge(p) \div LineBytes) - 1)}
    \cup {<<"descriptor", k>> : k \in Fields}

DescriptorOf(t, p) == [k \in Fields |-> IF k = "length" THEN Length[p] ELSE t[k]]

BytesOf(p) == [i \in 0..((Charge(p) \div LineBytes) - 1) |-> <<p, i>>]

(* The content a write of this component has to carry.                     *)
ContentOf(t, p, component) ==
    IF component = ReadyComponent THEN NoContent
    ELSE IF component[1] = "payload" THEN BytesOf(p)[component[2]]
    ELSE DescriptorOf(t, p)[component[2]]

NewPacket(p) ==
    [payload |-> p, issued |-> {}, visible |-> {}, pending |-> {}, charged |-> FALSE,
     ready_issued |-> FALSE, ready_visible |-> FALSE, consumed |-> FALSE,
     released |-> FALSE]

ActivePacket(t) ==
    /\ t \in DOMAIN packets
    /\ ~packets[t].released
    /\ active_slots[t.flow][t.slot] = t

RightContent(t, component, content) ==
    /\ component \in RequiredData(packets[t].payload) \cup {ReadyComponent}
    /\ content = ContentOf(t, packets[t].payload, component)
--------------------------------------------------------------------------------
(* Mutant: forgets the serials released above the base.                    *)
InsideWindow(f, s) == bases[f] <= s /\ s < bases[f] + Window

Receivable(f, s) ==
    /\ bases[f] <= s /\ s < bases[f] + Window
    /\ s \notin released_serials[f]

MayReceive(t, p) ==
    /\ halted[t.flow] = NotHalted
    /\ Receivable(t.flow, t.serial)
    /\ t.slot = t.serial % Window
    /\ active_slots[t.flow][t.slot] = NoToken
    /\ t.generation = generations[t.flow][t.slot] + 1
    /\ t \notin DOMAIN packets
    /\ Length[p] \in 1..MaxPacketBytes

Receive(t, p) ==
    /\ MayReceive(t, p)
    /\ packets' = [u \in DOMAIN packets \cup {t} |-> IF u = t THEN NewPacket(p) ELSE packets[u]]
    /\ active_slots' = [active_slots EXCEPT ![t.flow][t.slot] = t]
    /\ generations' = [generations EXCEPT ![t.flow][t.slot] = t.generation]
    /\ UNCHANGED <<bases, next_issue, next_ready, next_consume, credit, global_credit,
                   released_serials, pending_ready, halted>>

(* Mutant: a halted flow may issue nothing at all.                         *)
SilentWhenHalted(t, component) == halted[t.flow] = NotHalted

(* After a halt only the ready writes of packets issued before the gap.    *)
IssuableUnderHalt(t, component) ==
    halted[t.flow] # NotHalted =>
        /\ component = ReadyComponent
        /\ t.serial < halted[t.flow]
        /\ packets[t].charged

MayCommit(t) ==
    /\ RequiredData(packets[t].payload) \subseteq packets[t].visible
    /\ t.serial = next_ready[t.flow]
    /\ pending_ready[t.flow] = NoToken

MayCharge(t) ==
    LET charge == Charge(packets[t].payload)
    IN  /\ t.serial = next_issue[t.flow]
        /\ credit[t.flow] + charge <= CreditLimit
        /\ GlobalLimit = 0 \/ global_credit + charge <= GlobalLimit

MayIssue(t, component, content) ==
    /\ ActivePacket(t)
    /\ RightContent(t, component, content)
    /\ IssuableUnderHalt(t, component)
    /\ ~packets[t].ready_issued
    /\ component \notin packets[t].issued
    /\ component = ReadyComponent => MayCommit(t)
    /\ ~packets[t].charged => MayCharge(t)

(* The first write of a packet takes its credit.                           *)
TakeCredit(t) ==
    LET charge == Charge(packets[t].payload)
    IN  IF packets[t].charged
        THEN UNCHANGED <<credit, global_credit, next_issue>>
        ELSE /\ credit' = [credit EXCEPT ![t.flow] = @ + charge]
             /\ global_credit' = global_credit + charge
             /\ next_issue' = [next_issue EXCEPT ![t.flow] = @ + 1]

Issue(t, component, content) ==
    /\ MayIssue(t, component, content)
    /\ TakeCredit(t)
    /\ packets' = [packets EXCEPT
            ![t].issued = @ \cup {component},
            ![t].pending = @ \cup {component},
            ![t].charged = TRUE,
            ![t].ready_issued = @ \/ component = ReadyComponent]
    /\ pending_ready' = IF component = ReadyComponent
                        THEN [pending_ready EXCEPT ![t.flow] = t] ELSE pending_ready
    /\ UNCHANGED <<bases, next_ready, next_consume, released_serials, generations,
                   active_slots, halted>>

MayPublish(t) ==
    /\ pending_ready[t.flow] = t
    /\ RequiredData(packets[t].payload) \subseteq packets[t].visible
    /\ t.serial = next_ready[t.flow]

MayBecomeVisible(t, component, content) ==
    /\ ActivePacket(t)
    /\ RightContent(t, component, content)
    /\ component \in packets[t].issued
    /\ component \notin packets[t].visible
    /\ component \in packets[t].pending
    /\ component = ReadyComponent => MayPublish(t)

Visible(t, component, content) ==
    /\ MayBecomeVisible(t, component, content)
    /\ packets' = [packets EXCEPT
            ![t].pending = @ \ {component},
            ![t].visible = @ \cup {component},
            ![t].ready_visible = @ \/ component = ReadyComponent]
    /\ IF component = ReadyComponent
       THEN /\ next_ready' = [next_ready EXCEPT ![t.flow] = @ + 1]
            /\ pending_ready' = [pending_ready EXCEPT ![t.flow] = NoToken]
       ELSE UNCHANGED <<next_ready, pending_ready>>
    /\ UNCHANGED <<bases, next_issue, next_consume, credit, global_credit,
                   released_serials, generations, active_slots, halted>>

MayConsume(t, descriptor, lines) ==
    /\ ActivePacket(t)
    /\ packets[t].ready_visible
    /\ ~packets[t].consumed
    /\ t.serial = next_consume[t.flow]
    /\ descriptor = DescriptorOf(t, packets[t].payload)
    /\ lines = BytesOf(packets[t].payload)
    /\ RequiredData(packets[t].payload) \subseteq packets[t].visible

Consume(t, descriptor, lines) ==
    /\ MayConsume(t, descriptor, lines)
    /\ packets' = [packets EXCEPT ![t].consumed = TRUE]
    /\ next_consume' = [next_consume EXCEPT ![t.flow] = @ + 1]
    /\ UNCHANGED <<bases, next_issue, next_ready, credit, global_credit,
                   released_serials, pending_ready, generations, active_slots, halted>>

MayRelease(t) ==
    /\ ActivePacket(t)
    /\ packets[t].consumed
    /\ packets[t].pending = {}
    /\ packets[t].charged

(* Mutant: moves over one released serial at a time.                       *)
AdvanceOnce(f, back) ==
    /\ bases' = [bases EXCEPT ![f] = IF @ \in back THEN @ + 1 ELSE @]
    /\ released_serials' = [released_serials EXCEPT ![f] = back \ {bases[f]}]

AdvanceBases(f, back) ==
    \E b \in bases[f]..(bases[f] + Window) :
        /\ b \notin back
        /\ bases[f]..(b - 1) \subseteq back
        /\ bases' = [bases EXCEPT ![f] = b]
        /\ released_serials' = [released_serials EXCEPT ![f] = back \ (bases[f]..(b - 1))]

Release(t) ==
    /\ MayRelease(t)
    /\ packets' = [packets EXCEPT ![t].released = TRUE]
    /\ credit' = [credit EXCEPT ![t.flow] = @ - Charge(packets[t].payload)]
    /\ global_credit' = global_credit - Charge(packets[t].payload)
    /\ active_slots' = [active_slots EXCEPT ![t.flow][t.slot] = NoToken]
    /\ AdvanceBases(t.flow, released_serials[t.flow] \cup {t.serial})
    /\ UNCHANGED <<next_issue, next_ready, next_consume, pending_ready, generations, halted>>

ActiveSerials(f) == {active_slots[f][k].serial : k \in {j \in Slots : active_slots[f][j] # NoToken}}

MayHalt(f, serial) ==
    /\ halted[f] = NotHalted
    /\ serial = next_issue[f]
    /\ serial \notin ActiveSerials(f)
    /\ \E accepted \in ActiveSerials(f) : accepted > serial

Halt(f, serial) ==
    /\ MayHalt(f, serial)
    /\ halted' = [halted EXCEPT ![f] = serial]
    /\ UNCHANGED <<bases, next_issue, next_ready, next_consume, credit, global_credit,
                   released_serials, pending_ready, generations, active_slots, packets>>
--------------------------------------------------------------------------------
(* The dispatch over the events of a trace.                                *)

Allowed(e) ==
    CASE e.event = "receive" -> MayReceive(e.token, e.payload)
      [] e.event = "issue"   -> MayIssue(e.token, e.component, e.content)
      [] e.event = "visible" -> MayBecomeVisible(e.token, e.component, e.content)
      [] e.event = "consume" -> MayConsume(e.token, e.descriptor, e.lines)
      [] e.event = "release" -> MayRelease(e.token)
      [] e.event = "halt"    -> MayHalt(e.flow, e.serial)

Read(e) ==
    \/ e.event = "receive" /\ Receive(e.token, e.payload)
    \/ e.event = "issue"   /\ Issue(e.token, e.component, e.content)
    \/ e.event = "visible" /\ Visible(e.token, e.component, e.content)
    \/ e.event = "consume" /\ Consume(e.token, e.descriptor, e.lines)
    \/ e.event = "release" /\ Release(e.token)
    \/ e.event = "halt"    /\ Halt(e.flow, e.serial)

(* What validate_trace asks for at the end of a trace (require_drained).   *)
Drained ==
    /\ \A f \in Flows : halted[f] = NotHalted /\ credit[f] = 0
    /\ \A t \in DOMAIN packets : packets[t].released /\ packets[t].pending = {}
    /\ global_credit = 0
================================================================================
