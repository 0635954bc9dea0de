-------------------------- MODULE CheckedTracesProofs --------------------------
(***************************************************************************)
(* What a verdict stands for.  First CheckedTraces: whatever trace the     *)
(* checker lets pass, it is a trace of ordered delivery.  The invariant is *)
(* what the checker knows at every event: where its cursors stand, and     *)
(* between which of them each packet that still owns a slot lies.  Then    *)
(* Evidence: what a report stands for, whatever fails, is interrupted or   *)
(* is killed, for any number of arms, cases, attempts and disturbances.    *)
(***************************************************************************)
EXTENDS CheckedTraces, Evidence, TLAPS

Components == {w[1] : w \in NamedWrites}

Packet ==
    [payload : {p \in Payloads : Length[p] \in 1..MaxPacketBytes},
     issued : SUBSET Components, visible : SUBSET Components, pending : SUBSET Components,
     charged : BOOLEAN, ready_issued : BOOLEAN, ready_visible : BOOLEAN,
     consumed : BOOLEAN, released : BOOLEAN]

(* The shape of what the argument speaks of.                               *)
ShapeOK ==
    /\ bases \in [Flows -> Nat]
    /\ next_issue \in [Flows -> Nat]
    /\ next_consume \in [Flows -> Nat]
    /\ released_serials \in [Flows -> SUBSET Serials]
    /\ active_slots \in [Flows -> [Slots -> Tokens \cup {NoToken}]]
    /\ halted \in [Flows -> Serials \cup {NotHalted}]
    /\ DOMAIN packets \subseteq Tokens
    /\ packets \in [DOMAIN packets -> Packet]

CursorsOrdered ==
    \A f \in Flows :
        /\ InitialSerial[f] <= bases[f]
        /\ bases[f] <= next_consume[f]
        /\ next_consume[f] <= next_issue[f]
        /\ \A s \in released_serials[f] : s < next_consume[f]

(* A packet that was not released owns its slot, in the window.            *)
LiveInWindow ==
    \A t \in DOMAIN packets :
        ~packets[t].released =>
            /\ active_slots[t.flow][t.slot] = t
            /\ t.slot = t.serial % Window
            /\ bases[t.flow] <= t.serial /\ t.serial < bases[t.flow] + Window
            /\ t.serial \notin released_serials[t.flow]

SlotsOwned ==
    \A f \in Flows, k \in Slots :
        active_slots[f][k] # NoToken =>
            /\ active_slots[f][k] \in DOMAIN packets
            /\ ~packets[active_slots[f][k]].released
            /\ active_slots[f][k].flow = f /\ active_slots[f][k].slot = k

(* What was written was charged in turn, what was consumed read in turn.   *)
PacketsInTurn ==
    \A t \in DOMAIN packets :
        /\ packets[t].issued # {} \/ packets[t].ready_visible \/ packets[t].consumed =>
                packets[t].charged
        /\ packets[t].charged => t.serial < next_issue[t.flow]
        /\ packets[t].consumed => t.serial < next_consume[t.flow]

(* No serial is left out: those before next_consume are held or settled.   *)
PrefixConsumed ==
    \A f \in Flows : \A s \in Nat :
        bases[f] <= s /\ s < next_consume[f] /\ s \notin released_serials[f] =>
            \E t \in DOMAIN packets :
                t.flow = f /\ t.serial = s /\ ~packets[t].released /\ packets[t].consumed

TracesInv ==
    /\ ShapeOK /\ CursorsOrdered /\ LiveInWindow /\ SlotsOwned /\ PacketsInTurn
    /\ PrefixConsumed
--------------------------------------------------------------------------------
LEMMA Typing ==
    ASSUME TracesInv
    PROVE  /\ Window \in Nat \ {0} /\ Serials \subseteq Nat
           /\ bases \in [Flows -> Nat]
           /\ next_issue \in [Flows -> Nat]
           /\ next_consume \in [Flows -> Nat]
           /\ released_serials \in [Flows -> SUBSET Serials]
           /\ active_slots \in [Flows -> [Slots -> Tokens \cup {NoToken}]]
           /\ halted \in [Flows -> Serials \cup {NotHalted}]
           /\ \A t \in DOMAIN packets :
                /\ t \in Tokens /\ t.flow \in Flows /\ t.serial \in Serials /\ t.serial \in Nat
                /\ t.slot \in Slots
                /\ packets[t] \in Packet
  BY CheckerAssumption, TracesAssumption DEF TracesInv, ShapeOK, Tokens

LEMMA NotTheLast ==
    ASSUME NEW a \in Nat, NEW b \in Nat, a < b + 1, a # b
    PROVE  a < b
  OBVIOUS

LEMMA LastBefore ==
    ASSUME NEW a \in Nat, NEW b \in Nat, a <= b, a # b
    PROVE  b - 1 \in a..(b - 1)
  OBVIOUS

LEMMA InitHolds == TInit => TracesInv
  <1> SUFFICES ASSUME TInit PROVE TracesInv
    OBVIOUS
  <1> USE CheckerAssumption, TracesAssumption DEF TInit, Init
  <1>1. ShapeOK
    BY DEF ShapeOK
  <1>2. CursorsOrdered
    BY DEF CursorsOrdered
  <1>3. LiveInWindow /\ SlotsOwned /\ PacketsInTurn
    BY DEF LiveInWindow, SlotsOwned, PacketsInTurn
  <1>4. PrefixConsumed
    BY DEF PrefixConsumed
  <1> QED BY <1>1, <1>2, <1>3, <1>4 DEF TracesInv

(* A write that is issued, or becomes visible, leaves a packet a packet.   *)
Issued(r, c, b) ==
    [r EXCEPT !.issued = @ \cup {c}, !.pending = @ \cup {c}, !.charged = TRUE,
              !.ready_issued = b]

MadeVisible(r, c, b) ==
    [r EXCEPT !.pending = @ \ {c}, !.visible = @ \cup {c}, !.ready_visible = b]

LEMMA PacketIssued ==
    ASSUME NEW r \in Packet, NEW c \in Components, NEW b \in BOOLEAN
    PROVE  LET q == Issued(r, c, b)
           IN  /\ q \in Packet /\ q.charged
               /\ q.payload = r.payload /\ q.consumed = r.consumed
               /\ q.released = r.released /\ q.ready_visible = r.ready_visible
  BY DEF Packet, Issued

LEMMA PacketVisible ==
    ASSUME NEW r \in Packet, NEW c \in Components, NEW b \in BOOLEAN
    PROVE  LET q == MadeVisible(r, c, b)
           IN  /\ q \in Packet
               /\ q.payload = r.payload /\ q.consumed = r.consumed
               /\ q.released = r.released /\ q.issued = r.issued
               /\ q.charged = r.charged
  BY DEF Packet, MadeVisible

(* A step that leaves slots and cursors alone, and of the packets only     *)
(* their writes, keeps the invariant if what it wrote was charged in turn. *)
Bookkept ==
    /\ UNCHANGED <<bases, next_consume, released_serials, active_slots, halted>>
    /\ DOMAIN packets' = DOMAIN packets
    /\ \A t \in DOMAIN packets :
        /\ packets'[t].payload = packets[t].payload
        /\ packets'[t].consumed = packets[t].consumed
        /\ packets'[t].released = packets[t].released

LEMMA BookkeepingKeeps ==
    ASSUME TracesInv, Bookkept, next_issue' \in [Flows -> Nat],
           packets' \in [DOMAIN packets -> Packet],
           \A f \in Flows : next_issue[f] <= next_issue'[f],
           PacketsInTurn'
    PROVE  TracesInv'
  <1> USE Typing
  <1>1. ShapeOK'
    BY DEF TracesInv, ShapeOK, Bookkept
  <1>2. CursorsOrdered'
    <2> SUFFICES ASSUME NEW f \in Flows
                 PROVE  /\ InitialSerial[f] <= bases[f]
                        /\ bases[f] <= next_consume[f]
                        /\ next_consume[f] <= next_issue'[f]
                        /\ \A s \in released_serials[f] : s < next_consume[f]
      BY DEF CursorsOrdered, Bookkept
    <2> QED BY DEF TracesInv, CursorsOrdered
  <1>3. LiveInWindow'
    BY DEF TracesInv, LiveInWindow, Bookkept
  <1>4. SlotsOwned'
    BY DEF TracesInv, SlotsOwned, Bookkept
  <1>5. PrefixConsumed'
    <2> SUFFICES ASSUME NEW f \in Flows, NEW s \in Nat,
                        bases[f] <= s, s < next_consume[f], s \notin released_serials[f]
                 PROVE  \E t \in DOMAIN packets' :
                            /\ t.flow = f /\ t.serial = s
                            /\ ~packets'[t].released /\ packets'[t].consumed
      BY DEF PrefixConsumed, Bookkept
    <2>1. PICK t \in DOMAIN packets : /\ t.flow = f /\ t.serial = s
                                     /\ ~packets[t].released /\ packets[t].consumed
      BY DEF TracesInv, PrefixConsumed
    <2> QED BY <2>1 DEF Bookkept
  <1> QED BY <1>1, <1>2, <1>3, <1>4, <1>5 DEF TracesInv
--------------------------------------------------------------------------------
LEMMA ReceiveKeeps ==
    ASSUME TracesInv, NEW t \in Tokens, NEW p \in Payloads, Receive(t, p)
    PROVE  TracesInv'
  <1> USE Typing
  <1>1. /\ t.flow \in Flows /\ t.slot \in Slots /\ t.serial \in Nat
        /\ t \notin DOMAIN packets
        /\ bases[t.flow] <= t.serial /\ t.serial < bases[t.flow] + Window
        /\ t.serial \notin released_serials[t.flow]
        /\ t.slot = t.serial % Window
        /\ active_slots[t.flow][t.slot] = NoToken
    BY TracesAssumption DEF Receive, MayReceive, Receivable, Tokens
  <1>2. /\ DOMAIN packets' = DOMAIN packets \cup {t}
        /\ packets'[t] = NewPacket(p)
        /\ \A u \in DOMAIN packets : packets'[u] = packets[u]
        /\ UNCHANGED <<bases, next_issue, next_consume, released_serials, halted>>
        /\ active_slots' = [active_slots EXCEPT ![t.flow][t.slot] = t]
    BY <1>1 DEF Receive
  <1>3. /\ NewPacket(p) \in Packet /\ ~NewPacket(p).released /\ ~NewPacket(p).consumed
        /\ NewPacket(p).issued = {} /\ ~NewPacket(p).ready_visible
        /\ ~NewPacket(p).charged
    BY DEF NewPacket, Packet, Receive, MayReceive
  <1>4. \A u \in DOMAIN packets :
            ~packets[u].released => <<u.flow, u.slot>> # <<t.flow, t.slot>>
    BY <1>1, TracesAssumption DEF TracesInv, LiveInWindow
  <1>5. ShapeOK'
    <2>1. packets' \in [DOMAIN packets' -> Packet]
      BY <1>2, <1>3 DEF Receive
    <2> QED BY <1>1, <1>2, <2>1 DEF TracesInv, ShapeOK
  <1>6. CursorsOrdered'
    BY <1>2 DEF TracesInv, CursorsOrdered
  <1>7. LiveInWindow'
    <2> SUFFICES ASSUME NEW u \in DOMAIN packets', ~packets'[u].released
                 PROVE  /\ active_slots'[u.flow][u.slot] = u
                        /\ u.slot = u.serial % Window
                        /\ bases[u.flow] <= u.serial
                        /\ u.serial < bases[u.flow] + Window
                        /\ u.serial \notin released_serials[u.flow]
      BY <1>2 DEF LiveInWindow
    <2>1. CASE u = t
      BY <1>1, <1>2, <2>1
    <2>2. CASE u # t
      <3>1. u \in DOMAIN packets /\ ~packets[u].released
        BY <1>2, <2>2
      <3>2. active_slots'[u.flow][u.slot] = active_slots[u.flow][u.slot]
        BY <1>1, <1>2, <1>4, <3>1
      <3> QED BY <3>1, <3>2 DEF TracesInv, LiveInWindow
    <2> QED BY <2>1, <2>2
  <1>8. SlotsOwned'
    <2> SUFFICES ASSUME NEW f \in Flows, NEW k \in Slots, active_slots'[f][k] # NoToken
                 PROVE  /\ active_slots'[f][k] \in DOMAIN packets'
                        /\ ~packets'[active_slots'[f][k]].released
                        /\ active_slots'[f][k].flow = f /\ active_slots'[f][k].slot = k
      BY DEF SlotsOwned
    <2>1. CASE f = t.flow /\ k = t.slot
      <3>1. active_slots'[f][k] = t
        BY <1>1, <1>2, <2>1
      <3> QED BY <3>1, <1>2, <1>3, <2>1
    <2>2. CASE ~(f = t.flow /\ k = t.slot)
      <3>1. active_slots'[f][k] = active_slots[f][k]
        BY <1>1, <1>2, <2>2
      <3> QED BY <3>1, <1>2 DEF TracesInv, SlotsOwned
    <2> QED BY <2>1, <2>2
  <1>9. PacketsInTurn'
    BY <1>2, <1>3 DEF TracesInv, PacketsInTurn
  <1>10. PrefixConsumed'
    <2> SUFFICES ASSUME NEW f \in Flows, NEW s \in Nat, bases[f] <= s, s < next_consume[f],
                        s \notin released_serials[f]
                 PROVE  \E u \in DOMAIN packets' :
                            u.flow = f /\ u.serial = s /\ ~packets'[u].released
                                /\ packets'[u].consumed
      BY <1>2 DEF PrefixConsumed
    <2>1. PICK u \in DOMAIN packets :
                u.flow = f /\ u.serial = s /\ ~packets[u].released /\ packets[u].consumed
      BY DEF TracesInv, PrefixConsumed
    <2> QED BY <1>2, <2>1
  <1> QED BY <1>5, <1>6, <1>7, <1>8, <1>9, <1>10 DEF TracesInv

LEMMA IssueKeeps ==
    ASSUME TracesInv, NEW t \in DOMAIN packets, NEW w \in NamedWrites, Issue(t, w[1], w[2])
    PROVE  TracesInv'
  <1> USE Typing
  <1> DEFINE c == w[1]
  <1>1. c \in Components /\ t.flow \in Flows /\ t.serial \in Nat
    BY DEF Components
  <1>2. packets' = [packets EXCEPT
                        ![t].issued = @ \cup {c}, ![t].pending = @ \cup {c},
                        ![t].charged = TRUE, ![t].ready_issued = @ \/ c = ReadyComponent]
    BY DEF Issue
  <1> HIDE DEF c
  <1>3. /\ packets' \in [DOMAIN packets -> Packet]
        /\ \A u \in DOMAIN packets :
            /\ packets'[u].payload = packets[u].payload
            /\ packets'[u].consumed = packets[u].consumed
            /\ packets'[u].released = packets[u].released
            /\ packets'[u].ready_visible = packets[u].ready_visible
            /\ u # t => packets'[u] = packets[u]
        /\ packets'[t].charged
    <2>1. packets'[t] = [packets[t] EXCEPT !.issued = @ \cup {c}, !.pending = @ \cup {c},
                            !.charged = TRUE, !.ready_issued = @ \/ c = ReadyComponent]
      BY <1>2
    <2>2. packets[t] \in Packet
      OBVIOUS
    <2>3. /\ packets'[t] \in Packet
          /\ packets'[t].payload = packets[t].payload
          /\ packets'[t].consumed = packets[t].consumed
          /\ packets'[t].released = packets[t].released
          /\ packets'[t].ready_visible = packets[t].ready_visible
          /\ packets'[t].charged
      <3>1. (packets[t].ready_issued \/ c = ReadyComponent) \in BOOLEAN
        OBVIOUS
      <3>2. PICK b \in BOOLEAN : b = (packets[t].ready_issued \/ c = ReadyComponent)
        BY <3>1
      <3>3. packets'[t] = Issued(packets[t], c, b)
        BY <2>1, <3>2 DEF Issued
      <3> QED BY <1>1, <2>2, <3>3, PacketIssued
    <2>4. \A u \in DOMAIN packets : u # t => packets'[u] = packets[u]
      BY <1>2
    <2>5. packets' \in [DOMAIN packets -> Packet]
      BY <1>2, <2>3, <2>4
    <2> QED BY <2>3, <2>4, <2>5
  <1>4. /\ next_issue' \in [Flows -> Nat]
        /\ \A f \in Flows : next_issue[f] <= next_issue'[f]
        /\ t.serial < next_issue'[t.flow]
    <2>1. CASE packets[t].charged
      BY <2>1 DEF Issue, TakeCredit, TracesInv, PacketsInTurn
    <2>2. CASE ~packets[t].charged
      <3>1. t.serial = next_issue[t.flow]
        BY <2>2 DEF Issue, MayIssue, MayCharge
      <3>2. next_issue' = [next_issue EXCEPT ![t.flow] = @ + 1]
        BY <2>2 DEF Issue, TakeCredit
      <3> QED BY <1>1, <3>1, <3>2
    <2> QED BY <2>1, <2>2
  <1>5. Bookkept
    BY <1>3 DEF Issue, Bookkept
  <1>6. PacketsInTurn'
    <2> SUFFICES ASSUME NEW u \in DOMAIN packets
                 PROVE  /\ packets'[u].issued # {} \/ packets'[u].ready_visible
                                \/ packets'[u].consumed => packets'[u].charged
                        /\ packets'[u].charged => u.serial < next_issue'[u.flow]
                        /\ packets'[u].consumed => u.serial < next_consume[u.flow]
      BY <1>5 DEF PacketsInTurn, Bookkept
    <2>1. packets[u].consumed => u.serial < next_consume[u.flow]
      BY DEF TracesInv, PacketsInTurn
    <2>2. CASE u = t
      BY <1>3, <1>4, <2>1, <2>2
    <2>3. CASE u # t
      BY <1>3, <1>4, <2>1, <2>3 DEF TracesInv, PacketsInTurn
    <2> QED BY <2>2, <2>3
  <1> QED BY <1>3, <1>4, <1>5, <1>6, BookkeepingKeeps

LEMMA VisibleKeeps ==
    ASSUME TracesInv, NEW t \in DOMAIN packets, NEW w \in NamedWrites, Visible(t, w[1], w[2])
    PROVE  TracesInv'
  <1> USE Typing
  <1> DEFINE c == w[1]
  <1>1. c \in Components
    BY DEF Components
  <1>2. /\ packets' = [packets EXCEPT ![t].pending = @ \ {c}, ![t].visible = @ \cup {c},
                            ![t].ready_visible = @ \/ c = ReadyComponent]
        /\ c \in packets[t].issued
    BY DEF Visible, MayBecomeVisible
  <1> HIDE DEF c
  <1>3. /\ packets' \in [DOMAIN packets -> Packet]
        /\ \A u \in DOMAIN packets :
            /\ packets'[u].payload = packets[u].payload
            /\ packets'[u].consumed = packets[u].consumed
            /\ packets'[u].released = packets[u].released
            /\ packets'[u].issued = packets[u].issued
            /\ packets'[u].charged = packets[u].charged
            /\ u # t => packets'[u] = packets[u]
    <2>1. packets'[t] = [packets[t] EXCEPT !.pending = @ \ {c}, !.visible = @ \cup {c},
                            !.ready_visible = @ \/ c = ReadyComponent]
      BY <1>2
    <2>2. packets[t] \in Packet
      OBVIOUS
    <2>3. /\ packets'[t] \in Packet
          /\ packets'[t].payload = packets[t].payload
          /\ packets'[t].consumed = packets[t].consumed
          /\ packets'[t].released = packets[t].released
          /\ packets'[t].issued = packets[t].issued
          /\ packets'[t].charged = packets[t].charged
      <3>1. (packets[t].ready_visible \/ c = ReadyComponent) \in BOOLEAN
        OBVIOUS
      <3>2. PICK b \in BOOLEAN : b = (packets[t].ready_visible \/ c = ReadyComponent)
        BY <3>1
      <3>3. packets'[t] = MadeVisible(packets[t], c, b)
        BY <2>1, <3>2 DEF MadeVisible
      <3> QED BY <1>1, <2>2, <3>3, PacketVisible
    <2>4. \A u \in DOMAIN packets : u # t => packets'[u] = packets[u]
      BY <1>2
    <2>5. packets' \in [DOMAIN packets -> Packet]
      BY <1>2, <2>3, <2>4
    <2> QED BY <2>3, <2>4, <2>5
  <1>4. UNCHANGED next_issue /\ Bookkept
    BY <1>3 DEF Visible, Bookkept
  <1>5. PacketsInTurn'
    <2> SUFFICES ASSUME NEW u \in DOMAIN packets
                 PROVE  /\ packets'[u].issued # {} \/ packets'[u].ready_visible
                                \/ packets'[u].consumed => packets'[u].charged
                        /\ packets'[u].charged => u.serial < next_issue[u.flow]
                        /\ packets'[u].consumed => u.serial < next_consume[u.flow]
      BY <1>4 DEF PacketsInTurn, Bookkept
    <2>1. CASE u = t
      BY <1>2, <1>3, <2>1 DEF TracesInv, PacketsInTurn
    <2>2. CASE u # t
      BY <1>3, <2>2 DEF TracesInv, PacketsInTurn
    <2> QED BY <2>1, <2>2
  <1> QED BY <1>3, <1>4, <1>5, BookkeepingKeeps

LEMMA ConsumeKeeps ==
    ASSUME TracesInv, NEW t, NEW d, NEW lines, Consume(t, d, lines)
    PROVE  TracesInv'
  <1> USE Typing
  <1>1. /\ t \in DOMAIN packets /\ t.flow \in Flows /\ t.serial \in Nat
        /\ ~packets[t].released /\ packets[t].ready_visible
        /\ t.serial = next_consume[t.flow]
    BY DEF Consume, MayConsume, ActivePacket
  <1>2. /\ packets' = [packets EXCEPT ![t].consumed = TRUE]
        /\ next_consume' = [next_consume EXCEPT ![t.flow] = @ + 1]
        /\ UNCHANGED <<bases, next_issue, released_serials, active_slots, halted>>
    BY DEF Consume
  <1>3. /\ packets' \in [DOMAIN packets -> Packet]
        /\ packets'[t].consumed
        /\ \A u \in DOMAIN packets :
            /\ packets'[u].released = packets[u].released
            /\ packets'[u].issued = packets[u].issued
            /\ packets'[u].charged = packets[u].charged
            /\ packets'[u].ready_visible = packets[u].ready_visible
            /\ u # t => packets'[u] = packets[u]
    <2>1. packets'[t] = [packets[t] EXCEPT !.consumed = TRUE]
      BY <1>1, <1>2
    <2>2. packets[t] \in Packet
      BY <1>1
    <2>3. /\ packets'[t] \in Packet
          /\ packets'[t].consumed
          /\ packets'[t].released = packets[t].released
          /\ packets'[t].issued = packets[t].issued
          /\ packets'[t].charged = packets[t].charged
          /\ packets'[t].ready_visible = packets[t].ready_visible
      BY <2>1, <2>2 DEF Packet
    <2>4. \A u \in DOMAIN packets : u # t => packets'[u] = packets[u]
      BY <1>2
    <2>5. packets' \in [DOMAIN packets -> Packet]
      BY <1>2, <2>3, <2>4
    <2> QED BY <2>3, <2>4, <2>5
  <1>4. t.serial < next_issue[t.flow]
    BY <1>1 DEF TracesInv, PacketsInTurn
  <1>5. /\ next_consume' \in [Flows -> Nat]
        /\ next_consume'[t.flow] = t.serial + 1
        /\ \A f \in Flows : /\ f # t.flow => next_consume'[f] = next_consume[f]
                            /\ next_consume[f] <= next_consume'[f]
                            /\ next_consume'[f] <= next_issue[f]
    <2>1. \A f \in Flows : next_consume[f] <= next_issue[f]
      BY DEF TracesInv, CursorsOrdered
    <2> QED BY <1>1, <1>2, <1>4, <2>1
  <1>6. ShapeOK'
    BY <1>2, <1>3, <1>5 DEF TracesInv, ShapeOK
  <1>7. CursorsOrdered'
    <2> SUFFICES ASSUME NEW f \in Flows
                 PROVE  /\ InitialSerial[f] <= bases[f]
                        /\ bases[f] <= next_consume'[f]
                        /\ next_consume'[f] <= next_issue[f]
                        /\ \A s \in released_serials[f] : s < next_consume'[f]
      BY <1>2 DEF CursorsOrdered
    <2>1. /\ InitialSerial[f] <= bases[f] /\ bases[f] <= next_consume[f]
          /\ \A s \in released_serials[f] : s < next_consume[f]
      BY DEF TracesInv, CursorsOrdered
    <2> QED BY <1>5, <2>1
  <1>8. LiveInWindow'
    BY <1>2, <1>3 DEF TracesInv, LiveInWindow
  <1>9. SlotsOwned'
    BY <1>2, <1>3 DEF TracesInv, SlotsOwned
  <1>10. PacketsInTurn'
    <2> SUFFICES ASSUME NEW u \in DOMAIN packets
                 PROVE  /\ packets'[u].issued # {} \/ packets'[u].ready_visible
                                \/ packets'[u].consumed => packets'[u].charged
                        /\ packets'[u].charged => u.serial < next_issue[u.flow]
                        /\ packets'[u].consumed => u.serial < next_consume'[u.flow]
      BY <1>2 DEF PacketsInTurn
    <2>1. CASE u = t
      BY <1>1, <1>3, <1>5, <2>1 DEF TracesInv, PacketsInTurn
    <2>2. CASE u # t
      BY <1>3, <1>5, <2>2 DEF TracesInv, PacketsInTurn
    <2> QED BY <2>1, <2>2
  <1>11. PrefixConsumed'
    <2> SUFFICES ASSUME NEW f \in Flows, NEW s \in Nat, bases[f] <= s, s < next_consume'[f],
                        s \notin released_serials[f]
                 PROVE  \E u \in DOMAIN packets :
                            u.flow = f /\ u.serial = s /\ ~packets'[u].released
                                /\ packets'[u].consumed
      BY <1>2 DEF PrefixConsumed
    <2>1. CASE f = t.flow /\ s = t.serial
      BY <1>1, <1>3, <2>1
    <2>2. CASE ~(f = t.flow /\ s = t.serial)
      <3>1. s < next_consume[f]
        <4>1. CASE f = t.flow
          <5>1. s < t.serial + 1
            BY <1>5, <4>1
          <5>2. s # t.serial /\ t.serial \in Nat
            BY <1>1, <2>2, <4>1
          <5>3. s < t.serial
            BY <5>1, <5>2, NotTheLast
          <5> QED BY <1>1, <4>1, <5>3
        <4>2. CASE f # t.flow
          BY <1>5, <4>2
        <4> QED BY <4>1, <4>2
      <3>2. PICK u \in DOMAIN packets :
                u.flow = f /\ u.serial = s /\ ~packets[u].released /\ packets[u].consumed
        BY <3>1 DEF TracesInv, PrefixConsumed
      <3> QED BY <1>3, <3>2
    <2> QED BY <2>1, <2>2
  <1> QED BY <1>6, <1>7, <1>8, <1>9, <1>10, <1>11 DEF TracesInv

(* What the base does when t is released: it moves over serials that are   *)
(* all handed back, and forgets no other.                                  *)
LEMMA BaseMoves ==
    ASSUME TracesInv, NEW t, Release(t)
    PROVE  /\ t \in DOMAIN packets /\ t \in Tokens /\ ~packets[t].released
           /\ packets[t].consumed
           /\ active_slots[t.flow][t.slot] = t
           /\ bases' \in [Flows -> Nat]
           /\ released_serials' \in [Flows -> SUBSET Serials]
           /\ bases[t.flow] <= bases'[t.flow] /\ bases'[t.flow] <= next_consume[t.flow]
           /\ released_serials'[t.flow] \subseteq released_serials[t.flow] \cup {t.serial}
           /\ \A s \in Nat :
                s < bases'[t.flow] \/ s \in released_serials'[t.flow] <=>
                    s < bases[t.flow] \/ s \in released_serials[t.flow] \/ s = t.serial
           /\ \A f \in Flows : f # t.flow =>
                bases'[f] = bases[f] /\ released_serials'[f] = released_serials[f]
  <1> USE Typing
  <1> DEFINE f == t.flow
             back == released_serials[f] \cup {t.serial}
  <1>1. /\ t \in DOMAIN packets /\ t \in Tokens /\ ~packets[t].released /\ packets[t].consumed
        /\ f \in Flows /\ t.serial \in Serials /\ active_slots[f][t.slot] = t
    BY DEF Release, MayRelease, ActivePacket
  <1>2. AdvanceBases(f, back)
    BY DEF Release
  <1>3. back \in SUBSET Serials /\ \A s \in back : s < next_consume[f]
    BY <1>1 DEF TracesInv, CursorsOrdered, PacketsInTurn
  <1>4. bases[f] \in Nat /\ next_consume[f] \in Nat /\ bases[f] <= next_consume[f]
    BY <1>1 DEF TracesInv, CursorsOrdered
  <1> HIDE DEF f, back
  <1>5. PICK b \in bases[f]..(bases[f] + Window) :
            /\ b \notin back
            /\ bases[f]..(b - 1) \subseteq back
            /\ bases' = [bases EXCEPT ![f] = b]
            /\ released_serials' = [released_serials EXCEPT ![f] = back \ (bases[f]..(b - 1))]
    BY <1>2 DEF AdvanceBases
  <1>6. b \in Nat /\ bases[f] <= b /\ b <= next_consume[f]
    <2>1. b \in Nat /\ bases[f] <= b
      BY <1>4
    <2>2. CASE b = bases[f]
      BY <1>4, <2>2
    <2>3. CASE b # bases[f]
      <3>1. b - 1 \in bases[f]..(b - 1)
        BY <1>4, <2>1, <2>3, LastBefore
      <3>2. b - 1 \in back
        BY <1>5, <3>1
      <3> QED BY <1>3, <1>4, <2>1, <3>2
    <2> QED BY <2>1, <2>2, <2>3
  <1>7. bases'[f] = b /\ released_serials'[f] = back \ (bases[f]..(b - 1))
    BY <1>1, <1>5
  <1>8. \A s \in Nat : s < b \/ s \in back \ (bases[f]..(b - 1)) <=> s < bases[f] \/ s \in back
    BY <1>4, <1>5, <1>6
  <1>9. \A g \in Flows : g # f => bases'[g] = bases[g] /\ released_serials'[g] = released_serials[g]
    BY <1>5
  <1>10. bases' \in [Flows -> Nat] /\ released_serials' \in [Flows -> SUBSET Serials]
    BY <1>3, <1>5, <1>6
  <1> QED BY <1>1, <1>6, <1>7, <1>8, <1>9, <1>10 DEF f, back

LEMMA ReleaseKeeps ==
    ASSUME TracesInv, NEW t, Release(t)
    PROVE  TracesInv'
  <1> USE Typing
  <1>1. /\ t \in DOMAIN packets /\ t \in Tokens /\ ~packets[t].released /\ packets[t].consumed
        /\ t.flow \in Flows /\ t.slot \in Slots /\ active_slots[t.flow][t.slot] = t
    BY BaseMoves
  <1>2. /\ packets' = [packets EXCEPT ![t].released = TRUE]
        /\ active_slots' = [active_slots EXCEPT ![t.flow][t.slot] = NoToken]
        /\ UNCHANGED <<next_issue, next_consume, halted>>
    BY DEF Release
  <1>3. /\ packets' \in [DOMAIN packets -> Packet]
        /\ packets'[t].released
        /\ \A u \in DOMAIN packets :
            /\ packets'[u].consumed = packets[u].consumed
            /\ packets'[u].issued = packets[u].issued
            /\ packets'[u].charged = packets[u].charged
            /\ packets'[u].ready_visible = packets[u].ready_visible
            /\ u # t => packets'[u] = packets[u]
    <2>1. packets'[t] = [packets[t] EXCEPT !.released = TRUE]
      BY <1>1, <1>2
    <2>2. packets[t] \in Packet
      BY <1>1
    <2>3. /\ packets'[t] \in Packet
          /\ packets'[t].released
          /\ packets'[t].consumed = packets[t].consumed
          /\ packets'[t].issued = packets[t].issued
          /\ packets'[t].charged = packets[t].charged
          /\ packets'[t].ready_visible = packets[t].ready_visible
      BY <2>1, <2>2 DEF Packet
    <2>4. \A u \in DOMAIN packets : u # t => packets'[u] = packets[u]
      BY <1>2
    <2>5. packets' \in [DOMAIN packets -> Packet]
      BY <1>2, <2>3, <2>4
    <2> QED BY <2>3, <2>4, <2>5
  <1>4. /\ bases' \in [Flows -> Nat] /\ released_serials' \in [Flows -> SUBSET Serials]
        /\ bases[t.flow] <= bases'[t.flow] /\ bases'[t.flow] <= next_consume[t.flow]
        /\ released_serials'[t.flow] \subseteq released_serials[t.flow] \cup {t.serial}
        /\ \A s \in Nat :
            s < bases'[t.flow] \/ s \in released_serials'[t.flow] <=>
                s < bases[t.flow] \/ s \in released_serials[t.flow] \/ s = t.serial
        /\ \A f \in Flows : f # t.flow =>
            bases'[f] = bases[f] /\ released_serials'[f] = released_serials[f]
    BY BaseMoves
  <1>5. active_slots' \in [Flows -> [Slots -> Tokens \cup {NoToken}]]
    BY <1>1, <1>2
  <1>6. ShapeOK'
    BY <1>2, <1>3, <1>4, <1>5 DEF TracesInv, ShapeOK
  <1>7. CursorsOrdered'
    <2> SUFFICES ASSUME NEW f \in Flows
                 PROVE  /\ InitialSerial[f] <= bases'[f]
                        /\ bases'[f] <= next_consume[f]
                        /\ next_consume[f] <= next_issue[f]
                        /\ \A s \in released_serials'[f] : s < next_consume[f]
      BY <1>2 DEF CursorsOrdered
    <2>1. /\ InitialSerial[f] <= bases[f] /\ bases[f] <= next_consume[f]
          /\ next_consume[f] <= next_issue[f]
          /\ \A s \in released_serials[f] : s < next_consume[f]
      BY DEF TracesInv, CursorsOrdered
    <2>2. t.serial < next_consume[t.flow]
      BY <1>1 DEF TracesInv, PacketsInTurn
    <2>3. InitialSerial[f] \in Nat /\ bases[f] \in Nat /\ bases'[f] \in Nat
      BY <1>4, CheckerAssumption
    <2> QED BY <1>4, <2>1, <2>2, <2>3
  <1>8. LiveInWindow'
    <2> SUFFICES ASSUME NEW u \in DOMAIN packets, ~packets'[u].released
                 PROVE  /\ active_slots'[u.flow][u.slot] = u
                        /\ u.slot = u.serial % Window
                        /\ bases'[u.flow] <= u.serial
                        /\ u.serial < bases'[u.flow] + Window
                        /\ u.serial \notin released_serials'[u.flow]
      BY <1>2 DEF LiveInWindow
    <2>1. u # t /\ ~packets[u].released
      BY <1>3
    <2>2. /\ active_slots[u.flow][u.slot] = u /\ u.slot = u.serial % Window
          /\ bases[u.flow] <= u.serial /\ u.serial < bases[u.flow] + Window
          /\ u.serial \notin released_serials[u.flow]
      BY <2>1 DEF TracesInv, LiveInWindow
    <2>3. <<u.flow, u.slot>> # <<t.flow, t.slot>>
      BY <1>1, <2>1, <2>2
    <2>4. active_slots'[u.flow][u.slot] = u
      BY <1>1, <1>2, <2>2, <2>3
    <2>5. CASE u.flow = t.flow
      <3>1. u.serial # t.serial
        BY <1>1, <2>2, <2>3, <2>5 DEF TracesInv, LiveInWindow
      <3> QED BY <1>1, <1>4, <2>2, <2>4, <2>5, <3>1
    <2>6. CASE u.flow # t.flow
      BY <1>4, <2>2, <2>4, <2>6
    <2> QED BY <2>5, <2>6
  <1>9. SlotsOwned'
    <2> SUFFICES ASSUME NEW f \in Flows, NEW k \in Slots, active_slots'[f][k] # NoToken
                 PROVE  /\ active_slots'[f][k] \in DOMAIN packets
                        /\ ~packets'[active_slots'[f][k]].released
                        /\ active_slots'[f][k].flow = f /\ active_slots'[f][k].slot = k
      BY <1>2 DEF SlotsOwned
    <2>1. /\ ~(f = t.flow /\ k = t.slot)
          /\ active_slots'[f][k] = active_slots[f][k]
      BY <1>1, <1>2
    <2>2. /\ active_slots[f][k] \in DOMAIN packets
          /\ ~packets[active_slots[f][k]].released
          /\ active_slots[f][k].flow = f /\ active_slots[f][k].slot = k
      BY <2>1 DEF TracesInv, SlotsOwned
    <2>3. active_slots[f][k] # t
      BY <2>1, <2>2
    <2> QED BY <1>3, <2>1, <2>2, <2>3
  <1>10. PacketsInTurn'
    BY <1>2, <1>3 DEF TracesInv, PacketsInTurn
  <1>11. PrefixConsumed'
    <2> SUFFICES ASSUME NEW f \in Flows, NEW s \in Nat, bases'[f] <= s, s < next_consume[f],
                        s \notin released_serials'[f]
                 PROVE  \E u \in DOMAIN packets :
                            u.flow = f /\ u.serial = s /\ ~packets'[u].released
                                /\ packets'[u].consumed
      BY <1>2 DEF PrefixConsumed
    <2>1. bases[f] <= s /\ s \notin released_serials[f] /\ <<f, s>> # <<t.flow, t.serial>>
      BY <1>1, <1>4
    <2>2. PICK u \in DOMAIN packets :
                u.flow = f /\ u.serial = s /\ ~packets[u].released /\ packets[u].consumed
      BY <2>1 DEF TracesInv, PrefixConsumed
    <2> QED BY <1>3, <2>1, <2>2
  <1> QED BY <1>6, <1>7, <1>8, <1>9, <1>10, <1>11 DEF TracesInv

LEMMA HaltKeeps ==
    ASSUME TracesInv, NEW f, NEW s \in Serials, Halt(f, s)
    PROVE  TracesInv'
  <1>1. UNCHANGED <<bases, next_issue, next_consume, released_serials, active_slots, packets>>
    BY DEF Halt
  <1>2. halted' \in [Flows -> Serials \cup {NotHalted}]
    BY Typing DEF Halt
  <1>3. ShapeOK'
    BY <1>1, <1>2 DEF TracesInv, ShapeOK
  <1> QED BY <1>1, <1>3 DEF TracesInv, CursorsOrdered, LiveInWindow, SlotsOwned,
                           PacketsInTurn, PrefixConsumed

LEMMA StepKeeps == TracesInv /\ [TNext]_tvars => TracesInv'
  <1> SUFFICES ASSUME TracesInv, [TNext]_tvars PROVE TracesInv'
    OBVIOUS
  <1>1. ASSUME NEW t \in Tokens, NEW p \in Payloads, Receive(t, p) PROVE TracesInv'
    BY <1>1, ReceiveKeeps
  <1>2. ASSUME NEW t \in DOMAIN packets, NEW w \in NamedWrites,
               Issue(t, w[1], w[2]) \/ Visible(t, w[1], w[2])
        PROVE  TracesInv'
    BY <1>2, IssueKeeps, VisibleKeeps
  <1>3. ASSUME NEW t \in Tokens, NEW d, NEW p \in Payloads, Reads(t, d, p)
        PROVE  TracesInv'
    BY <1>3, ConsumeKeeps DEF Reads
  <1>4. ASSUME NEW t \in Tokens, Frees(t) PROVE TracesInv'
    BY <1>4, ReleaseKeeps DEF Frees
  <1>5. ASSUME NEW f \in Flows, NEW s \in Serials, Halt(f, s) PROVE TracesInv'
    BY <1>5, HaltKeeps
  <1>6. CASE UNCHANGED tvars
    BY <1>6 DEF tvars, vars, TracesInv, ShapeOK, CursorsOrdered, LiveInWindow, SlotsOwned,
                PacketsInTurn, PrefixConsumed
  <1> QED BY <1>1, <1>2, <1>3, <1>4, <1>5, <1>6 DEF TNext

LEMMA TracesInvariant == TSpec => []TracesInv
  <1> QED BY InitHolds, StepKeeps, PTL DEF TSpec
--------------------------------------------------------------------------------
(* The state of OrderedDelivery, one serial at a time.                     *)

Standing == [f \in Flows |-> [s \in Serials |-> StatusOf(f, s)]]

Contents == [f \in Flows |-> [s \in Serials |-> ContentAt(f, s)]]

Stopped == [f \in Flows |-> halted[f] # NotHalted]

LEMMA OneMoves ==
    ASSUME NEW f \in Flows, NEW s \in Serials, NEW v, NEW c,
           StatusOf(f, s)' = v, ContentAt(f, s)' = c,
           \A g \in Flows, u \in Serials : <<g, u>> # <<f, s>> =>
                /\ StatusOf(g, u)' = StatusOf(g, u)
                /\ ContentAt(g, u)' = ContentAt(g, u)
    PROVE  /\ Standing' = [Standing EXCEPT ![f][s] = v]
           /\ Contents' = [Contents EXCEPT ![f][s] = c]
  BY DEF Standing, Contents

(* A packet that was not released is the only one of its serial.           *)
LEMMA LiveAlone ==
    ASSUME TracesInv, NEW t \in DOMAIN packets, ~packets[t].released
    PROVE  /\ Live(t.flow, t.serial) = {t}
           /\ ContentAt(t.flow, t.serial) = packets[t].payload
           /\ StatusOf(t.flow, t.serial) = IF packets[t].consumed THEN "held" ELSE "accepted"
  <1>1. \A u \in Live(t.flow, t.serial) : u = t
    BY DEF Live, TracesInv, LiveInWindow
  <1>2. Live(t.flow, t.serial) = {t}
    BY <1>1 DEF Live
  <1> QED BY <1>2 DEF ContentAt, StatusOf

LEMMA LiveAlonePrimed ==
    ASSUME TracesInv', NEW t \in DOMAIN packets', ~packets'[t].released
    PROVE  /\ ContentAt(t.flow, t.serial)' = packets'[t].payload
           /\ StatusOf(t.flow, t.serial)' =
                IF packets'[t].consumed THEN "held" ELSE "accepted"
  <1>1. \A u \in Live(t.flow, t.serial)' : u = t
    BY DEF Live, TracesInv, LiveInWindow
  <1>2. Live(t.flow, t.serial)' = {t}
    BY <1>1 DEF Live
  <1> QED BY <1>2 DEF ContentAt, StatusOf

LEMMA NoneLive ==
    ASSUME NEW f, NEW s, Live(f, s) = {}
    PROVE  /\ ContentAt(f, s) = NoPayload
           /\ StatusOf(f, s) =
                IF s < bases[f] \/ s \in released_serials[f] THEN "settled" ELSE "new"
  BY DEF ContentAt, StatusOf

(* What a step that leaves the packets of a serial alone leaves of it.     *)
LEMMA Untouched ==
    ASSUME NEW f \in Flows, NEW s \in Serials,
           Live(f, s)' = Live(f, s),
           \A t \in Live(f, s) : packets'[t].consumed = packets[t].consumed
                                 /\ packets'[t].payload = packets[t].payload,
           (s < bases[f] \/ s \in released_serials[f])' <=>
                (s < bases[f] \/ s \in released_serials[f])
    PROVE  /\ StatusOf(f, s)' = StatusOf(f, s)
           /\ ContentAt(f, s)' = ContentAt(f, s)
  <1>1. StatusOf(f, s)' = StatusOf(f, s)
    BY DEF StatusOf
  <1>2. ContentAt(f, s)' = ContentAt(f, s)
    <2>1. CASE Live(f, s) = {}
      BY <2>1 DEF ContentAt
    <2>2. CASE Live(f, s) # {}
      BY <2>2 DEF ContentAt
    <2> QED BY <2>1, <2>2
  <1> QED BY <1>1, <1>2

(* The bytes of a packet of at least one line tell which packet it is.     *)
LEMMA SameBytes ==
    ASSUME NEW p \in Payloads, NEW q \in Payloads, Length[q] \in 1..MaxPacketBytes,
           BytesOf(p) = BytesOf(q)
    PROVE  p = q
  <1>1. Charge(q) \div LineBytes \in Nat \ {0}
    BY CheckerAssumption DEF Charge, LineBytes
  <1>2. DOMAIN BytesOf(q) = 0..((Charge(q) \div LineBytes) - 1)
        /\ DOMAIN BytesOf(p) = 0..((Charge(p) \div LineBytes) - 1)
    BY DEF BytesOf
  <1>3. 0 \in DOMAIN BytesOf(q) /\ 0 \in DOMAIN BytesOf(p)
    BY <1>1, <1>2
  <1>4. BytesOf(q)[0] = <<q, 0>> /\ BytesOf(p)[0] = <<p, 0>>
    BY <1>2, <1>3 DEF BytesOf
  <1> QED BY <1>4

LEMMA InitRefines == TInit => Ordered!Init
  <1> SUFFICES ASSUME TInit PROVE Ordered!Init
    OBVIOUS
  <1>1. ASSUME NEW f \in Flows, NEW s \in Serials
        PROVE  /\ StatusOf(f, s) = IF s < InitialSerial[f] THEN "settled" ELSE "new"
               /\ ContentAt(f, s) = NoPayload
    <2>1. Live(f, s) = {}
      BY DEF TInit, Init, Live
    <2> QED BY <2>1, NoneLive DEF TInit, Init
  <1> QED BY <1>1 DEF TInit, Init, Ordered!Init

LEMMA ReceiveRefines ==
    ASSUME TracesInv, NEW t \in Tokens, NEW p \in Payloads, Receive(t, p), UNCHANGED reported
    PROVE  Ordered!Accept(t.flow, t.serial, p)
  <1> USE Typing
  <1> DEFINE f == t.flow
             s == t.serial
  <1>1. /\ f \in Flows /\ s \in Serials /\ s \in Nat /\ t.slot \in Slots
        /\ t \notin DOMAIN packets
        /\ bases[f] <= s /\ s < bases[f] + Window /\ s \notin released_serials[f]
        /\ active_slots[f][t.slot] = NoToken /\ t.slot = s % Window
        /\ halted[f] = NotHalted
    BY TracesAssumption DEF Receive, MayReceive, Receivable, Tokens
  <1>2. /\ DOMAIN packets' = DOMAIN packets \cup {t}
        /\ packets'[t] = NewPacket(p)
        /\ \A u \in DOMAIN packets : packets'[u] = packets[u]
        /\ UNCHANGED <<bases, released_serials, halted>>
    BY <1>1 DEF Receive
  <1>3. Live(f, s) = {}
    BY <1>1, TracesAssumption DEF Live, TracesInv, LiveInWindow
  <1>4. StatusOf(f, s) = "new"
    BY <1>1, <1>3, NoneLive
  <1>5. \A u \in Serials : u + Window <= s => StatusOf(f, u) = "settled"
    <2> SUFFICES ASSUME NEW u \in Serials, u + Window <= s PROVE StatusOf(f, u) = "settled"
      OBVIOUS
    <2>1. u < bases[f]
      BY <1>1
    <2>2. Live(f, u) = {}
      BY <1>1, <2>1 DEF Live, TracesInv, LiveInWindow
    <2> QED BY <2>1, <2>2, NoneLive
  <1>6. TracesInv' /\ t \in DOMAIN packets' /\ ~packets'[t].released
        /\ ~packets'[t].consumed /\ packets'[t].payload = p
    BY <1>2, ReceiveKeeps DEF NewPacket
  <1>7. StatusOf(f, s)' = "accepted" /\ ContentAt(f, s)' = p
    BY <1>6, LiveAlonePrimed
  <1>8. ASSUME NEW g \in Flows, NEW u \in Serials, <<g, u>> # <<f, s>>
        PROVE  StatusOf(g, u)' = StatusOf(g, u) /\ ContentAt(g, u)' = ContentAt(g, u)
    <2>1. Live(g, u)' = Live(g, u)
      BY <1>2, <1>8 DEF Live
    <2> QED BY <1>2, <2>1, Untouched DEF Live
  <1> HIDE DEF f, s
  <1>9. /\ Standing' = [Standing EXCEPT ![f][s] = "accepted"]
        /\ Contents' = [Contents EXCEPT ![f][s] = p]
    BY <1>1, <1>7, <1>8, OneMoves
  <1>10. Stopped' = Stopped /\ ~Stopped[f]
    BY <1>1, <1>2 DEF Stopped
  <1>11. Standing[f][s] = "new" /\ \A u \in Serials : u + Window <= s => Standing[f][u] = "settled"
    BY <1>1, <1>4, <1>5 DEF Standing
  <1>12. Ordered!Accept(f, s, p)
    BY <1>9, <1>10, <1>11 DEF Ordered!Accept, Standing, Contents, Stopped
  <1> QED BY <1>12 DEF f, s

LEMMA ConsumeRefines ==
    ASSUME TracesInv, NEW t, NEW d, NEW p \in Payloads, Reads(t, d, p)
    PROVE  Ordered!Deliver(t.flow, t.serial)
  <1> USE Typing
  <1> DEFINE f == t.flow
             s == t.serial
  <1>1. /\ t \in DOMAIN packets /\ f \in Flows /\ s \in Serials /\ s \in Nat
        /\ ~packets[t].released /\ ~packets[t].consumed
        /\ s = next_consume[f]
        /\ BytesOf(p) = BytesOf(packets[t].payload)
    BY DEF Reads, Consume, MayConsume, ActivePacket
  <1>2. /\ packets' = [packets EXCEPT ![t].consumed = TRUE]
        /\ UNCHANGED <<bases, released_serials, halted>>
    BY DEF Reads, Consume
  <1>3. /\ DOMAIN packets' = DOMAIN packets
        /\ packets'[t].consumed /\ packets[t].payload \in Payloads
        /\ Length[packets[t].payload] \in 1..MaxPacketBytes
        /\ \A u \in DOMAIN packets :
            /\ packets'[u].released = packets[u].released
            /\ packets'[u].payload = packets[u].payload
            /\ u # t => packets'[u] = packets[u]
    <2>1. packets'[t] = [packets[t] EXCEPT !.consumed = TRUE]
      BY <1>1, <1>2
    <2>2. packets[t] \in Packet
      BY <1>1
    <2>3. /\ packets'[t].consumed /\ packets[t].payload \in Payloads
          /\ Length[packets[t].payload] \in 1..MaxPacketBytes
          /\ packets'[t].released = packets[t].released
          /\ packets'[t].payload = packets[t].payload
      BY <2>1, <2>2 DEF Packet
    <2>4. \A u \in DOMAIN packets : u # t => packets'[u] = packets[u]
      BY <1>2
    <2> QED BY <1>2, <2>3, <2>4
  <1>4. packets[t].payload = p
    BY <1>1, <1>3, SameBytes
  <1>5. StatusOf(f, s) = "accepted" /\ ContentAt(f, s) = p
    BY <1>1, <1>4, LiveAlone
  <1>6. \A u \in Serials : u < s => StatusOf(f, u) \in {"held", "settled"}
    <2> SUFFICES ASSUME NEW u \in Serials, u < s, StatusOf(f, u) # "settled"
                 PROVE  StatusOf(f, u) = "held"
      OBVIOUS
    <2>1. CASE bases[f] <= u /\ u \notin released_serials[f]
      <3>1. PICK v \in DOMAIN packets :
                v.flow = f /\ v.serial = u /\ ~packets[v].released /\ packets[v].consumed
        BY <1>1, <2>1 DEF TracesInv, PrefixConsumed
      <3> QED BY <3>1 DEF StatusOf, Live
    <2>2. CASE ~(bases[f] <= u /\ u \notin released_serials[f])
      <3>1. u < bases[f] \/ u \in released_serials[f]
        BY <1>1, <2>2
      <3>2. Live(f, u) = {}
        BY <1>1, <3>1 DEF Live, TracesInv, LiveInWindow
      <3> QED BY <3>1, <3>2, NoneLive
    <2> QED BY <2>1, <2>2
  <1>7. TracesInv' /\ t \in DOMAIN packets' /\ ~packets'[t].released
        /\ packets'[t].consumed /\ packets'[t].payload = p
    BY <1>1, <1>3, <1>4, ConsumeKeeps DEF Reads
  <1>8. StatusOf(f, s)' = "held" /\ ContentAt(f, s)' = p
    BY <1>7, LiveAlonePrimed
  <1>9. ASSUME NEW g \in Flows, NEW u \in Serials, <<g, u>> # <<f, s>>
        PROVE  StatusOf(g, u)' = StatusOf(g, u) /\ ContentAt(g, u)' = ContentAt(g, u)
    <2>1. Live(g, u)' = Live(g, u) /\ t \notin Live(g, u)
      BY <1>3, <1>9 DEF Live
    <2>2. \A v \in Live(g, u) : packets'[v].consumed = packets[v].consumed
                                /\ packets'[v].payload = packets[v].payload
      BY <1>3, <2>1 DEF Live
    <2> QED BY <1>2, <2>1, <2>2, Untouched
  <1> HIDE DEF f, s
  <1>10. /\ Standing' = [Standing EXCEPT ![f][s] = "held"]
         /\ Contents' = [Contents EXCEPT ![f][s] = p]
    BY <1>1, <1>8, <1>9, OneMoves
  <1>11. Contents' = Contents /\ Contents[f][s] = p
    <2> DEFINE C == {ContentAt(g, u) : g \in Flows, u \in Serials}
    <2>1. Contents[f][s] = p /\ Contents \in [Flows -> [Serials -> C]]
      BY <1>1, <1>5 DEF Contents
    <2> QED BY <1>1, <1>10, <2>1
  <1>12. Stopped' = Stopped
    BY <1>2 DEF Stopped
  <1>13. /\ Standing[f][s] = "accepted"
         /\ \A u \in Serials : u < s => Standing[f][u] \in {"held", "settled"}
    BY <1>1, <1>5, <1>6 DEF Standing
  <1>14. reported' = [reported EXCEPT ![f][s] = Contents[f][s]]
    BY <1>11 DEF Reads, f, s
  <1>15. Ordered!Deliver(f, s)
    BY <1>10, <1>11, <1>12, <1>13, <1>14 DEF Ordered!Deliver, Standing, Contents, Stopped
  <1> QED BY <1>15 DEF f, s

LEMMA ReleaseRefines ==
    ASSUME TracesInv, NEW t, Frees(t)
    PROVE  Ordered!Release(t.flow, t.serial)
  <1> USE Typing
  <1> DEFINE f == t.flow
             s == t.serial
  <1>1. /\ t \in DOMAIN packets /\ f \in Flows /\ s \in Serials /\ s \in Nat
        /\ ~packets[t].released /\ packets[t].consumed
    BY BaseMoves DEF Frees
  <1>2. /\ packets' = [packets EXCEPT ![t].released = TRUE]
        /\ UNCHANGED halted
        /\ reported' = [reported EXCEPT ![f][s] = NoPayload]
    BY DEF Frees, Release
  <1>3. /\ DOMAIN packets' = DOMAIN packets
        /\ packets'[t].released
        /\ \A u \in DOMAIN packets : u # t => packets'[u] = packets[u]
    <2>1. packets'[t] = [packets[t] EXCEPT !.released = TRUE]
      BY <1>1, <1>2
    <2>2. packets[t] \in Packet
      BY <1>1
    <2>3. packets'[t].released
      BY <2>1, <2>2 DEF Packet
    <2> QED BY <1>2, <2>3
  <1>4. /\ \A u \in Nat :
            u < bases'[f] \/ u \in released_serials'[f] <=>
                u < bases[f] \/ u \in released_serials[f] \/ u = s
        /\ \A g \in Flows : g # f =>
            bases'[g] = bases[g] /\ released_serials'[g] = released_serials[g]
    BY BaseMoves DEF Frees
  <1>5. StatusOf(f, s) = "held" /\ Live(f, s) = {t}
    BY <1>1, LiveAlone
  <1>6. StatusOf(f, s)' = "settled" /\ ContentAt(f, s)' = NoPayload
    <2>1. Live(f, s)' = {}
      <3>1. \A u \in DOMAIN packets : u.flow = f /\ u.serial = s /\ ~packets[u].released => u = t
        BY <1>5 DEF Live
      <3> QED BY <1>3, <3>1 DEF Live
    <2>2. s < bases'[f] \/ s \in released_serials'[f]
      BY <1>1, <1>4
    <2> QED BY <2>1, <2>2 DEF StatusOf, ContentAt
  <1>7. ASSUME NEW g \in Flows, NEW u \in Serials, <<g, u>> # <<f, s>>
        PROVE  StatusOf(g, u)' = StatusOf(g, u) /\ ContentAt(g, u)' = ContentAt(g, u)
    <2>1. Live(g, u)' = Live(g, u) /\ t \notin Live(g, u)
      BY <1>3, <1>7 DEF Live
    <2>2. (u < bases[g] \/ u \in released_serials[g])' <=>
                (u < bases[g] \/ u \in released_serials[g])
      BY <1>4, <1>7
    <2>3. \A v \in Live(g, u) : packets'[v].consumed = packets[v].consumed
                                /\ packets'[v].payload = packets[v].payload
      BY <1>3, <2>1 DEF Live
    <2> QED BY <2>1, <2>2, <2>3, Untouched
  <1> HIDE DEF f, s
  <1>8. /\ Standing' = [Standing EXCEPT ![f][s] = "settled"]
        /\ Contents' = [Contents EXCEPT ![f][s] = NoPayload]
    BY <1>1, <1>6, <1>7, OneMoves
  <1>9. Stopped' = Stopped /\ Standing[f][s] = "held"
    BY <1>1, <1>2, <1>5 DEF Stopped, Standing
  <1>10. Ordered!Release(f, s)
    BY <1>2, <1>8, <1>9 DEF Ordered!Release, Standing, Contents, Stopped
  <1> QED BY <1>10 DEF f, s

LEMMA HaltRefines ==
    ASSUME TracesInv, NEW f \in Flows, NEW s \in Serials, Halt(f, s), UNCHANGED reported
    PROVE  Ordered!Halt(f)
  <1> USE Typing
  <1>1. /\ halted[f] = NotHalted /\ s = next_issue[f] /\ s \notin ActiveSerials(f)
        /\ \E a \in ActiveSerials(f) : a > s
        /\ halted' = [halted EXCEPT ![f] = s]
        /\ UNCHANGED <<bases, released_serials, packets>>
        /\ s # NotHalted /\ s \in Nat
    BY TracesAssumption DEF Halt, MayHalt
  <1>2. PICK k \in Slots : active_slots[f][k] # NoToken /\ active_slots[f][k].serial > s
    BY <1>1 DEF ActiveSerials
  <1> DEFINE t == active_slots[f][k]
  <1>3. t \in DOMAIN packets /\ ~packets[t].released /\ t.flow = f
    BY <1>2 DEF TracesInv, SlotsOwned
  <1>4. t.serial \in Serials /\ t.serial \in Nat /\ s < t.serial
    BY <1>1, <1>2, <1>3
  <1>5. ~packets[t].consumed
    <2>1. next_consume[f] <= s
      BY <1>1 DEF TracesInv, CursorsOrdered
    <2> QED BY <1>1, <1>3, <1>4, <2>1 DEF TracesInv, PacketsInTurn
  <1>6. StatusOf(f, t.serial) = "accepted"
    BY <1>3, <1>5, LiveAlone
  <1>7. Live(f, s) = {}
    <2> SUFFICES ASSUME NEW u \in Live(f, s) PROVE FALSE
      OBVIOUS
    <2>1. u \in DOMAIN packets /\ u.flow = f /\ u.serial = s /\ ~packets[u].released
      BY DEF Live
    <2>2. active_slots[f][u.slot] = u /\ u.slot \in Slots /\ u # NoToken
      BY <2>1, TracesAssumption DEF TracesInv, LiveInWindow
    <2> QED BY <1>1, <2>1, <2>2 DEF ActiveSerials
  <1>8. /\ InitialSerial[f] <= s /\ bases[f] <= s /\ s \notin released_serials[f]
        /\ InitialSerial[f] \in Nat
    BY <1>1, CheckerAssumption DEF TracesInv, CursorsOrdered
  <1>9. StatusOf(f, s) = "new"
    BY <1>1, <1>7, <1>8, NoneLive
  <1>10. s \in InitialSerial[f]..(t.serial - 1)
    BY <1>1, <1>4, <1>8
  <1> HIDE DEF t
  <1>11. Standing' = Standing /\ Contents' = Contents
    BY <1>1 DEF Standing, Contents, StatusOf, ContentAt, Live
  <1>12. Stopped' = [Stopped EXCEPT ![f] = TRUE] /\ ~Stopped[f]
    BY <1>1 DEF Stopped
  <1>13. Standing[f][t.serial] = "accepted" /\ Standing[f][s] = "new"
    BY <1>4, <1>6, <1>9 DEF Standing
  <1> QED BY <1>4, <1>10, <1>11, <1>12, <1>13 DEF Ordered!Halt, Standing, Contents, Stopped

(* Issuing and completing writes changes nothing the promise speaks of.    *)
LEMMA WritesStutter ==
    ASSUME TracesInv, NEW t \in DOMAIN packets, NEW w \in NamedWrites,
           Issue(t, w[1], w[2]) \/ Visible(t, w[1], w[2]), UNCHANGED reported
    PROVE  UNCHANGED Ordered!vars
  <1> USE Typing
  <1>1. /\ UNCHANGED <<bases, released_serials, halted>>
        /\ DOMAIN packets' = DOMAIN packets
        /\ \A u \in DOMAIN packets : u # t => packets'[u] = packets[u]
    BY DEF Issue, Visible
  <1>2. /\ packets'[t].payload = packets[t].payload
        /\ packets'[t].consumed = packets[t].consumed
        /\ packets'[t].released = packets[t].released
    <2>1. packets[t] \in Packet
      OBVIOUS
    <2> DEFINE c == w[1]
    <2>2. \/ packets'[t] = [packets[t] EXCEPT
                    !.issued = @ \cup {c}, !.pending = @ \cup {c}, !.charged = TRUE,
                    !.ready_issued = @ \/ c = ReadyComponent]
          \/ packets'[t] = [packets[t] EXCEPT
                    !.pending = @ \ {c}, !.visible = @ \cup {c},
                    !.ready_visible = @ \/ c = ReadyComponent]
      BY DEF Issue, Visible
    <2> HIDE DEF c
    <2> QED BY <2>1, <2>2 DEF Packet
  <1>3. ASSUME NEW f \in Flows, NEW s \in Serials
        PROVE  StatusOf(f, s)' = StatusOf(f, s) /\ ContentAt(f, s)' = ContentAt(f, s)
    <2>1. Live(f, s)' = Live(f, s)
      BY <1>1, <1>2 DEF Live
    <2>2. \A u \in Live(f, s) : packets'[u].consumed = packets[u].consumed
                                /\ packets'[u].payload = packets[u].payload
      BY <1>1, <1>2 DEF Live
    <2> QED BY <1>1, <2>1, <2>2, Untouched
  <1> QED BY <1>1, <1>3 DEF Ordered!vars

LEMMA StepRefines == TracesInv /\ [TNext]_tvars => [Ordered!Next]_Ordered!vars
  <1> SUFFICES ASSUME TracesInv, [TNext]_tvars PROVE [Ordered!Next]_Ordered!vars
    OBVIOUS
  <1> USE Typing
  <1>1. ASSUME NEW t \in Tokens, NEW p \in Payloads, Receive(t, p), UNCHANGED reported
        PROVE  Ordered!Next
    <2>1. t.flow \in Flows /\ t.serial \in Serials
      BY DEF Tokens
    <2> QED BY <1>1, <2>1, ReceiveRefines DEF Ordered!Next
  <1>2. ASSUME NEW t \in DOMAIN packets, NEW w \in NamedWrites,
               Issue(t, w[1], w[2]) \/ Visible(t, w[1], w[2]), UNCHANGED reported
        PROVE  UNCHANGED Ordered!vars
    BY <1>2, WritesStutter
  <1>3. ASSUME NEW t \in Tokens, NEW d, NEW p \in Payloads, Reads(t, d, p)
        PROVE  Ordered!Next
    <2>1. t.flow \in Flows /\ t.serial \in Serials
      BY DEF Tokens
    <2> QED BY <1>3, <2>1, ConsumeRefines DEF Ordered!Next
  <1>4. ASSUME NEW t \in Tokens, Frees(t) PROVE Ordered!Next
    <2>1. t.flow \in Flows /\ t.serial \in Serials
      BY DEF Tokens
    <2> QED BY <1>4, <2>1, ReleaseRefines DEF Ordered!Next
  <1>5. ASSUME NEW f \in Flows, NEW s \in Serials, Halt(f, s), UNCHANGED reported
        PROVE  Ordered!Next
    BY <1>5, HaltRefines DEF Ordered!Next
  <1>6. CASE UNCHANGED tvars
    BY <1>6 DEF tvars, vars, Ordered!vars, StatusOf, ContentAt, Live
  <1> QED BY <1>1, <1>2, <1>3, <1>4, <1>5, <1>6 DEF TNext

(* The checker is sound: whatever events a trace is made of, if each is    *)
(* let pass, then every packet was handed to the CPU once, in order and    *)
(* with the bytes it came in with, for every window, budget, number of     *)
(* flows and packet length (validate_trace, checker.py:97-320).            *)
THEOREM AcceptedMeansOrdered == TSpec => AcceptedTracesAreOrdered
  <1> QED BY InitRefines, StepRefines, TracesInvariant, PTL
            DEF TSpec, AcceptedTracesAreOrdered, Ordered!Spec

---------------------------------------------------------------------------------

(* Evidence: from here on, what a report stands for.                       *)
USE DEF disk, attempts, sweep_state, main_state, case_state, history

Steps == {"off", "server", "connect", "configure", "guest", "output", "ingress", "loop",
          "checks", "cleanup", "logs"}

Things == {"log", "server", "client", "guest", "output", "cache_client"}

Typed ==
    /\ attempt \in Nat /\ arm \in Nat \ {0} /\ case \in Nat \ {0} /\ disturbances \in Nat
    /\ sweep \in {"off", "arms", "write", "reap"}
    /\ main \in {"off", "pins", "cases", "write", "exited"}
    /\ step \in Steps
    /\ raising \in {"no", "error", "interrupt"}
    /\ cleaning \in 1..Len(Cleanup)
    /\ forced \in BOOLEAN

(* Where sweep, process and case stand to each other.                      *)
Nested ==
    /\ main # "off" => arm \in Arms
    /\ main = "pins" => case = 1
    /\ step # "off" => main = "cases" /\ case \in 1..Len(CasesOf[arm])
    /\ raising # "no" => step = "cleanup" \/ main = "write"
    /\ sweep \in {"arms", "reap"} => sweep_status = "running"
    /\ main \in {"pins", "cases"} => main_status = "running"
    /\ disturbances = 0 => sweep # "reap" /\ raising # "interrupt"

(* Nothing is written but below a directory made for it, and the report of *)
(* an arm comes last.                                                      *)
OnDisk ==
    /\ \A f \in files : f.path \in dirs
    /\ sweep # "off" => Output \in dirs
    /\ Alive => ArmOutput \in dirs /\ \A f \in files : f.path # ArmOutput
    /\ step # "off" => CaseOutput \in dirs
    /\ \A a, c : <<a, c>> \in proven => <<a>> \in dirs

(* Only the first attempt gets anywhere.                                   *)
FirstOnly ==
    /\ Output \in dirs <=> attempt # 0
    /\ attempt = 0 => sweep = "off" /\ main = "off"
    /\ sweep # "off" => sweep_attempt = 1
    /\ main # "off" => main_attempt = 1
    /\ \A f \in files : f.attempt = 1

Good(a, c) == <<a, c>> \in proven /\ Holds(<<a, c>>, Expected(CasesOf[a][c]))

(* What the status of the present case stands for.                         *)
CaseStands ==
    /\ step = "checks" => case_status = Expected(CasesOf[arm][case])
    /\ step = "cleanup" /\ raising = "no" => case_status = Expected(CasesOf[arm][case])
    /\ step = "cleanup" /\ raising = "error" => case_status = "failed"
    /\ step = "logs" => /\ case_status = Expected(CasesOf[arm][case])
                        /\ Holds(CaseOutput, case_status)

MainStands ==
    /\ main = "cases" => \A c \in 1..(case - 1) : Good(arm, c)
    /\ main = "write" /\ main_status = "passed" => \A c \in 1..Len(CasesOf[arm]) : Good(arm, c)

ArmsStand ==
    \A a \in Arms : Holds(<<a>>, "passed") => \A c \in 1..Len(CasesOf[a]) : Good(a, c)

SweepStands ==
    /\ sweep = "write" /\ sweep_status = "passed" =>
            main = "off" /\ \A a \in Arms : Holds(<<a>>, "passed")
    /\ Holds(Output, "passed") =>
            sweep = "off" /\ main = "off" /\ \A a \in Arms : Holds(<<a>>, "passed")

(* A case that has not begun is not proven.                                *)
NotYetProven ==
    main \in {"pins", "cases"} => \A c \in Nat : c >= case => <<arm, c>> \notin proven

(* What the cleanup is still to let go of.                                 *)
HeldUntilCleaned ==
    /\ held \subseteq Things
    /\ Trying => cleaning = 1
    /\ step = "cleanup" => \A k \in 1..(cleaning - 1) : held \cap Cleanup[k] = {}
    /\ step = "logs" => held = {}
    /\ step = "off" /\ ~forced => held = {}

EvidenceInv ==
    /\ Typed /\ Nested /\ OnDisk /\ FirstOnly
    /\ CaseStands /\ MainStands /\ ArmsStand /\ SweepStands
    /\ NotYetProven /\ HeldUntilCleaned /\ CaseReportsHold
--------------------------------------------------------------------------------
(* Paths, reports and the plan.                                            *)

(* The directories of the levels differ.                                   *)
LEMMA PathsDiffer ==
    /\ \A a : <<a>> # <<>>
    /\ \A a, c : <<a, c>> # <<>>
    /\ \A a, b, c : <<a>> # <<b, c>>
    /\ \A a, b : <<a>> = <<b>> => a = b
    /\ \A a, b, c, d : <<a, c>> = <<b, d>> => a = b /\ c = d
  OBVIOUS

(* A case is not expected to fail.                                         *)
LEMMA ExpectedEnd ==
    ASSUME NEW mode
    PROVE  Expected(mode) \in {"passed", "expected_rejection"}
  BY DEF Expected

LEMMA PlanTyped ==
    /\ Arms = 1..Len(CasesOf)
    /\ \A a \in Arms : a \in Nat \ {0} /\ Len(CasesOf[a]) \in Nat
  BY PlanAssumption DEF Arms

LEMMA CleanupSteps ==
    /\ Len(Cleanup) = 8
    /\ \A k \in 1..8 : Cleanup[k] \subseteq Things
    /\ \A h \in SUBSET Things : (\A k \in 1..7 : h \cap Cleanup[k] = {}) => h = {}
  <1>1. Len(Cleanup) = 8
    BY DEF Cleanup
  <1>2. /\ Cleanup[1] = {"guest"} /\ Cleanup[2] = {"output"} /\ Cleanup[3] = {"client"}
        /\ Cleanup[4] = {"cache_client"} /\ Cleanup[5] = {"server"} /\ Cleanup[6] = {"log"}
        /\ Cleanup[7] = {} /\ Cleanup[8] = {}
    BY DEF Cleanup
  <1>3. \A k \in 1..8 : k = 1 \/ k = 2 \/ k = 3 \/ k = 4 \/ k = 5 \/ k = 6 \/ k = 7 \/ k = 8
    OBVIOUS
  <1>4. \A k \in 1..8 : Cleanup[k] \subseteq Things
    BY <1>2, <1>3 DEF Things
  <1>5. ASSUME NEW h \in SUBSET Things, \A k \in 1..7 : h \cap Cleanup[k] = {}
        PROVE  h = {}
    <2>1. /\ h \cap {"guest"} = {} /\ h \cap {"output"} = {} /\ h \cap {"client"} = {}
          /\ h \cap {"cache_client"} = {} /\ h \cap {"server"} = {} /\ h \cap {"log"} = {}
      BY <1>2, <1>5
    <2> QED BY <2>1 DEF Things
  <1> QED BY <1>1, <1>4, <1>5

(* A report that is written takes the place of the one at its path.        *)
LEMMA WrittenHolds ==
    ASSUME NEW path, NEW status, NEW list, files' = Written(Report(path, status, list))
    PROVE  /\ Holds(path, status)'
           /\ \A s : Holds(path, s)' => s = status
           /\ \A p, s : p # path => (Holds(p, s)' <=> Holds(p, s))
           /\ \A f \in files' :
                \/ /\ f.path = path
                   /\ f.attempt = IF path = Output THEN sweep_attempt ELSE main_attempt
                \/ f \in files
  <1> DEFINE r == Report(path, status, list)
  <1>1. /\ r.path = path /\ r.status = status
        /\ r.attempt = IF path = Output THEN sweep_attempt ELSE main_attempt
    BY DEF Report
  <1> HIDE DEF r
  <1>2. files' = {f \in files : f.path # path} \cup {r}
    BY <1>1 DEF Written, r
  <1> QED BY <1>1, <1>2 DEF Holds

LEMMA SameReports ==
    ASSUME UNCHANGED files
    PROVE  \A p, s : Holds(p, s)' <=> Holds(p, s)
  BY DEF Holds

(* The steps of a case that take it forward.                               *)
Ahead == StartServer \/ Connect \/ Configure \/ StartGuest \/ OpenOutput \/ ConnectIngress

LEMMA AheadSteps ==
    ASSUME Ahead
    PROVE  /\ Trying
           /\ step' \in {"connect", "configure", "guest", "output", "ingress", "loop"}
           /\ held' \subseteq held \cup Things
           /\ UNCHANGED <<disk, sweep_state, main_state, cleaning, case_status, reachable,
                          raising, history>>
  BY DEF Ahead, StartServer, Connect, Configure, StartGuest, OpenOutput, ConnectIngress, Step,
         Trying, Things

LEMMA DisturbTyped ==
    ASSUME Typed, NEW cut \in BOOLEAN, Disturb(cut)
    PROVE  disturbances' \in Nat \ {0} /\ forced' \in BOOLEAN
  <1>1. disturbances' \in Nat \ {0}
    BY DEF Typed, Disturb
  <1>2. forced' \in BOOLEAN
    BY Zenon DEF Typed, Disturb
  <1> QED BY <1>1, <1>2

--------------------------------------------------------------------------------
(* The parts of the invariant, one after the other.                        *)

(* Only the first run of the sweep begins, and finds no process.           *)
LEMMA SweepBegins ==
    ASSUME Typed, FirstOnly, StartSweep
    PROVE  /\ attempt' = attempt + 1 /\ UNCHANGED <<main, main_attempt, case, step>>
           /\ UNCHANGED <<files, case_status, held, cleaning, raising, proven>>
           /\ sweep = "off"
           /\ IF attempt = 0
              THEN /\ main = "off" /\ sweep' = "arms" /\ arm' = 1 /\ sweep_attempt' = 1
                   /\ Output \in dirs'
              ELSE UNCHANGED <<dirs, sweep_attempt, sweep, arm, sweep_status>>
  BY DEF Typed, FirstOnly, StartSweep, Fresh

LEMMA TypedStep ==
    ASSUME Typed, ENext
    PROVE  Typed'
  <1> USE CleanupSteps DEF Typed
  <1>1. CASE Ahead
    BY <1>1, AheadSteps DEF Steps
  <1>2. CASE StartSweep \/ StartArm \/ ArmReturns \/ Compare \/ WriteComparison
    BY <1>2 DEF StartSweep, StartArm, ArmReturns, Compare, WriteComparison
  <1>3. CASE CheckPins \/ StartCase \/ FinishMain \/ WriteMain \/ OrphanEnds
    BY <1>3 DEF CheckPins, StartCase, FinishMain, WriteMain, OrphanEnds, MainFails, Steps
  <1>4. CASE Listens \/ RunLoop \/ ChecksHold \/ CaseRaises
    BY <1>4 DEF Listens, RunLoop, ChecksHold, CaseRaises, Step, Steps
  <1>5. CASE CleanUp \/ WriteCase \/ CheckLogs
    BY <1>5 DEF CleanUp, WriteCase, CheckLogs, LeaveCase, MainFails, Steps
  <1>6. CASE CleanupFails
    BY <1>6, DisturbTyped DEF CleanupFails, LeaveCase, MainFails, Steps
  <1>7. CASE InterruptMain
    <2>1. disturbances' \in Nat /\ forced' \in BOOLEAN
      BY <1>7, DisturbTyped DEF InterruptMain
    <2> QED BY <1>7, <2>1 DEF InterruptMain, LeaveCase, MainFails, Steps
  <1>8. CASE InterruptSweep \/ KillSweep
    BY <1>8, DisturbTyped DEF InterruptSweep, KillSweep
  <1>9. CASE KillMain
    BY <1>9, DisturbTyped DEF KillMain, Die, Steps
  <1>10. CASE Reap
    BY <1>10 DEF Reap, Die, Steps
  <1> QED BY <1>1, <1>2, <1>3, <1>4, <1>5, <1>6, <1>7, <1>8, <1>9, <1>10
          DEF ENext, Sweep, Main, Case, Raises, Disturbance, Ahead

LEMMA NestedStep ==
    ASSUME Typed, Nested, FirstOnly, ENext
    PROVE  Nested'
  <1> USE PlanTyped DEF Typed, Nested
  <1>1. CASE Ahead
    BY <1>1, AheadSteps DEF Trying
  <1>2. CASE StartArm \/ ArmReturns
    BY <1>2 DEF StartArm, ArmReturns
  <1>13. CASE StartSweep
    BY <1>13, SweepBegins DEF StartSweep
  <1>3. CASE Compare \/ WriteComparison
    BY <1>3 DEF Compare, WriteComparison
  <1>4. CASE CheckPins \/ FinishMain \/ WriteMain \/ OrphanEnds
    BY <1>4 DEF CheckPins, FinishMain, WriteMain, OrphanEnds, MainFails
  <1>5. CASE StartCase
    <2>1. case \in 1..Len(CasesOf[arm])
      BY <1>5 DEF StartCase
    <2> QED BY <1>5, <2>1 DEF StartCase, MainFails
  <1>6. CASE Listens \/ RunLoop \/ ChecksHold \/ CaseRaises
    BY <1>6 DEF Listens, RunLoop, ChecksHold, CaseRaises, Step, Trying
  <1>7. CASE CleanUp \/ WriteCase \/ CheckLogs
    BY <1>7 DEF CleanUp, WriteCase, CheckLogs, LeaveCase, MainFails
  <1>8. CASE CleanupFails
    BY <1>8, DisturbTyped DEF CleanupFails, LeaveCase, MainFails
  <1>9. CASE InterruptMain
    <2>1. disturbances' # 0
      BY <1>9, DisturbTyped DEF InterruptMain
    <2> QED BY <1>9, <2>1 DEF InterruptMain, LeaveCase, MainFails, Trying
  <1>10. CASE KillMain
    BY <1>10, DisturbTyped DEF KillMain, Die, Alive
  <1>11. CASE InterruptSweep \/ KillSweep
    BY <1>11, DisturbTyped DEF InterruptSweep, KillSweep
  <1>12. CASE Reap
    BY <1>12 DEF Reap, Die, Alive
  <1> QED BY <1>1, <1>2, <1>3, <1>4, <1>5, <1>6, <1>7, <1>8, <1>9, <1>10, <1>11, <1>12, <1>13
          DEF ENext, Sweep, Main, Case, Raises, Disturbance, Ahead

(* What an action may write: the report of the present case, of the arm or *)
(* of the sweep, each by the one whose turn it is.                         *)
Writes(path, status) ==
    /\ \E list : files' = Written(Report(path, status, list))
    /\ \/ /\ path = Output /\ sweep = "write" /\ status = sweep_status
          /\ sweep' = "off" /\ UNCHANGED main
       \/ /\ path = ArmOutput /\ main = "write" /\ main' = "exited"
          /\ status \in {main_status, "torn"}
       \/ /\ path = CaseOutput /\ step \in {"cleanup", "logs"}
          /\ status \in {case_status', "torn"}

LEMMA WhatIsWritten ==
    ASSUME ENext
    PROVE  UNCHANGED files \/ \E path, status : Writes(path, status)
  <1> USE DEF Writes
  <1>1. CASE Ahead
    BY <1>1, AheadSteps
  <1>2. CASE StartSweep \/ StartArm \/ ArmReturns \/ Compare
    BY <1>2 DEF StartSweep, StartArm, ArmReturns, Compare
  <1>3. CASE WriteComparison
    BY <1>3 DEF WriteComparison
  <1>4. CASE CheckPins \/ StartCase \/ FinishMain \/ OrphanEnds
    BY <1>4 DEF CheckPins, StartCase, FinishMain, OrphanEnds
  <1>5. CASE WriteMain
    BY <1>5 DEF WriteMain
  <1>6. CASE Listens \/ RunLoop \/ ChecksHold \/ CaseRaises \/ CleanUp
    BY <1>6 DEF Listens, RunLoop, ChecksHold, CaseRaises, Step, CleanUp
  <1>7. CASE WriteCase
    BY <1>7 DEF WriteCase
  <1>8. CASE CheckLogs
    BY <1>8 DEF CheckLogs, Corrected
  <1>9. CASE CleanupFails \/ InterruptMain \/ InterruptSweep \/ KillSweep
    BY <1>9 DEF CleanupFails, InterruptMain, InterruptSweep, KillSweep
  <1>10. ASSUME Die PROVE UNCHANGED files \/ \E path, status : Writes(path, status)
    BY <1>10 DEF Die
  <1>11. CASE KillMain \/ Reap
    BY <1>10, <1>11 DEF KillMain, Reap
  <1> QED BY <1>1, <1>2, <1>3, <1>4, <1>5, <1>6, <1>7, <1>8, <1>9, <1>11
          DEF ENext, Sweep, Main, Case, Raises, Disturbance, Ahead

(* What an action may make: the directory of the sweep, of an arm or of a  *)
(* case, the first two only afresh.                                        *)
LEMMA WhatIsMade ==
    ASSUME ENext
    PROVE  \/ UNCHANGED dirs
           \/ /\ Output \notin dirs /\ dirs' = dirs \cup {Output}
              /\ StartSweep
           \/ /\ ArmOutput \notin dirs /\ dirs' = dirs \cup {ArmOutput}
              /\ StartArm
           \/ /\ dirs' \in {dirs, dirs \cup {CaseOutput}}
              /\ StartCase
  <1>1. CASE Ahead
    BY <1>1, AheadSteps
  <1>2. CASE StartSweep \/ StartArm \/ ArmReturns \/ Compare \/ WriteComparison
    BY <1>2 DEF StartSweep, StartArm, ArmReturns, Compare, WriteComparison, Fresh
  <1>3. CASE CheckPins \/ StartCase \/ FinishMain \/ WriteMain \/ OrphanEnds
    BY <1>3 DEF CheckPins, StartCase, FinishMain, WriteMain, OrphanEnds
  <1>4. CASE Listens \/ RunLoop \/ ChecksHold \/ CaseRaises \/ CleanUp
    BY <1>4 DEF Listens, RunLoop, ChecksHold, CaseRaises, Step, CleanUp
  <1>5. CASE WriteCase \/ CheckLogs
    BY <1>5 DEF WriteCase, CheckLogs
  <1>6. CASE CleanupFails \/ InterruptMain \/ InterruptSweep \/ KillSweep
    BY <1>6 DEF CleanupFails, InterruptMain, InterruptSweep, KillSweep
  <1>7. CASE KillMain \/ Reap
    BY <1>7 DEF KillMain, Reap, Die
  <1> QED BY <1>1, <1>2, <1>3, <1>4, <1>5, <1>6, <1>7
          DEF ENext, Sweep, Main, Case, Raises, Disturbance, Ahead

(* The sweep moves to another arm only when no process runs, and a process *)
(* to another case only when its present one is over.                      *)
LEMMA WhoMoves ==
    ASSUME Typed, Nested, FirstOnly, ENext
    PROVE  /\ sweep = "off" /\ sweep' # "off" => StartSweep
           /\ main = "off" /\ main' # "off" => StartArm
           /\ main # "off" /\ main' # "off" => UNCHANGED arm
           /\ attempt' # attempt => StartSweep
           /\ sweep_attempt' # sweep_attempt => StartSweep
           /\ main_attempt' # main_attempt => StartArm
           /\ Alive' => Alive \/ StartArm
           /\ step' # "off" => StartCase \/ (step # "off" /\ UNCHANGED <<arm, case>>)
           /\ main' \in {"pins", "cases"} => \/ UNCHANGED <<arm, case>>
                                            \/ StartArm
                                            \/ /\ CheckLogs /\ case' = case + 1
                                               /\ proven' = proven \cup {CaseOutput}
           /\ main' \in {"pins", "cases"} => main \in {"pins", "cases"} \/ StartArm
           /\ proven' # proven => /\ step = "logs" /\ proven' = proven \cup {CaseOutput}
                                  /\ CheckLogs /\ case' = case + 1 /\ UNCHANGED arm
  <1> USE DEF Typed, Nested, Alive
  <1>1. CASE Ahead
    BY <1>1, AheadSteps DEF Trying
  <1>2. CASE StartArm
    BY <1>2 DEF StartArm
  <1>10. CASE StartSweep
    BY <1>10, SweepBegins
  <1>3. CASE ArmReturns \/ Compare \/ WriteComparison
    BY <1>3 DEF ArmReturns, Compare, WriteComparison
  <1>4. CASE CheckPins \/ StartCase \/ FinishMain \/ WriteMain \/ OrphanEnds
    BY <1>4 DEF CheckPins, StartCase, FinishMain, WriteMain, OrphanEnds, MainFails
  <1>5. CASE Listens
    BY <1>5 DEF Listens
  <1>6. CASE RunLoop \/ ChecksHold \/ CaseRaises \/ CleanUp
    BY <1>6 DEF RunLoop, ChecksHold, CaseRaises, Step, CleanUp, Trying
  <1>7. CASE WriteCase \/ CheckLogs
    BY <1>7 DEF WriteCase, CheckLogs, LeaveCase, MainFails
  <1>8. CASE CleanupFails \/ InterruptMain \/ InterruptSweep \/ KillSweep
    BY <1>8 DEF CleanupFails, InterruptMain, InterruptSweep, KillSweep, Disturb, LeaveCase,
                MainFails, Trying
  <1>9. CASE KillMain \/ Reap
    BY <1>9 DEF KillMain, Reap, Die, Disturb
  <1> QED BY <1>1, <1>2, <1>3, <1>4, <1>5, <1>6, <1>7, <1>8, <1>9, <1>10
          DEF ENext, Sweep, Main, Case, Raises, Disturbance, Ahead

LEMMA OnDiskStep ==
    ASSUME Typed, Nested, FirstOnly, OnDisk, ENext
    PROVE  OnDisk'
  <1>1. dirs \subseteq dirs'
    BY WhatIsMade
  <1>2. Output \in dirs /\ Alive => ArmOutput \in dirs
    BY DEF OnDisk
  <1>3. \A f \in files' : f.path \in dirs'
    <2>1. CASE UNCHANGED files
      BY <1>1, <2>1 DEF OnDisk
    <2>2. ASSUME NEW path, NEW status, Writes(path, status)
          PROVE  \A f \in files' : f.path \in dirs'
      <3>1. path \in dirs
        BY <2>2 DEF Writes, OnDisk, Alive, Nested
      <3>2. \A f \in files' : f.path = path \/ f \in files
        BY <2>2, WrittenHolds DEF Writes
      <3> QED BY <1>1, <3>1, <3>2 DEF OnDisk
    <2> QED BY <2>1, <2>2, WhatIsWritten
  <1>4. sweep' # "off" => Output \in dirs'
    <2>1. CASE StartSweep
      BY <2>1 DEF StartSweep, OnDisk
    <2>2. CASE sweep # "off"
      BY <1>1, <2>2 DEF OnDisk, Output
    <2>3. ASSUME ~StartSweep, sweep = "off" PROVE sweep' = "off"
      BY <2>3, WhoMoves
    <2> QED BY <2>1, <2>2, <2>3
  <1>5. Alive' => ArmOutput' \in dirs' /\ \A f \in files' : f.path # ArmOutput'
    <2> SUFFICES ASSUME Alive' PROVE ArmOutput' \in dirs' /\ \A f \in files' : f.path # ArmOutput'
      OBVIOUS
    <2>1. CASE StartArm
      BY <2>1, <1>1 DEF StartArm, Fresh, OnDisk, ArmOutput, Alive
    <2>2. CASE ~StartArm
      <3>1. Alive /\ UNCHANGED arm
        BY <2>2, WhoMoves DEF Alive
      <3>2. ArmOutput' \in dirs'
        BY <1>1, <3>1 DEF OnDisk, ArmOutput
      <3>3. ASSUME NEW path, NEW status, Writes(path, status)
            PROVE  path # ArmOutput
        BY <3>1, <3>3, PathsDiffer DEF Writes, ArmOutput, CaseOutput, Output, Alive
      <3>4. \A f \in files' : f \in files \/ f.path # ArmOutput
        BY <3>3, WhatIsWritten, WrittenHolds DEF Writes
      <3> QED BY <3>1, <3>2, <3>4 DEF OnDisk, ArmOutput
    <2> QED BY <2>1, <2>2
  <1>6. step' # "off" => CaseOutput' \in dirs'
    <2>1. CASE StartCase
      BY <2>1 DEF StartCase, CaseOutput
    <2>2. CASE ~StartCase
      BY <1>1, <2>2, WhoMoves DEF OnDisk, CaseOutput
    <2> QED BY <2>1, <2>2
  <1>7. \A a, c : <<a, c>> \in proven' => <<a>> \in dirs'
    <2>1. CASE proven' = proven
      BY <1>1, <2>1 DEF OnDisk
    <2>2. CASE proven' # proven
      <3>1. ArmOutput \in dirs /\ proven' = proven \cup {CaseOutput}
        BY <2>2, WhoMoves DEF OnDisk, Alive, Nested
      <3>2. \A a, c : <<a, c>> = CaseOutput => <<a>> = ArmOutput
        BY PathsDiffer DEF CaseOutput, ArmOutput
      <3> QED BY <1>1, <3>1, <3>2 DEF OnDisk
    <2> QED BY <2>1, <2>2
  <1> QED BY <1>3, <1>4, <1>5, <1>6, <1>7 DEF OnDisk

LEMMA FirstOnlyStep ==
    ASSUME Typed, Nested, OnDisk, FirstOnly, ENext
    PROVE  FirstOnly'
  <1>1. attempt' # attempt => StartSweep
    BY WhoMoves
  <1>2. Output \in dirs' <=> attempt' # 0
    <2>1. CASE StartSweep
      BY <2>1, SweepBegins DEF FirstOnly, Typed, Output
    <2>2. CASE ~StartSweep
      <3>1. Output # ArmOutput /\ Output # CaseOutput
        BY PathsDiffer DEF Output, ArmOutput, CaseOutput
      <3>2. Output \in dirs' <=> Output \in dirs
        BY <2>2, <3>1, WhatIsMade DEF Output
      <3> QED BY <1>1, <2>2, <3>2 DEF FirstOnly
    <2> QED BY <2>1, <2>2
  <1>3. /\ attempt' = 0 => sweep' = "off" /\ main' = "off"
        /\ sweep' # "off" => sweep_attempt' = 1
        /\ main' # "off" => main_attempt' = 1
    <2>1. CASE StartSweep
      BY <2>1, SweepBegins DEF FirstOnly, Typed
    <2>2. CASE StartArm
      BY <2>2 DEF StartArm, FirstOnly
    <2>3. CASE ~StartSweep /\ ~StartArm
      BY <1>1, <2>3, WhoMoves DEF FirstOnly
    <2> QED BY <2>1, <2>2, <2>3
  <1>4. \A f \in files' : f.attempt = 1
    <2>1. CASE UNCHANGED files
      BY <2>1 DEF FirstOnly
    <2>2. ASSUME NEW path, NEW status, Writes(path, status)
          PROVE  \A f \in files' : f.attempt = 1
      <3>1. path = Output => sweep_attempt = 1
        BY <2>2, PathsDiffer DEF Writes, FirstOnly, Output, ArmOutput, CaseOutput
      <3>2. path # Output => main_attempt = 1
        BY <2>2 DEF Writes, FirstOnly, Nested
      <3> QED BY <2>2, <3>1, <3>2, WrittenHolds DEF Writes, FirstOnly
    <2> QED BY <2>1, <2>2, WhatIsWritten
  <1> QED BY <1>2, <1>3, <1>4 DEF FirstOnly

LEMMA CaseStandsStep ==
    ASSUME Typed, Nested, FirstOnly, CaseStands, ENext
    PROVE  CaseStands'
  <1> USE DEF Typed, Nested, CaseStands
  <1>1. CASE Ahead
    BY <1>1, AheadSteps DEF Trying
  <1>2. CASE RunLoop
    BY <1>2 DEF RunLoop
  <1>3. CASE ChecksHold
    BY <1>3 DEF ChecksHold, Step
  <1>4. CASE CaseRaises
    BY <1>4 DEF CaseRaises
  <1>5. CASE CleanUp
    BY <1>5 DEF CleanUp
  <1>6. CASE WriteCase
    <2>1. Holds(CaseOutput, case_status)'
      BY <1>6, WrittenHolds DEF WriteCase, CaseOutput
    <2> QED BY <1>6, <2>1 DEF WriteCase, LeaveCase, MainFails
  <1>7. CASE CheckLogs
    BY <1>7 DEF CheckLogs, LeaveCase, MainFails
  <1>8. CASE Listens
    BY <1>8, SameReports DEF Listens, CaseOutput
  <1>9. CASE StartSweep \/ StartArm \/ ArmReturns
    <2>1. CASE step = "off"
      <3>1. step' = "off"
        BY <1>9, <2>1 DEF StartSweep, StartArm, ArmReturns, case_state
      <3> QED BY <3>1
    <2>2. CASE step # "off"
      <3>1. StartSweep
        BY <1>9, <2>2 DEF StartArm, ArmReturns
      <3>2. UNCHANGED <<arm, case, step, case_status, raising, files>>
        BY <2>2, <3>1, SweepBegins
      <3>3. \A p, s : Holds(p, s)' <=> Holds(p, s)
        BY <3>2, SameReports
      <3> QED BY <3>2, <3>3 DEF CaseOutput
    <2> QED BY <2>1, <2>2
  <1>10. CASE Compare
    BY <1>10, SameReports DEF Compare, CaseOutput
  <1>11. CASE WriteComparison
    <2>1. Output # CaseOutput
      BY PathsDiffer DEF Output, CaseOutput
    <2>2. \A s : Holds(CaseOutput, s) => Holds(CaseOutput, s)'
      BY <1>11, <2>1, WrittenHolds DEF WriteComparison, CaseOutput
    <2> QED BY <1>11, <2>2 DEF WriteComparison
  <1>12. CASE CheckPins \/ StartCase \/ FinishMain \/ WriteMain \/ OrphanEnds
    BY <1>12 DEF CheckPins, StartCase, FinishMain, WriteMain, OrphanEnds, MainFails
  <1>13. CASE CleanupFails \/ InterruptMain
    BY <1>13 DEF CleanupFails, InterruptMain, LeaveCase, MainFails
  <1>14. CASE InterruptSweep \/ KillSweep
    BY <1>14, SameReports DEF InterruptSweep, KillSweep, CaseOutput
  <1>15. CASE KillMain \/ Reap
    BY <1>15 DEF KillMain, Reap, Die, Alive
  <1>16. CASE Sweep
    BY <1>9, <1>10, <1>11, <1>15, <1>16 DEF Sweep
  <1>17. CASE Main
    BY <1>12, <1>17 DEF Main
  <1>18. CASE Case
    BY <1>1, <1>2, <1>3, <1>4, <1>5, <1>6, <1>7, <1>18 DEF Case, Raises, Ahead
  <1>19. CASE Disturbance
    BY <1>13, <1>14, <1>15, <1>19 DEF Disturbance
  <1> QED BY <1>8, <1>9, <1>16, <1>17, <1>18, <1>19 DEF ENext

(* A verdict that is passed was given by the action meant to.              *)
LEMMA WhoPasses ==
    ASSUME Typed, Nested, ENext
    PROVE  /\ main' = "cases" => main = "cases" \/ CheckPins
           /\ main' = "write" /\ main_status' = "passed" =>
                FinishMain \/ (main = "write" /\ UNCHANGED main_status)
           /\ sweep' = "write" /\ sweep_status' = "passed" =>
                Compare \/ (sweep = "write" /\ UNCHANGED sweep_status)
  <1> USE DEF Typed, Nested
  <1>1. CASE Ahead
    BY <1>1, AheadSteps DEF Trying
  <1>2. CASE StartSweep \/ StartArm
    BY <1>2 DEF StartSweep, StartArm
  <1>3. CASE ArmReturns \/ Compare \/ WriteComparison
    BY <1>3 DEF ArmReturns, Compare, WriteComparison
  <1>4. CASE CheckPins \/ StartCase \/ FinishMain \/ WriteMain \/ OrphanEnds
    BY <1>4 DEF CheckPins, StartCase, FinishMain, WriteMain, OrphanEnds, MainFails, AsIs
  <1>5. CASE Listens \/ RunLoop \/ ChecksHold \/ CaseRaises \/ CleanUp
    BY <1>5 DEF Listens, RunLoop, ChecksHold, CaseRaises, Step, CleanUp, Trying
  <1>6. CASE WriteCase \/ CheckLogs
    BY <1>6 DEF WriteCase, CheckLogs, LeaveCase, MainFails, AsIs
  <1>7. CASE CleanupFails \/ InterruptMain
    BY <1>7 DEF CleanupFails, InterruptMain, Disturb, LeaveCase, MainFails, AsIs
  <1>8. CASE InterruptSweep \/ KillSweep
    BY <1>8 DEF InterruptSweep, KillSweep
  <1>9. CASE KillMain \/ Reap
    BY <1>9 DEF KillMain, Reap, Die
  <1> QED BY <1>1, <1>2, <1>3, <1>4, <1>5, <1>6, <1>7, <1>8, <1>9
          DEF ENext, Sweep, Main, Case, Raises, Disturbance, Ahead

(* What was found good stays so, but for the case at hand.                 *)
LEMMA GoodStays ==
    ASSUME Typed, Nested, FirstOnly, ENext, NEW a, NEW c, Good(a, c),
           step = "off" \/ <<a, c>> # CaseOutput
    PROVE  Good(a, c)'
  <1>1. <<a, c>> \in proven'
    BY WhoMoves DEF Good
  <1>2. Holds(<<a, c>>, Expected(CasesOf[a][c]))'
    <2>1. CASE UNCHANGED files
      BY <2>1, SameReports DEF Good
    <2>2. ASSUME NEW path, NEW status, Writes(path, status)
          PROVE  Holds(<<a, c>>, Expected(CasesOf[a][c]))'
      <3>1. path # <<a, c>>
        BY <2>2, PathsDiffer DEF Writes, Output, ArmOutput
      <3>2. Holds(<<a, c>>, Expected(CasesOf[a][c]))
        BY DEF Good
      <3>3. \A p, s : p # path => (Holds(p, s)' <=> Holds(p, s))
        BY <2>2, WrittenHolds DEF Writes
      <3> QED BY <3>1, <3>2, <3>3
    <2> QED BY <2>1, <2>2, WhatIsWritten
  <1> QED BY <1>1, <1>2 DEF Good

LEMMA MainStandsStep ==
    ASSUME Typed, Nested, FirstOnly, CaseStands, MainStands, ENext
    PROVE  MainStands'
  <1>1. PICK a : a = arm
    OBVIOUS
  <1>2. \A c : <<a, c>> = CaseOutput => c = case
    BY <1>1, PathsDiffer DEF CaseOutput
  <1>3. ASSUME NEW c, Good(a, c), step = "off" \/ c # case PROVE Good(a, c)'
    BY <1>2, <1>3, GoodStays
  <1>4. ASSUME main' = "cases"
        PROVE  arm' = a /\ \A c \in 1..(case' - 1) : Good(a, c)'
    <2>1. CASE CheckPins
      BY <1>1, <2>1 DEF CheckPins, Nested
    <2>2. CASE main = "cases" /\ UNCHANGED <<arm, case>>
      <3>1. \A c \in 1..(case - 1) : Good(a, c) /\ c # case
        BY <1>1, <2>2 DEF MainStands, Typed
      <3> QED BY <1>1, <1>3, <2>2, <3>1
    <2>3. CASE main = "cases" /\ CheckLogs /\ case' = case + 1 /\ proven' = proven \cup {CaseOutput}
      <3>1. step = "logs" /\ UNCHANGED arm
        BY <2>3 DEF CheckLogs
      <3>2. UNCHANGED files
        BY <1>4, <2>3 DEF CheckLogs, LeaveCase, MainFails
      <3>3. PICK b : b = case
        OBVIOUS
      <3>4. Good(a, b)'
        BY <1>1, <2>3, <3>1, <3>2, <3>3, SameReports DEF Good, CaseStands, CaseOutput
      <3>5. \A c \in 1..(b - 1) : Good(a, c) /\ c # b
        BY <1>1, <2>3, <3>3 DEF MainStands, Typed
      <3>6. \A c \in 1..(b - 1) : Good(a, c)'
        BY <1>3, <3>3, <3>5
      <3>7. \A c \in 1..(case' - 1) : c = b \/ c \in 1..(b - 1)
        BY <2>3, <3>3 DEF Typed
      <3> QED BY <1>1, <3>1, <3>4, <3>6, <3>7
    <2> QED BY <1>4, <2>1, <2>2, <2>3, WhoMoves, WhoPasses DEF StartArm
  <1>5. ASSUME main' = "write", main_status' = "passed"
        PROVE  arm' = a /\ \A c \in 1..Len(CasesOf[a]) : Good(a, c)'
    <2>1. step = "off" /\ UNCHANGED arm /\ \A c \in 1..Len(CasesOf[a]) : Good(a, c)
      <3>1. CASE FinishMain
        <4>1. step = "off" /\ UNCHANGED arm /\ main = "cases" /\ case > Len(CasesOf[a])
          BY <1>1, <3>1 DEF FinishMain
        <4>2. Len(CasesOf[a]) \in Nat
          BY <1>1, <4>1, PlanTyped DEF Nested
        <4>3. \A c \in 1..Len(CasesOf[a]) : c \in 1..(case - 1)
          BY <4>1, <4>2 DEF Typed
        <4> QED BY <1>1, <4>1, <4>3 DEF MainStands
      <3>2. CASE main = "write" /\ UNCHANGED main_status
        BY <1>1, <1>5, <3>2, WhoMoves DEF MainStands, Nested
      <3> QED BY <1>5, <3>1, <3>2, WhoPasses
    <2> QED BY <1>1, <1>3, <2>1
  <1> QED BY <1>4, <1>5 DEF MainStands

LEMMA ArmsStandStep ==
    ASSUME Typed, Nested, FirstOnly, OnDisk, MainStands, ArmsStand, ENext
    PROVE  ArmsStand'
  <1> SUFFICES ASSUME NEW a \in Arms, Holds(<<a>>, "passed")', NEW c \in 1..Len(CasesOf[a])
               PROVE  Good(a, c)'
    BY DEF ArmsStand
  <1>1. CASE Holds(<<a>>, "passed")
    <2>1. a # arm \/ step = "off"
      BY <1>1 DEF Nested, OnDisk, Alive, Holds, ArmOutput
    <2>2. step = "off" \/ <<a, c>> # CaseOutput
      BY <2>1, PathsDiffer DEF CaseOutput
    <2> QED BY <1>1, <2>2, GoodStays DEF ArmsStand
  <1>2. CASE ~Holds(<<a>>, "passed")
    <2>1. ~UNCHANGED files
      BY <1>2, SameReports
    <2>2. ASSUME NEW path, NEW status, Writes(path, status)
          PROVE  Good(a, c)'
      <3>1. path = <<a>> /\ status = "passed"
        BY <1>2, <2>2, WrittenHolds DEF Writes
      <3>2. main = "write" /\ main_status = "passed" /\ a = arm
        BY <2>2, <3>1, PathsDiffer DEF Writes, Output, ArmOutput, CaseOutput
      <3> QED BY <3>2, GoodStays DEF MainStands, Nested
    <2> QED BY <2>1, <2>2, WhatIsWritten
  <1> QED BY <1>1, <1>2

LEMMA SweepStandsStep ==
    ASSUME Typed, Nested, OnDisk, FirstOnly, SweepStands, ENext
    PROVE  SweepStands'
  <1>1. ASSUME main = "off", NEW a, Holds(<<a>>, "passed")
        PROVE  Holds(<<a>>, "passed")'
    <2>1. CASE UNCHANGED files
      BY <1>1, <2>1, SameReports
    <2>2. ASSUME NEW path, NEW status, Writes(path, status)
          PROVE  Holds(<<a>>, "passed")'
      <3>1. path # <<a>>
        BY <1>1, <2>2, PathsDiffer DEF Writes, Output, Nested
      <3>2. \A p, s : p # path => (Holds(p, s)' <=> Holds(p, s))
        BY <2>2, WrittenHolds DEF Writes
      <3> QED BY <1>1, <3>1, <3>2
    <2> QED BY <2>1, <2>2, WhatIsWritten
  <1>2. ASSUME sweep' = "write", sweep_status' = "passed"
        PROVE  main' = "off" /\ \A a \in Arms : Holds(<<a>>, "passed")'
    <2>1. main' = "off" /\ main = "off" /\ \A a \in Arms : Holds(<<a>>, "passed")
      <3>1. CASE Compare
        BY <1>2, <3>1 DEF Compare, Nested, Loads, Holds
      <3>2. CASE sweep = "write" /\ UNCHANGED sweep_status
        BY <1>2, <3>2, WhoMoves DEF SweepStands, StartArm
      <3> QED BY <1>2, <3>1, <3>2, WhoPasses
    <2> QED BY <1>1, <2>1
  <1>3. ASSUME Holds(Output, "passed")'
        PROVE  sweep' = "off" /\ main' = "off" /\ \A a \in Arms : Holds(<<a>>, "passed")'
    <2>1. CASE Holds(Output, "passed")
      <3>1. sweep = "off" /\ main = "off" /\ \A a \in Arms : Holds(<<a>>, "passed")
        BY <2>1 DEF SweepStands
      <3>2. Output \in dirs
        BY <2>1 DEF OnDisk, Holds
      <3>3. sweep' = "off" /\ main' = "off"
        BY <3>1, <3>2, WhoMoves DEF StartSweep, StartArm, Fresh, Output
      <3> QED BY <1>1, <3>1, <3>3
    <2>2. CASE ~Holds(Output, "passed")
      <3>1. ~UNCHANGED files
        BY <1>3, <2>2, SameReports DEF Output
      <3>2. ASSUME NEW path, NEW status, Writes(path, status)
            PROVE  /\ main = "off" /\ sweep' = "off" /\ main' = "off"
                   /\ \A a \in Arms : Holds(<<a>>, "passed")
        <4>1. path = Output /\ status = "passed"
          BY <1>3, <2>2, <3>2, WrittenHolds DEF Writes, Output
        <4>2. sweep = "write" /\ sweep_status = "passed" /\ sweep' = "off" /\ UNCHANGED main
          BY <3>2, <4>1, PathsDiffer DEF Writes, Output, ArmOutput, CaseOutput
        <4> QED BY <4>2 DEF SweepStands
      <3> QED BY <1>1, <3>1, <3>2, WhatIsWritten
    <2> QED BY <2>1, <2>2
  <1> QED BY <1>2, <1>3 DEF SweepStands, Output

LEMMA NotYetProvenStep ==
    ASSUME Typed, Nested, FirstOnly, OnDisk, NotYetProven, ENext
    PROVE  NotYetProven'
  <1> SUFFICES ASSUME main' \in {"pins", "cases"}, NEW c \in Nat, c >= case'
               PROVE  <<arm', c>> \notin proven'
    BY DEF NotYetProven
  <1>1. CASE StartArm
    BY <1>1 DEF StartArm, Fresh, OnDisk, ArmOutput
  <1>2. CASE main \in {"pins", "cases"} /\ UNCHANGED <<arm, case>>
    <2>1. proven' = proven
      BY <1>2, WhoMoves DEF Typed
    <2> QED BY <1>2, <2>1 DEF NotYetProven
  <1>3. CASE CheckLogs /\ proven' = proven \cup {CaseOutput} /\ case' = case + 1
    <2>1. UNCHANGED arm /\ main \in {"pins", "cases"}
      BY <1>3, WhoMoves DEF CheckLogs, StartArm, Nested
    <2>2. c >= case /\ c # case
      BY <1>3 DEF Typed
    <2>3. <<arm, c>> # CaseOutput
      BY <2>2, PathsDiffer DEF CaseOutput
    <2> QED BY <1>3, <2>1, <2>2, <2>3 DEF NotYetProven
  <1> QED BY <1>1, <1>2, <1>3, WhoMoves

LEMMA HeldUntilCleanedStep ==
    ASSUME Typed, Nested, FirstOnly, HeldUntilCleaned, ENext
    PROVE  HeldUntilCleaned'
  <1> USE DEF Typed, Nested, HeldUntilCleaned
  <1>1. CASE Ahead
    BY <1>1, AheadSteps DEF Trying
  <1>2. CASE StartCase
    BY <1>2 DEF StartCase, Things, Trying
  <1>3. CASE RunLoop \/ ChecksHold \/ CaseRaises
    BY <1>3 DEF RunLoop, ChecksHold, CaseRaises, Step, Trying
  <1>4. CASE CleanUp
    <2>1. \A k \in 1..(cleaning' - 1) : k = cleaning \/ k \in 1..(cleaning - 1)
      BY <1>4, CleanupSteps DEF CleanUp
    <2>2. held' = held \ Cleanup[cleaning]
      BY <1>4 DEF CleanUp
    <2>3. \A k \in 1..(cleaning' - 1) : held' \cap Cleanup[k] = {}
      BY <1>4, <2>1, <2>2 DEF CleanUp
    <2> QED BY <1>4, <2>2, <2>3 DEF CleanUp, Trying
  <1>5. CASE WriteCase
    <2>1. held = {}
      BY <1>5, CleanupSteps DEF WriteCase
    <2> QED BY <1>5, <2>1 DEF WriteCase, LeaveCase, Trying
  <1>6. CASE CheckLogs
    BY <1>6 DEF CheckLogs, LeaveCase, Trying
  <1>7. CASE Listens
    BY <1>7 DEF Listens, Trying
  <1>8. CASE StartSweep \/ Sweep
    BY <1>8 DEF StartSweep, Sweep, StartArm, ArmReturns, Compare, WriteComparison, Reap, Die, Trying
  <1>9. CASE CheckPins \/ FinishMain \/ WriteMain \/ OrphanEnds
    BY <1>9 DEF CheckPins, FinishMain, WriteMain, OrphanEnds, MainFails, Trying
  <1>10. CASE CleanupFails
    BY <1>10 DEF CleanupFails, Disturb, LeaveCase, Trying
  <1>11. CASE InterruptMain
    <2>1. CASE Trying
      BY <1>11, <2>1 DEF InterruptMain, Trying
    <2>2. CASE ~Trying
      <3>1. /\ Disturb(step = "cleanup") /\ step' = "off" /\ UNCHANGED <<held, cleaning>>
        BY <1>11, <2>2 DEF InterruptMain, LeaveCase
      <3>2. ~forced' => ~forced /\ step # "cleanup"
        BY <3>1, Zenon DEF Disturb
      <3>3. step \in {"off", "cleanup", "logs"}
        BY <2>2 DEF Trying, Steps
      <3> QED BY <3>1, <3>2, <3>3 DEF Trying
    <2> QED BY <2>1, <2>2
  <1>12. CASE InterruptSweep \/ KillSweep
    BY <1>12 DEF InterruptSweep, KillSweep, Disturb, Trying
  <1>13. CASE KillMain
    BY <1>13 DEF KillMain, Disturb, Die, Trying
  <1> QED BY <1>1, <1>2, <1>3, <1>4, <1>5, <1>6, <1>7, <1>8, <1>9, <1>10, <1>11, <1>12, <1>13
          DEF ENext, Main, Case, Raises, Disturbance, Ahead

LEMMA DisturbancesStay ==
    ASSUME Typed, ENext, disturbances' = 0
    PROVE  ~Disturbance /\ disturbances = 0
  <1>1. ~Disturbance
    <2>1. ~CleanupFails
      BY DisturbTyped DEF CleanupFails
    <2>2. ~InterruptMain
      BY DisturbTyped DEF InterruptMain
    <2>3. ~KillMain /\ ~InterruptSweep /\ ~KillSweep
      BY DisturbTyped DEF KillMain, InterruptSweep, KillSweep
    <2> QED BY <2>1, <2>2, <2>3 DEF Disturbance
  <1>2. StartSweep \/ Sweep => UNCHANGED disturbances
    BY DEF StartSweep, Sweep, StartArm, ArmReturns, Compare, WriteComparison, Reap
  <1>3. Main => UNCHANGED disturbances
    BY DEF Main, CheckPins, StartCase, FinishMain, WriteMain, OrphanEnds
  <1>4. Ahead => UNCHANGED disturbances
    BY AheadSteps
  <1>5. Case => UNCHANGED disturbances
    BY <1>4 DEF Case, Ahead, RunLoop, ChecksHold, Step, Raises, CaseRaises, CleanUp, WriteCase,
                CheckLogs
  <1>6. Listens => UNCHANGED disturbances
    BY DEF Listens
  <1> QED BY <1>1, <1>2, <1>3, <1>5, <1>6 DEF ENext

(* Undisturbed, a case ends only by writing its report or by the look at   *)
(* the log, and nobody else touches its report.                            *)
LEMMA Undisturbed ==
    ASSUME Typed, Nested, FirstOnly, ENext, disturbances' = 0, ~WriteCase, ~CheckLogs
    PROVE  /\ disturbances = 0 /\ UNCHANGED proven
           /\ step # "off" => step' # "off" /\ UNCHANGED <<arm, case>>
           /\ \A a, c, s : Holds(<<a, c>>, s)' <=> Holds(<<a, c>>, s)
  <1> USE DEF Typed, Nested
  <1>1. ~Disturbance /\ disturbances = 0
    BY DisturbancesStay
  <1>2. ASSUME NEW path, NEW status, NEW list, files' = Written(Report(path, status, list)),
               path = Output \/ path = ArmOutput
        PROVE  \A a, c, s : Holds(<<a, c>>, s)' <=> Holds(<<a, c>>, s)
    <2>1. \A a, c : <<a, c>> # path
      BY <1>2, PathsDiffer DEF Output, ArmOutput
    <2> QED BY <1>2, <2>1, WrittenHolds
  <1>3. ASSUME UNCHANGED files
        PROVE  \A a, c, s : Holds(<<a, c>>, s)' <=> Holds(<<a, c>>, s)
    BY <1>3, SameReports
  <1>4. CASE Ahead
    BY <1>3, <1>4, AheadSteps DEF Trying
  <1>5. CASE StartSweep \/ StartArm \/ ArmReturns
    <2>1. UNCHANGED <<files, proven, step>>
      BY <1>5 DEF StartSweep, StartArm, ArmReturns, disk, case_state, history
    <2>2. step # "off" => UNCHANGED <<arm, case>>
      <3> SUFFICES ASSUME step # "off" PROVE UNCHANGED <<arm, case>>
        OBVIOUS
      <3>1. StartSweep
        BY <1>5 DEF StartArm, ArmReturns
      <3> QED BY <3>1, SweepBegins
    <2> QED BY <1>1, <1>3, <2>1, <2>2
  <1>6. CASE Compare \/ WriteComparison
    BY <1>2, <1>3, <1>6 DEF Compare, WriteComparison
  <1>7. CASE Reap
    BY <1>3, <1>7 DEF Reap
  <1>8. CASE CheckPins \/ StartCase \/ FinishMain \/ OrphanEnds
    BY <1>3, <1>8 DEF CheckPins, StartCase, FinishMain, OrphanEnds, MainFails
  <1>9. CASE WriteMain
    BY <1>2, <1>9 DEF WriteMain
  <1>10. CASE Listens \/ RunLoop \/ ChecksHold \/ CaseRaises \/ CleanUp
    BY <1>3, <1>10 DEF Listens, RunLoop, ChecksHold, CaseRaises, Step, CleanUp
  <1>11. CASE Sweep
    BY <1>1, <1>5, <1>6, <1>7, <1>11 DEF Sweep
  <1>12. CASE Main
    BY <1>1, <1>8, <1>9, <1>12 DEF Main
  <1>13. CASE Case
    BY <1>1, <1>4, <1>10, <1>13 DEF Case, Raises, Ahead
  <1> QED BY <1>1, <1>5, <1>10, <1>11, <1>12, <1>13 DEF ENext

LEMMA CaseReportsHoldStep ==
    ASSUME Typed, Nested, FirstOnly, CaseStands, NotYetProven, CaseReportsHold, ENext
    PROVE  CaseReportsHold'
  <1> SUFFICES ASSUME disturbances' = 0, NEW a \in Arms, NEW c \in 1..Len(CasesOf[a]),
                      step' = "off" \/ <<a, c>> # CaseOutput'
               PROVE  Holds(<<a, c>>, Expected(CasesOf[a][c]))' <=> <<a, c>> \in proven'
    BY DEF CaseReportsHold
  <1>1. PICK want : want = Expected(CasesOf[a][c]) /\ want # "failed"
    BY ExpectedEnd
  <1>2. step # "off" => CaseOutput \notin proven
    BY DEF NotYetProven, CaseOutput, Nested, Typed
  <1>3. <<a, c>> = CaseOutput => a = arm /\ c = case
    BY PathsDiffer DEF CaseOutput
  <1>4. disturbances = 0
    BY DisturbancesStay
  <1>5. CASE WriteCase
    <2>1. <<a, c>> # CaseOutput => (Holds(<<a, c>>, want)' <=> <<a, c>> \in proven')
      BY <1>1, <1>4, <1>5, WrittenHolds DEF WriteCase, CaseReportsHold, CaseOutput
    <2>2. <<a, c>> = CaseOutput => step' = "off"
      BY <1>5 DEF WriteCase, CaseOutput, LeaveCase
    <2>3. ASSUME <<a, c>> = CaseOutput, step' = "off"
          PROVE  ~Holds(<<a, c>>, want)' /\ <<a, c>> \notin proven'
      <3>1. raising = "error" /\ step = "cleanup"
        BY <1>4, <1>5, <2>3 DEF WriteCase, Nested, Typed
      <3>2. case_status = "failed" /\ UNCHANGED proven
        BY <1>5, <3>1 DEF WriteCase, CaseStands
      <3>3. \A s : Holds(<<a, c>>, s)' => s = "failed"
        BY <1>5, <2>3, <3>2, WrittenHolds DEF WriteCase
      <3> QED BY <1>1, <1>2, <2>3, <3>1, <3>2, <3>3
    <2> QED BY <1>1, <2>1, <2>2, <2>3
  <1>6. CASE CheckLogs
    <2>1. step = "logs"
      BY <1>6 DEF CheckLogs
    <2>2. CASE proven' = proven \cup {CaseOutput} /\ UNCHANGED files
      <3>1. Holds(CaseOutput, Expected(CasesOf[arm][case]))
        BY <2>1 DEF CaseStands
      <3>2. Holds(<<a, c>>, want)' <=> Holds(<<a, c>>, want)
        BY <2>2, SameReports
      <3>3. <<a, c>> # CaseOutput => (Holds(<<a, c>>, want) <=> <<a, c>> \in proven)
        BY <1>1, <1>4 DEF CaseReportsHold
      <3>4. <<a, c>> = CaseOutput => Holds(<<a, c>>, want)
        BY <1>1, <1>3, <3>1 DEF CaseOutput
      <3> QED BY <1>1, <2>2, <3>2, <3>3, <3>4
    <2>3. CASE UNCHANGED proven /\ files' = Written(Report(CaseOutput, "failed", <<>>))
      <3>1. <<a, c>> # CaseOutput => (Holds(<<a, c>>, want) <=> <<a, c>> \in proven)
        BY <1>1, <1>4 DEF CaseReportsHold
      <3>2. <<a, c>> # CaseOutput => (Holds(<<a, c>>, want)' <=> Holds(<<a, c>>, want))
        BY <2>3, WrittenHolds
      <3>3. <<a, c>> = CaseOutput => ~Holds(<<a, c>>, want)'
        BY <1>1, <2>3, WrittenHolds
      <3> QED BY <1>1, <1>2, <2>1, <2>3, <3>1, <3>2, <3>3
    <2> QED BY <1>1, <1>6, <2>2, <2>3 DEF CheckLogs, Corrected
  <1>7. CASE ~WriteCase /\ ~CheckLogs
    <2>1. /\ disturbances = 0 /\ UNCHANGED proven
          /\ step # "off" => step' # "off" /\ UNCHANGED <<arm, case>>
          /\ \A p, q, s : Holds(<<p, q>>, s)' <=> Holds(<<p, q>>, s)
      BY <1>7, Undisturbed
    <2>2. step = "off" \/ <<a, c>> # CaseOutput
      BY <2>1 DEF CaseOutput
    <2> QED BY <1>1, <2>1, <2>2 DEF CaseReportsHold
  <1> QED BY <1>1, <1>5, <1>6, <1>7

--------------------------------------------------------------------------------
(* The invariant, and what follows from it.                                *)

LEMMA InvInit ==
    ASSUME EInit
    PROVE  EvidenceInv
  <1> USE DEF EInit
  <1>1. Typed
    <2>1. forced \in BOOLEAN
      OBVIOUS
    <2>2. cleaning \in 1..Len(Cleanup) /\ step \in Steps
      BY CleanupSteps DEF Steps
    <2> QED BY <2>1, <2>2 DEF Typed
  <1>2. Nested /\ CaseStands /\ MainStands /\ NotYetProven /\ HeldUntilCleaned
    BY DEF Nested, CaseStands, MainStands, NotYetProven, HeldUntilCleaned, Trying
  <1>3. OnDisk /\ FirstOnly
    BY DEF OnDisk, FirstOnly, Alive
  <1>4. ArmsStand /\ SweepStands /\ CaseReportsHold
    BY DEF ArmsStand, SweepStands, CaseReportsHold, Holds
  <1> QED BY <1>1, <1>2, <1>3, <1>4 DEF EvidenceInv

LEMMA InvStep ==
    ASSUME EvidenceInv, [ENext]_evars
    PROVE  EvidenceInv'
  <1>1. CASE ENext
    BY <1>1, TypedStep, NestedStep, OnDiskStep, FirstOnlyStep, CaseStandsStep, MainStandsStep,
       ArmsStandStep, SweepStandsStep, NotYetProvenStep, HeldUntilCleanedStep, CaseReportsHoldStep
       DEF EvidenceInv
  <1>2. CASE UNCHANGED evars
    <2> USE <1>2 DEF evars
    <2>1. Typed' /\ Nested' /\ FirstOnly' /\ NotYetProven' /\ HeldUntilCleaned'
      BY DEF EvidenceInv, Typed, Nested, FirstOnly, NotYetProven, HeldUntilCleaned, Trying
    <2>2. OnDisk'
      BY DEF EvidenceInv, OnDisk, Alive, Output, ArmOutput, CaseOutput
    <2>3. \A p, s : Holds(p, s)' <=> Holds(p, s)
      BY SameReports
    <2>4. CaseStands' /\ MainStands' /\ ArmsStand'
      BY <2>3 DEF EvidenceInv, CaseStands, MainStands, ArmsStand, Good, CaseOutput
    <2>5. SweepStands' /\ CaseReportsHold'
      BY <2>3 DEF EvidenceInv, SweepStands, CaseReportsHold, CaseOutput, Output
    <2> QED BY <2>1, <2>2, <2>4, <2>5 DEF EvidenceInv
  <1> QED BY <1>1, <1>2

LEMMA InvAlways == ESpec => []EvidenceInv
  BY InvInit, InvStep, PTL DEF ESpec

(* A report that says passed stands for cases that were all run, checked   *)
(* and reported, and the comparison for the reports of all arms            *)
(* (integration.py:731-741, integration_matrix.py:213-217).                *)
THEOREM PassedIsProven == ESpec => []PassedMeansProven
  <1>1. EvidenceInv => PassedMeansProven
    BY DEF EvidenceInv, ArmsStand, SweepStands, Good, PassedMeansProven
  <1> QED BY <1>1, InvAlways, PTL

(* Undisturbed, the reports of the cases agree with what the checks found, *)
(* the last one included (integration.py:617-631).                         *)
THEOREM CaseReportsAgree == ESpec => []CaseReportsHold
  <1>1. EvidenceInv => CaseReportsHold
    BY DEF EvidenceInv
  <1> QED BY <1>1, InvAlways, PTL

(* Unless the cleanup was cut off, nothing a case started outlives the     *)
(* processes (integration.py:606-615).                                     *)
THEOREM NothingLeftBehind == ESpec => []LeftClean
  <1>1. EvidenceInv => LeftClean
    BY DEF EvidenceInv, Nested, HeldUntilCleaned, LeftClean
  <1> QED BY <1>1, InvAlways, PTL

(* Reports of two attempts are never found side by side: whatever became   *)
(* of the first, a later attempt writes nothing (verify.py:185;            *)
(* integration.py:696, integration_matrix.py:196).                         *)
THEOREM FromOneExecution == ESpec => []OneExecution
  <1>1. EvidenceInv => OneExecution
    BY DEF EvidenceInv, FirstOnly, OneExecution
  <1> QED BY <1>1, InvAlways, PTL

================================================================================
