------------------------- MODULE CheckedProtocolProofs -------------------------
(***************************************************************************)
(* The checker refuses nothing that the class emits, and agrees with it    *)
(* whenever it has read everything.                                        *)
(*                                                                         *)
(* A view is what the checker should know, packet by packet: Now is the    *)
(* view of the present state of the class.  Between two events of a call   *)
(* the checker agrees with a view that lies between the one the call began *)
(* with and Now.  Sees(v, e, u) says that event e leads from view v to     *)
(* view u, and by what right.                                              *)
(***************************************************************************)
EXTENDS CheckedProtocol, ProtocolProofs, SequenceTheorems

Data(p) == Check!RequiredData(p)

(* The flags of a packet, as the provers take them best.                   *)
Yes == TRUE
No  == FALSE

Entry(p, issued, visible, left, charged, ready_issued, ready_visible, consumed) ==
    [payload |-> p, issued |-> issued, visible |-> visible, pending |-> left,
     charged |-> charged, ready_issued |-> ready_issued, ready_visible |-> ready_visible,
     consumed |-> consumed, released |-> No]

(* What the checker knows of a packet at the stages of its life.           *)
Fresh(p)         == Entry(p, {}, {}, {}, No, No, No, No)
PartIssued(p, X) == Entry(p, X, {}, X, Yes, No, No, No)
Pushed(p, left)  == Entry(p, Data(p), Data(p) \ left, left, Yes, No, No, No)
Everything(p)    == Data(p) \cup {Check!ReadyComponent}
Committed(p)     == Entry(p, Everything(p), Data(p), {Check!ReadyComponent},
                          Yes, Yes, No, No)
Readied(p)       == Entry(p, Everything(p), Everything(p), {}, Yes, Yes, Yes, No)
Consumed(p)      == Entry(p, Everything(p), Everything(p), {}, Yes, Yes, Yes, Yes)

Left(writes, f, s) == {Component(w) : w \in writes[f][s]}

EntryAt(phases, writes, f, s) ==
    LET p == payload[f][s]
    IN  CASE phases[f][s] \in {"ABSENT", "WAIT_SEQ"}   -> Fresh(p)
          [] phases[f][s] \in {"PUSHING", "PREPARED"} -> Pushed(p, Left(writes, f, s))
          [] phases[f][s] = "COMMITTING"              -> Committed(p)
          [] phases[f][s] = "READY"                   -> Readied(p)
          [] OTHER                                     -> Consumed(p)

ReadyInFlight(phases, publish, f) ==
    LET s == publish[f]
    IN  IF s \in Serials /\ phases[f][s] = "COMMITTING" THEN TokenOf(f, s) ELSE NoToken

(* The present state, but for what a call of complete changes in steps.    *)
ViewAt(phases, writes, publish) ==
    [bases |-> base, next_issue |-> next_issue, next_ready |-> publish,
     next_consume |-> next_consume, credit |-> credit, global_credit |-> global_credit,
     released |-> released, generations |-> generations,
     halted |-> [f \in Flows |-> IF halted[f] THEN next_issue[f] ELSE NotHalted],
     pending_ready |-> [f \in Flows |-> ReadyInFlight(phases, publish, f)],
     here |-> [f \in Flows |-> {s \in Serials : phases[f][s] # "ABSENT"}],
     entry |-> [f \in Flows |-> [s \in Serials |-> EntryAt(phases, writes, f, s)]]]

Now == ViewAt(phase, data_writes, next_publish)

TokenIn(v, f, s) == Token(f, s, v.generations[f][SlotOf(s)])

ViewOK(v) ==
    /\ v.bases \in [Flows -> Nat] /\ v.next_issue \in [Flows -> Nat]
    /\ v.next_ready \in [Flows -> Nat] /\ v.next_consume \in [Flows -> Nat]
    /\ v.credit \in [Flows -> Int] /\ v.global_credit \in Int
    /\ v.released \in [Flows -> SUBSET Serials]
    /\ v.generations \in [Flows -> [Slots -> Nat]]
    /\ v.halted \in [Flows -> Nat \cup {NotHalted}]
    /\ v.pending_ready \in [Flows -> Tokens \cup {NoToken}]
    /\ v.here \in [Flows -> SUBSET Serials]
    /\ \A f \in Flows : \A s \in v.here[f] : v.generations[f][SlotOf(s)] # 0
    /\ \A f \in Flows : \A s, t \in v.here[f] : SlotOf(s) = SlotOf(t) => s = t

(* The checker has this view.                                              *)
Agree(v) ==
    /\ ViewOK(v)
    /\ <<c_bases, c_next_issue, c_next_ready, c_next_consume>>
        = <<v.bases, v.next_issue, v.next_ready, v.next_consume>>
    /\ c_credit = v.credit /\ c_global_credit = v.global_credit
    /\ c_released = v.released /\ c_generations = v.generations
    /\ c_halted = v.halted /\ c_pending_ready = v.pending_ready
    /\ c_active_slots \in [Flows -> [Slots -> Tokens \cup {NoToken}]]
    /\ \A f \in Flows : \A s \in v.here[f] :
        /\ c_active_slots[f][SlotOf(s)] = TokenIn(v, f, s)
        /\ TokenIn(v, f, s) \in DOMAIN c_packets
        /\ c_packets[TokenIn(v, f, s)] = v.entry[f][s]
    /\ \A f \in Flows, k \in Slots :
        (\A s \in v.here[f] : SlotOf(s) # k) => c_active_slots[f][k] = NoToken
    /\ \A t \in DOMAIN c_packets :
        /\ t \in Tokens
        /\ t.generation <= v.generations[t.flow][t.slot]
        /\ \/ c_packets[t].released /\ c_packets[t].pending = {}
           \/ t.serial \in v.here[t.flow] /\ t = TokenIn(v, t.flow, t.serial)
--------------------------------------------------------------------------------
(* Events: what entitles the class to each, and what it changes.           *)

OthersSame(v, u, f, s) ==
    \A g \in Flows : \A t \in v.here[g] :
        <<g, t>> # <<f, s>> => u.entry[g][t] = v.entry[g][t]

SeesReceive(v, u, f, s, p) ==
    /\ v.halted[f] = NotHalted
    /\ v.bases[f] <= s /\ s < v.bases[f] + Window /\ s \notin v.released[f]
    /\ \A t \in v.here[f] : SlotOf(t) # SlotOf(s)
    /\ u.here = [v.here EXCEPT ![f] = v.here[f] \cup {s}]
    /\ u.generations = [v.generations EXCEPT ![f][SlotOf(s)] = v.generations[f][SlotOf(s)] + 1]
    /\ u.entry[f][s] = Fresh(p) /\ OthersSame(v, u, f, s)
    /\ <<u.bases, u.next_issue, u.next_ready, u.next_consume, u.credit, u.global_credit,
         u.released, u.halted, u.pending_ready>>
        = <<v.bases, v.next_issue, v.next_ready, v.next_consume, v.credit, v.global_credit,
            v.released, v.halted, v.pending_ready>>

IssueEvent(t, p, c) ==
    [event |-> "issue", token |-> t, component |-> c, content |-> Check!ContentOf(t, p, c)]

VisibleEvent(t, p, c) ==
    [event |-> "visible", token |-> t, component |-> c, content |-> Check!ContentOf(t, p, c)]

(* The first write of a packet is charged.                                 *)
SeesFirst(v, u, f, s, p, c) ==
    /\ s \in v.here[f] /\ v.entry[f][s] = Fresh(p)
    /\ v.halted[f] = NotHalted /\ s = v.next_issue[f]
    /\ v.credit[f] + Check!Charge(p) <= PerFlowCredit
    /\ GlobalCredit = 0 \/ v.global_credit + Check!Charge(p) <= GlobalCredit
    /\ c \in Data(p)
    /\ u.entry[f][s] = PartIssued(p, {c}) /\ OthersSame(v, u, f, s)
    /\ u.credit = [v.credit EXCEPT ![f] = v.credit[f] + Check!Charge(p)]
    /\ u.global_credit = v.global_credit + Check!Charge(p)
    /\ u.next_issue = [v.next_issue EXCEPT ![f] = v.next_issue[f] + 1]
    /\ <<u.bases, u.next_ready, u.next_consume, u.generations, u.released, u.halted,
         u.pending_ready, u.here>>
        = <<v.bases, v.next_ready, v.next_consume, v.generations, v.released, v.halted,
            v.pending_ready, v.here>>

SeesFurther(v, u, f, s, p, X, c) ==
    /\ s \in v.here[f] /\ v.entry[f][s] = PartIssued(p, X)
    /\ v.halted[f] = NotHalted
    /\ c \in Data(p) \ X
    /\ u.entry[f][s] = PartIssued(p, X \cup {c}) /\ OthersSame(v, u, f, s)
    /\ <<u.bases, u.next_issue, u.next_ready, u.next_consume, u.credit, u.global_credit,
         u.generations, u.released, u.halted, u.pending_ready, u.here>>
        = <<v.bases, v.next_issue, v.next_ready, v.next_consume, v.credit, v.global_credit,
            v.generations, v.released, v.halted, v.pending_ready, v.here>>

SeesCommit(v, u, f, s, p) ==
    /\ s \in v.here[f] /\ v.entry[f][s] = Pushed(p, {})
    /\ s = v.next_ready[f] /\ v.pending_ready[f] = NoToken
    /\ v.halted[f] # NotHalted => s < v.halted[f]
    /\ u.entry[f][s] = Committed(p) /\ OthersSame(v, u, f, s)
    /\ u.pending_ready = [v.pending_ready EXCEPT ![f] = TokenIn(v, f, s)]
    /\ <<u.bases, u.next_issue, u.next_ready, u.next_consume, u.credit, u.global_credit,
         u.generations, u.released, u.halted, u.here>>
        = <<v.bases, v.next_issue, v.next_ready, v.next_consume, v.credit, v.global_credit,
            v.generations, v.released, v.halted, v.here>>

SeesData(v, u, f, s, p, L, c) ==
    /\ s \in v.here[f] /\ v.entry[f][s] = Pushed(p, L)
    /\ L \subseteq Data(p) /\ c \in L
    /\ u.entry[f][s] = Pushed(p, L \ {c}) /\ OthersSame(v, u, f, s)
    /\ <<u.bases, u.next_issue, u.next_ready, u.next_consume, u.credit, u.global_credit,
         u.generations, u.released, u.halted, u.pending_ready, u.here>>
        = <<v.bases, v.next_issue, v.next_ready, v.next_consume, v.credit, v.global_credit,
            v.generations, v.released, v.halted, v.pending_ready, v.here>>

SeesPublished(v, u, f, s, p) ==
    /\ s \in v.here[f] /\ v.entry[f][s] = Committed(p)
    /\ s = v.next_ready[f] /\ v.pending_ready[f] = TokenIn(v, f, s)
    /\ u.entry[f][s] = Readied(p) /\ OthersSame(v, u, f, s)
    /\ u.next_ready = [v.next_ready EXCEPT ![f] = v.next_ready[f] + 1]
    /\ u.pending_ready = [v.pending_ready EXCEPT ![f] = NoToken]
    /\ <<u.bases, u.next_issue, u.next_consume, u.credit, u.global_credit,
         u.generations, u.released, u.halted, u.here>>
        = <<v.bases, v.next_issue, v.next_consume, v.credit, v.global_credit,
            v.generations, v.released, v.halted, v.here>>

SeesConsume(v, u, f, s, p) ==
    /\ s \in v.here[f] /\ v.entry[f][s] = Readied(p) /\ s = v.next_consume[f]
    /\ u.entry[f][s] = Consumed(p) /\ OthersSame(v, u, f, s)
    /\ u.next_consume = [v.next_consume EXCEPT ![f] = v.next_consume[f] + 1]
    /\ <<u.bases, u.next_issue, u.next_ready, u.credit, u.global_credit,
         u.generations, u.released, u.halted, u.pending_ready, u.here>>
        = <<v.bases, v.next_issue, v.next_ready, v.credit, v.global_credit,
            v.generations, v.released, v.halted, v.pending_ready, v.here>>

SeesRelease(v, u, f, s, p) ==
    /\ s \in v.here[f] /\ v.entry[f][s] = Consumed(p)
    /\ OthersSame(v, u, f, s)
    /\ u.here = [v.here EXCEPT ![f] = v.here[f] \ {s}]
    /\ u.credit = [v.credit EXCEPT ![f] = v.credit[f] - Check!Charge(p)]
    /\ u.global_credit = v.global_credit - Check!Charge(p)
    /\ \E b \in v.bases[f]..(v.bases[f] + Window) :
        /\ b \notin v.released[f] \cup {s}
        /\ v.bases[f]..(b - 1) \subseteq v.released[f] \cup {s}
        /\ u.bases = [v.bases EXCEPT ![f] = b]
        /\ u.released = [v.released EXCEPT ![f] =
                            (v.released[f] \cup {s}) \ (v.bases[f]..(b - 1))]
    /\ <<u.next_issue, u.next_ready, u.next_consume, u.generations, u.halted, u.pending_ready>>
        = <<v.next_issue, v.next_ready, v.next_consume, v.generations, v.halted, v.pending_ready>>

SeesHalt(v, u, f) ==
    /\ v.halted[f] = NotHalted
    /\ v.next_issue[f] \notin v.here[f]
    /\ \E t \in v.here[f] : t > v.next_issue[f]
    /\ OthersSame(v, u, f, NotHalted)
    /\ u.halted = [v.halted EXCEPT ![f] = v.next_issue[f]]
    /\ <<u.bases, u.next_issue, u.next_ready, u.next_consume, u.credit, u.global_credit,
         u.generations, u.released, u.pending_ready, u.here>>
        = <<v.bases, v.next_issue, v.next_ready, v.next_consume, v.credit, v.global_credit,
            v.generations, v.released, v.pending_ready, v.here>>

SeesWrite(v, e, u) ==
    \E f \in Flows, s \in Serials, p \in Payloads :
      \E X \in SUBSET Data(p), c \in Data(p) :
        LET t == TokenIn(v, f, s)
        IN  \/ e = IssueEvent(t, p, c) /\ SeesFirst(v, u, f, s, p, c)
            \/ e = IssueEvent(t, p, c) /\ SeesFurther(v, u, f, s, p, X, c)
            \/ e = IssueEvent(t, p, Check!ReadyComponent) /\ SeesCommit(v, u, f, s, p)
            \/ e = VisibleEvent(t, p, c) /\ SeesData(v, u, f, s, p, X, c)
            \/ e = VisibleEvent(t, p, Check!ReadyComponent) /\ SeesPublished(v, u, f, s, p)

SeesCall(v, e, u) ==
    \/ \E f \in Flows, s \in Serials, p \in Payloads :
        \/ e = ReceiveEvent(TokenIn(u, f, s), p) /\ SeesReceive(v, u, f, s, p)
        \/ e = ConsumeEvent(TokenIn(v, f, s), Image(TokenIn(v, f, s), p))
           /\ SeesConsume(v, u, f, s, p)
        \/ e = ReleaseEvent(TokenIn(v, f, s)) /\ SeesRelease(v, u, f, s, p)
    \/ \E f \in Flows : e = HaltEvent(f, v.next_issue[f]) /\ SeesHalt(v, u, f)

Sees(v, e, u) == SeesWrite(v, e, u) \/ SeesCall(v, e, u)
--------------------------------------------------------------------------------
(* The view after the first i writes of a packet have been read.           *)
ComponentAt(p, i) ==
    IF i <= LineCount(p)
    THEN <<"payload", i - 1>>
    ELSE <<"descriptor", FieldOrder[i - LineCount(p)]>>

WriteCount(p) == LineCount(p) + Len(FieldOrder)

FirstComponents(p, i) == {ComponentAt(p, j) : j \in 1..i}

WithEntry(v, f, s, x) == [v EXCEPT !.entry = [v.entry EXCEPT ![f][s] = x]]

PartView(f, s, i) ==
    WithEntry(Now, f, s, PartIssued(payload[f][s], FirstComponents(payload[f][s], i)))

IssuingFrom(v, f, s, i) ==
    LET p == payload[f][s]
    IN  /\ phase[f][s] = "PUSHING" /\ Left(data_writes, f, s) = Data(p) /\ ~halted[f]
        /\ unread = [j \in 1..(WriteCount(p) - i + 1) |->
                        IssueEvent(TokenOf(f, s), p, ComponentAt(p, i + j - 1))]
        /\ \E u : /\ u = PartView(f, s, i)
                  /\ Sees(v, IssueEvent(TokenOf(f, s), p, ComponentAt(p, i)), u)

(* What is unread leads from v to the present state.                       *)
Unread(v) ==
    \/ unread = <<>> /\ v = Now
    \/ \E e, u : unread = <<e>> /\ Sees(v, e, u) /\ u = Now
    \/ \E e, d, m, u : unread = <<e, d>> /\ Sees(v, e, m) /\ Sees(m, d, u) /\ u = Now
    \/ \E f \in Flows, s \in Serials :
        \E i \in 1..WriteCount(payload[f][s]) : IssuingFrom(v, f, s, i)

TraceInv == IndInv /\ CreditConserved /\ \E v : Agree(v) /\ Unread(v)
--------------------------------------------------------------------------------
(* Reading: one event moves the checker from one view to the next.         *)

LEMMA NoTokenApart == NoToken \notin Tokens /\ NotHalted \notin Nat
  BY TraceAssumption

LEMMA ViewTokens ==
    ASSUME NEW v, ViewOK(v), NEW f \in Flows, NEW s \in v.here[f]
    PROVE  /\ s \in Serials /\ s \in Nat /\ SlotOf(s) \in Slots
           /\ TokenIn(v, f, s) \in Tokens
           /\ TokenIn(v, f, s) = [flow |-> f, serial |-> s, slot |-> SlotOf(s),
                                  generation |-> v.generations[f][SlotOf(s)]]
           /\ TokenIn(v, f, s).flow = f /\ TokenIn(v, f, s).serial = s
           /\ TokenIn(v, f, s).slot = SlotOf(s)
           /\ TokenIn(v, f, s).generation = v.generations[f][SlotOf(s)]
  <1>1. s \in Serials /\ s \in Nat /\ SlotOf(s) \in Slots
    BY SlotOfSerial DEF ViewOK
  <1>2. v.generations[f][SlotOf(s)] \in Nat \ {0}
    BY <1>1 DEF ViewOK
  <1>3. TokenIn(v, f, s) \in Tokens
    BY <1>1, <1>2, TokenTyped DEF TokenIn
  <1> QED BY <1>1, <1>3 DEF TokenIn, Token

LEMMA ViewTokensDiffer ==
    ASSUME NEW v, ViewOK(v), NEW f \in Flows, NEW s \in v.here[f],
           NEW g \in Flows, NEW t \in v.here[g], <<g, t>> # <<f, s>>
    PROVE  TokenIn(v, g, t) # TokenIn(v, f, s)
  <1>1. /\ TokenIn(v, f, s).flow = f /\ TokenIn(v, f, s).serial = s
        /\ TokenIn(v, g, t).flow = g /\ TokenIn(v, g, t).serial = t
    BY ViewTokens
  <1> QED BY <1>1

(* What the checker says of a packet of its view.                          *)
LEMMA SeenPacket ==
    ASSUME NEW v, Agree(v), NEW f \in Flows, NEW s \in v.here[f]
    PROVE  LET t == TokenIn(v, f, s)
           IN  /\ t \in DOMAIN c_packets /\ c_packets[t] = v.entry[f][s]
               /\ c_active_slots[t.flow][t.slot] = t
               /\ t.flow = f /\ t.serial = s /\ t.slot = SlotOf(s)
  BY ViewTokens DEF Agree

(* A step that changes what is known of one packet, and counters.          *)
LEMMA OnePacketSeen ==
    ASSUME NEW v, Agree(v), NEW u, ViewOK(u), NEW f \in Flows, NEW s \in v.here[f],
           u.here = v.here, u.generations = v.generations, OthersSame(v, u, f, s),
           c_packets' = [c_packets EXCEPT ![TokenIn(v, f, s)] = u.entry[f][s]],
           UNCHANGED <<c_active_slots, c_generations>>,
           <<c_bases', c_next_issue', c_next_ready', c_next_consume'>>
                = <<u.bases, u.next_issue, u.next_ready, u.next_consume>>,
           c_credit' = u.credit, c_global_credit' = u.global_credit,
           c_released' = u.released,
           c_halted' = u.halted, c_pending_ready' = u.pending_ready
    PROVE  Agree(u)'
  <1> DEFINE x == TokenIn(v, f, s)
  <1>1. ViewOK(v) /\ x \in DOMAIN c_packets
    BY SeenPacket DEF Agree
  <1>2. ASSUME NEW g \in Flows, NEW t \in v.here[g] PROVE TokenIn(u, g, t) = TokenIn(v, g, t)
    BY DEF TokenIn
  <1>3. /\ DOMAIN c_packets' = DOMAIN c_packets /\ c_packets'[x] = u.entry[f][s]
        /\ \A t \in DOMAIN c_packets : t # x => c_packets'[t] = c_packets[t]
    BY <1>1
  <1>4. ASSUME NEW g \in Flows, NEW t \in u.here[g]
        PROVE  /\ c_active_slots'[g][SlotOf(t)] = TokenIn(u, g, t)
               /\ TokenIn(u, g, t) \in DOMAIN c_packets'
               /\ c_packets'[TokenIn(u, g, t)] = u.entry[g][t]
    <2>1. /\ c_active_slots[g][SlotOf(t)] = TokenIn(v, g, t)
          /\ TokenIn(v, g, t) \in DOMAIN c_packets
          /\ c_packets[TokenIn(v, g, t)] = v.entry[g][t]
      BY DEF Agree
    <2>2. CASE <<g, t>> = <<f, s>>
      BY <1>2, <1>3, <2>1, <2>2
    <2>3. CASE <<g, t>> # <<f, s>>
      <3>1. TokenIn(v, g, t) # x
        BY <1>1, <2>3, ViewTokensDiffer
      <3> QED BY <1>2, <1>3, <2>1, <2>3, <3>1 DEF OthersSame
    <2> QED BY <2>2, <2>3
  <1>5. ASSUME NEW t \in DOMAIN c_packets'
        PROVE  /\ t \in Tokens
               /\ t.generation <= u.generations[t.flow][t.slot]
               /\ \/ c_packets'[t].released /\ c_packets'[t].pending = {}
                  \/ t.serial \in u.here[t.flow] /\ t = TokenIn(u, t.flow, t.serial)
    <2>1. CASE t = x
      <3>1. t \in Tokens /\ t.flow = f /\ t.serial = s /\ t = TokenIn(u, f, s)
        BY <1>1, <1>2, <2>1, ViewTokens
      <3>2. t.generation <= u.generations[t.flow][t.slot]
        BY <1>1, <2>1 DEF Agree
      <3> QED BY <3>1, <3>2
    <2>2. CASE t # x
      <3>1. /\ t \in DOMAIN c_packets /\ c_packets'[t] = c_packets[t]
            /\ t \in Tokens /\ t.generation <= v.generations[t.flow][t.slot]
            /\ \/ c_packets[t].released /\ c_packets[t].pending = {}
               \/ t.serial \in v.here[t.flow] /\ t = TokenIn(v, t.flow, t.serial)
        BY <1>3, <2>2 DEF Agree
      <3>2. t.flow \in Flows
        BY <3>1 DEF Tokens
      <3> QED BY <1>2, <3>1, <3>2
    <2> QED BY <2>1, <2>2
  <1>6. \A g \in Flows, k \in Slots :
            (\A t \in u.here[g] : SlotOf(t) # k) => c_active_slots'[g][k] = NoToken
    BY DEF Agree
  <1>7. c_active_slots' \in [Flows -> [Slots -> Tokens \cup {NoToken}]]
        /\ c_generations' = u.generations
    BY DEF Agree
  <1> HIDE DEF x
  <1> QED BY <1>4, <1>5, <1>6, <1>7 DEF Agree

LEMMA EntryFields ==
    ASSUME NEW p, NEW i, NEW a, NEW l, NEW ch, NEW ri, NEW rv, NEW co
    PROVE  LET r == Entry(p, i, a, l, ch, ri, rv, co)
           IN  /\ r.payload = p /\ r.issued = i /\ r.visible = a /\ r.pending = l
               /\ r.charged = ch /\ r.ready_issued = ri /\ r.ready_visible = rv
               /\ r.consumed = co /\ r.released = No
  BY DEF Entry

(* A write that is issued, and one that becomes visible.                   *)
WriteIssued(r, c, b) ==
    [r EXCEPT !.issued = @ \cup {c}, !.pending = @ \cup {c}, !.charged = Yes,
              !.ready_issued = b]

WriteVisible(r, c, b) ==
    [r EXCEPT !.pending = @ \ {c}, !.visible = @ \cup {c}, !.ready_visible = b]

LEMMA EntryIssued ==
    ASSUME NEW p, NEW i, NEW a, NEW l, NEW ch, NEW ri, NEW rv, NEW co, NEW c, NEW b
    PROVE  WriteIssued(Entry(p, i, a, l, ch, ri, rv, co), c, b)
                = Entry(p, i \cup {c}, a, l \cup {c}, Yes, b, rv, co)
  <1> DEFINE r == Entry(p, i, a, l, ch, ri, rv, co)
             r1 == [r EXCEPT !.issued = i \cup {c}]
             r2 == [r1 EXCEPT !.pending = l \cup {c}]
             r3 == [r2 EXCEPT !.charged = Yes]
             r4 == [r3 EXCEPT !.ready_issued = b]
  <1>1. r.issued = i /\ r.pending = l
    BY EntryFields
  <1>2. r4 = Entry(p, i \cup {c}, a, l \cup {c}, Yes, b, rv, co)
    <2>1. r1 = Entry(p, i \cup {c}, a, l, ch, ri, rv, co)
      BY DEF Entry
    <2> HIDE DEF r1
    <2>2. r2 = Entry(p, i \cup {c}, a, l \cup {c}, ch, ri, rv, co)
      BY <2>1 DEF Entry
    <2> HIDE DEF r2
    <2>3. r3 = Entry(p, i \cup {c}, a, l \cup {c}, Yes, ri, rv, co)
      BY <2>2 DEF Entry
    <2> HIDE DEF r3
    <2> QED BY <2>3 DEF Entry
  <1> HIDE DEF r
  <1>3. WriteIssued(r, c, b) = [r EXCEPT !.issued = i \cup {c}, !.pending = l \cup {c},
                                    !.charged = Yes, !.ready_issued = b]
    BY <1>1 DEF WriteIssued
  <1>4. WriteIssued(r, c, b) = r4
    BY <1>3
  <1> QED BY <1>2, <1>4 DEF r

LEMMA EntryVisible ==
    ASSUME NEW p, NEW i, NEW a, NEW l, NEW ch, NEW ri, NEW rv, NEW co, NEW c, NEW b
    PROVE  WriteVisible(Entry(p, i, a, l, ch, ri, rv, co), c, b)
                = Entry(p, i, a \cup {c}, l \ {c}, ch, ri, b, co)
  <1> DEFINE r == Entry(p, i, a, l, ch, ri, rv, co)
             r1 == [r EXCEPT !.pending = l \ {c}]
             r2 == [r1 EXCEPT !.visible = a \cup {c}]
             r3 == [r2 EXCEPT !.ready_visible = b]
  <1>1. r.visible = a /\ r.pending = l
    BY EntryFields
  <1>2. r3 = Entry(p, i, a \cup {c}, l \ {c}, ch, ri, b, co)
    <2>1. r1 = Entry(p, i, a, l \ {c}, ch, ri, rv, co)
      BY DEF Entry
    <2> HIDE DEF r1
    <2>2. r2 = Entry(p, i, a \cup {c}, l \ {c}, ch, ri, rv, co)
      BY <2>1 DEF Entry
    <2> HIDE DEF r2
    <2> QED BY <2>2 DEF Entry
  <1> HIDE DEF r
  <1>3. WriteVisible(r, c, b) = [r EXCEPT !.pending = l \ {c}, !.visible = a \cup {c},
                                    !.ready_visible = b]
    BY <1>1 DEF WriteVisible
  <1>4. WriteVisible(r, c, b) = r3
    BY <1>3
  <1> QED BY <1>2, <1>4 DEF r

LEMMA ReadyApart ==
    ASSUME NEW p
    PROVE  /\ Check!ReadyComponent \notin Data(p)
           /\ Data(p) \subseteq Everything(p) /\ Data(p) # {}
  <1>1. <<"descriptor", "length">> \in Data(p)
    BY WorldAssumption DEF Data, Check!RequiredData
  <1> QED BY <1>1 DEF Data, Everything, Check!RequiredData, Check!ReadyComponent

LEMMA DataIssued ==
    ASSUME NEW t \in DOMAIN c_packets, NEW p, NEW i, NEW a, NEW l, NEW ch, NEW rv, NEW co,
           c_packets[t] = Entry(p, i, a, l, ch, No, rv, co),
           NEW c, c # Check!ReadyComponent, NEW content, Check!Issue(t, c, content)
    PROVE  /\ c_packets' = [c_packets EXCEPT
                    ![t] = Entry(p, i \cup {c}, a, l \cup {c}, Yes, No, rv, co)]
           /\ c_pending_ready' = c_pending_ready
           /\ UNCHANGED <<c_bases, c_next_ready, c_next_consume, c_released, c_generations,
                          c_active_slots, c_halted>>
  <1>1. c_packets' = [c_packets EXCEPT
            ![t].issued = @ \cup {c}, ![t].pending = @ \cup {c},
            ![t].charged = TRUE, ![t].ready_issued = @ \/ c = Check!ReadyComponent]
    BY DEF Check!Issue
  <1>2. c_packets' = [c_packets EXCEPT ![t] =
            [c_packets[t] EXCEPT !.issued = @ \cup {c}, !.pending = @ \cup {c},
                !.charged = TRUE, !.ready_issued = @ \/ c = Check!ReadyComponent]]
    BY <1>1
  <1>3. c_packets[t].ready_issued = No
    BY EntryFields
  <1>4. (c_packets[t].ready_issued \/ c = Check!ReadyComponent) = No
    BY <1>3 DEF No
  <1>5. [c_packets[t] EXCEPT !.issued = @ \cup {c}, !.pending = @ \cup {c},
                !.charged = TRUE, !.ready_issued = @ \/ c = Check!ReadyComponent]
            = WriteIssued(c_packets[t], c, No)
    BY <1>4 DEF WriteIssued, Yes
  <1>6. WriteIssued(c_packets[t], c, No)
            = Entry(p, i \cup {c}, a, l \cup {c}, Yes, No, rv, co)
    BY EntryIssued
  <1> QED BY <1>2, <1>5, <1>6 DEF Check!Issue

LEMMA ReadyIssued ==
    ASSUME NEW t \in DOMAIN c_packets, NEW p, NEW i, NEW a, NEW l, NEW ch, NEW ri, NEW rv,
           NEW co, c_packets[t] = Entry(p, i, a, l, ch, ri, rv, co),
           NEW content, Check!Issue(t, Check!ReadyComponent, content)
    PROVE  /\ c_packets' = [c_packets EXCEPT
                    ![t] = Entry(p, i \cup {Check!ReadyComponent}, a,
                                 l \cup {Check!ReadyComponent}, Yes, Yes, rv, co)]
           /\ c_pending_ready' = [c_pending_ready EXCEPT ![t.flow] = t]
           /\ UNCHANGED <<c_bases, c_next_ready, c_next_consume, c_released, c_generations,
                          c_active_slots, c_halted>>
  <1> DEFINE c == Check!ReadyComponent
  <1>1. c_packets' = [c_packets EXCEPT
            ![t].issued = @ \cup {c}, ![t].pending = @ \cup {c},
            ![t].charged = TRUE, ![t].ready_issued = @ \/ c = c]
    BY DEF Check!Issue
  <1>2. c_packets' = [c_packets EXCEPT ![t] =
            [c_packets[t] EXCEPT !.issued = @ \cup {c}, !.pending = @ \cup {c},
                !.charged = TRUE, !.ready_issued = @ \/ c = c]]
    BY <1>1
  <1>4. (c_packets[t].ready_issued \/ c = c) = Yes
    BY DEF Yes
  <1>5. [c_packets[t] EXCEPT !.issued = @ \cup {c}, !.pending = @ \cup {c},
                !.charged = TRUE, !.ready_issued = @ \/ c = c]
            = WriteIssued(c_packets[t], c, Yes)
    BY <1>4 DEF WriteIssued, Yes
  <1>6. WriteIssued(c_packets[t], c, Yes)
            = Entry(p, i \cup {c}, a, l \cup {c}, Yes, Yes, rv, co)
    BY EntryIssued
  <1> QED BY <1>2, <1>5, <1>6 DEF Check!Issue

LEMMA DataVisible ==
    ASSUME NEW t \in DOMAIN c_packets, NEW p, NEW i, NEW a, NEW l, NEW ch, NEW ri, NEW co,
           c_packets[t] = Entry(p, i, a, l, ch, ri, No, co),
           NEW c, c # Check!ReadyComponent, NEW content, Check!Visible(t, c, content)
    PROVE  /\ c_packets' = [c_packets EXCEPT
                    ![t] = Entry(p, i, a \cup {c}, l \ {c}, ch, ri, No, co)]
           /\ UNCHANGED <<c_bases, c_next_issue, c_next_ready, c_next_consume, c_credit,
                          c_global_credit, c_released, c_pending_ready, c_generations,
                          c_active_slots, c_halted>>
  <1>1. c_packets' = [c_packets EXCEPT
            ![t].pending = @ \ {c}, ![t].visible = @ \cup {c},
            ![t].ready_visible = @ \/ c = Check!ReadyComponent]
    BY DEF Check!Visible
  <1>2. c_packets' = [c_packets EXCEPT ![t] =
            [c_packets[t] EXCEPT !.pending = @ \ {c}, !.visible = @ \cup {c},
                !.ready_visible = @ \/ c = Check!ReadyComponent]]
    BY <1>1
  <1>3. c_packets[t].ready_visible = No
    BY EntryFields
  <1>4. (c_packets[t].ready_visible \/ c = Check!ReadyComponent) = No
    BY <1>3 DEF No
  <1>5. [c_packets[t] EXCEPT !.pending = @ \ {c}, !.visible = @ \cup {c},
                !.ready_visible = @ \/ c = Check!ReadyComponent]
            = WriteVisible(c_packets[t], c, No)
    BY <1>4 DEF WriteVisible
  <1>6. WriteVisible(c_packets[t], c, No)
            = Entry(p, i, a \cup {c}, l \ {c}, ch, ri, No, co)
    BY EntryVisible
  <1> QED BY <1>2, <1>5, <1>6 DEF Check!Visible

LEMMA ReadyVisible ==
    ASSUME NEW t \in DOMAIN c_packets, NEW p, NEW i, NEW a, NEW l, NEW ch, NEW ri, NEW rv,
           NEW co, c_packets[t] = Entry(p, i, a, l, ch, ri, rv, co),
           NEW content, Check!Visible(t, Check!ReadyComponent, content)
    PROVE  /\ c_packets' = [c_packets EXCEPT
                    ![t] = Entry(p, i, a \cup {Check!ReadyComponent},
                                 l \ {Check!ReadyComponent}, ch, ri, Yes, co)]
           /\ c_next_ready' = [c_next_ready EXCEPT ![t.flow] = c_next_ready[t.flow] + 1]
           /\ c_pending_ready' = [c_pending_ready EXCEPT ![t.flow] = NoToken]
           /\ UNCHANGED <<c_bases, c_next_issue, c_next_consume, c_credit, c_global_credit,
                          c_released, c_generations, c_active_slots, c_halted>>
  <1> DEFINE c == Check!ReadyComponent
  <1>1. c_packets' = [c_packets EXCEPT
            ![t].pending = @ \ {c}, ![t].visible = @ \cup {c},
            ![t].ready_visible = @ \/ c = c]
    BY DEF Check!Visible
  <1>2. c_packets' = [c_packets EXCEPT ![t] =
            [c_packets[t] EXCEPT !.pending = @ \ {c}, !.visible = @ \cup {c},
                !.ready_visible = @ \/ c = c]]
    BY <1>1
  <1>4. (c_packets[t].ready_visible \/ c = c) = Yes
    BY DEF Yes
  <1>5. [c_packets[t] EXCEPT !.pending = @ \ {c}, !.visible = @ \cup {c},
                !.ready_visible = @ \/ c = c]
            = WriteVisible(c_packets[t], c, Yes)
    BY <1>4 DEF WriteVisible
  <1>6. WriteVisible(c_packets[t], c, Yes)
            = Entry(p, i, a \cup {c}, l \ {c}, ch, ri, Yes, co)
    BY EntryVisible
  <1> QED BY <1>2, <1>5, <1>6 DEF Check!Visible
--------------------------------------------------------------------------------
(* The first write of a packet.                                            *)
LEMMA FirstAllowed ==
    ASSUME NEW v, NEW u, Agree(v), NEW f \in Flows, NEW s \in Serials, NEW p, NEW c,
           SeesFirst(v, u, f, s, p, c)
    PROVE  Check!MayIssue(TokenIn(v, f, s), c, Check!ContentOf(TokenIn(v, f, s), p, c))
  <1> DEFINE t == TokenIn(v, f, s)
  <1>1. /\ s \in v.here[f] /\ v.entry[f][s] = Fresh(p) /\ v.halted[f] = NotHalted
        /\ s = v.next_issue[f] /\ c \in Data(p)
        /\ v.credit[f] + Check!Charge(p) <= PerFlowCredit
        /\ GlobalCredit = 0 \/ v.global_credit + Check!Charge(p) <= GlobalCredit
    BY DEF SeesFirst
  <1>2. /\ t \in DOMAIN c_packets /\ c_packets[t] = Fresh(p)
        /\ c_active_slots[t.flow][t.slot] = t
        /\ t.flow = f /\ t.serial = s
    BY <1>1, SeenPacket
  <1>3. /\ c_packets[t].payload = p /\ c_packets[t].issued = {}
        /\ c_packets[t].charged = No /\ c_packets[t].ready_issued = No
        /\ c_packets[t].released = No
    BY <1>2, EntryFields DEF Fresh
  <1>4. ~c_packets[t].released /\ ~c_packets[t].ready_issued /\ ~c_packets[t].charged
    BY <1>3 DEF No
  <1>5. c # Check!ReadyComponent
    BY <1>1, ReadyApart
  <1>6. c_halted[f] = NotHalted /\ s = c_next_issue[f]
        /\ c_credit = v.credit /\ c_global_credit = v.global_credit
    BY <1>1 DEF Agree
  <1> HIDE DEF t
  <1>7. Check!ActivePacket(t)
    BY <1>2, <1>4 DEF Check!ActivePacket
  <1>8. Check!RightContent(t, c, Check!ContentOf(t, p, c))
    BY <1>1, <1>3 DEF Check!RightContent, Data
  <1>9. Check!IssuableUnderHalt(t, c)
    BY <1>2, <1>6 DEF Check!IssuableUnderHalt
  <1>10. Check!MayCharge(t)
    BY <1>1, <1>2, <1>3, <1>6 DEF Check!MayCharge
  <1>11. c \notin c_packets[t].issued
    BY <1>3
  <1>12. Check!MayIssue(t, c, Check!ContentOf(t, p, c))
    BY <1>4, <1>5, <1>7, <1>8, <1>9, <1>10, <1>11 DEF Check!MayIssue
  <1> QED BY <1>12 DEF t

LEMMA FirstRead ==
    ASSUME NEW v, NEW u, Agree(v), NEW f \in Flows, NEW s \in Serials, NEW p \in Payloads,
           NEW c, SeesFirst(v, u, f, s, p, c), NEW content,
           Check!Issue(TokenIn(v, f, s), c, content)
    PROVE  Agree(u)'
  <1> DEFINE t == TokenIn(v, f, s)
  <1>1. /\ s \in v.here[f] /\ v.entry[f][s] = Fresh(p) /\ c \in Data(p)
        /\ u.entry[f][s] = PartIssued(p, {c}) /\ OthersSame(v, u, f, s)
        /\ u.credit = [v.credit EXCEPT ![f] = v.credit[f] + Check!Charge(p)]
        /\ u.global_credit = v.global_credit + Check!Charge(p)
        /\ u.next_issue = [v.next_issue EXCEPT ![f] = v.next_issue[f] + 1]
        /\ u.bases = v.bases /\ u.next_ready = v.next_ready
        /\ u.next_consume = v.next_consume /\ u.generations = v.generations
        /\ u.released = v.released /\ u.halted = v.halted
        /\ u.pending_ready = v.pending_ready /\ u.here = v.here
    BY DEF SeesFirst
  <1>2. ViewOK(v)
    BY DEF Agree
  <1>3. /\ t \in DOMAIN c_packets /\ c_packets[t] = Fresh(p)
        /\ t.flow = f /\ t.serial = s
    BY <1>1, SeenPacket
  <1>4. c_packets[t].payload = p /\ c_packets[t].charged = No
    BY <1>3, EntryFields DEF Fresh
  <1>5. c # Check!ReadyComponent
    BY <1>1, ReadyApart
  <1>6. /\ c_packets' = [c_packets EXCEPT ![t] = PartIssued(p, {c})]
        /\ c_pending_ready' = c_pending_ready
        /\ UNCHANGED <<c_bases, c_next_ready, c_next_consume, c_released, c_generations,
                       c_active_slots, c_halted>>
    <2>1. c_packets[t] = Entry(p, {}, {}, {}, No, No, No, No)
      BY <1>3 DEF Fresh
    <2>2. /\ c_packets' = [c_packets EXCEPT ![t] =
                Entry(p, {} \cup {c}, {}, {} \cup {c}, Yes, No, No, No)]
          /\ c_pending_ready' = c_pending_ready
          /\ UNCHANGED <<c_bases, c_next_ready, c_next_consume, c_released, c_generations,
                         c_active_slots, c_halted>>
      BY <1>3, <1>5, <2>1, DataIssued
    <2>3. {} \cup {c} = {c}
      OBVIOUS
    <2> QED BY <2>2, <2>3 DEF PartIssued
  <1>7. /\ c_credit' = [c_credit EXCEPT ![f] = c_credit[f] + Check!Charge(p)]
        /\ c_global_credit' = c_global_credit + Check!Charge(p)
        /\ c_next_issue' = [c_next_issue EXCEPT ![f] = c_next_issue[f] + 1]
    <2>1. ~c_packets[t].charged
      BY <1>4 DEF No
    <2>2. Check!TakeCredit(t)
      BY DEF Check!Issue
    <2> HIDE DEF t
    <2> QED BY <1>3, <1>4, <2>1, <2>2 DEF Check!TakeCredit
  <1>8. Check!Charge(p) \in Nat
    <2>1. Length[p] \in Nat
      BY WorldAssumption, ConfigAssumption
    <2> QED BY <2>1, AlignedIsNat DEF Check!Charge, Check!LineBytes, aligned_size, LineBytes
  <1>9. ViewOK(u)
    BY <1>1, <1>2, <1>8 DEF ViewOK
  <1>10. c_packets' = [c_packets EXCEPT ![t] = u.entry[f][s]]
    BY <1>1, <1>6
  <1> HIDE DEF t
  <1>11. /\ c_credit' = u.credit /\ c_global_credit' = u.global_credit
         /\ <<c_bases', c_next_issue', c_next_ready', c_next_consume'>>
                = <<u.bases, u.next_issue, u.next_ready, u.next_consume>>
         /\ c_released' = u.released /\ c_halted' = u.halted
         /\ c_pending_ready' = u.pending_ready
    BY <1>1, <1>6, <1>7 DEF Agree
  <1> QED BY <1>1, <1>6, <1>9, <1>10, <1>11, OnePacketSeen DEF t

--------------------------------------------------------------------------------
(* The other writes of a packet.                                           *)
LEMMA FurtherAllowed ==
    ASSUME NEW v, NEW u, Agree(v), NEW f \in Flows, NEW s \in Serials, NEW p, NEW X, NEW c,
           SeesFurther(v, u, f, s, p, X, c)
    PROVE  Check!MayIssue(TokenIn(v, f, s), c, Check!ContentOf(TokenIn(v, f, s), p, c))
  <1> DEFINE t == TokenIn(v, f, s)
  <1>1. /\ s \in v.here[f] /\ v.entry[f][s] = PartIssued(p, X) /\ v.halted[f] = NotHalted
        /\ c \in Data(p) /\ c \notin X
    BY DEF SeesFurther
  <1>2. /\ t \in DOMAIN c_packets /\ c_packets[t] = PartIssued(p, X)
        /\ c_active_slots[t.flow][t.slot] = t
        /\ t.flow = f /\ t.serial = s
    BY <1>1, SeenPacket
  <1>3. /\ c_packets[t].payload = p /\ c_packets[t].issued = X
        /\ c_packets[t].charged = Yes /\ c_packets[t].ready_issued = No
        /\ c_packets[t].released = No
    BY <1>2, EntryFields DEF PartIssued
  <1>4. ~c_packets[t].released /\ ~c_packets[t].ready_issued /\ c_packets[t].charged
    BY <1>3 DEF No, Yes
  <1>5. c # Check!ReadyComponent
    BY <1>1, ReadyApart
  <1>6. c_halted[f] = NotHalted
    BY <1>1 DEF Agree
  <1> HIDE DEF t
  <1>7. Check!ActivePacket(t)
    BY <1>2, <1>4 DEF Check!ActivePacket
  <1>8. Check!RightContent(t, c, Check!ContentOf(t, p, c))
    BY <1>1, <1>3 DEF Check!RightContent, Data
  <1>9. Check!IssuableUnderHalt(t, c)
    BY <1>2, <1>6 DEF Check!IssuableUnderHalt
  <1>12. Check!MayIssue(t, c, Check!ContentOf(t, p, c))
    BY <1>1, <1>3, <1>4, <1>5, <1>7, <1>8, <1>9 DEF Check!MayIssue
  <1> QED BY <1>12 DEF t

LEMMA FurtherRead ==
    ASSUME NEW v, NEW u, Agree(v), NEW f \in Flows, NEW s \in Serials, NEW p, NEW X,
           NEW c, SeesFurther(v, u, f, s, p, X, c), NEW content,
           Check!Issue(TokenIn(v, f, s), c, content)
    PROVE  Agree(u)'
  <1> DEFINE t == TokenIn(v, f, s)
  <1>1. /\ s \in v.here[f] /\ v.entry[f][s] = PartIssued(p, X) /\ c \in Data(p)
        /\ u.entry[f][s] = PartIssued(p, X \cup {c}) /\ OthersSame(v, u, f, s)
        /\ u.credit = v.credit /\ u.global_credit = v.global_credit
        /\ u.next_issue = v.next_issue /\ u.bases = v.bases /\ u.next_ready = v.next_ready
        /\ u.next_consume = v.next_consume /\ u.generations = v.generations
        /\ u.released = v.released /\ u.halted = v.halted
        /\ u.pending_ready = v.pending_ready /\ u.here = v.here
    BY DEF SeesFurther
  <1>2. ViewOK(v)
    BY DEF Agree
  <1>3. t \in DOMAIN c_packets /\ c_packets[t] = PartIssued(p, X)
    BY <1>1, SeenPacket
  <1>4. c_packets[t].charged = Yes
    BY <1>3, EntryFields DEF PartIssued
  <1>5. c # Check!ReadyComponent
    BY <1>1, ReadyApart
  <1>6. /\ c_packets' = [c_packets EXCEPT ![t] = PartIssued(p, X \cup {c})]
        /\ c_pending_ready' = c_pending_ready
        /\ UNCHANGED <<c_bases, c_next_ready, c_next_consume, c_released, c_generations,
                       c_active_slots, c_halted>>
    <2>1. c_packets[t] = Entry(p, X, {}, X, Yes, No, No, No)
      BY <1>3 DEF PartIssued
    <2> QED BY <1>3, <1>5, <2>1, DataIssued DEF PartIssued
  <1>7. UNCHANGED <<c_credit, c_global_credit, c_next_issue>>
    <2>1. c_packets[t].charged
      BY <1>4 DEF Yes
    <2>2. Check!TakeCredit(t)
      BY DEF Check!Issue
    <2> HIDE DEF t
    <2> QED BY <2>1, <2>2 DEF Check!TakeCredit
  <1>9. ViewOK(u)
    BY <1>1, <1>2 DEF ViewOK
  <1>10. c_packets' = [c_packets EXCEPT ![t] = u.entry[f][s]]
    BY <1>1, <1>6
  <1> HIDE DEF t
  <1>11. /\ c_credit' = u.credit /\ c_global_credit' = u.global_credit
         /\ <<c_bases', c_next_issue', c_next_ready', c_next_consume'>>
                = <<u.bases, u.next_issue, u.next_ready, u.next_consume>>
         /\ c_released' = u.released /\ c_halted' = u.halted
         /\ c_pending_ready' = u.pending_ready
    BY <1>1, <1>6, <1>7 DEF Agree
  <1> QED BY <1>1, <1>6, <1>9, <1>10, <1>11, OnePacketSeen DEF t
--------------------------------------------------------------------------------
(* The ready write of a packet is issued.                                  *)
LEMMA CommitAllowed ==
    ASSUME NEW v, NEW u, Agree(v), NEW f \in Flows, NEW s \in Serials, NEW p,
           SeesCommit(v, u, f, s, p)
    PROVE  Check!MayIssue(TokenIn(v, f, s), Check!ReadyComponent,
                    Check!ContentOf(TokenIn(v, f, s), p, Check!ReadyComponent))
  <1> DEFINE t == TokenIn(v, f, s)
             c == Check!ReadyComponent
  <1>1. /\ s \in v.here[f] /\ v.entry[f][s] = Pushed(p, {})
        /\ s = v.next_ready[f] /\ v.pending_ready[f] = NoToken
        /\ v.halted[f] # NotHalted => s < v.halted[f]
    BY DEF SeesCommit
  <1>2. /\ t \in DOMAIN c_packets /\ c_packets[t] = Pushed(p, {})
        /\ c_active_slots[t.flow][t.slot] = t
        /\ t.flow = f /\ t.serial = s
    BY <1>1, SeenPacket
  <1>3. /\ c_packets[t].payload = p /\ c_packets[t].issued = Data(p)
        /\ c_packets[t].visible = Data(p) \ {}
        /\ c_packets[t].charged = Yes /\ c_packets[t].ready_issued = No
        /\ c_packets[t].released = No
    BY <1>2, EntryFields DEF Pushed
  <1>4. ~c_packets[t].released /\ ~c_packets[t].ready_issued /\ c_packets[t].charged
    BY <1>3 DEF No, Yes
  <1>5. c \notin Data(p)
    BY ReadyApart
  <1>6. c_halted = v.halted /\ c_next_ready = v.next_ready /\ c_pending_ready = v.pending_ready
    BY <1>1 DEF Agree
  <1> HIDE DEF t
  <1>7. Check!ActivePacket(t)
    BY <1>2, <1>4 DEF Check!ActivePacket
  <1>8. Check!RightContent(t, c, Check!ContentOf(t, p, c))
    BY <1>1, <1>3 DEF Check!RightContent
  <1>9. Check!IssuableUnderHalt(t, c)
    BY <1>1, <1>2, <1>4, <1>6 DEF Check!IssuableUnderHalt
  <1>10. Check!MayCommit(t)
    BY <1>1, <1>2, <1>3, <1>6 DEF Check!MayCommit, Data
  <1>12. Check!MayIssue(t, c, Check!ContentOf(t, p, c))
    BY <1>1, <1>3, <1>4, <1>5, <1>7, <1>8, <1>9, <1>10 DEF Check!MayIssue
  <1> QED BY <1>12 DEF t

LEMMA CommitRead ==
    ASSUME NEW v, NEW u, Agree(v), NEW f \in Flows, NEW s \in Serials, NEW p,
           SeesCommit(v, u, f, s, p), NEW content,
           Check!Issue(TokenIn(v, f, s), Check!ReadyComponent, content)
    PROVE  Agree(u)'
  <1> DEFINE t == TokenIn(v, f, s)
  <1>1. /\ s \in v.here[f] /\ v.entry[f][s] = Pushed(p, {})
        /\ u.entry[f][s] = Committed(p) /\ OthersSame(v, u, f, s)
        /\ u.pending_ready = [v.pending_ready EXCEPT ![f] = t]
        /\ u.credit = v.credit /\ u.global_credit = v.global_credit
        /\ u.next_issue = v.next_issue /\ u.bases = v.bases /\ u.next_ready = v.next_ready
        /\ u.next_consume = v.next_consume /\ u.generations = v.generations
        /\ u.released = v.released /\ u.halted = v.halted /\ u.here = v.here
    BY DEF SeesCommit
  <1>2. ViewOK(v)
    BY DEF Agree
  <1>3. t \in DOMAIN c_packets /\ c_packets[t] = Pushed(p, {}) /\ t.flow = f /\ t \in Tokens
    BY <1>1, <1>2, SeenPacket, ViewTokens
  <1>4. c_packets[t].charged = Yes
    BY <1>3, EntryFields DEF Pushed
  <1>6. /\ c_packets' = [c_packets EXCEPT ![t] = Committed(p)]
        /\ c_pending_ready' = [c_pending_ready EXCEPT ![t.flow] = t]
        /\ UNCHANGED <<c_bases, c_next_ready, c_next_consume, c_released, c_generations,
                       c_active_slots, c_halted>>
    <2>1. c_packets[t] = Entry(p, Data(p), Data(p) \ {}, {}, Yes, No, No, No)
      BY <1>3 DEF Pushed
    <2>2. /\ c_packets' = [c_packets EXCEPT ![t] =
                Entry(p, Data(p) \cup {Check!ReadyComponent}, Data(p) \ {},
                      {} \cup {Check!ReadyComponent}, Yes, Yes, No, No)]
          /\ c_pending_ready' = [c_pending_ready EXCEPT ![t.flow] = t]
          /\ UNCHANGED <<c_bases, c_next_ready, c_next_consume, c_released, c_generations,
                         c_active_slots, c_halted>>
      BY <1>3, <2>1, ReadyIssued
    <2>3. /\ Data(p) \ {} = Data(p)
          /\ {} \cup {Check!ReadyComponent} = {Check!ReadyComponent}
      OBVIOUS
    <2> QED BY <2>2, <2>3 DEF Committed, Everything
  <1>7. UNCHANGED <<c_credit, c_global_credit, c_next_issue>>
    <2>1. c_packets[t].charged
      BY <1>4 DEF Yes
    <2>2. Check!TakeCredit(t)
      BY DEF Check!Issue
    <2> HIDE DEF t
    <2> QED BY <2>1, <2>2 DEF Check!TakeCredit
  <1>9. ViewOK(u)
    BY <1>1, <1>2, <1>3 DEF ViewOK
  <1>10. c_packets' = [c_packets EXCEPT ![t] = u.entry[f][s]]
    BY <1>1, <1>6
  <1> HIDE DEF t
  <1>11. /\ c_credit' = u.credit /\ c_global_credit' = u.global_credit
         /\ <<c_bases', c_next_issue', c_next_ready', c_next_consume'>>
                = <<u.bases, u.next_issue, u.next_ready, u.next_consume>>
         /\ c_released' = u.released /\ c_halted' = u.halted
         /\ c_pending_ready' = u.pending_ready
    BY <1>1, <1>3, <1>6, <1>7 DEF Agree
  <1> QED BY <1>1, <1>6, <1>9, <1>10, <1>11, OnePacketSeen DEF t

--------------------------------------------------------------------------------
(* Writes become visible.                                                  *)
LEMMA DataAllowed ==
    ASSUME NEW v, NEW u, Agree(v), NEW f \in Flows, NEW s \in Serials, NEW p, NEW L, NEW c,
           SeesData(v, u, f, s, p, L, c)
    PROVE  Check!MayBecomeVisible(TokenIn(v, f, s), c,
                                  Check!ContentOf(TokenIn(v, f, s), p, c))
  <1> DEFINE t == TokenIn(v, f, s)
  <1>1. /\ s \in v.here[f] /\ v.entry[f][s] = Pushed(p, L) /\ L \subseteq Data(p) /\ c \in L
    BY DEF SeesData
  <1>2. /\ t \in DOMAIN c_packets /\ c_packets[t] = Pushed(p, L)
        /\ c_active_slots[t.flow][t.slot] = t
    BY <1>1, SeenPacket
  <1>3. /\ c_packets[t].payload = p /\ c_packets[t].issued = Data(p)
        /\ c_packets[t].visible = Data(p) \ L /\ c_packets[t].pending = L
        /\ c_packets[t].released = No
    BY <1>2, EntryFields DEF Pushed
  <1>4. ~c_packets[t].released
    BY <1>3 DEF No
  <1>5. c # Check!ReadyComponent
    BY <1>1, ReadyApart
  <1> HIDE DEF t
  <1>7. Check!ActivePacket(t)
    BY <1>2, <1>4 DEF Check!ActivePacket
  <1>8. Check!RightContent(t, c, Check!ContentOf(t, p, c))
    BY <1>1, <1>3 DEF Check!RightContent, Data
  <1>12. Check!MayBecomeVisible(t, c, Check!ContentOf(t, p, c))
    BY <1>1, <1>3, <1>5, <1>7, <1>8 DEF Check!MayBecomeVisible
  <1> QED BY <1>12 DEF t

LEMMA DataRead ==
    ASSUME NEW v, NEW u, Agree(v), NEW f \in Flows, NEW s \in Serials, NEW p, NEW L,
           NEW c, SeesData(v, u, f, s, p, L, c), NEW content,
           Check!Visible(TokenIn(v, f, s), c, content)
    PROVE  Agree(u)'
  <1> DEFINE t == TokenIn(v, f, s)
  <1>1. /\ s \in v.here[f] /\ v.entry[f][s] = Pushed(p, L)
        /\ L \subseteq Data(p) /\ c \in L
        /\ u.entry[f][s] = Pushed(p, L \ {c}) /\ OthersSame(v, u, f, s)
        /\ u.credit = v.credit /\ u.global_credit = v.global_credit
        /\ u.next_issue = v.next_issue /\ u.bases = v.bases /\ u.next_ready = v.next_ready
        /\ u.next_consume = v.next_consume /\ u.generations = v.generations
        /\ u.released = v.released /\ u.halted = v.halted
        /\ u.pending_ready = v.pending_ready /\ u.here = v.here
    BY DEF SeesData
  <1>2. ViewOK(v)
    BY DEF Agree
  <1>3. t \in DOMAIN c_packets /\ c_packets[t] = Pushed(p, L)
    BY <1>1, SeenPacket
  <1>5. c # Check!ReadyComponent
    BY <1>1, ReadyApart
  <1>6. /\ c_packets' = [c_packets EXCEPT ![t] = Pushed(p, L \ {c})]
        /\ UNCHANGED <<c_bases, c_next_issue, c_next_ready, c_next_consume, c_credit,
                       c_global_credit, c_released, c_pending_ready, c_generations,
                       c_active_slots, c_halted>>
    <2>1. c_packets[t] = Entry(p, Data(p), Data(p) \ L, L, Yes, No, No, No)
      BY <1>3 DEF Pushed
    <2>2. /\ c_packets' = [c_packets EXCEPT ![t] =
                Entry(p, Data(p), (Data(p) \ L) \cup {c}, L \ {c}, Yes, No, No, No)]
          /\ UNCHANGED <<c_bases, c_next_issue, c_next_ready, c_next_consume, c_credit,
                         c_global_credit, c_released, c_pending_ready, c_generations,
                         c_active_slots, c_halted>>
      BY <1>3, <1>5, <2>1, DataVisible
    <2>3. (Data(p) \ L) \cup {c} = Data(p) \ (L \ {c})
      BY <1>1
    <2> QED BY <2>2, <2>3 DEF Pushed
  <1>9. ViewOK(u)
    BY <1>1, <1>2 DEF ViewOK
  <1>10. c_packets' = [c_packets EXCEPT ![t] = u.entry[f][s]]
    BY <1>1, <1>6
  <1> HIDE DEF t
  <1>11. /\ c_credit' = u.credit /\ c_global_credit' = u.global_credit
         /\ <<c_bases', c_next_issue', c_next_ready', c_next_consume'>>
                = <<u.bases, u.next_issue, u.next_ready, u.next_consume>>
         /\ c_released' = u.released /\ c_halted' = u.halted
         /\ c_pending_ready' = u.pending_ready
    BY <1>1, <1>6 DEF Agree
  <1> QED BY <1>1, <1>6, <1>9, <1>10, <1>11, OnePacketSeen DEF t

LEMMA PublishedAllowed ==
    ASSUME NEW v, NEW u, Agree(v), NEW f \in Flows, NEW s \in Serials, NEW p,
           SeesPublished(v, u, f, s, p)
    PROVE  Check!MayBecomeVisible(TokenIn(v, f, s), Check!ReadyComponent,
                    Check!ContentOf(TokenIn(v, f, s), p, Check!ReadyComponent))
  <1> DEFINE t == TokenIn(v, f, s)
             c == Check!ReadyComponent
  <1>1. /\ s \in v.here[f] /\ v.entry[f][s] = Committed(p)
        /\ s = v.next_ready[f] /\ v.pending_ready[f] = t
    BY DEF SeesPublished
  <1>2. /\ t \in DOMAIN c_packets /\ c_packets[t] = Committed(p)
        /\ c_active_slots[t.flow][t.slot] = t
        /\ t.flow = f /\ t.serial = s
    BY <1>1, SeenPacket
  <1>3. /\ c_packets[t].payload = p /\ c_packets[t].issued = Everything(p)
        /\ c_packets[t].visible = Data(p) /\ c_packets[t].pending = {c}
        /\ c_packets[t].released = No
    BY <1>2, EntryFields DEF Committed
  <1>4. ~c_packets[t].released
    BY <1>3 DEF No
  <1>5. c \notin Data(p) /\ c \in Everything(p)
    BY ReadyApart DEF Everything
  <1>6. c_next_ready = v.next_ready /\ c_pending_ready = v.pending_ready
    BY <1>1 DEF Agree
  <1> HIDE DEF t
  <1>7. Check!ActivePacket(t)
    BY <1>2, <1>4 DEF Check!ActivePacket
  <1>8. Check!RightContent(t, c, Check!ContentOf(t, p, c))
    BY <1>1, <1>3 DEF Check!RightContent
  <1>10. Check!MayPublish(t)
    BY <1>1, <1>2, <1>3, <1>6 DEF Check!MayPublish, Data
  <1>12. Check!MayBecomeVisible(t, c, Check!ContentOf(t, p, c))
    BY <1>3, <1>5, <1>7, <1>8, <1>10 DEF Check!MayBecomeVisible
  <1> QED BY <1>12 DEF t

LEMMA PublishedRead ==
    ASSUME NEW v, NEW u, Agree(v), NEW f \in Flows, NEW s \in Serials, NEW p,
           SeesPublished(v, u, f, s, p), NEW content,
           Check!Visible(TokenIn(v, f, s), Check!ReadyComponent, content)
    PROVE  Agree(u)'
  <1> DEFINE t == TokenIn(v, f, s)
  <1>1. /\ s \in v.here[f] /\ v.entry[f][s] = Committed(p)
        /\ u.entry[f][s] = Readied(p) /\ OthersSame(v, u, f, s)
        /\ u.next_ready = [v.next_ready EXCEPT ![f] = v.next_ready[f] + 1]
        /\ u.pending_ready = [v.pending_ready EXCEPT ![f] = NoToken]
        /\ u.credit = v.credit /\ u.global_credit = v.global_credit
        /\ u.next_issue = v.next_issue /\ u.bases = v.bases
        /\ u.next_consume = v.next_consume /\ u.generations = v.generations
        /\ u.released = v.released /\ u.halted = v.halted /\ u.here = v.here
    BY DEF SeesPublished
  <1>2. ViewOK(v)
    BY DEF Agree
  <1>3. t \in DOMAIN c_packets /\ c_packets[t] = Committed(p) /\ t.flow = f
    BY <1>1, SeenPacket
  <1>6. /\ c_packets' = [c_packets EXCEPT ![t] = Readied(p)]
        /\ c_next_ready' = [c_next_ready EXCEPT ![t.flow] = c_next_ready[t.flow] + 1]
        /\ c_pending_ready' = [c_pending_ready EXCEPT ![t.flow] = NoToken]
        /\ UNCHANGED <<c_bases, c_next_issue, c_next_consume, c_credit, c_global_credit,
                       c_released, c_generations, c_active_slots, c_halted>>
    <2> DEFINE c == Check!ReadyComponent
    <2>1. c_packets[t] = Entry(p, Everything(p), Data(p), {c}, Yes, Yes, No, No)
      BY <1>3 DEF Committed
    <2>2. /\ c_packets' = [c_packets EXCEPT ![t] =
                Entry(p, Everything(p), Data(p) \cup {c}, {c} \ {c}, Yes, Yes, Yes, No)]
          /\ c_next_ready' = [c_next_ready EXCEPT ![t.flow] = c_next_ready[t.flow] + 1]
          /\ c_pending_ready' = [c_pending_ready EXCEPT ![t.flow] = NoToken]
          /\ UNCHANGED <<c_bases, c_next_issue, c_next_consume, c_credit, c_global_credit,
                         c_released, c_generations, c_active_slots, c_halted>>
      BY <1>3, <2>1, ReadyVisible
    <2>3. {c} \ {c} = {} /\ Data(p) \cup {c} = Everything(p)
      BY DEF Everything
    <2> HIDE DEF c
    <2> QED BY <2>2, <2>3 DEF Readied
  <1>9. ViewOK(u)
    BY <1>1, <1>2 DEF ViewOK
  <1>10. c_packets' = [c_packets EXCEPT ![t] = u.entry[f][s]]
    BY <1>1, <1>6
  <1> HIDE DEF t
  <1>11. /\ c_credit' = u.credit /\ c_global_credit' = u.global_credit
         /\ <<c_bases', c_next_issue', c_next_ready', c_next_consume'>>
                = <<u.bases, u.next_issue, u.next_ready, u.next_consume>>
         /\ c_released' = u.released /\ c_halted' = u.halted
         /\ c_pending_ready' = u.pending_ready
    BY <1>1, <1>3, <1>6 DEF Agree
  <1> QED BY <1>1, <1>6, <1>9, <1>10, <1>11, OnePacketSeen DEF t
--------------------------------------------------------------------------------
(* The CPU is handed a packet.                                             *)
LEMMA ConsumeAllowed ==
    ASSUME NEW v, NEW u, Agree(v), NEW f \in Flows, NEW s \in Serials, NEW p,
           SeesConsume(v, u, f, s, p), NEW descriptor, NEW lines,
           descriptor = Check!DescriptorOf(TokenIn(v, f, s), p), lines = Check!BytesOf(p)
    PROVE  Check!MayConsume(TokenIn(v, f, s), descriptor, lines)
  <1> DEFINE t == TokenIn(v, f, s)
  <1>1. /\ s \in v.here[f] /\ v.entry[f][s] = Readied(p) /\ s = v.next_consume[f]
    BY DEF SeesConsume
  <1>2. /\ t \in DOMAIN c_packets /\ c_packets[t] = Readied(p)
        /\ c_active_slots[t.flow][t.slot] = t
        /\ t.flow = f /\ t.serial = s
    BY <1>1, SeenPacket
  <1>3. /\ c_packets[t].payload = p /\ c_packets[t].visible = Everything(p)
        /\ c_packets[t].ready_visible = Yes /\ c_packets[t].consumed = No
        /\ c_packets[t].released = No
    BY <1>2, EntryFields DEF Readied
  <1>4. ~c_packets[t].released /\ ~c_packets[t].consumed /\ c_packets[t].ready_visible
    BY <1>3 DEF No, Yes
  <1>5. Data(p) \subseteq Everything(p) /\ c_next_consume = v.next_consume
    BY ReadyApart DEF Agree
  <1>6. descriptor = Check!DescriptorOf(t, p)
    OBVIOUS
  <1> HIDE DEF t
  <1>7. Check!ActivePacket(t)
    BY <1>2, <1>4 DEF Check!ActivePacket
  <1>8. Check!MayConsume(t, descriptor, lines)
    BY <1>1, <1>2, <1>3, <1>4, <1>5, <1>6, <1>7 DEF Check!MayConsume, Data
  <1> QED BY <1>8 DEF t

LEMMA ConsumeRead ==
    ASSUME NEW v, NEW u, Agree(v), NEW f \in Flows, NEW s \in Serials, NEW p,
           SeesConsume(v, u, f, s, p), NEW descriptor, NEW lines,
           Check!Consume(TokenIn(v, f, s), descriptor, lines)
    PROVE  Agree(u)'
  <1> DEFINE t == TokenIn(v, f, s)
  <1>1. /\ s \in v.here[f] /\ v.entry[f][s] = Readied(p)
        /\ u.entry[f][s] = Consumed(p) /\ OthersSame(v, u, f, s)
        /\ u.next_consume = [v.next_consume EXCEPT ![f] = v.next_consume[f] + 1]
        /\ u.credit = v.credit /\ u.global_credit = v.global_credit
        /\ u.next_issue = v.next_issue /\ u.bases = v.bases /\ u.next_ready = v.next_ready
        /\ u.generations = v.generations /\ u.released = v.released
        /\ u.halted = v.halted /\ u.pending_ready = v.pending_ready /\ u.here = v.here
    BY DEF SeesConsume
  <1>2. ViewOK(v)
    BY DEF Agree
  <1>3. t \in DOMAIN c_packets /\ c_packets[t] = Readied(p) /\ t.flow = f
    BY <1>1, SeenPacket
  <1>6. /\ c_packets' = [c_packets EXCEPT ![t] = Consumed(p)]
        /\ c_next_consume' = [c_next_consume EXCEPT ![t.flow] = c_next_consume[t.flow] + 1]
        /\ UNCHANGED <<c_bases, c_next_issue, c_next_ready, c_credit, c_global_credit,
                       c_released, c_pending_ready, c_generations, c_active_slots, c_halted>>
    <2>1. c_packets' = [c_packets EXCEPT ![t].consumed = TRUE]
      BY DEF Check!Consume
    <2>2. c_packets' = [c_packets EXCEPT ![t] = [c_packets[t] EXCEPT !.consumed = Yes]]
      BY <2>1 DEF Yes
    <2>3. c_packets[t] = Entry(p, Everything(p), Everything(p), {}, Yes, Yes, Yes, No)
      BY <1>3 DEF Readied
    <2>4. [c_packets[t] EXCEPT !.consumed = Yes] = Consumed(p)
      BY <2>3 DEF Entry, Consumed
    <2>5. /\ c_next_consume' = [c_next_consume EXCEPT ![t.flow] = c_next_consume[t.flow] + 1]
          /\ UNCHANGED <<c_bases, c_next_issue, c_next_ready, c_credit, c_global_credit,
                         c_released, c_pending_ready, c_generations, c_active_slots, c_halted>>
      BY DEF Check!Consume
    <2> QED BY <2>2, <2>4, <2>5
  <1>9. ViewOK(u)
    BY <1>1, <1>2 DEF ViewOK
  <1>10. c_packets' = [c_packets EXCEPT ![t] = u.entry[f][s]]
    BY <1>1, <1>6
  <1> HIDE DEF t
  <1>11. /\ c_credit' = u.credit /\ c_global_credit' = u.global_credit
         /\ <<c_bases', c_next_issue', c_next_ready', c_next_consume'>>
                = <<u.bases, u.next_issue, u.next_ready, u.next_consume>>
         /\ c_released' = u.released /\ c_halted' = u.halted
         /\ c_pending_ready' = u.pending_ready
    BY <1>1, <1>3, <1>6 DEF Agree
  <1> QED BY <1>1, <1>6, <1>9, <1>10, <1>11, OnePacketSeen DEF t
--------------------------------------------------------------------------------
(* A gap is given up.                                                      *)
LEMMA HaltAllowed ==
    ASSUME NEW v, NEW u, Agree(v), NEW f \in Flows, SeesHalt(v, u, f)
    PROVE  Check!MayHalt(f, v.next_issue[f])
  <1> DEFINE n == v.next_issue[f]
  <1>1. /\ ViewOK(v) /\ v.halted[f] = NotHalted /\ n \notin v.here[f]
        /\ c_halted = v.halted /\ c_next_issue = v.next_issue
    BY DEF SeesHalt, Agree
  <1>2. PICK t \in v.here[f] : t > n
    BY DEF SeesHalt
  <1>3. ASSUME NEW s \in v.here[f] PROVE s \in Check!ActiveSerials(f)
    <2>1. /\ SlotOf(s) \in Slots /\ c_active_slots[f][SlotOf(s)] = TokenIn(v, f, s)
          /\ TokenIn(v, f, s) \in Tokens /\ TokenIn(v, f, s).serial = s
      BY <1>1, ViewTokens DEF Agree
    <2>2. TokenIn(v, f, s) # NoToken
      BY <2>1, NoTokenApart
    <2> QED BY <2>1, <2>2 DEF Check!ActiveSerials, Check!Slots, Slots
  <1>4. ASSUME NEW s \in Check!ActiveSerials(f) PROVE s \in v.here[f]
    <2>1. PICK k \in Slots : c_active_slots[f][k] # NoToken /\ s = c_active_slots[f][k].serial
      BY DEF Check!ActiveSerials, Check!Slots, Slots
    <2>2. PICK r \in v.here[f] : SlotOf(r) = k
      BY <2>1 DEF Agree
    <2>3. c_active_slots[f][k] = TokenIn(v, f, r) /\ TokenIn(v, f, r).serial = r
      BY <1>1, <2>2, ViewTokens DEF Agree
    <2> QED BY <2>1, <2>3
  <1> HIDE DEF n
  <1> QED BY <1>1, <1>2, <1>3, <1>4 DEF Check!MayHalt, n

LEMMA HaltRead ==
    ASSUME NEW v, NEW u, Agree(v), NEW f \in Flows, SeesHalt(v, u, f),
           Check!Halt(f, v.next_issue[f])
    PROVE  Agree(u)'
  <1>1. /\ OthersSame(v, u, f, NotHalted)
        /\ u.halted = [v.halted EXCEPT ![f] = v.next_issue[f]]
        /\ u.credit = v.credit /\ u.global_credit = v.global_credit
        /\ u.next_issue = v.next_issue /\ u.bases = v.bases /\ u.next_ready = v.next_ready
        /\ u.next_consume = v.next_consume /\ u.generations = v.generations
        /\ u.released = v.released /\ u.pending_ready = v.pending_ready /\ u.here = v.here
    BY DEF SeesHalt
  <1>2. ViewOK(v)
    BY DEF Agree
  <1>3. ViewOK(u)
    BY <1>1, <1>2 DEF ViewOK
  <1>4. /\ c_halted' = [c_halted EXCEPT ![f] = v.next_issue[f]]
        /\ UNCHANGED <<c_bases, c_next_issue, c_next_ready, c_next_consume, c_credit,
                       c_global_credit, c_released, c_pending_ready, c_generations,
                       c_active_slots, c_packets>>
    BY DEF Check!Halt
  <1>5. ASSUME NEW g \in Flows, NEW t \in v.here[g] PROVE u.entry[g][t] = v.entry[g][t]
    <2>1. t # NotHalted
      BY <1>2, ViewTokens, NoTokenApart
    <2> QED BY <1>1, <2>1 DEF OthersSame
  <1>6. \A g, t : TokenIn(u, g, t) = TokenIn(v, g, t)
    BY <1>1 DEF TokenIn
  <1>7. /\ \A g \in Flows : \A s \in u.here[g] :
            /\ c_active_slots[g][SlotOf(s)] = TokenIn(u, g, s)
            /\ TokenIn(u, g, s) \in DOMAIN c_packets
            /\ c_packets[TokenIn(u, g, s)] = u.entry[g][s]
    BY <1>1, <1>5, <1>6 DEF Agree
  <1>8. \A t \in DOMAIN c_packets :
            /\ t \in Tokens
            /\ t.generation <= u.generations[t.flow][t.slot]
            /\ \/ c_packets[t].released /\ c_packets[t].pending = {}
               \/ t.serial \in u.here[t.flow] /\ t = TokenIn(u, t.flow, t.serial)
    BY <1>1, <1>6 DEF Agree
  <1>9. /\ c_halted' = u.halted
        /\ <<c_bases, c_next_issue, c_next_ready, c_next_consume>>
            = <<u.bases, u.next_issue, u.next_ready, u.next_consume>>
        /\ c_credit = u.credit /\ c_global_credit = u.global_credit
        /\ c_released = u.released /\ c_generations = u.generations
        /\ c_pending_ready = u.pending_ready
        /\ c_active_slots \in [Flows -> [Slots -> Tokens \cup {NoToken}]]
        /\ \A g \in Flows, k \in Slots :
            (\A s \in u.here[g] : SlotOf(s) # k) => c_active_slots[g][k] = NoToken
    BY <1>1, <1>4 DEF Agree
  <1> QED BY <1>3, <1>4, <1>7, <1>8, <1>9 DEF Agree

--------------------------------------------------------------------------------
(* A packet comes in.                                                      *)
LEMMA ReceiveToken ==
    ASSUME NEW v, NEW u, ViewOK(v), NEW f \in Flows, NEW s \in Serials, NEW p,
           SeesReceive(v, u, f, s, p)
    PROVE  /\ SlotOf(s) \in Slots /\ s \in Nat
           /\ v.generations[f][SlotOf(s)] \in Nat
           /\ u.generations[f][SlotOf(s)] = v.generations[f][SlotOf(s)] + 1
           /\ \A g \in Flows, k \in Slots : <<g, k>> # <<f, SlotOf(s)>> =>
                    u.generations[g][k] = v.generations[g][k]
           /\ TokenIn(u, f, s) \in Tokens
           /\ TokenIn(u, f, s).flow = f /\ TokenIn(u, f, s).serial = s
           /\ TokenIn(u, f, s).slot = SlotOf(s)
           /\ TokenIn(u, f, s).generation = v.generations[f][SlotOf(s)] + 1
           /\ s \notin v.here[f]
  <1>1. SlotOf(s) \in Slots /\ s \in Nat
    BY SlotOfSerial
  <1>2. /\ u.generations = [v.generations EXCEPT ![f][SlotOf(s)] =
                                v.generations[f][SlotOf(s)] + 1]
        /\ \A t \in v.here[f] : SlotOf(t) # SlotOf(s)
    BY DEF SeesReceive
  <1>3. v.generations[f][SlotOf(s)] \in Nat /\ v.generations \in [Flows -> [Slots -> Nat]]
    BY <1>1 DEF ViewOK
  <1>4. /\ u.generations[f][SlotOf(s)] = v.generations[f][SlotOf(s)] + 1
        /\ \A g \in Flows, k \in Slots : <<g, k>> # <<f, SlotOf(s)>> =>
                    u.generations[g][k] = v.generations[g][k]
    BY <1>1, <1>2, <1>3
  <1>5. u.generations[f][SlotOf(s)] \in Nat \ {0}
    BY <1>3, <1>4
  <1>6. TokenIn(u, f, s) \in Tokens
    BY <1>5, TokenTyped DEF TokenIn
  <1> QED BY <1>1, <1>2, <1>3, <1>4, <1>6 DEF TokenIn, Token

LEMMA ReceiveAllowed ==
    ASSUME NEW v, NEW u, Agree(v), NEW f \in Flows, NEW s \in Serials, NEW p \in Payloads,
           SeesReceive(v, u, f, s, p)
    PROVE  Check!MayReceive(TokenIn(u, f, s), p)
  <1> DEFINE x == TokenIn(u, f, s)
             k == SlotOf(s)
  <1>1. ViewOK(v)
    BY DEF Agree
  <1>2. /\ k \in Slots /\ s \in Nat /\ v.generations[f][k] \in Nat
        /\ x.flow = f /\ x.serial = s /\ x.slot = k
        /\ x.generation = v.generations[f][k] + 1
    <2>1. k \in Slots /\ s \in Nat
      BY SlotOfSerial
    <2>2. /\ u.generations = [v.generations EXCEPT ![f][k] = v.generations[f][k] + 1]
          /\ v.generations[f][k] \in Nat /\ v.generations \in [Flows -> [Slots -> Nat]]
      BY <1>1, <2>1 DEF ViewOK, SeesReceive
    <2>3. u.generations[f][k] = v.generations[f][k] + 1
      BY <2>1, <2>2
    <2> QED BY <2>1, <2>2, <2>3 DEF TokenIn, Token
  <1>3. /\ v.halted[f] = NotHalted
        /\ v.bases[f] <= s /\ s < v.bases[f] + Window /\ s \notin v.released[f]
        /\ \A r \in v.here[f] : SlotOf(r) # k
    BY DEF SeesReceive
  <1>4. c_active_slots[f][k] = NoToken
    BY <1>2, <1>3 DEF Agree
  <1>5. x \notin DOMAIN c_packets
    <2> SUFFICES ASSUME x \in DOMAIN c_packets PROVE FALSE
      OBVIOUS
    <2>1. x.generation <= v.generations[x.flow][x.slot]
      BY DEF Agree
    <2>2. v.generations[f][k] + 1 <= v.generations[f][k]
      BY <1>2, <2>1
    <2> QED BY <1>2, <2>2
  <1>6. Length[p] \in 1..MaxPacketBytes
    BY WorldAssumption
  <1>7. k = s % Window
    BY DEF SlotOf
  <1>8. c_halted = v.halted /\ c_bases = v.bases /\ c_released = v.released
        /\ c_generations = v.generations
    BY DEF Agree
  <1> HIDE DEF x, k
  <1>9. Check!MayReceive(x, p)
    BY <1>2, <1>3, <1>4, <1>5, <1>6, <1>7, <1>8 DEF Check!MayReceive, Check!Receivable
  <1> QED BY <1>9 DEF x

LEMMA ReceiveRead ==
    ASSUME NEW v, NEW u, Agree(v), NEW f \in Flows, NEW s \in Serials, NEW p \in Payloads,
           SeesReceive(v, u, f, s, p), Check!Receive(TokenIn(u, f, s), p)
    PROVE  Agree(u)'
  <1> DEFINE x == TokenIn(u, f, s)
             k == SlotOf(s)
  <1>1. ViewOK(v)
    BY DEF Agree
  <1>2. /\ k \in Slots /\ s \in Nat /\ v.generations[f][k] \in Nat
        /\ u.generations[f][k] = v.generations[f][k] + 1
        /\ \A g \in Flows, j \in Slots : <<g, j>> # <<f, k>> =>
                    u.generations[g][j] = v.generations[g][j]
        /\ x \in Tokens /\ x.flow = f /\ x.serial = s /\ x.slot = k
        /\ x.generation = v.generations[f][k] + 1
        /\ s \notin v.here[f]
    BY <1>1, ReceiveToken
  <1>3. /\ \A r \in v.here[f] : SlotOf(r) # k
        /\ u.here = [v.here EXCEPT ![f] = v.here[f] \cup {s}]
        /\ u.generations = [v.generations EXCEPT ![f][k] = v.generations[f][k] + 1]
        /\ u.entry[f][s] = Fresh(p) /\ OthersSame(v, u, f, s)
        /\ u.bases = v.bases /\ u.next_issue = v.next_issue /\ u.next_ready = v.next_ready
        /\ u.next_consume = v.next_consume /\ u.credit = v.credit
        /\ u.global_credit = v.global_credit /\ u.released = v.released
        /\ u.halted = v.halted /\ u.pending_ready = v.pending_ready
    BY DEF SeesReceive
  <1>4. /\ u.here[f] = v.here[f] \cup {s}
        /\ \A g \in Flows : g # f => u.here[g] = v.here[g]
        /\ u.here \in [Flows -> SUBSET Serials]
    BY <1>1, <1>3 DEF ViewOK
  <1>5. ASSUME NEW g \in Flows, NEW r \in v.here[g]
        PROVE  /\ TokenIn(u, g, r) = TokenIn(v, g, r)
               /\ u.entry[g][r] = v.entry[g][r] /\ <<g, SlotOf(r)>> # <<f, k>>
               /\ SlotOf(r) \in Slots /\ r \in Serials
    <2>1. SlotOf(r) \in Slots /\ r \in Serials
      BY <1>1, ViewTokens
    <2>2. <<g, SlotOf(r)>> # <<f, k>>
      BY <1>3
    <2>3. u.generations[g][SlotOf(r)] = v.generations[g][SlotOf(r)]
      BY <1>2, <2>1, <2>2
    <2>4. <<g, r>> # <<f, s>>
      BY <1>2
    <2> QED BY <1>3, <2>1, <2>2, <2>3, <2>4 DEF TokenIn, OthersSame
  <1>6. ViewOK(u)
    <2>1. u.generations \in [Flows -> [Slots -> Nat]]
      BY <1>1, <1>2, <1>3 DEF ViewOK
    <2>2. \A g \in Flows : \A r \in u.here[g] : u.generations[g][SlotOf(r)] # 0
      <3> SUFFICES ASSUME NEW g \in Flows, NEW r \in u.here[g]
                   PROVE  u.generations[g][SlotOf(r)] # 0
        OBVIOUS
      <3>1. CASE r \in v.here[g]
        <4>1. u.generations[g][SlotOf(r)] = v.generations[g][SlotOf(r)]
          BY <1>2, <1>5, <3>1
        <4> QED BY <1>1, <3>1, <4>1 DEF ViewOK
      <3>2. CASE r \notin v.here[g]
        <4>1. g = f /\ r = s
          BY <1>4, <3>2
        <4> QED BY <1>2, <4>1
      <3> QED BY <3>1, <3>2
    <2>3. \A g \in Flows : \A r, t \in u.here[g] : SlotOf(r) = SlotOf(t) => r = t
      <3> SUFFICES ASSUME NEW g \in Flows, NEW r \in u.here[g], NEW t \in u.here[g],
                          SlotOf(r) = SlotOf(t)
                   PROVE  r = t
        OBVIOUS
      <3>1. CASE r \in v.here[g] /\ t \in v.here[g]
        BY <1>1, <3>1 DEF ViewOK
      <3>2. CASE r \notin v.here[g] \/ t \notin v.here[g]
        BY <1>3, <1>4, <3>2
      <3> QED BY <3>1, <3>2
    <2> HIDE DEF k
    <2> QED BY <1>1, <1>3, <1>4, <2>1, <2>2, <2>3 DEF ViewOK
  <1>7. /\ x \notin DOMAIN c_packets
        /\ c_packets' = [t \in DOMAIN c_packets \cup {x} |->
                            IF t = x THEN Check!NewPacket(p) ELSE c_packets[t]]
        /\ c_active_slots' = [c_active_slots EXCEPT ![f][k] = x]
        /\ c_generations' = [c_generations EXCEPT ![f][k] = x.generation]
        /\ UNCHANGED <<c_bases, c_next_issue, c_next_ready, c_next_consume, c_credit,
                       c_global_credit, c_released, c_pending_ready, c_halted>>
    <2>1. /\ x \notin DOMAIN c_packets
          /\ c_packets' = [t \in DOMAIN c_packets \cup {x} |->
                              IF t = x THEN Check!NewPacket(p) ELSE c_packets[t]]
          /\ c_active_slots' = [c_active_slots EXCEPT ![x.flow][x.slot] = x]
          /\ c_generations' = [c_generations EXCEPT ![x.flow][x.slot] = x.generation]
          /\ UNCHANGED <<c_bases, c_next_issue, c_next_ready, c_next_consume, c_credit,
                         c_global_credit, c_released, c_pending_ready, c_halted>>
      BY DEF Check!Receive, Check!MayReceive
    <2> HIDE DEF x, k
    <2> QED BY <1>2, <2>1
  <1>8. Check!NewPacket(p) = Fresh(p)
    BY DEF Check!NewPacket, Fresh, Entry, No
  <1> HIDE DEF x, k
  <1>9. /\ c_packets'[x] = Fresh(p) /\ DOMAIN c_packets' = DOMAIN c_packets \cup {x}
        /\ \A t \in DOMAIN c_packets : t # x /\ c_packets'[t] = c_packets[t]
    BY <1>7, <1>8
  <1>10. /\ c_active_slots \in [Flows -> [Slots -> Tokens \cup {NoToken}]]
         /\ c_active_slots'[f][k] = x
         /\ \A g \in Flows, j \in Slots : <<g, j>> # <<f, k>> =>
                c_active_slots'[g][j] = c_active_slots[g][j]
         /\ c_active_slots' \in [Flows -> [Slots -> Tokens \cup {NoToken}]]
    <2>1. c_active_slots \in [Flows -> [Slots -> Tokens \cup {NoToken}]]
      BY DEF Agree
    <2> QED BY <1>2, <1>7, <2>1
  <1>11. c_generations' = u.generations
    <2>1. c_generations = v.generations
      BY DEF Agree
    <2> QED BY <1>2, <1>3, <1>7, <2>1
  <1>12. ASSUME NEW g \in Flows, NEW r \in u.here[g]
         PROVE  /\ c_active_slots'[g][SlotOf(r)] = TokenIn(u, g, r)
                /\ TokenIn(u, g, r) \in DOMAIN c_packets'
                /\ c_packets'[TokenIn(u, g, r)] = u.entry[g][r]
    <2>1. CASE r \in v.here[g]
      <3>1. /\ c_active_slots[g][SlotOf(r)] = TokenIn(v, g, r)
            /\ TokenIn(v, g, r) \in DOMAIN c_packets
            /\ c_packets[TokenIn(v, g, r)] = v.entry[g][r]
        BY <2>1 DEF Agree
      <3> QED BY <1>5, <1>9, <1>10, <2>1, <3>1
    <2>2. CASE r \notin v.here[g]
      <3>1. g = f /\ r = s
        BY <1>4, <2>2
      <3> QED BY <1>3, <1>9, <1>10, <3>1 DEF x, k
    <2> QED BY <2>1, <2>2
  <1>13. ASSUME NEW g \in Flows, NEW j \in Slots, \A r \in u.here[g] : SlotOf(r) # j
         PROVE  c_active_slots'[g][j] = NoToken
    <2>1. <<g, j>> # <<f, k>>
      BY <1>4, <1>13 DEF k
    <2>2. \A r \in v.here[g] : SlotOf(r) # j
      BY <1>4, <1>13
    <2> QED BY <1>10, <2>1, <2>2 DEF Agree
  <1>14. ASSUME NEW t \in DOMAIN c_packets'
         PROVE  /\ t \in Tokens
                /\ t.generation <= u.generations[t.flow][t.slot]
                /\ \/ c_packets'[t].released /\ c_packets'[t].pending = {}
                   \/ t.serial \in u.here[t.flow] /\ t = TokenIn(u, t.flow, t.serial)
    <2>1. CASE t = x
      <3>1. t.generation <= u.generations[t.flow][t.slot]
        BY <1>2, <2>1
      <3> QED BY <1>2, <1>4, <2>1, <3>1 DEF x
    <2>2. CASE t # x
      <3>1. /\ t \in DOMAIN c_packets /\ c_packets'[t] = c_packets[t]
            /\ t \in Tokens /\ t.generation <= v.generations[t.flow][t.slot]
            /\ \/ c_packets[t].released /\ c_packets[t].pending = {}
               \/ t.serial \in v.here[t.flow] /\ t = TokenIn(v, t.flow, t.serial)
        BY <1>9, <2>2 DEF Agree
      <3>2. t.flow \in Flows /\ t.slot \in Slots /\ t.generation \in Nat
        BY <3>1 DEF Tokens
      <3>3. /\ v.generations[t.flow][t.slot] \in Nat
            /\ \/ u.generations[t.flow][t.slot] = v.generations[t.flow][t.slot]
               \/ u.generations[t.flow][t.slot] = v.generations[t.flow][t.slot] + 1
        <4>1. v.generations[t.flow][t.slot] \in Nat
          BY <1>1, <3>2 DEF ViewOK
        <4> QED BY <1>2, <3>2, <4>1
      <3>4. t.generation <= u.generations[t.flow][t.slot]
        BY <3>1, <3>2, <3>3
      <3>5. t.serial \in v.here[t.flow] =>
                /\ t.serial \in u.here[t.flow]
                /\ TokenIn(u, t.flow, t.serial) = TokenIn(v, t.flow, t.serial)
        BY <1>4, <1>5, <3>2
      <3> QED BY <3>1, <3>4, <3>5
    <2> QED BY <2>1, <2>2
  <1>15. /\ <<c_bases', c_next_issue', c_next_ready', c_next_consume'>>
                = <<u.bases, u.next_issue, u.next_ready, u.next_consume>>
         /\ c_credit' = u.credit /\ c_global_credit' = u.global_credit
         /\ c_released' = u.released /\ c_halted' = u.halted
         /\ c_pending_ready' = u.pending_ready
    BY <1>3, <1>7 DEF Agree
  <1> QED BY <1>6, <1>10, <1>11, <1>12, <1>13, <1>14, <1>15 DEF Agree

--------------------------------------------------------------------------------
(* The CPU hands a packet back.                                            *)
LEMMA ReleaseAllowed ==
    ASSUME NEW v, NEW u, Agree(v), NEW f \in Flows, NEW s \in Serials, NEW p,
           SeesRelease(v, u, f, s, p)
    PROVE  Check!MayRelease(TokenIn(v, f, s))
  <1> DEFINE x == TokenIn(v, f, s)
  <1>1. s \in v.here[f] /\ v.entry[f][s] = Consumed(p)
    BY DEF SeesRelease
  <1>2. x \in DOMAIN c_packets /\ c_packets[x] = Consumed(p) /\ c_active_slots[x.flow][x.slot] = x
    BY <1>1, SeenPacket
  <1>3. /\ c_packets[x].consumed = Yes /\ c_packets[x].released = No
        /\ c_packets[x].pending = {} /\ c_packets[x].charged = Yes
    BY <1>2, EntryFields DEF Consumed
  <1>4. c_packets[x].consumed /\ c_packets[x].charged /\ ~c_packets[x].released
    BY <1>3 DEF Yes, No
  <1> HIDE DEF x
  <1>5. Check!MayRelease(x)
    BY <1>2, <1>3, <1>4 DEF Check!MayRelease, Check!ActivePacket
  <1> QED BY <1>5 DEF x

(* Where the base comes to rest is decided by what was handed back.        *)
LEMMA OneResting ==
    ASSUME NEW from0 \in Int, NEW back, NEW b \in Int, NEW d \in Int,
           b >= from0, d >= from0, b \notin back, d \notin back,
           from0..(b - 1) \subseteq back, from0..(d - 1) \subseteq back
    PROVE  b = d
  <1>1. ~(b < d)
    <2> SUFFICES ASSUME b < d PROVE FALSE
      OBVIOUS
    <2>1. b \in from0..(d - 1)
      OBVIOUS
    <2> QED BY <2>1
  <1>2. ~(d < b)
    <2> SUFFICES ASSUME d < b PROVE FALSE
      OBVIOUS
    <2>1. d \in from0..(b - 1)
      OBVIOUS
    <2> QED BY <2>1
  <1> QED BY <1>1, <1>2

LEMMA ReleaseRests ==
    ASSUME NEW v, NEW u, Agree(v), NEW f \in Flows, NEW s \in Serials, NEW p,
           SeesRelease(v, u, f, s, p),
           Check!AdvanceBases(f, c_released[f] \cup {s})
    PROVE  /\ c_bases' = u.bases /\ c_released' = u.released
           /\ u.bases \in [Flows -> Nat] /\ u.released \in [Flows -> SUBSET Serials]
  <1> DEFINE back == v.released[f] \cup {s}
             b0 == v.bases[f]
  <1>1. c_released = v.released /\ c_bases = v.bases
    BY DEF Agree
  <1>2. /\ v.bases \in [Flows -> Nat] /\ v.released \in [Flows -> SUBSET Serials]
        /\ Window \in Nat
    BY ConfigAssumption DEF Agree, ViewOK
  <1>3. b0 \in Nat
    BY <1>2
  <1>4. PICK b \in b0..(b0 + Window) :
            /\ b \notin back /\ b0..(b - 1) \subseteq back
            /\ u.bases = [v.bases EXCEPT ![f] = b]
            /\ u.released = [v.released EXCEPT ![f] = back \ (b0..(b - 1))]
    BY DEF SeesRelease
  <1>5. PICK d \in b0..(b0 + Window) :
            /\ d \notin back /\ b0..(d - 1) \subseteq back
            /\ c_bases' = [c_bases EXCEPT ![f] = d]
            /\ c_released' = [c_released EXCEPT ![f] = back \ (b0..(d - 1))]
    BY <1>1 DEF Check!AdvanceBases
  <1>6. b \in Int /\ d \in Int /\ b >= b0 /\ d >= b0 /\ b \in Nat
    BY <1>2, <1>3
  <1>7. back \in SUBSET Serials
    BY <1>2
  <1> HIDE DEF back, b0
  <1>8. b = d
    BY <1>3, <1>4, <1>5, <1>6, OneResting
  <1>9. back \ (b0..(b - 1)) \in SUBSET Serials
    BY <1>7
  <1> QED BY <1>1, <1>2, <1>4, <1>5, <1>6, <1>8, <1>9

LEMMA ReleaseRead ==
    ASSUME NEW v, NEW u, Agree(v), NEW f \in Flows, NEW s \in Serials, NEW p \in Payloads,
           SeesRelease(v, u, f, s, p), Check!Release(TokenIn(v, f, s))
    PROVE  Agree(u)'
  <1> DEFINE x == TokenIn(v, f, s)
             k == SlotOf(s)
  <1>1. ViewOK(v)
    BY DEF Agree
  <1>2. /\ s \in v.here[f] /\ v.entry[f][s] = Consumed(p) /\ OthersSame(v, u, f, s)
        /\ u.here = [v.here EXCEPT ![f] = v.here[f] \ {s}]
        /\ u.credit = [v.credit EXCEPT ![f] = v.credit[f] - Check!Charge(p)]
        /\ u.global_credit = v.global_credit - Check!Charge(p)
        /\ u.next_issue = v.next_issue /\ u.next_ready = v.next_ready
        /\ u.next_consume = v.next_consume /\ u.generations = v.generations
        /\ u.halted = v.halted /\ u.pending_ready = v.pending_ready
    BY DEF SeesRelease
  <1>3. /\ x \in DOMAIN c_packets /\ c_packets[x] = Consumed(p)
        /\ x.flow = f /\ x.serial = s /\ x.slot = k /\ x \in Tokens
    BY <1>1, <1>2, SeenPacket, ViewTokens
  <1>4. c_packets[x].payload = p /\ c_packets[x].pending = {}
    BY <1>3, EntryFields DEF Consumed
  <1>5. k \in Slots
    BY SlotOfSerial
  <1>6. /\ c_packets' = [c_packets EXCEPT ![x] = [c_packets[x] EXCEPT !.released = TRUE]]
        /\ c_credit' = [c_credit EXCEPT ![f] = c_credit[f] - Check!Charge(p)]
        /\ c_global_credit' = c_global_credit - Check!Charge(p)
        /\ c_active_slots' = [c_active_slots EXCEPT ![f][k] = NoToken]
        /\ Check!AdvanceBases(f, c_released[f] \cup {s})
        /\ UNCHANGED <<c_next_issue, c_next_ready, c_next_consume, c_pending_ready,
                       c_generations, c_halted>>
    <2>1. /\ c_packets' = [c_packets EXCEPT ![x].released = TRUE]
          /\ c_credit' = [c_credit EXCEPT ![x.flow] = @ - Check!Charge(c_packets[x].payload)]
          /\ c_global_credit' = c_global_credit - Check!Charge(c_packets[x].payload)
          /\ c_active_slots' = [c_active_slots EXCEPT ![x.flow][x.slot] = NoToken]
          /\ Check!AdvanceBases(x.flow, c_released[x.flow] \cup {x.serial})
          /\ UNCHANGED <<c_next_issue, c_next_ready, c_next_consume, c_pending_ready,
                         c_generations, c_halted>>
      BY DEF Check!Release
    <2> HIDE DEF x, k
    <2> QED BY <1>3, <1>4, <2>1
  <1>7. /\ c_bases' = u.bases /\ c_released' = u.released
        /\ u.bases \in [Flows -> Nat] /\ u.released \in [Flows -> SUBSET Serials]
    BY <1>6, ReleaseRests
  <1>8. \A g, t : TokenIn(u, g, t) = TokenIn(v, g, t)
    BY <1>2 DEF TokenIn
  <1>9. /\ u.here[f] = v.here[f] \ {s}
        /\ \A g \in Flows : g # f => u.here[g] = v.here[g]
        /\ u.here \in [Flows -> SUBSET Serials]
    BY <1>1, <1>2 DEF ViewOK
  <1>10. ViewOK(u)
    <2>1. /\ u.credit \in [Flows -> Int] /\ u.global_credit \in Int
      <3>1. v.credit \in [Flows -> Int] /\ v.global_credit \in Int
        BY <1>1 DEF ViewOK
      <3>2. Check!Charge(p) \in Int
        BY WorldAssumption DEF Check!Charge, Check!LineBytes
      <3> HIDE DEF x, k
      <3> QED BY <1>2, <3>1, <3>2
    <2>2. /\ \A g \in Flows : \A r \in u.here[g] : r \in v.here[g]
      BY <1>9
    <2>3. /\ \A g \in Flows : \A r \in u.here[g] : u.generations[g][SlotOf(r)] # 0
          /\ \A g \in Flows : \A r, t \in u.here[g] : SlotOf(r) = SlotOf(t) => r = t
      BY <1>1, <1>2, <2>2 DEF ViewOK
    <2> HIDE DEF x, k
    <2> QED BY <1>1, <1>2, <1>7, <1>9, <2>1, <2>3 DEF ViewOK
  <1>11. /\ c_packets'[x].released /\ c_packets'[x].pending = {}
         /\ DOMAIN c_packets' = DOMAIN c_packets
         /\ \A t \in DOMAIN c_packets : t # x => c_packets'[t] = c_packets[t]
    <2>1. /\ c_packets'[x] = [c_packets[x] EXCEPT !.released = TRUE]
          /\ DOMAIN c_packets' = DOMAIN c_packets
          /\ \A t \in DOMAIN c_packets : t # x => c_packets'[t] = c_packets[t]
      BY <1>3, <1>6
    <2>2. /\ [Consumed(p) EXCEPT !.released = TRUE].released
          /\ [Consumed(p) EXCEPT !.released = TRUE].pending = {}
      BY DEF Consumed, Entry
    <2> HIDE DEF x
    <2> QED BY <1>3, <2>1, <2>2
  <1>12. /\ c_active_slots \in [Flows -> [Slots -> Tokens \cup {NoToken}]]
         /\ c_active_slots'[f][k] = NoToken
         /\ \A g \in Flows, j \in Slots : <<g, j>> # <<f, k>> =>
                c_active_slots'[g][j] = c_active_slots[g][j]
         /\ c_active_slots' \in [Flows -> [Slots -> Tokens \cup {NoToken}]]
    <2>1. c_active_slots \in [Flows -> [Slots -> Tokens \cup {NoToken}]]
      BY DEF Agree
    <2> HIDE DEF x, k
    <2> QED BY <1>5, <1>6, <2>1
  <1>13. ASSUME NEW g \in Flows, NEW r \in u.here[g]
         PROVE  /\ r \in v.here[g] /\ <<g, r>> # <<f, s>> /\ <<g, SlotOf(r)>> # <<f, k>>
                /\ SlotOf(r) \in Slots /\ TokenIn(v, g, r) # x
    <2>1. r \in v.here[g] /\ <<g, r>> # <<f, s>>
      BY <1>9
    <2>2. SlotOf(r) \in Slots /\ TokenIn(v, g, r) # x
      BY <1>1, <1>2, <2>1, ViewTokens, ViewTokensDiffer
    <2>3. <<g, SlotOf(r)>> # <<f, k>>
      BY <1>1, <1>2, <2>1 DEF ViewOK
    <2> QED BY <2>1, <2>2, <2>3
  <1> HIDE DEF x
  <1>14. ASSUME NEW g \in Flows, NEW r \in u.here[g]
         PROVE  /\ c_active_slots'[g][SlotOf(r)] = TokenIn(u, g, r)
                /\ TokenIn(u, g, r) \in DOMAIN c_packets'
                /\ c_packets'[TokenIn(u, g, r)] = u.entry[g][r]
    <2>1. /\ r \in v.here[g] /\ <<g, r>> # <<f, s>> /\ <<g, SlotOf(r)>> # <<f, k>>
          /\ SlotOf(r) \in Slots /\ TokenIn(v, g, r) # x
      BY <1>13
    <2>2. /\ c_active_slots[g][SlotOf(r)] = TokenIn(v, g, r)
          /\ TokenIn(v, g, r) \in DOMAIN c_packets
          /\ c_packets[TokenIn(v, g, r)] = v.entry[g][r]
      BY <2>1 DEF Agree
    <2>3. u.entry[g][r] = v.entry[g][r]
      BY <1>2, <2>1 DEF OthersSame
    <2> HIDE DEF k
    <2> QED BY <1>8, <1>11, <1>12, <2>1, <2>2, <2>3
  <1>15. ASSUME NEW g \in Flows, NEW j \in Slots, \A r \in u.here[g] : SlotOf(r) # j
         PROVE  c_active_slots'[g][j] = NoToken
    <2>1. CASE <<g, j>> = <<f, k>>
      BY <1>12, <2>1
    <2>2. CASE <<g, j>> # <<f, k>>
      <3>1. \A r \in v.here[g] : SlotOf(r) # j
        BY <1>9, <1>15, <2>2 DEF k
      <3>2. c_active_slots[g][j] = NoToken
        BY <3>1 DEF Agree
      <3> HIDE DEF k
      <3> QED BY <1>12, <2>2, <3>2
    <2> QED BY <2>1, <2>2
  <1>16. ASSUME NEW t \in DOMAIN c_packets'
         PROVE  /\ t \in Tokens
                /\ t.generation <= u.generations[t.flow][t.slot]
                /\ \/ c_packets'[t].released /\ c_packets'[t].pending = {}
                   \/ t.serial \in u.here[t.flow] /\ t = TokenIn(u, t.flow, t.serial)
    <2>1. /\ t \in DOMAIN c_packets
          /\ t \in Tokens /\ t.generation <= v.generations[t.flow][t.slot]
          /\ \/ c_packets[t].released /\ c_packets[t].pending = {}
             \/ t.serial \in v.here[t.flow] /\ t = TokenIn(v, t.flow, t.serial)
      BY <1>11 DEF Agree
    <2>2. t.generation <= u.generations[t.flow][t.slot]
      BY <1>2, <2>1
    <2>3. CASE t = x
      BY <1>11, <2>1, <2>2, <2>3
    <2>4. CASE t # x
      <3>1. c_packets'[t] = c_packets[t] /\ t.flow \in Flows
        BY <1>11, <2>1, <2>4 DEF Tokens
      <3>2. t.serial \in v.here[t.flow] /\ t = TokenIn(v, t.flow, t.serial) =>
                t.serial \in u.here[t.flow]
        BY <1>9, <2>4, <3>1 DEF x
      <3> QED BY <1>8, <2>1, <2>2, <3>1, <3>2
    <2> QED BY <2>3, <2>4
  <1>17. /\ <<c_next_issue', c_next_ready', c_next_consume'>>
                = <<u.next_issue, u.next_ready, u.next_consume>>
         /\ c_credit' = u.credit /\ c_global_credit' = u.global_credit
         /\ c_generations' = u.generations
         /\ c_halted' = u.halted /\ c_pending_ready' = u.pending_ready
    <2>1. /\ <<c_next_issue, c_next_ready, c_next_consume>>
                = <<v.next_issue, v.next_ready, v.next_consume>>
          /\ c_credit = v.credit /\ c_global_credit = v.global_credit
          /\ c_generations = v.generations
          /\ c_halted = v.halted /\ c_pending_ready = v.pending_ready
      BY DEF Agree
    <2> HIDE DEF k
    <2> QED BY <1>2, <1>6, <2>1
  <1> HIDE DEF k
  <1> QED BY <1>7, <1>10, <1>12, <1>14, <1>15, <1>16, <1>17 DEF Agree

--------------------------------------------------------------------------------
(* The checker's own reading of an event is the class's writing of it.     *)

LEMMA ChargeIsSize == \A p : Check!Charge(p) = aligned_size(Length[p])
  BY DEF Check!Charge, Check!LineBytes, aligned_size, LineBytes

LEMMA BytesAreLines == \A p : Check!BytesOf(p) = Lines(p)
  BY ChargeIsSize DEF Check!BytesOf, Check!LineBytes, Lines, LineNumbers, LineBytes

LEMMA DescriptorsSame ==
    ASSUME NEW t \in Tokens, NEW p
    PROVE  Check!DescriptorOf(t, p) = Descriptor(t, Length[p])
  <1> SUFFICES ASSUME NEW k \in Fields
               PROVE  (IF k = "length" THEN Length[p] ELSE t[k])
                        = CASE k = "flow"       -> t.flow
                            [] k = "serial"     -> t.serial
                            [] k = "slot"       -> t.slot
                            [] k = "generation" -> t.generation
                            [] k = "length"     -> Length[p]
    BY DEF Check!DescriptorOf, Descriptor
  <1>1. k \in {"flow", "serial", "slot", "generation", "length"}
    BY WorldAssumption
  <1>2. CASE k = "length"
    BY <1>2
  <1>3. CASE k = "flow"
    BY <1>3
  <1>4. CASE k = "serial"
    BY <1>4
  <1>5. CASE k = "slot"
    BY <1>5
  <1>6. CASE k = "generation"
    BY <1>6
  <1> QED BY <1>1, <1>2, <1>3, <1>4, <1>5, <1>6

LEMMA EventAllowed ==
    /\ \A t, p : Check!Allowed(ReceiveEvent(t, p)) = Check!MayReceive(t, p)
    /\ \A t, p, c : Check!Allowed(IssueEvent(t, p, c))
                        = Check!MayIssue(t, c, Check!ContentOf(t, p, c))
    /\ \A t, p, c : Check!Allowed(VisibleEvent(t, p, c))
                        = Check!MayBecomeVisible(t, c, Check!ContentOf(t, p, c))
    /\ \A t, d : Check!Allowed(ConsumeEvent(t, d))
                        = Check!MayConsume(t, d.descriptor, d.lines)
    /\ \A t : Check!Allowed(ReleaseEvent(t)) = Check!MayRelease(t)
    /\ \A f, s : Check!Allowed(HaltEvent(f, s)) = Check!MayHalt(f, s)
  <1>1. \A t, p : Check!Allowed(ReceiveEvent(t, p)) = Check!MayReceive(t, p)
    BY DEF Check!Allowed, ReceiveEvent
  <1>2. \A t, p, c : Check!Allowed(IssueEvent(t, p, c))
                        = Check!MayIssue(t, c, Check!ContentOf(t, p, c))
    BY DEF Check!Allowed, IssueEvent
  <1>3. \A t, p, c : Check!Allowed(VisibleEvent(t, p, c))
                        = Check!MayBecomeVisible(t, c, Check!ContentOf(t, p, c))
    BY DEF Check!Allowed, VisibleEvent
  <1>4. \A t, d : Check!Allowed(ConsumeEvent(t, d))
                        = Check!MayConsume(t, d.descriptor, d.lines)
    BY DEF Check!Allowed, ConsumeEvent
  <1>5. \A t : Check!Allowed(ReleaseEvent(t)) = Check!MayRelease(t)
    BY DEF Check!Allowed, ReleaseEvent
  <1>6. \A f, s : Check!Allowed(HaltEvent(f, s)) = Check!MayHalt(f, s)
    BY DEF Check!Allowed, HaltEvent
  <1> QED BY <1>1, <1>2, <1>3, <1>4, <1>5, <1>6

LEMMA EventRead ==
    /\ \A t, p : Check!Read(ReceiveEvent(t, p)) => Check!Receive(t, p)
    /\ \A t, p, c : Check!Read(IssueEvent(t, p, c))
                        => Check!Issue(t, c, Check!ContentOf(t, p, c))
    /\ \A t, p, c : Check!Read(VisibleEvent(t, p, c))
                        => Check!Visible(t, c, Check!ContentOf(t, p, c))
    /\ \A t, d : Check!Read(ConsumeEvent(t, d)) => Check!Consume(t, d.descriptor, d.lines)
    /\ \A t : Check!Read(ReleaseEvent(t)) => Check!Release(t)
    /\ \A f, s : Check!Read(HaltEvent(f, s)) => Check!Halt(f, s)
  <1>1. \A t, p : Check!Read(ReceiveEvent(t, p)) => Check!Receive(t, p)
    BY DEF Check!Read, ReceiveEvent
  <1>2. \A t, p, c : Check!Read(IssueEvent(t, p, c))
                        => Check!Issue(t, c, Check!ContentOf(t, p, c))
    BY DEF Check!Read, IssueEvent
  <1>3. \A t, p, c : Check!Read(VisibleEvent(t, p, c))
                        => Check!Visible(t, c, Check!ContentOf(t, p, c))
    BY DEF Check!Read, VisibleEvent
  <1>4. \A t, d : Check!Read(ConsumeEvent(t, d)) => Check!Consume(t, d.descriptor, d.lines)
    BY DEF Check!Read, ConsumeEvent
  <1>5. \A t : Check!Read(ReleaseEvent(t)) => Check!Release(t)
    BY DEF Check!Read, ReleaseEvent
  <1>6. \A f, s : Check!Read(HaltEvent(f, s)) => Check!Halt(f, s)
    BY DEF Check!Read, HaltEvent
  <1> QED BY <1>1, <1>2, <1>3, <1>4, <1>5, <1>6

(* An event that leads from the checker's view to another is allowed ...   *)
LEMMA SeenAllowed ==
    ASSUME NEW v, NEW e, NEW u, Agree(v), Sees(v, e, u)
    PROVE  Check!Allowed(e)
  <1>1. CASE SeesWrite(v, e, u)
    <2>1. PICK f \in Flows, s \in Serials, p \in Payloads :
            \E X \in SUBSET Data(p), c \in Data(p) :
              LET t == TokenIn(v, f, s)
              IN  \/ e = IssueEvent(t, p, c) /\ SeesFirst(v, u, f, s, p, c)
                  \/ e = IssueEvent(t, p, c) /\ SeesFurther(v, u, f, s, p, X, c)
                  \/ e = IssueEvent(t, p, Check!ReadyComponent) /\ SeesCommit(v, u, f, s, p)
                  \/ e = VisibleEvent(t, p, c) /\ SeesData(v, u, f, s, p, X, c)
                  \/ e = VisibleEvent(t, p, Check!ReadyComponent) /\ SeesPublished(v, u, f, s, p)
      BY <1>1 DEF SeesWrite
    <2> DEFINE t == TokenIn(v, f, s)
    <2>2. PICK X \in SUBSET Data(p), c \in Data(p) :
                  \/ e = IssueEvent(t, p, c) /\ SeesFirst(v, u, f, s, p, c)
                  \/ e = IssueEvent(t, p, c) /\ SeesFurther(v, u, f, s, p, X, c)
                  \/ e = IssueEvent(t, p, Check!ReadyComponent) /\ SeesCommit(v, u, f, s, p)
                  \/ e = VisibleEvent(t, p, c) /\ SeesData(v, u, f, s, p, X, c)
                  \/ e = VisibleEvent(t, p, Check!ReadyComponent) /\ SeesPublished(v, u, f, s, p)
      BY <2>1
    <2>3. CASE e = IssueEvent(t, p, c) /\ SeesFirst(v, u, f, s, p, c)
      BY <2>3, FirstAllowed, EventAllowed
    <2>4. CASE e = IssueEvent(t, p, c) /\ SeesFurther(v, u, f, s, p, X, c)
      BY <2>4, FurtherAllowed, EventAllowed
    <2>5. CASE e = IssueEvent(t, p, Check!ReadyComponent) /\ SeesCommit(v, u, f, s, p)
      BY <2>5, CommitAllowed, EventAllowed
    <2>6. CASE e = VisibleEvent(t, p, c) /\ SeesData(v, u, f, s, p, X, c)
      BY <2>6, DataAllowed, EventAllowed
    <2>7. CASE e = VisibleEvent(t, p, Check!ReadyComponent) /\ SeesPublished(v, u, f, s, p)
      BY <2>7, PublishedAllowed, EventAllowed
    <2> QED BY <2>2, <2>3, <2>4, <2>5, <2>6, <2>7
  <1>2. ASSUME NEW f \in Flows, NEW s \in Serials, NEW p \in Payloads,
               e = ReceiveEvent(TokenIn(u, f, s), p), SeesReceive(v, u, f, s, p)
        PROVE  Check!Allowed(e)
    BY <1>2, ReceiveAllowed, EventAllowed
  <1>3. ASSUME NEW f \in Flows, NEW s \in Serials, NEW p \in Payloads,
               e = ConsumeEvent(TokenIn(v, f, s), Image(TokenIn(v, f, s), p)),
               SeesConsume(v, u, f, s, p)
        PROVE  Check!Allowed(e)
    <2> DEFINE t == TokenIn(v, f, s)
    <2>1. s \in v.here[f] /\ ViewOK(v)
      BY <1>3 DEF SeesConsume, Agree
    <2>2. t \in Tokens
      BY <2>1, ViewTokens
    <2>3. /\ Image(t, p).descriptor = Check!DescriptorOf(t, p)
          /\ Image(t, p).lines = Check!BytesOf(p)
      BY <2>2, DescriptorsSame, BytesAreLines DEF Image
    <2>4. Check!MayConsume(t, Image(t, p).descriptor, Image(t, p).lines)
      BY <1>3, <2>3, ConsumeAllowed
    <2> HIDE DEF t
    <2> QED BY <1>3, <2>4, EventAllowed DEF t
  <1>4. ASSUME NEW f \in Flows, NEW s \in Serials, NEW p \in Payloads,
               e = ReleaseEvent(TokenIn(v, f, s)), SeesRelease(v, u, f, s, p)
        PROVE  Check!Allowed(e)
    BY <1>4, ReleaseAllowed, EventAllowed
  <1>5. ASSUME NEW f \in Flows, e = HaltEvent(f, v.next_issue[f]), SeesHalt(v, u, f)
        PROVE  Check!Allowed(e)
    BY <1>5, HaltAllowed, EventAllowed
  <1> QED BY <1>1, <1>2, <1>3, <1>4, <1>5 DEF Sees, SeesCall

(* ... and having read it the checker has that other view.                 *)
LEMMA SeenRead ==
    ASSUME NEW v, NEW e, NEW u, Agree(v), Sees(v, e, u), Check!Read(e)
    PROVE  Agree(u)'
  <1>1. CASE SeesWrite(v, e, u)
    <2>1. PICK f \in Flows, s \in Serials, p \in Payloads :
            \E X \in SUBSET Data(p), c \in Data(p) :
              LET t == TokenIn(v, f, s)
              IN  \/ e = IssueEvent(t, p, c) /\ SeesFirst(v, u, f, s, p, c)
                  \/ e = IssueEvent(t, p, c) /\ SeesFurther(v, u, f, s, p, X, c)
                  \/ e = IssueEvent(t, p, Check!ReadyComponent) /\ SeesCommit(v, u, f, s, p)
                  \/ e = VisibleEvent(t, p, c) /\ SeesData(v, u, f, s, p, X, c)
                  \/ e = VisibleEvent(t, p, Check!ReadyComponent) /\ SeesPublished(v, u, f, s, p)
      BY <1>1 DEF SeesWrite
    <2> DEFINE t == TokenIn(v, f, s)
    <2>2. PICK X \in SUBSET Data(p), c \in Data(p) :
                  \/ e = IssueEvent(t, p, c) /\ SeesFirst(v, u, f, s, p, c)
                  \/ e = IssueEvent(t, p, c) /\ SeesFurther(v, u, f, s, p, X, c)
                  \/ e = IssueEvent(t, p, Check!ReadyComponent) /\ SeesCommit(v, u, f, s, p)
                  \/ e = VisibleEvent(t, p, c) /\ SeesData(v, u, f, s, p, X, c)
                  \/ e = VisibleEvent(t, p, Check!ReadyComponent) /\ SeesPublished(v, u, f, s, p)
      BY <2>1
    <2>3. CASE e = IssueEvent(t, p, c) /\ SeesFirst(v, u, f, s, p, c)
      BY <2>3, FirstRead, EventRead
    <2>4. CASE e = IssueEvent(t, p, c) /\ SeesFurther(v, u, f, s, p, X, c)
      BY <2>4, FurtherRead, EventRead
    <2>5. CASE e = IssueEvent(t, p, Check!ReadyComponent) /\ SeesCommit(v, u, f, s, p)
      BY <2>5, CommitRead, EventRead
    <2>6. CASE e = VisibleEvent(t, p, c) /\ SeesData(v, u, f, s, p, X, c)
      BY <2>6, DataRead, EventRead
    <2>7. CASE e = VisibleEvent(t, p, Check!ReadyComponent) /\ SeesPublished(v, u, f, s, p)
      BY <2>7, PublishedRead, EventRead
    <2> QED BY <2>2, <2>3, <2>4, <2>5, <2>6, <2>7
  <1>2. ASSUME NEW f \in Flows, NEW s \in Serials, NEW p \in Payloads,
               e = ReceiveEvent(TokenIn(u, f, s), p), SeesReceive(v, u, f, s, p)
        PROVE  Agree(u)'
    BY <1>2, ReceiveRead, EventRead
  <1>3. ASSUME NEW f \in Flows, NEW s \in Serials, NEW p \in Payloads,
               e = ConsumeEvent(TokenIn(v, f, s), Image(TokenIn(v, f, s), p)),
               SeesConsume(v, u, f, s, p)
        PROVE  Agree(u)'
    BY <1>3, ConsumeRead, EventRead
  <1>4. ASSUME NEW f \in Flows, NEW s \in Serials, NEW p \in Payloads,
               e = ReleaseEvent(TokenIn(v, f, s)), SeesRelease(v, u, f, s, p)
        PROVE  Agree(u)'
    BY <1>4, ReleaseRead, EventRead
  <1>5. ASSUME NEW f \in Flows, e = HaltEvent(f, v.next_issue[f]), SeesHalt(v, u, f)
        PROVE  Agree(u)'
    BY <1>5, HaltRead, EventRead
  <1> QED BY <1>1, <1>2, <1>3, <1>4, <1>5 DEF Sees, SeesCall

--------------------------------------------------------------------------------
(* The class: every call leads from the view it began with to the one it   *)
(* ends with, by the events it emits.                                      *)

IsView(v, phases, writes, publish) == v = ViewAt(phases, writes, publish)
IsNow(v)  == v = Now
IsNext(u) == u = Now'

LEMMA ViewFields ==
    ASSUME NEW phases, NEW writes, NEW publish, NEW v,
           IsView(v, phases, writes, publish)
    PROVE  /\ v.bases = base /\ v.next_issue = next_issue /\ v.next_ready = publish
           /\ v.next_consume = next_consume /\ v.credit = credit
           /\ v.global_credit = global_credit /\ v.released = released
           /\ v.generations = generations
           /\ v.halted = [f \in Flows |-> IF halted[f] THEN next_issue[f] ELSE NotHalted]
           /\ v.pending_ready = [f \in Flows |-> ReadyInFlight(phases, publish, f)]
           /\ v.here = [f \in Flows |-> {s \in Serials : phases[f][s] # "ABSENT"}]
           /\ \A f \in Flows, s \in Serials : v.entry[f][s] = EntryAt(phases, writes, f, s)
  BY DEF IsView, ViewAt

LEMMA NowFields ==
    ASSUME NEW v, IsNow(v)
    PROVE  /\ v.bases = base /\ v.next_issue = next_issue /\ v.next_ready = next_publish
           /\ v.next_consume = next_consume /\ v.credit = credit
           /\ v.global_credit = global_credit /\ v.released = released
           /\ v.generations = generations
           /\ v.halted = [f \in Flows |-> IF halted[f] THEN next_issue[f] ELSE NotHalted]
           /\ v.pending_ready = [f \in Flows |-> ReadyInFlight(phase, next_publish, f)]
           /\ v.here = [f \in Flows |-> {s \in Serials : phase[f][s] # "ABSENT"}]
           /\ \A f \in Flows, s \in Serials :
                v.entry[f][s] = EntryAt(phase, data_writes, f, s)
  BY ViewFields DEF Now, IsNow, IsView

LEMMA NextFields ==
    ASSUME NEW u, IsNext(u)
    PROVE  /\ u.bases = base' /\ u.next_issue = next_issue' /\ u.next_ready = next_publish'
           /\ u.next_consume = next_consume' /\ u.credit = credit'
           /\ u.global_credit = global_credit' /\ u.released = released'
           /\ u.generations = generations'
           /\ u.halted = [f \in Flows |-> IF halted'[f] THEN next_issue'[f] ELSE NotHalted]
           /\ u.pending_ready = [f \in Flows |-> ReadyInFlight(phase, next_publish, f)']
           /\ u.here = [f \in Flows |-> {s \in Serials : phase'[f][s] # "ABSENT"}]
           /\ \A f \in Flows, s \in Serials :
                u.entry[f][s] = EntryAt(phase, data_writes, f, s)'
  BY DEF IsNext, Now, ViewAt

(* What is known of a packet depends on that packet alone.                 *)
LEMMA SameEntry ==
    ASSUME NEW f, NEW s, phase'[f][s] = phase[f][s], payload'[f][s] = payload[f][s],
           data_writes'[f][s] = data_writes[f][s]
    PROVE  EntryAt(phase, data_writes, f, s)' = EntryAt(phase, data_writes, f, s)
  BY DEF EntryAt, Left

LEMMA SameInFlight ==
    ASSUME NEW f, next_publish'[f] = next_publish[f],
           phase'[f][next_publish[f]] = "COMMITTING"
                <=> phase[f][next_publish[f]] = "COMMITTING",
           generation'[f][next_publish[f]] = generation[f][next_publish[f]]
    PROVE  ReadyInFlight(phase, next_publish, f)' = ReadyInFlight(phase, next_publish, f)
  BY DEF ReadyInFlight, TokenOf

LEMMA OwnToken ==
    ASSUME IndInv, NEW v, v.generations = generations, NEW f \in Flows, NEW s \in Serials,
           phase[f][s] # "ABSENT"
    PROVE  TokenIn(v, f, s) = TokenOf(f, s) /\ TokenOf(f, s) \in Tokens
  <1>1. generation[f][s] = generations[f][SlotOf(s)] /\ generation[f][s] > 0
        /\ generation[f][s] \in Nat
    BY DEF IndInv, PacketInWindow, TypeOK
  <1>2. generation[f][s] \in Nat \ {0}
    BY <1>1
  <1>3. TokenOf(f, s) \in Tokens
    BY <1>2, TokenTyped DEF TokenOf
  <1> QED BY <1>1, <1>3 DEF TokenIn, TokenOf

(* The two views of a call side by side.                                   *)
LEMMA CallFields ==
    ASSUME NEW v, IsNow(v), NEW u, IsNext(u)
    PROVE  /\ v.bases = base /\ v.next_issue = next_issue /\ v.next_ready = next_publish
           /\ v.next_consume = next_consume /\ v.credit = credit
           /\ v.global_credit = global_credit /\ v.released = released
           /\ v.generations = generations
           /\ v.here = [f \in Flows |-> {s \in Serials : phase[f][s] # "ABSENT"}]
           /\ \A f \in Flows, s \in Serials :
                v.entry[f][s] = EntryAt(phase, data_writes, f, s)
           /\ u.bases = base' /\ u.next_issue = next_issue' /\ u.next_ready = next_publish'
           /\ u.next_consume = next_consume' /\ u.credit = credit'
           /\ u.global_credit = global_credit' /\ u.released = released'
           /\ u.generations = generations'
           /\ u.here = [f \in Flows |-> {s \in Serials : phase'[f][s] # "ABSENT"}]
           /\ \A f \in Flows, s \in Serials :
                u.entry[f][s] = EntryAt(phase, data_writes, f, s)'
  <1>1. /\ v.bases = base /\ v.next_issue = next_issue /\ v.next_ready = next_publish
        /\ v.next_consume = next_consume /\ v.credit = credit
        /\ v.global_credit = global_credit /\ v.released = released
        /\ v.generations = generations
        /\ v.here = [f \in Flows |-> {s \in Serials : phase[f][s] # "ABSENT"}]
        /\ \A f \in Flows, s \in Serials :
                v.entry[f][s] = EntryAt(phase, data_writes, f, s)
    BY NowFields
  <1>2. /\ u.bases = base' /\ u.next_issue = next_issue' /\ u.next_ready = next_publish'
        /\ u.next_consume = next_consume' /\ u.credit = credit'
        /\ u.global_credit = global_credit' /\ u.released = released'
        /\ u.generations = generations'
        /\ u.here = [f \in Flows |-> {s \in Serials : phase'[f][s] # "ABSENT"}]
        /\ \A f \in Flows, s \in Serials :
                u.entry[f][s] = EntryAt(phase, data_writes, f, s)'
    BY NextFields
  <1> QED BY <1>1, <1>2

LEMMA EntryNow ==
    ASSUME NEW v, IsNow(v), NEW f \in Flows, NEW s \in Serials
    PROVE  v.entry[f][s] = EntryAt(phase, data_writes, f, s)
  <1>1. \A g \in Flows, t \in Serials : v.entry[g][t] = EntryAt(phase, data_writes, g, t)
    BY NowFields
  <1> QED BY <1>1

LEMMA EntryNext ==
    ASSUME NEW u, IsNext(u), NEW f \in Flows, NEW s \in Serials
    PROVE  u.entry[f][s] = EntryAt(phase, data_writes, f, s)'
  <1>1. \A g \in Flows, t \in Serials : u.entry[g][t] = EntryAt(phase, data_writes, g, t)'
    BY NextFields
  <1> QED BY <1>1

LEMMA HaltFields ==
    ASSUME NEW v, IsNow(v), NEW u, IsNext(u)
    PROVE  /\ v.halted = [f \in Flows |-> IF halted[f] THEN next_issue[f] ELSE NotHalted]
           /\ u.halted = [f \in Flows |-> IF halted'[f] THEN next_issue'[f] ELSE NotHalted]
  <1>1. v.halted = [f \in Flows |-> IF halted[f] THEN next_issue[f] ELSE NotHalted]
    BY NowFields
  <1>2. u.halted = [f \in Flows |-> IF halted'[f] THEN next_issue'[f] ELSE NotHalted]
    BY NextFields
  <1> QED BY <1>1, <1>2

LEMMA SameHalted ==
    ASSUME NEW v, IsNow(v), NEW u, IsNext(u), UNCHANGED halted,
           \A f \in Flows : halted[f] => next_issue'[f] = next_issue[f]
    PROVE  u.halted = v.halted
  <1>1. /\ v.halted = [f \in Flows |-> IF halted[f] THEN next_issue[f] ELSE NotHalted]
        /\ u.halted = [f \in Flows |-> IF halted'[f] THEN next_issue'[f] ELSE NotHalted]
    BY HaltFields
  <1> QED BY <1>1

LEMMA SameReady ==
    ASSUME NEW v, IsNow(v), NEW u, IsNext(u),
           \A f \in Flows : ReadyInFlight(phase, next_publish, f)'
                                = ReadyInFlight(phase, next_publish, f)
    PROVE  u.pending_ready = v.pending_ready
  <1>1. v.pending_ready = [f \in Flows |-> ReadyInFlight(phase, next_publish, f)]
    BY NowFields
  <1>2. u.pending_ready = [f \in Flows |-> ReadyInFlight(phase, next_publish, f)']
    BY NextFields
  <1> QED BY <1>1, <1>2

(* The other packets of a step, and that nothing new is known of them.     *)
OthersStay(f, s) ==
    \A g \in Flows, t \in Serials : <<g, t>> # <<f, s>> /\ phase[g][t] # "ABSENT" =>
        /\ phase'[g][t] = phase[g][t]
        /\ payload'[g][t] = payload[g][t]
        /\ data_writes'[g][t] = data_writes[g][t]

LEMMA SameOthers ==
    ASSUME NEW v, IsNow(v), NEW u, IsNext(u), NEW f, NEW s, OthersStay(f, s)
    PROVE  OthersSame(v, u, f, s)
  <1>1. /\ v.here = [g \in Flows |-> {t \in Serials : phase[g][t] # "ABSENT"}]
        /\ \A g \in Flows, t \in Serials :
                v.entry[g][t] = EntryAt(phase, data_writes, g, t)
        /\ \A g \in Flows, t \in Serials :
                u.entry[g][t] = EntryAt(phase, data_writes, g, t)'
    <2>1. /\ v.here = [g \in Flows |-> {t \in Serials : phase[g][t] # "ABSENT"}]
          /\ \A g \in Flows, t \in Serials :
                v.entry[g][t] = EntryAt(phase, data_writes, g, t)
      BY NowFields
    <2>2. \A g \in Flows, t \in Serials :
                u.entry[g][t] = EntryAt(phase, data_writes, g, t)'
      BY NextFields
    <2> QED BY <2>1, <2>2
  <1> SUFFICES ASSUME NEW g \in Flows, NEW t \in v.here[g], <<g, t>> # <<f, s>>
               PROVE  u.entry[g][t] = v.entry[g][t]
    BY DEF OthersSame
  <1>2. t \in Serials /\ phase[g][t] # "ABSENT"
    BY <1>1
  <1>3. EntryAt(phase, data_writes, g, t)' = EntryAt(phase, data_writes, g, t)
    BY <1>2, SameEntry DEF OthersStay
  <1> QED BY <1>1, <1>2, <1>3

LEMMA FailGapSeen ==
    ASSUME IndInv, NEW f \in Flows, FailGap(f), NEW v, IsNow(v), NEW u, IsNext(u)
    PROVE  SeesHalt(v, u, f) /\ v.next_issue[f] = next_issue[f]
  <1>1. /\ ~halted[f] /\ halted' = [halted EXCEPT ![f] = TRUE]
        /\ ~Present(f, next_issue[f]) /\ GapBehind(f)
        /\ UNCHANGED <<base, next_issue, next_publish, next_consume, released, generations,
                       credit, global_credit, phase, payload, generation, data_writes>>
    BY DEF FailGap, cursors, budgets, packets
  <1>2. halted \in [Flows -> BOOLEAN] /\ next_issue \in [Flows -> Nat]
    BY DEF IndInv, TypeOK
  <1>3. /\ v.here = [g \in Flows |-> {t \in Serials : phase[g][t] # "ABSENT"}]
        /\ u.next_issue = v.next_issue /\ u.bases = v.bases /\ u.next_ready = v.next_ready
        /\ u.next_consume = v.next_consume /\ u.credit = v.credit
        /\ u.global_credit = v.global_credit /\ u.generations = v.generations
        /\ u.released = v.released /\ v.next_issue = next_issue /\ u.here = v.here
    BY <1>1, CallFields
  <1>4. u.pending_ready = v.pending_ready
    BY <1>1, SameInFlight, SameReady
  <1>5. OthersSame(v, u, f, NotHalted)
    BY <1>1, SameOthers DEF OthersStay
  <1>6. v.halted[f] = NotHalted /\ u.halted = [v.halted EXCEPT ![f] = next_issue[f]]
    <2>1. /\ u.halted = [g \in Flows |-> IF halted'[g] THEN next_issue[g] ELSE NotHalted]
          /\ v.halted = [g \in Flows |-> IF halted[g] THEN next_issue[g] ELSE NotHalted]
      BY <1>1, HaltFields
    <2>2. halted'[f] /\ \A g \in Flows : g # f => halted'[g] = halted[g]
      BY <1>1, <1>2
    <2>3. v.halted[f] = NotHalted
      BY <1>1, <2>1
    <2> QED BY <2>1, <2>2, <2>3
  <1>8. next_issue[f] \notin v.here[f]
    BY <1>1, <1>3 DEF Present
  <1>9. \E t \in v.here[f] : t > next_issue[f]
    BY <1>1, <1>3 DEF GapBehind, Present
  <1> QED BY <1>3, <1>4, <1>5, <1>6, <1>8, <1>9 DEF SeesHalt

LEMMA ReceiveSeen ==
    ASSUME IndInv, NEW f \in Flows, NEW e \in Epochs, NEW q \in Sequences,
           NEW p \in Payloads, Receive(f, e, q, p),
           NEW v, IsNow(v), NEW u, IsNext(u)
    PROVE  LET s == WireSerial(e, q)
           IN  /\ s \in Serials /\ SeesReceive(v, u, f, s, p)
               /\ TokenOf(f, s)' = TokenIn(u, f, s)
  <1>0. PICK s \in Serials : s = WireSerial(e, q)
    BY DEF Serials
  <1> DEFINE k == SlotOf(s)
             n == NextGeneration(f, s)
  <1>1. s \in Serials /\ k \in Slots
    BY SlotOfSerial
  <1>2. /\ ~halted[f] /\ base[f] <= s /\ s < base[f] + Window /\ s \notin released[f]
        /\ phase[f][s] = "ABSENT"
        /\ \A t \in Serials : phase[f][t] # "ABSENT" => SlotOf(t) # k
    <2>1. TypeOK /\ base[f] \in Nat /\ Window \in Nat /\ s \in Nat
      BY <1>1, ConfigAssumption, SlotOfSerial DEF IndInv, TypeOK
    <2> QED BY <1>0, <1>1, <2>1 DEF Receive, Admissible, Late, OutsideWindow, Present, SlotOwned
  <1>3. /\ generations' = [generations EXCEPT ![f][k] = n]
        /\ phase' = [phase EXCEPT ![f][s] = "WAIT_SEQ"]
        /\ payload' = [payload EXCEPT ![f][s] = p]
        /\ generation' = [generation EXCEPT ![f][s] = n]
        /\ UNCHANGED <<base, next_issue, next_publish, next_consume, released, credit,
                       global_credit, halted, data_writes>>
    BY <1>0 DEF Receive, cursors, budgets
  <1>4. /\ phase \in [Flows -> [Serials -> Phases]]
        /\ generations \in [Flows -> [Slots -> Nat]]
        /\ payload \in [Flows -> [Serials -> Payloads \cup {NoPayload}]]
        /\ generation \in [Flows -> [Serials -> Nat]]
    BY DEF IndInv, TypeOK
  <1>5. n = generations[f][k] + 1
    BY DEF NextGeneration
  <1> HIDE DEF k, n
  <1>6. /\ phase'[f][s] = "WAIT_SEQ" /\ payload'[f][s] = p /\ generation'[f][s] = n
        /\ \A g \in Flows, t \in Serials : <<g, t>> # <<f, s>> =>
            /\ phase'[g][t] = phase[g][t] /\ payload'[g][t] = payload[g][t]
            /\ generation'[g][t] = generation[g][t]
    BY <1>1, <1>3, <1>4
  <1>7. generations'[f][k] = n
    BY <1>1, <1>3, <1>4
  <1>8. OthersSame(v, u, f, s)
    BY <1>3, <1>6, SameOthers DEF OthersStay
  <1>9. u.halted = v.halted
    BY <1>3, SameHalted
  <1>10. v.halted[f] = NotHalted
    <2>1. v.halted = [g \in Flows |-> IF halted[g] THEN next_issue[g] ELSE NotHalted]
      BY HaltFields
    <2> QED BY <1>2, <2>1
  <1>11. u.pending_ready = v.pending_ready
    <2> SUFFICES ASSUME NEW g \in Flows
                 PROVE  ReadyInFlight(phase, next_publish, g)'
                            = ReadyInFlight(phase, next_publish, g)
      BY SameReady
    <2>1. CASE next_publish[g] \in Serials /\ <<g, next_publish[g]>> # <<f, s>>
      BY <1>3, <1>6, <2>1, SameInFlight
    <2>2. CASE next_publish[g] \notin Serials
      BY <1>3, <2>2 DEF ReadyInFlight
    <2>3. CASE <<g, next_publish[g]>> = <<f, s>>
      BY <1>2, <1>3, <1>6, <2>3 DEF ReadyInFlight
    <2> QED BY <2>1, <2>2, <2>3
  <1>12. /\ v.here = [g \in Flows |-> {t \in Serials : phase[g][t] # "ABSENT"}]
         /\ u.here = [g \in Flows |-> {t \in Serials : phase'[g][t] # "ABSENT"}]
         /\ u.next_issue = v.next_issue /\ u.bases = v.bases /\ u.next_ready = v.next_ready
         /\ u.next_consume = v.next_consume /\ u.credit = v.credit
         /\ u.global_credit = v.global_credit /\ u.released = v.released
         /\ v.bases = base /\ v.released = released
         /\ v.generations = generations /\ u.generations = generations'
    BY <1>3, CallFields
  <1>13. u.here = [v.here EXCEPT ![f] = v.here[f] \cup {s}]
    <2>1. ASSUME NEW g \in Flows
          PROVE  u.here[g] = [v.here EXCEPT ![f] = v.here[f] \cup {s}][g]
      <3>1. CASE g = f
        <4>1. /\ v.here[f] = {t \in Serials : phase[f][t] # "ABSENT"}
              /\ u.here[f] = {t \in Serials : phase'[f][t] # "ABSENT"}
          BY <1>12
        <4>2. \A t \in Serials : phase'[f][t] # "ABSENT" <=> phase[f][t] # "ABSENT" \/ t = s
          BY <1>6
        <4>3. u.here[f] = v.here[f] \cup {s}
          BY <1>1, <4>1, <4>2
        <4>4. [v.here EXCEPT ![f] = v.here[f] \cup {s}][f] = v.here[f] \cup {s}
          BY <1>12
        <4> QED BY <3>1, <4>3, <4>4
      <3>2. CASE g # f
        <4>1. /\ v.here[g] = {t \in Serials : phase[g][t] # "ABSENT"}
              /\ u.here[g] = {t \in Serials : phase'[g][t] # "ABSENT"}
          BY <1>12
        <4>2. \A t \in Serials : phase'[g][t] = phase[g][t]
          BY <1>6, <3>2
        <4>3. [v.here EXCEPT ![f] = v.here[f] \cup {s}][g] = v.here[g]
          BY <1>12, <3>2
        <4> QED BY <4>1, <4>2, <4>3
      <3> QED BY <3>1, <3>2
    <2> QED BY <1>12, <2>1
  <1>14. u.entry[f][s] = Fresh(p)
    <2>1. EntryAt(phase, data_writes, f, s)' = Fresh(p)
      BY <1>6 DEF EntryAt
    <2>2. u.entry[f][s] = EntryAt(phase, data_writes, f, s)'
      BY EntryNext
    <2> QED BY <2>1, <2>2
  <1>15. \A t \in v.here[f] : SlotOf(t) # k
    BY <1>2, <1>12
  <1>16. SeesReceive(v, u, f, s, p)
    BY <1>2, <1>3, <1>5, <1>8, <1>9, <1>10, <1>11, <1>12, <1>13, <1>14, <1>15
       DEF SeesReceive, k
  <1>17. TokenOf(f, s)' = TokenIn(u, f, s)
    BY <1>6, <1>7, <1>12 DEF TokenOf, TokenIn, k
  <1> QED BY <1>1, <1>16, <1>17, <1>0

LEMMA AcquireSeen ==
    ASSUME IndInv, NEW f \in Flows, Acquire(f), NEW v, IsNow(v), NEW u, IsNext(u)
    PROVE  LET s == next_consume[f]
               p == payload[f][s]
           IN  /\ s \in Serials /\ p \in Payloads /\ SeesConsume(v, u, f, s, p)
               /\ TokenOf(f, s) = TokenIn(v, f, s)
               /\ Snapshot(f, s) = Image(TokenOf(f, s), p)
  <1>0. PICK s, p : s = next_consume[f] /\ p = payload[f][s]
    OBVIOUS
  <1>1. /\ s \in Serials /\ phase[f][s] = "READY"
        /\ phase' = [phase EXCEPT ![f][s] = "CPU_OWNED"]
        /\ next_consume' = [next_consume EXCEPT ![f] = s + 1]
        /\ UNCHANGED <<base, next_issue, next_publish, released, generations, credit,
                       global_credit, halted, payload, generation, data_writes>>
    BY <1>0 DEF Acquire, MarkerSeen, Present, budgets
  <1>2. /\ phase \in [Flows -> [Serials -> Phases]]
        /\ TypeOK /\ PacketInWindow /\ DataWritesPending /\ ImageInSlot
    BY DEF IndInv, TypeOK
  <1>3. p \in Payloads
    BY <1>0, <1>1, <1>2 DEF PacketInWindow
  <1>4. Snapshot(f, s) = Image(TokenOf(f, s), p)
    <2>1. phase[f][s] \in Visible
      BY <1>1 DEF Visible
    <2> QED BY <1>0, <1>1, <1>2, <2>1, ImageSeen
  <1>5. /\ phase'[f][s] = "CPU_OWNED"
        /\ \A g \in Flows, t \in Serials : <<g, t>> # <<f, s>> => phase'[g][t] = phase[g][t]
    BY <1>1, <1>2
  <1>6. OthersSame(v, u, f, s)
    BY <1>1, <1>5, SameOthers DEF OthersStay
  <1>7. u.halted = v.halted
    BY <1>1, SameHalted
  <1>8. u.pending_ready = v.pending_ready
    <2> SUFFICES ASSUME NEW g \in Flows
                 PROVE  ReadyInFlight(phase, next_publish, g)'
                            = ReadyInFlight(phase, next_publish, g)
      BY SameReady
    <2>1. CASE next_publish[g] \in Serials
      <3>1. phase'[g][next_publish[g]] = "COMMITTING"
                <=> phase[g][next_publish[g]] = "COMMITTING"
        BY <1>1, <1>5, <2>1
      <3> QED BY <1>1, <3>1, SameInFlight
    <2>2. CASE next_publish[g] \notin Serials
      BY <1>1, <2>2 DEF ReadyInFlight
    <2> QED BY <2>1, <2>2
  <1>9. /\ v.here = [g \in Flows |-> {t \in Serials : phase[g][t] # "ABSENT"}]
        /\ u.here = [g \in Flows |-> {t \in Serials : phase'[g][t] # "ABSENT"}]
        /\ u.next_issue = v.next_issue /\ u.bases = v.bases /\ u.next_ready = v.next_ready
        /\ u.next_consume = next_consume' /\ v.next_consume = next_consume
        /\ u.credit = v.credit /\ u.generations = v.generations
        /\ u.global_credit = v.global_credit /\ u.released = v.released
        /\ v.generations = generations
    BY <1>1, CallFields
  <1>10. u.here = v.here
    <2>1. \A g \in Flows, t \in Serials : phase'[g][t] # "ABSENT" <=> phase[g][t] # "ABSENT"
      BY <1>1, <1>5
    <2> QED BY <1>9, <2>1
  <1>11. s \in v.here[f]
    BY <1>1, <1>9
  <1>12. v.entry[f][s] = Readied(p) /\ u.entry[f][s] = Consumed(p)
    <2>1. EntryAt(phase, data_writes, f, s) = Readied(p)
      BY <1>0, <1>1 DEF EntryAt
    <2>2. EntryAt(phase, data_writes, f, s)' = Consumed(p)
      BY <1>0, <1>1, <1>5 DEF EntryAt
    <2>3. v.entry[f][s] = EntryAt(phase, data_writes, f, s)
      BY <1>1, EntryNow
    <2>4. u.entry[f][s] = EntryAt(phase, data_writes, f, s)'
      BY <1>1, EntryNext
    <2> QED BY <2>1, <2>2, <2>3, <2>4
  <1>13. s = v.next_consume[f] /\ u.next_consume = [v.next_consume EXCEPT ![f] = s + 1]
    BY <1>0, <1>1, <1>9
  <1>14. SeesConsume(v, u, f, s, p)
    BY <1>6, <1>7, <1>8, <1>9, <1>10, <1>11, <1>12, <1>13 DEF SeesConsume
  <1>15. TokenOf(f, s) = TokenIn(v, f, s)
    BY <1>1, <1>9, OwnToken
  <1> QED BY <1>1, <1>3, <1>4, <1>14, <1>15, <1>0

LEMMA ReleaseSeen ==
    ASSUME IndInv, NEW f \in Flows, NEW s \in Serials, Release(f, s),
           NEW v, IsNow(v), NEW u, IsNext(u)
    PROVE  \E p \in Payloads : SeesRelease(v, u, f, s, p) /\ TokenOf(f, s) = TokenIn(v, f, s)
  <1>0. PICK p : p = payload[f][s]
    OBVIOUS
  <1>1. /\ phase[f][s] = "CPU_OWNED"
        /\ credit' = [credit EXCEPT ![f] = @ - Check!Charge(p)]
        /\ global_credit' = global_credit - Check!Charge(p)
        /\ phase' = [phase EXCEPT ![f][s] = "ABSENT"]
        /\ payload' = [payload EXCEPT ![f][s] = NoPayload]
        /\ generation' = [generation EXCEPT ![f][s] = 0]
        /\ AdvanceBase(f, released[f] \cup {s})
        /\ UNCHANGED <<next_issue, next_publish, next_consume, generations,
                       halted, data_writes>>
    BY <1>0, ChargeIsSize DEF Release, Refund
  <1>2. /\ phase \in [Flows -> [Serials -> Phases]]
        /\ payload \in [Flows -> [Serials -> Payloads \cup {NoPayload}]]
        /\ generation \in [Flows -> [Serials -> Nat]]
        /\ PacketInWindow
    BY DEF IndInv, TypeOK
  <1>3. p \in Payloads
    BY <1>0, <1>1, <1>2 DEF PacketInWindow
  <1>5. /\ phase'[f][s] = "ABSENT"
        /\ \A g \in Flows, t \in Serials : <<g, t>> # <<f, s>> =>
            /\ phase'[g][t] = phase[g][t] /\ payload'[g][t] = payload[g][t]
            /\ generation'[g][t] = generation[g][t]
    BY <1>1, <1>2
  <1>6. OthersSame(v, u, f, s)
    BY <1>1, <1>5, SameOthers DEF OthersStay
  <1>7. u.halted = v.halted
    BY <1>1, SameHalted
  <1>8. u.pending_ready = v.pending_ready
    <2> SUFFICES ASSUME NEW g \in Flows
                 PROVE  ReadyInFlight(phase, next_publish, g)'
                            = ReadyInFlight(phase, next_publish, g)
      BY SameReady
    <2>1. CASE next_publish[g] \in Serials /\ <<g, next_publish[g]>> # <<f, s>>
      BY <1>1, <1>5, <2>1, SameInFlight
    <2>2. CASE next_publish[g] \notin Serials
      BY <1>1, <2>2 DEF ReadyInFlight
    <2>3. CASE <<g, next_publish[g]>> = <<f, s>>
      BY <1>1, <1>5, <2>3 DEF ReadyInFlight
    <2> QED BY <2>1, <2>2, <2>3
  <1>9. /\ v.here = [g \in Flows |-> {t \in Serials : phase[g][t] # "ABSENT"}]
        /\ u.here = [g \in Flows |-> {t \in Serials : phase'[g][t] # "ABSENT"}]
        /\ u.next_issue = v.next_issue /\ u.next_ready = v.next_ready
        /\ u.next_consume = v.next_consume /\ u.generations = v.generations
        /\ u.credit = credit' /\ v.credit = credit
        /\ u.global_credit = global_credit' /\ v.global_credit = global_credit
        /\ u.released = released' /\ v.released = released
        /\ u.bases = base' /\ v.bases = base /\ v.generations = generations
    BY <1>1, CallFields
  <1>10. u.here = [v.here EXCEPT ![f] = v.here[f] \ {s}]
    <2>1. ASSUME NEW g \in Flows
          PROVE  u.here[g] = [v.here EXCEPT ![f] = v.here[f] \ {s}][g]
      <3>1. CASE g = f
        <4>1. /\ v.here[f] = {t \in Serials : phase[f][t] # "ABSENT"}
              /\ u.here[f] = {t \in Serials : phase'[f][t] # "ABSENT"}
          BY <1>9
        <4>2. \A t \in Serials : phase'[f][t] # "ABSENT" <=> phase[f][t] # "ABSENT" /\ t # s
          BY <1>5
        <4>3. u.here[f] = v.here[f] \ {s}
          BY <4>1, <4>2
        <4>4. [v.here EXCEPT ![f] = v.here[f] \ {s}][f] = v.here[f] \ {s}
          BY <1>9
        <4> QED BY <3>1, <4>3, <4>4
      <3>2. CASE g # f
        <4>1. /\ v.here[g] = {t \in Serials : phase[g][t] # "ABSENT"}
              /\ u.here[g] = {t \in Serials : phase'[g][t] # "ABSENT"}
          BY <1>9
        <4>2. \A t \in Serials : phase'[g][t] = phase[g][t]
          BY <1>5, <3>2
        <4>3. [v.here EXCEPT ![f] = v.here[f] \ {s}][g] = v.here[g]
          BY <1>9, <3>2
        <4> QED BY <4>1, <4>2, <4>3
      <3> QED BY <3>1, <3>2
    <2> QED BY <1>9, <2>1
  <1>11. s \in v.here[f]
    BY <1>1, <1>9
  <1>12. v.entry[f][s] = Consumed(p)
    <2>1. EntryAt(phase, data_writes, f, s) = Consumed(p)
      BY <1>0, <1>1 DEF EntryAt
    <2>2. v.entry[f][s] = EntryAt(phase, data_writes, f, s)
      BY EntryNow
    <2> QED BY <2>1, <2>2
  <1>13. \E b \in v.bases[f]..(v.bases[f] + Window) :
            /\ b \notin v.released[f] \cup {s}
            /\ v.bases[f]..(b - 1) \subseteq v.released[f] \cup {s}
            /\ u.bases = [v.bases EXCEPT ![f] = b]
            /\ u.released = [v.released EXCEPT ![f] =
                                (v.released[f] \cup {s}) \ (v.bases[f]..(b - 1))]
    BY <1>1, <1>9 DEF AdvanceBase
  <1>14. /\ u.credit = [v.credit EXCEPT ![f] = v.credit[f] - Check!Charge(p)]
         /\ u.global_credit = v.global_credit - Check!Charge(p)
    BY <1>1, <1>9
  <1>15. SeesRelease(v, u, f, s, p)
    BY <1>6, <1>7, <1>8, <1>9, <1>10, <1>11, <1>12, <1>13, <1>14 DEF SeesRelease
  <1>16. TokenOf(f, s) = TokenIn(v, f, s)
    BY <1>1, <1>9, OwnToken
  <1> QED BY <1>3, <1>15, <1>16

(* Going round the flows is not an event.                                  *)
LEMMA PumpUnseen ==
    ASSUME PumpCall \/ PumpPass
    PROVE  Now' = Now
  BY DEF PumpCall, PumpPass, Now, ViewAt, EntryAt, Left, ReadyInFlight, TokenOf,
         cursors, budgets, packets

--------------------------------------------------------------------------------
(* The writes of a packet and the components the checker waits for.        *)

LEMMA DataIs ==
    \A p : Data(p) = {<<"payload", i>> : i \in LineNumbers(Length[p])}
                        \cup {<<"descriptor", k>> : k \in Fields}
  BY ChargeIsSize DEF Data, Check!RequiredData, LineNumbers, Check!LineBytes, LineBytes

LEMMA PayloadMeans ==
    ASSUME NEW t \in Tokens, NEW p, NEW i \in LineNumbers(Length[p])
    PROVE  LET w == PayloadWrite(t, p, i)
               c == <<"payload", i>>
           IN  /\ w.token = t /\ w.kind = "payload"
               /\ Component(w) = c /\ Content(w) = Check!ContentOf(t, p, c)
               /\ w \in DataWrites(t, p) /\ c \in Data(p)
  <1> DEFINE w == PayloadWrite(t, p, i)
             c == <<"payload", i>>
  <1>1. w.token = t /\ w.kind = "payload" /\ w.offset = i /\ w.data = Lines(p)[i]
    BY DEF PayloadWrite
  <1>2. w \in DataWrites(t, p)
    BY DEF DataWrites
  <1>3. c \in Data(p)
    BY DataIs
  <1> HIDE DEF w
  <1>4. Component(w) = c /\ Content(w) = Lines(p)[i]
    BY <1>1 DEF Component, Content
  <1>5. c # Check!ReadyComponent /\ c[1] = "payload" /\ c[2] = i
    BY DEF Check!ReadyComponent
  <1> HIDE DEF c
  <1>6. Check!ContentOf(t, p, c) = Lines(p)[i]
    BY <1>5, BytesAreLines DEF Check!ContentOf
  <1> QED BY <1>1, <1>2, <1>3, <1>4, <1>6 DEF w, c

LEMMA FieldMeans ==
    ASSUME NEW t \in Tokens, NEW p, NEW k \in Fields
    PROVE  LET w == DescriptorWrite(t, p, k)
               c == <<"descriptor", k>>
           IN  /\ w.token = t /\ w.kind = "descriptor"
               /\ Component(w) = c /\ Content(w) = Check!ContentOf(t, p, c)
               /\ w \in DataWrites(t, p) /\ c \in Data(p)
  <1> DEFINE w == DescriptorWrite(t, p, k)
             c == <<"descriptor", k>>
  <1>1. /\ w.token = t /\ w.kind = "descriptor" /\ w.field = k
        /\ w.value = Descriptor(t, Length[p])[k]
    BY DEF DescriptorWrite
  <1>2. w \in DataWrites(t, p)
    BY DEF DataWrites
  <1>3. c \in Data(p)
    BY DataIs
  <1> HIDE DEF w
  <1>4. Component(w) = c /\ Content(w) = Descriptor(t, Length[p])[k]
    BY <1>1 DEF Component, Content
  <1>5. c # Check!ReadyComponent /\ c[1] = "descriptor" /\ c[2] = k
    BY DEF Check!ReadyComponent
  <1> HIDE DEF c
  <1>6. Check!ContentOf(t, p, c) = Descriptor(t, Length[p])[k]
    BY <1>5, DescriptorsSame DEF Check!ContentOf
  <1> QED BY <1>1, <1>2, <1>3, <1>4, <1>6 DEF w, c

LEMMA DataWriteMeans ==
    ASSUME NEW t \in Tokens, NEW p, NEW w \in DataWrites(t, p)
    PROVE  /\ Component(w) \in Data(p) /\ w.token = t /\ w.kind # "ready"
           /\ Content(w) = Check!ContentOf(t, p, Component(w))
           /\ \/ \E i \in LineNumbers(Length[p]) :
                    w = PayloadWrite(t, p, i) /\ Component(w) = <<"payload", i>>
              \/ \E k \in Fields :
                    w = DescriptorWrite(t, p, k) /\ Component(w) = <<"descriptor", k>>
  <1>1. CASE \E i \in LineNumbers(Length[p]) : w = PayloadWrite(t, p, i)
    <2>1. PICK i \in LineNumbers(Length[p]) : w = PayloadWrite(t, p, i)
      BY <1>1
    <2>2. /\ w.token = t /\ w.kind = "payload"
          /\ Component(w) = <<"payload", i>>
          /\ Content(w) = Check!ContentOf(t, p, <<"payload", i>>)
          /\ <<"payload", i>> \in Data(p)
      BY <2>1, PayloadMeans
    <2> QED BY <2>1, <2>2
  <1>2. CASE \E k \in Fields : w = DescriptorWrite(t, p, k)
    <2>1. PICK k \in Fields : w = DescriptorWrite(t, p, k)
      BY <1>2
    <2>2. /\ w.token = t /\ w.kind = "descriptor"
          /\ Component(w) = <<"descriptor", k>>
          /\ Content(w) = Check!ContentOf(t, p, <<"descriptor", k>>)
          /\ <<"descriptor", k>> \in Data(p)
      BY <2>1, FieldMeans
    <2> QED BY <2>1, <2>2
  <1> QED BY <1>1, <1>2 DEF DataWrites

LEMMA ComponentsDiffer ==
    ASSUME NEW t \in Tokens, NEW p, NEW w \in DataWrites(t, p), NEW x \in DataWrites(t, p),
           Component(w) = Component(x)
    PROVE  w = x
  <1>1. /\ \/ \E i \in LineNumbers(Length[p]) :
                    w = PayloadWrite(t, p, i) /\ Component(w) = <<"payload", i>>
           \/ \E k \in Fields :
                    w = DescriptorWrite(t, p, k) /\ Component(w) = <<"descriptor", k>>
        /\ \/ \E i \in LineNumbers(Length[p]) :
                    x = PayloadWrite(t, p, i) /\ Component(x) = <<"payload", i>>
           \/ \E k \in Fields :
                    x = DescriptorWrite(t, p, k) /\ Component(x) = <<"descriptor", k>>
    BY DataWriteMeans
  <1> QED BY <1>1

LEMMA AllComponents ==
    ASSUME NEW t \in Tokens, NEW p
    PROVE  {Component(w) : w \in DataWrites(t, p)} = Data(p)
  <1>1. ASSUME NEW w \in DataWrites(t, p) PROVE Component(w) \in Data(p)
    BY DataWriteMeans
  <1>2. ASSUME NEW c \in Data(p) PROVE \E w \in DataWrites(t, p) : c = Component(w)
    <2>1. CASE \E i \in LineNumbers(Length[p]) : c = <<"payload", i>>
      <3>1. PICK i \in LineNumbers(Length[p]) : c = <<"payload", i>>
        BY <2>1
      <3>2. Component(PayloadWrite(t, p, i)) = c /\ PayloadWrite(t, p, i) \in DataWrites(t, p)
        BY <3>1, PayloadMeans
      <3> QED BY <3>2
    <2>2. CASE \E k \in Fields : c = <<"descriptor", k>>
      <3>1. PICK k \in Fields : c = <<"descriptor", k>>
        BY <2>2
      <3>2. /\ Component(DescriptorWrite(t, p, k)) = c
            /\ DescriptorWrite(t, p, k) \in DataWrites(t, p)
        BY <3>1, FieldMeans
      <3> QED BY <3>2
    <2> QED BY <2>1, <2>2, DataIs
  <1> QED BY <1>1, <1>2

(* The order in which the writes are issued goes through each component    *)
(* once.                                                                   *)
LEMMA LinesCounted ==
    ASSUME NEW p \in Payloads
    PROVE  /\ LineCount(p) \in Nat /\ Len(FieldOrder) \in Nat \ {0}
           /\ LineNumbers(Length[p]) = 0..(LineCount(p) - 1)
           /\ FieldOrder \in [1..Len(FieldOrder) -> Fields]
           /\ WriteCount(p) \in Nat \ {0}
  <1>1. Length[p] \in Nat
    BY WorldAssumption, ConfigAssumption
  <1>2. LineCount(p) \in Nat
    <2>1. aligned_size(Length[p]) \in Nat
      BY <1>1, AlignedIsNat
    <2> QED BY <2>1, Z3 DEF LineCount, LineBytes
  <1>3. FieldOrder \in Seq(Fields) /\ \E i \in DOMAIN FieldOrder : FieldOrder[i] = "length"
    BY TraceAssumption, WorldAssumption
  <1>4. /\ Len(FieldOrder) \in Nat /\ DOMAIN FieldOrder = 1..Len(FieldOrder)
        /\ FieldOrder \in [1..Len(FieldOrder) -> Fields]
    BY <1>3
  <1>5. Len(FieldOrder) # 0
    BY <1>3, <1>4
  <1>6. LineNumbers(Length[p]) = 0..(LineCount(p) - 1)
    BY DEF LineNumbers, LineCount
  <1> QED BY <1>2, <1>4, <1>5, <1>6 DEF WriteCount

LEMMA ComponentsInOrder ==
    ASSUME NEW p \in Payloads
    PROVE  /\ \A i \in 1..WriteCount(p) : ComponentAt(p, i) \in Data(p)
           /\ \A c \in Data(p) : \E i \in 1..WriteCount(p) : c = ComponentAt(p, i)
           /\ \A i, j \in 1..WriteCount(p) : ComponentAt(p, i) = ComponentAt(p, j) => i = j
  <1> DEFINE n == LineCount(p)
             m == Len(FieldOrder)
  <1>1. /\ n \in Nat /\ m \in Nat /\ LineNumbers(Length[p]) = 0..(n - 1)
        /\ FieldOrder \in [1..m -> Fields] /\ WriteCount(p) = n + m
    BY LinesCounted DEF WriteCount
  <1>2. /\ \A k \in Fields : \E i \in 1..m : FieldOrder[i] = k
        /\ \A i, j \in 1..m : FieldOrder[i] = FieldOrder[j] => i = j
    BY <1>1, TraceAssumption
  <1>3. \A i : ComponentAt(p, i) = IF i <= n THEN <<"payload", i - 1>>
                                   ELSE <<"descriptor", FieldOrder[i - n]>>
    BY DEF ComponentAt
  <1> HIDE DEF n, m
  <1>4. ASSUME NEW i \in 1..WriteCount(p)
        PROVE  \/ i <= n /\ i - 1 \in 0..(n - 1) /\ ComponentAt(p, i) = <<"payload", i - 1>>
               \/ /\ i > n /\ i - n \in 1..m /\ FieldOrder[i - n] \in Fields
                  /\ ComponentAt(p, i) = <<"descriptor", FieldOrder[i - n]>>
    <2>1. CASE i <= n
      BY <1>1, <1>3, <2>1
    <2>2. CASE i > n
      <3>1. i - n \in 1..m /\ ~(i <= n)
        BY <1>1, <2>2
      <3> QED BY <1>1, <1>3, <2>2, <3>1
    <2> QED BY <1>1, <2>1, <2>2
  <1>5. \A i \in 1..WriteCount(p) : ComponentAt(p, i) \in Data(p)
    BY <1>1, <1>4, DataIs
  <1>6. ASSUME NEW c \in Data(p) PROVE \E i \in 1..WriteCount(p) : c = ComponentAt(p, i)
    <2>1. CASE \E i \in 0..(n - 1) : c = <<"payload", i>>
      <3>1. PICK i \in 0..(n - 1) : c = <<"payload", i>>
        BY <2>1
      <3>2. i + 1 \in 1..WriteCount(p) /\ i + 1 <= n /\ (i + 1) - 1 = i
        BY <1>1
      <3>3. ComponentAt(p, i + 1) = c
        BY <1>3, <3>1, <3>2
      <3> QED BY <3>2, <3>3
    <2>2. CASE \E k \in Fields : c = <<"descriptor", k>>
      <3>1. PICK k \in Fields : c = <<"descriptor", k>>
        BY <2>2
      <3>2. PICK i \in 1..m : FieldOrder[i] = k
        BY <1>2
      <3>3. i + n \in 1..WriteCount(p) /\ ~(i + n <= n) /\ (i + n) - n = i
        BY <1>1
      <3>4. ComponentAt(p, i + n) = c
        BY <1>3, <3>1, <3>2, <3>3
      <3> QED BY <3>3, <3>4
    <2> QED BY <1>1, <2>1, <2>2, DataIs
  <1>7. ASSUME NEW i \in 1..WriteCount(p), NEW j \in 1..WriteCount(p),
               ComponentAt(p, i) = ComponentAt(p, j)
        PROVE  i = j
    <2>1. \/ i <= n /\ i - 1 \in 0..(n - 1) /\ ComponentAt(p, i) = <<"payload", i - 1>>
          \/ /\ i > n /\ i - n \in 1..m /\ FieldOrder[i - n] \in Fields
             /\ ComponentAt(p, i) = <<"descriptor", FieldOrder[i - n]>>
      BY <1>4
    <2>2. \/ j <= n /\ j - 1 \in 0..(n - 1) /\ ComponentAt(p, j) = <<"payload", j - 1>>
          \/ /\ j > n /\ j - n \in 1..m /\ FieldOrder[j - n] \in Fields
             /\ ComponentAt(p, j) = <<"descriptor", FieldOrder[j - n]>>
      BY <1>4
    <2>4. CASE ComponentAt(p, i) = <<"payload", i - 1>>
      <3>1. ComponentAt(p, j) # <<"descriptor", FieldOrder[j - n]>>
        BY <1>7, <2>4
      <3> QED BY <1>7, <1>1, <2>2, <2>4, <3>1
    <2>5. CASE /\ i - n \in 1..m
               /\ ComponentAt(p, i) = <<"descriptor", FieldOrder[i - n]>>
      <3>0. ComponentAt(p, j) # <<"payload", j - 1>>
        BY <1>7, <2>5
      <3>1. j - n \in 1..m /\ ComponentAt(p, j) = <<"descriptor", FieldOrder[j - n]>>
        BY <2>2, <3>0
      <3>2. FieldOrder[i - n] = FieldOrder[j - n]
        <4>1. \A x, y : <<"descriptor", x>> = <<"descriptor", y>> => x = y
          OBVIOUS
        <4>2. <<"descriptor", FieldOrder[i - n]>> = <<"descriptor", FieldOrder[j - n]>>
          BY <1>7, <2>5, <3>1
        <4> QED BY <4>1, <4>2, Zenon
      <3>3. i - n = j - n
        BY <1>2, <2>5, <3>1, <3>2
      <3> QED BY <1>1, <3>3
    <2> QED BY <2>1, <2>4, <2>5
  <1> QED BY <1>5, <1>6, <1>7

LEMMA WriteAtMeans ==
    ASSUME NEW p \in Payloads, NEW t \in Tokens, NEW i \in 1..WriteCount(p)
    PROVE  WriteEvent("issue", WriteAt(t, p, i)) = IssueEvent(t, p, ComponentAt(p, i))
  <1> DEFINE n == LineCount(p)
             w == WriteAt(t, p, i)
             c == ComponentAt(p, i)
  <1>1. /\ n \in Nat /\ LineNumbers(Length[p]) = 0..(n - 1)
        /\ FieldOrder \in [1..Len(FieldOrder) -> Fields]
        /\ WriteCount(p) = n + Len(FieldOrder) /\ Len(FieldOrder) \in Nat
    BY LinesCounted DEF WriteCount
  <1>2. w.token = t /\ Component(w) = c /\ Content(w) = Check!ContentOf(t, p, c)
    <2>1. CASE i <= n
      <3>1. i - 1 \in LineNumbers(Length[p])
        BY <1>1, <2>1
      <3>2. w = PayloadWrite(t, p, i - 1) /\ c = <<"payload", i - 1>>
        BY <2>1 DEF WriteAt, ComponentAt
      <3> HIDE DEF w, c, n
      <3> QED BY <3>1, <3>2, PayloadMeans
    <2>2. CASE ~(i <= n)
      <3>1. i - n \in 1..Len(FieldOrder)
        BY <1>1, <2>2
      <3>2. FieldOrder[i - n] \in Fields
        BY <1>1, <3>1
      <3>3. /\ w = DescriptorWrite(t, p, FieldOrder[i - n])
            /\ c = <<"descriptor", FieldOrder[i - n]>>
        BY <2>2 DEF WriteAt, ComponentAt
      <3> HIDE DEF w, c, n
      <3> QED BY <3>2, <3>3, FieldMeans
    <2> QED BY <2>1, <2>2
  <1> HIDE DEF w, c
  <1>3. WriteEvent("issue", w) = IssueEvent(t, p, c)
    BY <1>2 DEF WriteEvent, IssueEvent
  <1> QED BY <1>3 DEF w, c

--------------------------------------------------------------------------------
(* A packet is issued.                                                     *)

(* What a view is made of.                                                 *)
Shaped(v) ==
    /\ v = [bases |-> v.bases, next_issue |-> v.next_issue, next_ready |-> v.next_ready,
            next_consume |-> v.next_consume, credit |-> v.credit,
            global_credit |-> v.global_credit, released |-> v.released,
            generations |-> v.generations, halted |-> v.halted,
            pending_ready |-> v.pending_ready, here |-> v.here, entry |-> v.entry]
    /\ v.entry = [f \in Flows |-> [s \in Serials |-> v.entry[f][s]]]

LEMMA NowShaped == ASSUME NEW v, IsNow(v) PROVE Shaped(v)
  BY DEF IsNow, Now, ViewAt, Shaped

LEMMA NextShaped == ASSUME NEW u, IsNext(u) PROVE Shaped(u)
  BY DEF IsNext, Now, ViewAt, Shaped

LEMMA WithEntryFields ==
    ASSUME NEW v, Shaped(v), NEW f \in Flows, NEW s \in Serials, NEW x, NEW w,
           w = WithEntry(v, f, s, x)
    PROVE  /\ w.bases = v.bases /\ w.next_issue = v.next_issue
           /\ w.next_ready = v.next_ready /\ w.next_consume = v.next_consume
           /\ w.credit = v.credit /\ w.global_credit = v.global_credit
           /\ w.released = v.released /\ w.generations = v.generations
           /\ w.halted = v.halted /\ w.pending_ready = v.pending_ready
           /\ w.here = v.here /\ w.entry[f][s] = x
           /\ \A g \in Flows, t \in Serials : <<g, t>> # <<f, s>> =>
                    w.entry[g][t] = v.entry[g][t]
           /\ Shaped(w)
  <1> DEFINE e == [v.entry EXCEPT ![f][s] = x]
  <1>1. v.entry = [g \in Flows |-> [t \in Serials |-> v.entry[g][t]]]
    BY DEF Shaped
  <1>2. /\ e[f][s] = x
        /\ \A g \in Flows, t \in Serials : <<g, t>> # <<f, s>> => e[g][t] = v.entry[g][t]
        /\ e = [g \in Flows |-> [t \in Serials |-> e[g][t]]]
    BY <1>1
  <1>3. w = [v EXCEPT !.entry = e]
    BY DEF WithEntry
  <1> HIDE DEF e
  <1>4. /\ w.bases = v.bases /\ w.next_issue = v.next_issue
        /\ w.next_ready = v.next_ready /\ w.next_consume = v.next_consume
        /\ w.credit = v.credit /\ w.global_credit = v.global_credit
        /\ w.released = v.released /\ w.generations = v.generations
        /\ w.halted = v.halted /\ w.pending_ready = v.pending_ready
        /\ w.here = v.here /\ w.entry = e
        /\ w = [bases |-> w.bases, next_issue |-> w.next_issue, next_ready |-> w.next_ready,
            next_consume |-> w.next_consume, credit |-> w.credit,
            global_credit |-> w.global_credit, released |-> w.released,
            generations |-> w.generations, halted |-> w.halted,
            pending_ready |-> w.pending_ready, here |-> w.here, entry |-> w.entry]
    BY <1>3 DEF Shaped
  <1> QED BY <1>2, <1>4 DEF Shaped

LEMMA PumpIssueSeen ==
    ASSUME IndInv, NEW k \in 0..(NumFlows - 1), PumpIssue(k),
           NEW f \in Flows, f = FlowAt(k), NEW s \in Serials, s = next_issue[f],
           NEW p, p = payload[f][s],
           NEW v, IsNow(v), NEW u, IsNext(u), NEW c \in Data(p),
           NEW w, w = WithEntry(u, f, s, PartIssued(p, {c}))
    PROVE  /\ SeesFirst(v, w, f, s, p, c)
           /\ p \in Payloads /\ p = payload'[f][s]
           /\ phase'[f][s] = "PUSHING" /\ ~halted'[f]
           /\ data_writes'[f][s] = DataWrites(TokenOf(f, s), p)
           /\ TokenOf(f, s)' = TokenOf(f, s)
           /\ TokenOf(f, s) = TokenIn(v, f, s) /\ TokenOf(f, s) \in Tokens
  <1>1. /\ HeadWaits(f) /\ FlowCreditFits(f) /\ GlobalCreditFits(f)
        /\ credit' = [credit EXCEPT ![f] = @ + Check!Charge(p)]
        /\ global_credit' = global_credit + Check!Charge(p)
        /\ phase' = [phase EXCEPT ![f][s] = "PUSHING"]
        /\ data_writes' = [data_writes EXCEPT ![f][s] = DataWrites(TokenOf(f, s), p)]
        /\ next_issue' = [next_issue EXCEPT ![f] = s + 1]
        /\ UNCHANGED <<base, next_publish, next_consume, released, generations,
                       halted, payload, generation>>
    BY ChargeIsSize DEF PumpIssue, Issuable, HeadSize
  <1>2. /\ phase \in [Flows -> [Serials -> Phases]]
        /\ data_writes \in [Flows -> [Serials -> SUBSET Writes]]
        /\ PacketInWindow
    BY DEF IndInv, TypeOK
  <1>3. phase[f][s] = "WAIT_SEQ" /\ ~halted[f]
    BY <1>1 DEF HeadWaits
  <1>4. p \in Payloads
    BY <1>2, <1>3 DEF PacketInWindow
  <1>5. /\ phase'[f][s] = "PUSHING"
        /\ \A g \in Flows, t \in Serials : <<g, t>> # <<f, s>> =>
             /\ phase'[g][t] = phase[g][t] /\ data_writes'[g][t] = data_writes[g][t]
        /\ data_writes'[f][s] = DataWrites(TokenOf(f, s), p)
    BY <1>1, <1>2
  <1>6. /\ w.bases = u.bases /\ w.next_issue = u.next_issue
        /\ w.next_ready = u.next_ready /\ w.next_consume = u.next_consume
        /\ w.credit = u.credit /\ w.global_credit = u.global_credit
        /\ w.released = u.released /\ w.generations = u.generations
        /\ w.halted = u.halted /\ w.pending_ready = u.pending_ready
        /\ w.here = u.here /\ w.entry[f][s] = PartIssued(p, {c})
        /\ \A g \in Flows, t \in Serials : <<g, t>> # <<f, s>> =>
                    w.entry[g][t] = u.entry[g][t]
    BY NextShaped, WithEntryFields
  <1>7. OthersSame(v, u, f, s)
    BY <1>1, <1>5, SameOthers DEF OthersStay
  <1>9. /\ v.here = [g \in Flows |-> {t \in Serials : phase[g][t] # "ABSENT"}]
        /\ u.here = [g \in Flows |-> {t \in Serials : phase'[g][t] # "ABSENT"}]
        /\ u.next_issue = next_issue' /\ v.next_issue = next_issue
        /\ u.bases = v.bases /\ u.next_ready = v.next_ready
        /\ u.next_consume = v.next_consume /\ u.generations = v.generations
        /\ u.credit = credit' /\ v.credit = credit
        /\ u.global_credit = global_credit' /\ v.global_credit = global_credit
        /\ u.released = v.released /\ v.generations = generations
    <2>1. /\ u.bases = base' /\ v.bases = base
          /\ u.next_ready = next_publish' /\ v.next_ready = next_publish
          /\ u.next_consume = next_consume' /\ v.next_consume = next_consume
          /\ u.generations = generations' /\ v.generations = generations
          /\ u.released = released' /\ v.released = released
      BY CallFields
    <2>2. /\ v.here = [g \in Flows |-> {t \in Serials : phase[g][t] # "ABSENT"}]
          /\ u.here = [g \in Flows |-> {t \in Serials : phase'[g][t] # "ABSENT"}]
          /\ u.next_issue = next_issue' /\ v.next_issue = next_issue
          /\ u.credit = credit' /\ v.credit = credit
          /\ u.global_credit = global_credit' /\ v.global_credit = global_credit
      BY CallFields
    <2> QED BY <1>1, <2>1, <2>2
  <1>10. u.here = v.here
    <2>1. \A g \in Flows, t \in Serials : phase'[g][t] # "ABSENT" <=> phase[g][t] # "ABSENT"
      BY <1>3, <1>5
    <2> QED BY <1>9, <2>1
  <1>8. OthersSame(v, w, f, s)
    <2>1. ASSUME NEW g \in Flows, NEW t \in v.here[g], <<g, t>> # <<f, s>>
          PROVE  w.entry[g][t] = v.entry[g][t]
      <3>1. t \in Serials
        BY <1>9
      <3>2. u.entry[g][t] = v.entry[g][t]
        BY <1>7, <2>1 DEF OthersSame
      <3> QED BY <1>6, <2>1, <3>1, <3>2
    <2> QED BY <2>1 DEF OthersSame
  <1>11. w.halted = v.halted
    <2>1. \A g \in Flows : halted[g] => next_issue'[g] = next_issue[g]
      BY <1>1, <1>3
    <2>2. u.halted = v.halted
      BY <1>1, <2>1, SameHalted
    <2> QED BY <1>6, <2>2
  <1>12. v.halted[f] = NotHalted
    <2>1. v.halted = [g \in Flows |-> IF halted[g] THEN next_issue[g] ELSE NotHalted]
      BY HaltFields
    <2> QED BY <1>3, <2>1
  <1>13. u.pending_ready = v.pending_ready
    <2> SUFFICES ASSUME NEW g \in Flows
                 PROVE  ReadyInFlight(phase, next_publish, g)'
                            = ReadyInFlight(phase, next_publish, g)
      BY SameReady
    <2>1. CASE next_publish[g] \in Serials
      <3>1. phase'[g][next_publish[g]] = "COMMITTING"
                <=> phase[g][next_publish[g]] = "COMMITTING"
        BY <1>3, <1>5, <2>1
      <3> QED BY <1>1, <3>1, SameInFlight
    <2>2. CASE next_publish[g] \notin Serials
      BY <1>1, <2>2 DEF ReadyInFlight
    <2> QED BY <2>1, <2>2
  <1>14. s \in v.here[f] /\ v.entry[f][s] = Fresh(p)
    <2>1. EntryAt(phase, data_writes, f, s) = Fresh(p)
      BY <1>3 DEF EntryAt
    <2>2. v.entry[f][s] = EntryAt(phase, data_writes, f, s)
      BY EntryNow
    <2>3. s \in v.here[f]
      BY <1>3, <1>9
    <2> QED BY <2>1, <2>2, <2>3
  <1>15. /\ v.credit[f] + Check!Charge(p) <= PerFlowCredit
         /\ GlobalCredit = 0 \/ v.global_credit + Check!Charge(p) <= GlobalCredit
    BY <1>1, <1>9, ChargeIsSize DEF FlowCreditFits, GlobalCreditFits, HeadSize
  <1>16. /\ w.credit = [v.credit EXCEPT ![f] = v.credit[f] + Check!Charge(p)]
         /\ w.global_credit = v.global_credit + Check!Charge(p)
         /\ w.next_issue = [v.next_issue EXCEPT ![f] = v.next_issue[f] + 1]
         /\ s = v.next_issue[f]
    BY <1>1, <1>6, <1>9
  <1>17. SeesFirst(v, w, f, s, p, c)
    BY <1>6, <1>8, <1>9, <1>10, <1>11, <1>12, <1>13, <1>14, <1>15, <1>16 DEF SeesFirst
  <1>18. TokenOf(f, s) = TokenIn(v, f, s) /\ TokenOf(f, s) \in Tokens
    BY <1>3, <1>9, OwnToken
  <1>19. TokenOf(f, s)' = TokenOf(f, s)
    BY <1>1 DEF TokenOf
  <1> QED BY <1>1, <1>3, <1>4, <1>5, <1>17, <1>18, <1>19

--------------------------------------------------------------------------------
(* A write becomes visible, and the next packet may be committed.          *)

OnlyAt(ph, dw, ph1, dw1, f, s) ==
    \A g \in Flows, t \in Serials : <<g, t>> # <<f, s>> =>
        ph1[g][t] = ph[g][t] /\ dw1[g][t] = dw[g][t]

Beside(v, u, ph, dw, np, ph1, dw1, np1, f, s) ==
    /\ u.bases = v.bases /\ u.next_issue = v.next_issue
    /\ u.next_consume = v.next_consume /\ u.credit = v.credit
    /\ u.global_credit = v.global_credit /\ u.generations = v.generations
    /\ u.released = v.released /\ u.halted = v.halted /\ u.here = v.here
    /\ OthersSame(v, u, f, s) /\ s \in v.here[f]
    /\ v.generations = generations /\ v.next_ready = np /\ u.next_ready = np1
    /\ v.entry[f][s] = EntryAt(ph, dw, f, s)
    /\ u.entry[f][s] = EntryAt(ph1, dw1, f, s)

(* One packet's part of the state has become x.                            *)
Becomes(before, after, f, s, x) == after = [before EXCEPT ![f][s] = x]

Moves(before, after, f, x) == after = [before EXCEPT ![f] = x]

LEMMA TwoViews ==
    ASSUME NEW ph, NEW dw, NEW np, NEW ph1, NEW dw1, NEW np1, NEW v, NEW u,
           IsView(v, ph, dw, np), IsView(u, ph1, dw1, np1),
           NEW f \in Flows, NEW s \in Serials, OnlyAt(ph, dw, ph1, dw1, f, s),
           ph[f][s] # "ABSENT", ph1[f][s] # "ABSENT"
    PROVE  Beside(v, u, ph, dw, np, ph1, dw1, np1, f, s)
  <1>1. /\ v.bases = base /\ v.next_issue = next_issue /\ v.next_ready = np
        /\ v.next_consume = next_consume /\ v.credit = credit
        /\ v.global_credit = global_credit /\ v.released = released
        /\ v.generations = generations
        /\ v.halted = [g \in Flows |-> IF halted[g] THEN next_issue[g] ELSE NotHalted]
        /\ v.here = [g \in Flows |-> {t \in Serials : ph[g][t] # "ABSENT"}]
        /\ \A g \in Flows, t \in Serials : v.entry[g][t] = EntryAt(ph, dw, g, t)
    BY DEF IsView, ViewAt
  <1>2. /\ u.bases = base /\ u.next_issue = next_issue /\ u.next_ready = np1
        /\ u.next_consume = next_consume /\ u.credit = credit
        /\ u.global_credit = global_credit /\ u.released = released
        /\ u.generations = generations
        /\ u.halted = [g \in Flows |-> IF halted[g] THEN next_issue[g] ELSE NotHalted]
        /\ u.here = [g \in Flows |-> {t \in Serials : ph1[g][t] # "ABSENT"}]
        /\ \A g \in Flows, t \in Serials : u.entry[g][t] = EntryAt(ph1, dw1, g, t)
    BY DEF IsView, ViewAt
  <1>3. u.here = v.here
    <2>1. \A g \in Flows, t \in Serials : ph1[g][t] # "ABSENT" <=> ph[g][t] # "ABSENT"
      BY DEF OnlyAt
    <2> QED BY <1>1, <1>2, <2>1
  <1>4. s \in v.here[f]
    BY <1>1
  <1>5. OthersSame(v, u, f, s)
    <2> SUFFICES ASSUME NEW g \in Flows, NEW t \in v.here[g], <<g, t>> # <<f, s>>
                 PROVE  u.entry[g][t] = v.entry[g][t]
      BY DEF OthersSame
    <2>1. t \in Serials
      BY <1>1
    <2>2. EntryAt(ph1, dw1, g, t) = EntryAt(ph, dw, g, t)
      BY <2>1 DEF OnlyAt, EntryAt, Left
    <2> QED BY <1>1, <1>2, <2>1, <2>2
  <1>6. u.halted = v.halted
    BY <1>1, <1>2
  <1> QED BY <1>1, <1>2, <1>3, <1>4, <1>5, <1>6 DEF Beside

LEMMA CommitSeen ==
    ASSUME IndInv, NEW ph, NEW dw, NEW np, NEW ph1, NEW m, NEW u,
           IsView(m, ph, dw, np), IsView(u, ph1, dw, np),
           ph \in [Flows -> [Serials -> Phases]],
           NEW f \in Flows, NEW s \in Serials, s = np[f], ph[f][s] = "PREPARED",
           Left(dw, f, s) = {}, phase[f][s] # "ABSENT", halted[f] => s < next_issue[f],
           Becomes(ph, ph1, f, s, "COMMITTING")
    PROVE  /\ SeesCommit(m, u, f, s, payload[f][s])
           /\ TokenOf(f, s) = TokenIn(m, f, s)
  <1>0. PICK p : p = payload[f][s]
    OBVIOUS
  <1>1. /\ ph1[f][s] = "COMMITTING"
        /\ \A g \in Flows, t \in Serials : <<g, t>> # <<f, s>> => ph1[g][t] = ph[g][t]
    BY DEF Becomes
  <1>2. OnlyAt(ph, dw, ph1, dw, f, s)
    BY <1>1 DEF OnlyAt
  <1>3. /\ u.bases = m.bases /\ u.next_issue = m.next_issue
        /\ u.next_consume = m.next_consume /\ u.credit = m.credit
        /\ u.global_credit = m.global_credit /\ u.generations = m.generations
        /\ u.released = m.released /\ u.halted = m.halted /\ u.here = m.here
        /\ OthersSame(m, u, f, s) /\ s \in m.here[f]
        /\ m.generations = generations /\ m.next_ready = np /\ u.next_ready = np
        /\ m.entry[f][s] = EntryAt(ph, dw, f, s)
        /\ u.entry[f][s] = EntryAt(ph1, dw, f, s)
    <2>1. Beside(m, u, ph, dw, np, ph1, dw, np, f, s)
      BY <1>1, <1>2, TwoViews
    <2> QED BY <2>1 DEF Beside
  <1>4. EntryAt(ph, dw, f, s) = Pushed(p, {}) /\ EntryAt(ph1, dw, f, s) = Committed(p)
    BY <1>0, <1>1 DEF EntryAt
  <1>5. TokenOf(f, s) = TokenIn(m, f, s)
    BY <1>3, OwnToken
  <1>6. m.halted[f] # NotHalted => s < m.halted[f]
    <2>1. m.halted = [g \in Flows |-> IF halted[g] THEN next_issue[g] ELSE NotHalted]
      BY DEF IsView, ViewAt
    <2> QED BY <2>1
  <1>7. /\ m.pending_ready[f] = NoToken
        /\ u.pending_ready = [m.pending_ready EXCEPT ![f] = TokenOf(f, s)]
    <2>1. /\ m.pending_ready = [g \in Flows |-> ReadyInFlight(ph, np, g)]
          /\ u.pending_ready = [g \in Flows |-> ReadyInFlight(ph1, np, g)]
      BY DEF IsView, ViewAt
    <2>2. ReadyInFlight(ph, np, f) = NoToken /\ ReadyInFlight(ph1, np, f) = TokenOf(f, s)
      BY <1>1 DEF ReadyInFlight
    <2>5. ASSUME NEW g \in Flows, g # f PROVE u.pending_ready[g] = m.pending_ready[g]
      <3>1. ReadyInFlight(ph1, np, g) = ReadyInFlight(ph, np, g)
        BY <1>1, <2>5 DEF ReadyInFlight
      <3> QED BY <2>1, <3>1
    <2>4. m.pending_ready[f] = NoToken /\ u.pending_ready[f] = TokenOf(f, s)
      BY <2>1, <2>2
    <2>6. /\ m.pending_ready = [g \in Flows |-> m.pending_ready[g]]
          /\ u.pending_ready = [g \in Flows |-> u.pending_ready[g]]
      BY <2>1
    <2> QED BY <2>4, <2>5, <2>6
  <1>8. SeesCommit(m, u, f, s, p)
    BY <1>3, <1>4, <1>5, <1>6, <1>7 DEF SeesCommit
  <1> QED BY <1>0, <1>5, <1>8

LEMMA DataSeen ==
    ASSUME IndInv, NEW np, NEW ph1, NEW dw1, NEW v, NEW m,
           IsView(v, phase, data_writes, np), IsView(m, ph1, dw1, np),
           NEW f \in Flows, NEW s \in Serials, phase[f][s] = "PUSHING",
           NEW w \in data_writes[f][s],
           Becomes(data_writes, dw1, f, s, data_writes[f][s] \ {w}),
           NEW x \in {"PUSHING", "PREPARED"}, Becomes(phase, ph1, f, s, x),
           NEW p, p = payload[f][s]
    PROVE  /\ p \in Payloads /\ TokenOf(f, s) = TokenIn(v, f, s)
           /\ WriteEvent("visible", w) = VisibleEvent(TokenOf(f, s), p, Component(w))
           /\ Component(w) \in Data(p)
           /\ Left(data_writes, f, s) \subseteq Data(p)
           /\ SeesData(v, m, f, s, p, Left(data_writes, f, s), Component(w))
  <1>1. /\ phase \in [Flows -> [Serials -> Phases]]
        /\ data_writes \in [Flows -> [Serials -> SUBSET Writes]]
        /\ PacketInWindow /\ DataWritesPending
    BY DEF IndInv, TypeOK
  <1>2. p \in Payloads
    BY <1>1 DEF PacketInWindow
  <1>3. /\ ph1[f][s] = x /\ dw1[f][s] = data_writes[f][s] \ {w}
        /\ \A g \in Flows, t \in Serials : <<g, t>> # <<f, s>> =>
              ph1[g][t] = phase[g][t] /\ dw1[g][t] = data_writes[g][t]
    BY <1>1 DEF Becomes
  <1>4. OnlyAt(phase, data_writes, ph1, dw1, f, s)
    BY <1>3 DEF OnlyAt
  <1>5. /\ m.bases = v.bases /\ m.next_issue = v.next_issue
        /\ m.next_consume = v.next_consume /\ m.credit = v.credit
        /\ m.global_credit = v.global_credit /\ m.generations = v.generations
        /\ m.released = v.released /\ m.halted = v.halted /\ m.here = v.here
        /\ OthersSame(v, m, f, s) /\ s \in v.here[f]
        /\ v.generations = generations /\ v.next_ready = np /\ m.next_ready = np
        /\ v.entry[f][s] = EntryAt(phase, data_writes, f, s)
        /\ m.entry[f][s] = EntryAt(ph1, dw1, f, s)
    <2>1. ph1[f][s] # "ABSENT"
      BY <1>3
    <2>2. Beside(v, m, phase, data_writes, np, ph1, dw1, np, f, s)
      BY <1>4, <2>1, TwoViews
    <2> QED BY <2>2 DEF Beside
  <1>6. TokenOf(f, s) = TokenIn(v, f, s) /\ TokenOf(f, s) \in Tokens
    BY <1>5, OwnToken
  <1>7. \A y \in data_writes[f][s] : y \in DataWrites(TokenOf(f, s), p)
    BY <1>1 DEF DataWritesPending
  <1>8. /\ Component(w) \in Data(p)
        /\ w.token = TokenOf(f, s)
        /\ Content(w) = Check!ContentOf(TokenOf(f, s), p, Component(w))
    BY <1>6, <1>7, DataWriteMeans
  <1>9. Left(data_writes, f, s) \subseteq Data(p)
    BY <1>6, <1>7, DataWriteMeans DEF Left
  <1>10. Left(dw1, f, s) = Left(data_writes, f, s) \ {Component(w)}
    <2>1. \A y \in data_writes[f][s] : Component(y) = Component(w) => y = w
      BY <1>6, <1>7, ComponentsDiffer
    <2> QED BY <1>3, <2>1 DEF Left
  <1>11. /\ EntryAt(phase, data_writes, f, s) = Pushed(p, Left(data_writes, f, s))
         /\ EntryAt(ph1, dw1, f, s) = Pushed(p, Left(data_writes, f, s) \ {Component(w)})
    BY <1>3, <1>10 DEF EntryAt
  <1>12. Component(w) \in Left(data_writes, f, s)
    BY DEF Left
  <1>13. m.pending_ready = v.pending_ready
    <2>1. /\ v.pending_ready = [g \in Flows |-> ReadyInFlight(phase, np, g)]
          /\ m.pending_ready = [g \in Flows |-> ReadyInFlight(ph1, np, g)]
      BY DEF IsView, ViewAt
    <2>2. ASSUME NEW g \in Flows
          PROVE  ReadyInFlight(ph1, np, g) = ReadyInFlight(phase, np, g)
      <3>1. np[g] \in Serials =>
                (ph1[g][np[g]] = "COMMITTING" <=> phase[g][np[g]] = "COMMITTING")
        BY <1>3
      <3> QED BY <3>1 DEF ReadyInFlight
    <2> QED BY <2>1, <2>2
  <1>14. SeesData(v, m, f, s, p, Left(data_writes, f, s), Component(w))
    BY <1>5, <1>9, <1>11, <1>12, <1>13 DEF SeesData
  <1>15. WriteEvent("visible", w) = VisibleEvent(TokenOf(f, s), p, Component(w))
    BY <1>8 DEF WriteEvent, VisibleEvent
  <1> QED BY <1>2, <1>6, <1>8, <1>9, <1>14, <1>15

LEMMA PublishedSeen ==
    ASSUME IndInv, NEW np1, NEW ph1, NEW v, NEW m,
           IsView(v, phase, data_writes, next_publish), IsView(m, ph1, data_writes, np1),
           NEW f \in Flows, NEW s \in Serials, phase[f][s] = "COMMITTING",
           s = next_publish[f], Moves(next_publish, np1, f, s + 1),
           Becomes(phase, ph1, f, s, "READY"),
           NEW p, p = payload[f][s]
    PROVE  /\ p \in Payloads /\ TokenOf(f, s) = TokenIn(v, f, s)
           /\ SeesPublished(v, m, f, s, p)
  <1>1. /\ phase \in [Flows -> [Serials -> Phases]]
        /\ next_publish \in [Flows -> Nat] /\ s \in Nat
        /\ PacketInWindow /\ PhaseAmongCursors
    BY SlotOfSerial DEF IndInv, TypeOK
  <1>2. p \in Payloads
    BY <1>1 DEF PacketInWindow
  <1>3. /\ ph1[f][s] = "READY" /\ np1[f] = s + 1
        /\ \A g \in Flows : g # f => np1[g] = next_publish[g]
        /\ \A g \in Flows, t \in Serials : <<g, t>> # <<f, s>> => ph1[g][t] = phase[g][t]
    BY <1>1 DEF Becomes, Moves
  <1>4. OnlyAt(phase, data_writes, ph1, data_writes, f, s)
    BY <1>3 DEF OnlyAt
  <1>5. /\ m.bases = v.bases /\ m.next_issue = v.next_issue
        /\ m.next_consume = v.next_consume /\ m.credit = v.credit
        /\ m.global_credit = v.global_credit /\ m.generations = v.generations
        /\ m.released = v.released /\ m.halted = v.halted /\ m.here = v.here
        /\ OthersSame(v, m, f, s) /\ s \in v.here[f]
        /\ v.generations = generations /\ v.next_ready = next_publish /\ m.next_ready = np1
        /\ v.entry[f][s] = EntryAt(phase, data_writes, f, s)
        /\ m.entry[f][s] = EntryAt(ph1, data_writes, f, s)
    <2>1. ph1[f][s] # "ABSENT"
      BY <1>3
    <2>2. Beside(v, m, phase, data_writes, next_publish, ph1, data_writes, np1, f, s)
      BY <1>4, <2>1, TwoViews
    <2> QED BY <2>2 DEF Beside
  <1>6. TokenOf(f, s) = TokenIn(v, f, s)
    BY <1>5, OwnToken
  <1>7. /\ EntryAt(phase, data_writes, f, s) = Committed(p)
        /\ EntryAt(ph1, data_writes, f, s) = Readied(p)
    BY <1>3 DEF EntryAt
  <1>8. /\ v.pending_ready[f] = TokenOf(f, s)
        /\ m.pending_ready = [v.pending_ready EXCEPT ![f] = NoToken]
    <2>1. /\ v.pending_ready = [g \in Flows |-> ReadyInFlight(phase, next_publish, g)]
          /\ m.pending_ready = [g \in Flows |-> ReadyInFlight(ph1, np1, g)]
      BY DEF IsView, ViewAt
    <2>2. ReadyInFlight(phase, next_publish, f) = TokenOf(f, s)
      BY DEF ReadyInFlight
    <2>3. ReadyInFlight(ph1, np1, f) = NoToken
      <3>1. s + 1 # s
        BY <1>1
      <3>2. s + 1 \in Serials => phase[f][s + 1] # "COMMITTING"
        BY <1>1, <3>1 DEF PhaseAmongCursors
      <3>3. s + 1 \in Serials => ph1[f][s + 1] = phase[f][s + 1]
        BY <1>3, <3>1
      <3> QED BY <1>3, <3>2, <3>3 DEF ReadyInFlight
    <2>6. ASSUME NEW g \in Flows, g # f PROVE m.pending_ready[g] = v.pending_ready[g]
      <3>1. ReadyInFlight(ph1, np1, g) = ReadyInFlight(phase, next_publish, g)
        BY <1>3, <2>6 DEF ReadyInFlight
      <3> QED BY <2>1, <3>1
    <2>5. v.pending_ready[f] = TokenOf(f, s) /\ m.pending_ready[f] = NoToken
      BY <2>1, <2>2, <2>3
    <2>7. /\ v.pending_ready = [g \in Flows |-> v.pending_ready[g]]
          /\ m.pending_ready = [g \in Flows |-> m.pending_ready[g]]
      BY <2>1
    <2> QED BY <2>5, <2>6, <2>7
  <1>9. m.next_ready = [v.next_ready EXCEPT ![f] = v.next_ready[f] + 1]
    BY <1>5 DEF Moves
  <1>10. SeesPublished(v, m, f, s, p)
    BY <1>5, <1>6, <1>7, <1>8, <1>9 DEF SeesPublished
  <1> QED BY <1>2, <1>6, <1>10

LEMMA SomeData == ASSUME NEW p PROVE \E c : c \in Data(p)
  <1>1. <<"descriptor", "length">> \in Data(p)
    BY DataIs, WorldAssumption
  <1> QED BY <1>1

LEMMA ReadyEvents ==
    ASSUME NEW t, NEW p, NEW w, w.kind = "ready", w.token = t
    PROVE  /\ WriteEvent("issue", w) = IssueEvent(t, p, Check!ReadyComponent)
           /\ WriteEvent("visible", w) = VisibleEvent(t, p, Check!ReadyComponent)
  <1>1. Component(w) = Check!ReadyComponent /\ Content(w) = Check!NoContent
    BY DEF Component, Content
  <1>2. Check!ContentOf(t, p, Check!ReadyComponent) = Check!NoContent
    BY DEF Check!ContentOf
  <1> QED BY <1>1, <1>2 DEF WriteEvent, IssueEvent, VisibleEvent

(* Whether the completion of w committed a packet can be told from its     *)
(* events.                                                                 *)
LEMMA CommitTail ==
    ASSUME IndInv, NEW w \in pending, NEW f \in Flows, NEW c,
           NEW ph \in [Flows -> [Serials -> Phases]], NEW dw, NEW np, NEW m, NEW u, NEW ph1,
           IsView(m, ph, dw, np), IsView(u, ph1, dw, np), ph1 = phase', c = np[f],
           TryCommit(f, ph, c, pending \ {w}),
           Committable(ph, f, c) =>
                /\ phase[f][c] \notin {"ABSENT", "COMMITTING"}
                /\ Left(dw, f, c) = {}
                /\ halted[f] => c < next_issue[f]
    PROVE  \/ CompleteEvents(w) = <<WriteEvent("visible", w)>> /\ u = m
           \/ \E d : /\ CompleteEvents(w) = <<WriteEvent("visible", w), d>>
                     /\ Sees(m, d, u)
  <1>1. CASE ~Committable(ph, f, c)
    <2>1. ph1 = ph /\ pending' = pending \ {w}
      BY <1>1, TryCommitEffect
    <2>2. CompleteEvents(w) = <<WriteEvent("visible", w)>>
      BY <2>1 DEF CompleteEvents
    <2>3. u = m
      BY <2>1 DEF IsView
    <2> QED BY <2>2, <2>3
  <1>2. CASE Committable(ph, f, c)
    <2> DEFINE r == ReadyWrite(TokenOf(f, c))
    <2>1. /\ c \in Serials /\ ph[f][c] = "PREPARED"
          /\ ph1 = [ph EXCEPT ![f][c] = "COMMITTING"]
          /\ pending' = (pending \ {w}) \cup {r}
      BY <1>2, TryCommitEffect
    <2>2. r \notin pending
      <3>1. r.kind = "ready" /\ r.token.flow = f /\ r.token.serial = c
        BY DEF ReadyWrite, TokenOf, Token
      <3>2. WritesOwned
        BY DEF IndInv
      <3> HIDE DEF r
      <3> QED BY <1>2, <3>1, <3>2 DEF WritesOwned
    <2>3. SeesCommit(m, u, f, c, payload[f][c]) /\ TokenOf(f, c) = TokenIn(m, f, c)
      <3>1. Becomes(ph, ph1, f, c, "COMMITTING")
        BY <2>1 DEF Becomes
      <3> QED BY <1>2, <2>1, <3>1, CommitSeen
    <2>4. PICK p \in Payloads : p = payload[f][c]
      BY <1>2, <2>1 DEF IndInv, PacketInWindow
    <2>5. WriteEvent("issue", r) = IssueEvent(TokenIn(m, f, c), p, Check!ReadyComponent)
      <3>1. r.kind = "ready" /\ r.token = TokenIn(m, f, c)
        BY <2>3 DEF ReadyWrite
      <3> HIDE DEF r
      <3> QED BY <3>1, ReadyEvents
    <2>6. Sees(m, WriteEvent("issue", r), u)
      <3>1. PICK d : d \in Data(p)
        BY SomeData
      <3>2. SeesCommit(m, u, f, c, p)
        BY <2>3, <2>4
      <3> QED BY <2>1, <2>5, <3>1, <3>2 DEF Sees, SeesWrite
    <2> HIDE DEF r
    <2>7. pending' \ pending = {r} /\ ~(pending' \subseteq pending)
      BY <2>1, <2>2
    <2>8. (CHOOSE x \in pending' \ pending : TRUE) = r
      BY <2>7
    <2>9. CompleteEvents(w) = <<WriteEvent("visible", w), WriteEvent("issue", r)>>
      BY <2>7, <2>8 DEF CompleteEvents
    <2> QED BY <2>6, <2>9
  <1> QED BY <1>1, <1>2

LEMMA NextIsView ==
    ASSUME UNCHANGED <<base, next_issue, next_consume, credit, global_credit, released,
                       generations, halted, payload, generation>>,
           NEW ph, NEW dw, NEW np, ph = phase', dw = data_writes', np = next_publish',
           NEW u, IsNext(u)
    PROVE  IsView(u, ph, dw, np)
  BY DEF IsView, IsNext, Now, ViewAt, EntryAt, Left, ReadyInFlight, TokenOf

LEMMA CompleteReadySeen ==
    ASSUME IndInv, NEW w \in pending, CompleteReady(w), NEW v, IsNow(v), NEW u, IsNext(u)
    PROVE  \E m : /\ Sees(v, WriteEvent("visible", w), m)
                  /\ \/ CompleteEvents(w) = <<WriteEvent("visible", w)>> /\ u = m
                     \/ \E d : /\ CompleteEvents(w) = <<WriteEvent("visible", w), d>>
                               /\ Sees(m, d, u)
  <1>0. PICK f, s : f = w.token.flow /\ s = w.token.serial
    OBVIOUS
  <1>1. /\ f \in Flows /\ s \in Serials /\ s \in Nat /\ w \in Writes
        /\ w.token = TokenOf(f, s) /\ w.kind = "ready"
    <2>1. TypeOK /\ WritesOwned
      BY DEF IndInv
    <2> QED BY <1>0, <2>1, OwnedTyped, SlotOfSerial DEF CompleteReady
  <1>2. phase[f][s] = "COMMITTING" /\ next_publish[f] = s
    BY <1>0, <1>1 DEF CompleteReady, EarlyPublication
  <1>3. PICK c, np, ph, ph1, p :
            /\ c = s + 1 /\ np = [next_publish EXCEPT ![f] = s + 1]
            /\ ph = [phase EXCEPT ![f][s] = "READY"] /\ ph1 = phase' /\ p = payload[f][s]
    OBVIOUS
  <1>4. /\ np = next_publish' /\ TryCommit(f, ph, c, pending \ {w})
        /\ UNCHANGED <<base, next_issue, next_consume, credit, global_credit, released,
                       generations, halted, payload, generation, data_writes>>
    BY <1>0, <1>1, <1>2, <1>3 DEF CompleteReady, SerialToPublish, budgets
  <1>5. /\ phase \in [Flows -> [Serials -> Phases]]
        /\ next_publish \in [Flows -> Nat]
        /\ PhaseAmongCursors /\ DataWritesPending
    BY DEF IndInv, TypeOK
  <1>6. ph \in [Flows -> [Serials -> Phases]] /\ np[f] = c
    BY <1>1, <1>3, <1>5 DEF Phases
  <1>7. PICK m : IsView(m, ph, data_writes, np)
    BY DEF IsView
  <1>8. IsView(u, ph1, data_writes, np)
    BY <1>3, <1>4, NextIsView
  <1>9. IsView(v, phase, data_writes, next_publish)
    BY DEF IsNow, Now, IsView
  <1>10. /\ p \in Payloads /\ TokenOf(f, s) = TokenIn(v, f, s)
         /\ SeesPublished(v, m, f, s, p)
    <2>1. Becomes(phase, ph, f, s, "READY") /\ Moves(next_publish, np, f, s + 1)
      BY <1>3 DEF Becomes, Moves
    <2> QED BY <1>1, <1>2, <1>3, <1>7, <1>9, <2>1, PublishedSeen
  <1>11. Sees(v, WriteEvent("visible", w), m)
    <2>1. WriteEvent("visible", w) = VisibleEvent(TokenIn(v, f, s), p, Check!ReadyComponent)
      BY <1>1, <1>10, ReadyEvents
    <2>2. PICK d : d \in Data(p)
      BY SomeData
    <2> QED BY <1>1, <1>10, <2>1, <2>2 DEF Sees, SeesWrite
  <1>12. Committable(ph, f, c) =>
                /\ phase[f][c] \notin {"ABSENT", "COMMITTING"}
                /\ Left(data_writes, f, c) = {}
                /\ halted[f] => c < next_issue[f]
    <2> SUFFICES ASSUME Committable(ph, f, c)
                 PROVE  /\ phase[f][c] \notin {"ABSENT", "COMMITTING"}
                        /\ Left(data_writes, f, c) = {}
                        /\ halted[f] => c < next_issue[f]
      OBVIOUS
    <2>1. c \in Serials /\ phase[f][c] = "PREPARED"
      BY <1>1, <1>3, <1>5 DEF Committable
    <2>2. data_writes[f][c] = {}
      BY <1>1, <1>5, <2>1 DEF DataWritesPending
    <2>3. c < next_issue[f]
      BY <1>1, <1>5, <2>1 DEF PhaseAmongCursors
    <2> QED BY <2>1, <2>2, <2>3 DEF Left
  <1>13. \/ CompleteEvents(w) = <<WriteEvent("visible", w)>> /\ u = m
         \/ \E d : /\ CompleteEvents(w) = <<WriteEvent("visible", w), d>>
                   /\ Sees(m, d, u)
    BY <1>1, <1>3, <1>4, <1>6, <1>7, <1>8, <1>12, CommitTail
  <1> QED BY <1>11, <1>13

LEMMA CompleteDataSeen ==
    ASSUME IndInv, NEW w \in pending, CompleteData(w), NEW v, IsNow(v), NEW u, IsNext(u)
    PROVE  \E m : /\ Sees(v, WriteEvent("visible", w), m)
                  /\ \/ CompleteEvents(w) = <<WriteEvent("visible", w)>> /\ u = m
                     \/ \E d : /\ CompleteEvents(w) = <<WriteEvent("visible", w), d>>
                               /\ Sees(m, d, u)
  <1>0. PICK f, s : f = w.token.flow /\ s = w.token.serial
    OBVIOUS
  <1>1. f \in Flows /\ s \in Serials /\ s \in Nat
    <2>1. TypeOK /\ WritesOwned
      BY DEF IndInv
    <2> QED BY <1>0, <2>1, OwnedTyped, SlotOfSerial
  <1>2. phase[f][s] = "PUSHING" /\ w \in data_writes[f][s]
    BY <1>0, <1>1 DEF CompleteData, LateData
  <1>3. PICK dw, x, ph, ph1, p, np :
            /\ dw = [data_writes EXCEPT ![f][s] = data_writes[f][s] \ {w}]
            /\ x = PhaseAfterData(data_writes[f][s] \ {w}) /\ np = next_publish
            /\ ph = [phase EXCEPT ![f][s] = x] /\ ph1 = phase' /\ p = payload[f][s]
    OBVIOUS
  <1>4. /\ dw = data_writes' /\ TryCommit(f, ph, np[f], pending \ {w})
        /\ UNCHANGED <<base, next_issue, next_publish, next_consume, credit, global_credit,
                       released, generations, halted, payload, generation>>
    BY <1>0, <1>1, <1>2, <1>3 DEF CompleteData, budgets, cursors
  <1>5. /\ phase \in [Flows -> [Serials -> Phases]]
        /\ data_writes \in [Flows -> [Serials -> SUBSET Writes]]
        /\ PhaseAmongCursors /\ DataWritesPending
    BY DEF IndInv, TypeOK
  <1>6. x \in {"PUSHING", "PREPARED"} /\ (x = "PREPARED" => data_writes[f][s] \ {w} = {})
    BY <1>3 DEF PhaseAfterData
  <1>7. ph \in [Flows -> [Serials -> Phases]]
    BY <1>1, <1>3, <1>5, <1>6 DEF Phases
  <1>8. PICK m : IsView(m, ph, dw, np)
    BY DEF IsView
  <1>9. IsView(u, ph1, dw, np)
    BY <1>3, <1>4, NextIsView
  <1>10. IsView(v, phase, data_writes, np)
    BY <1>3 DEF IsNow, Now, IsView
  <1>11. /\ p \in Payloads /\ TokenOf(f, s) = TokenIn(v, f, s)
         /\ WriteEvent("visible", w) = VisibleEvent(TokenOf(f, s), p, Component(w))
         /\ Component(w) \in Data(p)
         /\ Left(data_writes, f, s) \subseteq Data(p)
         /\ SeesData(v, m, f, s, p, Left(data_writes, f, s), Component(w))
    <2>1. /\ Becomes(data_writes, dw, f, s, data_writes[f][s] \ {w})
          /\ Becomes(phase, ph, f, s, x)
      BY <1>3 DEF Becomes
    <2> QED BY <1>1, <1>2, <1>3, <1>6, <1>8, <1>10, <2>1, DataSeen
  <1>12. Sees(v, WriteEvent("visible", w), m)
    BY <1>1, <1>11 DEF Sees, SeesWrite
  <1>13. PICK c : c = np[f]
    OBVIOUS
  <1>14. Committable(ph, f, c) =>
                /\ phase[f][c] \notin {"ABSENT", "COMMITTING"}
                /\ Left(dw, f, c) = {}
                /\ halted[f] => c < next_issue[f]
    <2> SUFFICES ASSUME Committable(ph, f, c)
                 PROVE  /\ phase[f][c] \notin {"ABSENT", "COMMITTING"}
                        /\ Left(dw, f, c) = {}
                        /\ halted[f] => c < next_issue[f]
      OBVIOUS
    <2>1. c \in Serials /\ ph[f][c] = "PREPARED"
      BY DEF Committable
    <2>2. CASE c = s
      <3>1. ph[f][s] = x /\ dw[f][s] = data_writes[f][s] \ {w}
        BY <1>1, <1>3, <1>5
      <3>2. s < next_issue[f]
        BY <1>1, <1>2, <1>5 DEF PhaseAmongCursors
      <3> QED BY <1>2, <1>6, <2>1, <2>2, <3>1, <3>2 DEF Left
    <2>3. CASE c # s
      <3>1. phase[f][c] = "PREPARED" /\ dw[f][c] = data_writes[f][c]
        BY <1>1, <1>3, <1>5, <2>1, <2>3
      <3>2. data_writes[f][c] = {}
        BY <1>1, <1>5, <2>1, <3>1 DEF DataWritesPending
      <3>3. c < next_issue[f]
        BY <1>1, <1>5, <2>1, <3>1 DEF PhaseAmongCursors
      <3> QED BY <3>1, <3>2, <3>3 DEF Left
    <2> QED BY <2>2, <2>3
  <1>15. \/ CompleteEvents(w) = <<WriteEvent("visible", w)>> /\ u = m
         \/ \E d : /\ CompleteEvents(w) = <<WriteEvent("visible", w), d>>
                   /\ Sees(m, d, u)
    BY <1>1, <1>3, <1>4, <1>7, <1>8, <1>9, <1>13, <1>14, CommitTail
  <1> QED BY <1>12, <1>15

--------------------------------------------------------------------------------
(* What a call leaves to be read.                                          *)

LEMMA OneUnread ==
    ASSUME NEW v, NEW e, NEW u, unread' = <<e>>, Sees(v, e, u), IsNext(u)
    PROVE  Unread(v)'
  BY DEF Unread, IsNext

LEMMA TwoUnread ==
    ASSUME NEW v, NEW e, NEW m, NEW d, NEW u, unread' = <<e, d>>,
           Sees(v, e, m), Sees(m, d, u), IsNext(u)
    PROVE  Unread(v)'
  BY DEF Unread, IsNext

LEMMA IssueUnread ==
    ASSUME IndInv, NEW k \in 0..(NumFlows - 1), PumpIssue(k),
           NEW f \in Flows, f = FlowAt(k), NEW s, s = next_issue[f],
           NEW p, p = payload[f][s], NEW t, t = TokenOf(f, s), unread' = IssueEvents(t, p),
           NEW v, IsNow(v), NEW u, IsNext(u)
    PROVE  Unread(v)'
  <1>1. s \in Serials
    BY DEF PumpIssue, Issuable, HeadWaits, Present
  <1>2. PICK c : c = ComponentAt(p, 1)
    OBVIOUS
  <1>3. PICK w : w = WithEntry(u, f, s, PartIssued(p, {c}))
    OBVIOUS
  <1>4. p \in Payloads
    <2>1. phase[f][s] = "WAIT_SEQ"
      BY DEF PumpIssue, Issuable, HeadWaits
    <2> QED BY <1>1, <2>1 DEF IndInv, PacketInWindow
  <1>5. 1 \in 1..WriteCount(p) /\ WriteCount(p) \in Nat
    BY <1>4, LinesCounted
  <1>6. c \in Data(p)
    BY <1>2, <1>4, <1>5, ComponentsInOrder
  <1>7. /\ SeesFirst(v, w, f, s, p, c)
        /\ p = payload'[f][s]
        /\ phase'[f][s] = "PUSHING" /\ ~halted'[f]
        /\ data_writes'[f][s] = DataWrites(TokenOf(f, s), p)
        /\ TokenOf(f, s)' = TokenOf(f, s)
        /\ TokenOf(f, s) = TokenIn(v, f, s) /\ TokenOf(f, s) \in Tokens
    BY <1>1, <1>3, <1>6, PumpIssueSeen
  <1>8. Sees(v, IssueEvent(t, p, c), w)
    BY <1>1, <1>4, <1>6, <1>7 DEF Sees, SeesWrite
  <1>9. Left(data_writes, f, s)' = Data(p)
    BY <1>4, <1>7, AllComponents DEF Left
  <1>10. unread' = [j \in 1..WriteCount(p) |-> IssueEvent(t, p, ComponentAt(p, j))]
    <2>1. \A j \in 1..WriteCount(p) :
            WriteEvent("issue", WriteAt(t, p, j)) = IssueEvent(t, p, ComponentAt(p, j))
      BY <1>4, <1>7, WriteAtMeans
    <2> QED BY <2>1 DEF IssueEvents, WriteCount
  <1>11. \A j \in 1..WriteCount(p) : 1 + j - 1 = j
    BY <1>5
  <1>12. unread' = [j \in 1..(WriteCount(p) - 1 + 1) |->
                        IssueEvent(t, p, ComponentAt(p, 1 + j - 1))]
    BY <1>5, <1>10, <1>11
  <1>13. FirstComponents(p, 1) = {c}
    BY <1>2 DEF FirstComponents
  <1>14. w = PartView(f, s, 1)'
    BY <1>3, <1>7, <1>13 DEF PartView, IsNext
  <1>15. IssuingFrom(v, f, s, 1)'
    BY <1>2, <1>7, <1>8, <1>9, <1>12, <1>14 DEF IssuingFrom
  <1> QED BY <1>1, <1>5, <1>7, <1>15 DEF Unread

LEMMA CallUnread ==
    ASSUME IndInv, unread = <<>>, Call, NEW v, IsNow(v)
    PROVE  Unread(v)'
  <1>0. PICK u : IsNext(u)
    BY DEF IsNext
  <1>1. ASSUME NEW f \in Flows, NEW e \in Epochs, NEW q \in Sequences, NEW p \in Payloads,
               Receive(f, e, q, p),
               unread' = <<ReceiveEvent(TokenOf(f, WireSerial(e, q))', p)>>
        PROVE  Unread(v)'
    <2>1. PICK s \in Serials : s = WireSerial(e, q)
      BY DEF Serials
    <2>2. SeesReceive(v, u, f, s, p) /\ TokenOf(f, s)' = TokenIn(u, f, s)
      BY <1>0, <1>1, <2>1, ReceiveSeen
    <2>3. unread' = <<ReceiveEvent(TokenIn(u, f, s), p)>>
      BY <1>1, <2>1, <2>2
    <2>4. Sees(v, ReceiveEvent(TokenIn(u, f, s), p), u)
      BY <2>2 DEF Sees, SeesCall
    <2> QED BY <1>0, <2>3, <2>4, OneUnread
  <1>2. ASSUME PumpCall \/ PumpPass, unread' = <<>> PROVE Unread(v)'
    BY <1>2, PumpUnseen DEF Unread, IsNow
  <1>3. ASSUME NEW k \in 0..(NumFlows - 1), PumpIssue(k),
               unread' = IssueEvents(TokenOf(FlowAt(k), next_issue[FlowAt(k)]),
                                     payload[FlowAt(k)][next_issue[FlowAt(k)]])
        PROVE  Unread(v)'
    <2>1. PICK f, s, p, t : /\ f \in Flows /\ f = FlowAt(k) /\ s = next_issue[f]
                            /\ p = payload[f][s] /\ t = TokenOf(f, s)
      <3>1. FlowAt(k) \in Flows
        BY FlowAtTyped DEF IndInv
      <3> QED BY <3>1
    <2> QED BY <1>0, <1>3, <2>1, IssueUnread
  <1>4. ASSUME NEW w \in pending, Complete(w), unread' = CompleteEvents(w)
        PROVE  Unread(v)'
    <2>1. PICK m : /\ Sees(v, WriteEvent("visible", w), m)
                   /\ \/ CompleteEvents(w) = <<WriteEvent("visible", w)>> /\ u = m
                      \/ \E d : /\ CompleteEvents(w) = <<WriteEvent("visible", w), d>>
                                /\ Sees(m, d, u)
      BY <1>0, <1>4, CompleteReadySeen, CompleteDataSeen DEF Complete
    <2>2. CASE CompleteEvents(w) = <<WriteEvent("visible", w)>> /\ u = m
      BY <1>0, <1>4, <2>1, <2>2, OneUnread
    <2>3. ASSUME NEW d, CompleteEvents(w) = <<WriteEvent("visible", w), d>>, Sees(m, d, u)
          PROVE  Unread(v)'
      BY <1>0, <1>4, <2>1, <2>3, TwoUnread
    <2> QED BY <2>1, <2>2, <2>3
  <1>5. ASSUME NEW f \in Flows, Acquire(f),
               unread' = <<ConsumeEvent(TokenOf(f, next_consume[f]),
                                        Snapshot(f, next_consume[f]))>>
        PROVE  Unread(v)'
    <2>1. PICK s, p : s = next_consume[f] /\ p = payload[f][s]
      OBVIOUS
    <2>2. /\ s \in Serials /\ p \in Payloads /\ SeesConsume(v, u, f, s, p)
          /\ TokenOf(f, s) = TokenIn(v, f, s)
          /\ Snapshot(f, s) = Image(TokenOf(f, s), p)
      BY <1>0, <1>5, <2>1, AcquireSeen
    <2>3. unread' = <<ConsumeEvent(TokenIn(v, f, s), Image(TokenIn(v, f, s), p))>>
      BY <1>5, <2>1, <2>2
    <2>4. Sees(v, ConsumeEvent(TokenIn(v, f, s), Image(TokenIn(v, f, s), p)), u)
      BY <2>2 DEF Sees, SeesCall
    <2> QED BY <1>0, <2>3, <2>4, OneUnread
  <1>6. ASSUME NEW f \in Flows, NEW s \in Serials, Release(f, s),
               unread' = <<ReleaseEvent(TokenOf(f, s))>>
        PROVE  Unread(v)'
    <2>1. PICK p \in Payloads :
            SeesRelease(v, u, f, s, p) /\ TokenOf(f, s) = TokenIn(v, f, s)
      BY <1>0, <1>6, ReleaseSeen
    <2>2. Sees(v, ReleaseEvent(TokenOf(f, s)), u)
      BY <2>1 DEF Sees, SeesCall
    <2> QED BY <1>0, <1>6, <2>2, OneUnread
  <1>7. ASSUME NEW f \in Flows, FailGap(f), unread' = <<HaltEvent(f, next_issue[f])>>
        PROVE  Unread(v)'
    <2>1. SeesHalt(v, u, f) /\ v.next_issue[f] = next_issue[f]
      BY <1>0, <1>7, FailGapSeen
    <2>2. Sees(v, HaltEvent(f, next_issue[f]), u)
      BY <2>1 DEF Sees, SeesCall
    <2> QED BY <1>0, <1>7, <2>2, OneUnread
  <1> QED BY <1>1, <1>2, <1>3, <1>4, <1>5, <1>6, <1>7 DEF Call, Emit

--------------------------------------------------------------------------------
(* What reading the next event leaves.                                     *)

LEMMA PartViewFields ==
    ASSUME NEW n, IsNow(n), NEW f \in Flows, NEW s \in Serials, NEW i,
           NEW p, p = payload[f][s], NEW w, w = PartView(f, s, i)
    PROVE  /\ w.bases = n.bases /\ w.next_issue = n.next_issue
           /\ w.next_ready = n.next_ready /\ w.next_consume = n.next_consume
           /\ w.credit = n.credit /\ w.global_credit = n.global_credit
           /\ w.released = n.released /\ w.generations = n.generations
           /\ w.halted = n.halted /\ w.pending_ready = n.pending_ready
           /\ w.here = n.here /\ w.entry[f][s] = PartIssued(p, FirstComponents(p, i))
           /\ \A g \in Flows, t \in Serials : <<g, t>> # <<f, s>> =>
                    w.entry[g][t] = n.entry[g][t]
  <1>1. PICK x : x = PartIssued(p, FirstComponents(p, i))
    OBVIOUS
  <1>2. w = WithEntry(n, f, s, x)
    BY <1>1 DEF PartView, IsNow
  <1> QED BY <1>1, <1>2, NowShaped, WithEntryFields

LEMMA FurtherSeen ==
    ASSUME IndInv, NEW f \in Flows, NEW s \in Serials, NEW p, p = payload[f][s],
           phase[f][s] = "PUSHING", ~halted[f], NEW i \in 1..WriteCount(p),
           NEW j \in 1..WriteCount(p), j = i + 1,
           NEW u, u = PartView(f, s, i), NEW w, w = PartView(f, s, j)
    PROVE  Sees(u, IssueEvent(TokenOf(f, s), p, ComponentAt(p, j)), w)
  <1>0. PICK n : IsNow(n)
    BY DEF IsNow
  <1>1. p \in Payloads
    BY DEF IndInv, PacketInWindow
  <1>2. /\ w.bases = n.bases /\ w.next_issue = n.next_issue
        /\ w.next_ready = n.next_ready /\ w.next_consume = n.next_consume
        /\ w.credit = n.credit /\ w.global_credit = n.global_credit
        /\ w.released = n.released /\ w.generations = n.generations
        /\ w.halted = n.halted /\ w.pending_ready = n.pending_ready
        /\ w.here = n.here /\ w.entry[f][s] = PartIssued(p, FirstComponents(p, j))
        /\ \A g \in Flows, t \in Serials : <<g, t>> # <<f, s>> =>
                    w.entry[g][t] = n.entry[g][t]
    BY <1>0, PartViewFields
  <1>3. /\ u.bases = n.bases /\ u.next_issue = n.next_issue
        /\ u.next_ready = n.next_ready /\ u.next_consume = n.next_consume
        /\ u.credit = n.credit /\ u.global_credit = n.global_credit
        /\ u.released = n.released /\ u.generations = n.generations
        /\ u.halted = n.halted /\ u.pending_ready = n.pending_ready
        /\ u.here = n.here /\ u.entry[f][s] = PartIssued(p, FirstComponents(p, i))
        /\ \A g \in Flows, t \in Serials : <<g, t>> # <<f, s>> =>
                    u.entry[g][t] = n.entry[g][t]
    BY <1>0, PartViewFields
  <1>4. /\ n.here = [g \in Flows |-> {t \in Serials : phase[g][t] # "ABSENT"}]
        /\ n.halted = [g \in Flows |-> IF halted[g] THEN next_issue[g] ELSE NotHalted]
        /\ n.generations = generations
    BY <1>0, NowFields
  <1>5. u.halted[f] = NotHalted /\ s \in u.here[f] /\ u.generations = generations
    BY <1>3, <1>4
  <1>6. OthersSame(u, w, f, s)
    <2> SUFFICES ASSUME NEW g \in Flows, NEW t \in u.here[g], <<g, t>> # <<f, s>>
                 PROVE  w.entry[g][t] = u.entry[g][t]
      BY DEF OthersSame
    <2>1. t \in Serials
      BY <1>3, <1>4
    <2> QED BY <1>2, <1>3, <2>1
  <1>7. PICK c, X : c = ComponentAt(p, j) /\ X = FirstComponents(p, i)
    OBVIOUS
  <1>8. c \in Data(p) \ X /\ X \subseteq Data(p) /\ FirstComponents(p, j) = X \cup {c}
    <2>1. WriteCount(p) \in Nat
      BY <1>1, LinesCounted
    <2>2. \A k \in 1..i : k \in 1..WriteCount(p) /\ k # j
      BY <2>1
    <2>3. 1..j = (1..i) \cup {j}
      BY <2>1
    <2>4. c \in Data(p) /\ X \subseteq Data(p)
      BY <1>1, <1>7, <2>2, ComponentsInOrder DEF FirstComponents
    <2>5. c \notin X
      BY <1>1, <1>7, <2>2, ComponentsInOrder DEF FirstComponents
    <2>6. FirstComponents(p, j) = X \cup {c}
      BY <1>7, <2>3 DEF FirstComponents
    <2> QED BY <2>4, <2>5, <2>6
  <1>9. SeesFurther(u, w, f, s, p, X, c)
    BY <1>2, <1>3, <1>5, <1>6, <1>7, <1>8 DEF SeesFurther
  <1>10. TokenOf(f, s) = TokenIn(u, f, s)
    BY <1>5, OwnToken
  <1> QED BY <1>1, <1>7, <1>8, <1>9, <1>10 DEF Sees, SeesWrite

LEMMA AllIssued ==
    ASSUME IndInv, NEW f \in Flows, NEW s \in Serials, NEW p, p = payload[f][s],
           phase[f][s] = "PUSHING", Left(data_writes, f, s) = Data(p),
           NEW u, u = PartView(f, s, WriteCount(p))
    PROVE  u = Now
  <1>0. PICK n : IsNow(n)
    BY DEF IsNow
  <1>1. p \in Payloads
    BY DEF IndInv, PacketInWindow
  <1>2. FirstComponents(p, WriteCount(p)) = Data(p)
    BY <1>1, ComponentsInOrder DEF FirstComponents
  <1>3. n.entry[f][s] = Pushed(p, Data(p))
    <2>1. EntryAt(phase, data_writes, f, s) = Pushed(p, Data(p))
      BY DEF EntryAt
    <2> QED BY <1>0, <2>1, EntryNow
  <1>4. Pushed(p, Data(p)) = PartIssued(p, Data(p))
    BY DEF Pushed, PartIssued
  <1>5. PICK x : x = n.entry[f][s]
    OBVIOUS
  <1>6. u = WithEntry(n, f, s, x)
    BY <1>0, <1>2, <1>3, <1>4, <1>5 DEF PartView, IsNow
  <1>7. Shaped(n)
    BY <1>0, NowShaped
  <1>8. [n.entry EXCEPT ![f][s] = x] = n.entry
    BY <1>5, <1>7 DEF Shaped
  <1>9. [n EXCEPT !.entry = n.entry] = n
    BY <1>7 DEF Shaped
  <1> QED BY <1>0, <1>6, <1>8, <1>9 DEF WithEntry, IsNow

LEMMA NowStays == ASSUME UNCHANGED vars PROVE Now' = Now
  BY DEF Now, ViewAt, EntryAt, Left, ReadyInFlight, TokenOf, vars, cursors, budgets, packets

LEMMA ReadUnread ==
    ASSUME IndInv, NEW v, Agree(v), Unread(v), ReadOne
    PROVE  \E w : Agree(w)' /\ Unread(w)'
  <1>0. /\ unread # <<>> /\ Check!Read(Head(unread)) /\ unread' = Tail(unread)
        /\ UNCHANGED vars /\ Now' = Now
    BY NowStays DEF ReadOne
  <1>1. ASSUME NEW e, NEW u, unread = <<e>>, Sees(v, e, u), u = Now
        PROVE  \E w : Agree(w)' /\ Unread(w)'
    <2>1. Head(unread) = e /\ Tail(unread) = <<>>
      BY <1>1
    <2>2. Agree(u)'
      BY <1>0, <1>1, <2>1, SeenRead
    <2>3. Unread(u)'
      BY <1>0, <1>1, <2>1 DEF Unread
    <2> QED BY <2>2, <2>3
  <1>2. ASSUME NEW e, NEW d, NEW m, NEW u, unread = <<e, d>>,
               Sees(v, e, m), Sees(m, d, u), u = Now
        PROVE  \E w : Agree(w)' /\ Unread(w)'
    <2>1. Head(unread) = e /\ Tail(unread) = <<d>>
      BY <1>2
    <2>2. Agree(m)'
      BY <1>0, <1>2, <2>1, SeenRead
    <2>3. Unread(m)'
      BY <1>0, <1>2, <2>1 DEF Unread
    <2> QED BY <2>2, <2>3
  <1>3. ASSUME NEW f \in Flows, NEW s \in Serials, NEW i \in 1..WriteCount(payload[f][s]),
               IssuingFrom(v, f, s, i)
        PROVE  \E w : Agree(w)' /\ Unread(w)'
    <2>0. PICK p, n, t : p = payload[f][s] /\ n = WriteCount(p) /\ t = TokenOf(f, s)
      OBVIOUS
    <2>1. /\ phase[f][s] = "PUSHING" /\ Left(data_writes, f, s) = Data(p) /\ ~halted[f]
          /\ unread = [j \in 1..(n - i + 1) |->
                            IssueEvent(t, p, ComponentAt(p, i + j - 1))]
      BY <1>3, <2>0 DEF IssuingFrom
    <2>2. PICK u : u = PartView(f, s, i) /\ Sees(v, IssueEvent(t, p, ComponentAt(p, i)), u)
      BY <1>3, <2>0 DEF IssuingFrom
    <2>3. p \in Payloads
      BY <2>0, <2>1 DEF IndInv, PacketInWindow
    <2>4. n \in Nat /\ i \in 1..n
      BY <2>0, <2>3, LinesCounted
    <2>5. /\ Len(unread) = n - i + 1 /\ unread[1] = IssueEvent(t, p, ComponentAt(p, i))
      <3>1. 1 \in 1..(n - i + 1) /\ i + 1 - 1 = i /\ n - i + 1 \in Nat
        BY <2>4
      <3> QED BY <2>1, <3>1
    <2>6. Head(unread) = IssueEvent(t, p, ComponentAt(p, i))
      BY <2>5
    <2>7. Agree(u)'
      BY <1>0, <2>2, <2>6, SeenRead
    <2>8. /\ payload'[f][s] = p /\ TokenOf(f, s)' = t /\ phase'[f][s] = "PUSHING"
          /\ Left(data_writes, f, s)' = Data(p) /\ ~halted'[f]
      BY <1>0, <2>0, <2>1 DEF vars, packets, TokenOf, Left
    <2>9. CASE i = n
      <3>1. unread' = <<>>
        <4>1. n - i + 1 = 1
          BY <2>4, <2>9
        <4>2. unread = <<unread[1]>>
          BY <2>1, <4>1
        <4>3. \A e : Tail(<<e>>) = <<>>
          OBVIOUS
        <4> QED BY <1>0, <4>2, <4>3
      <3>2. u = Now
        BY <2>0, <2>1, <2>2, <2>9, AllIssued
      <3>3. Unread(u)'
        BY <1>0, <3>1, <3>2 DEF Unread
      <3> QED BY <2>7, <3>3
    <2>10. CASE i # n
      <3>1. PICK j \in 1..n : j = i + 1
        BY <2>4, <2>10
      <3>2. unread' = [k \in 1..(n - j + 1) |->
                            IssueEvent(t, p, ComponentAt(p, j + k - 1))]
        <4>1. n - j + 1 = (n - i + 1) - 1 /\ n - i + 1 \in Nat /\ n - j + 1 \in Nat
          BY <2>4, <3>1
        <4>2. Tail(unread) = [k \in 1..(n - j + 1) |-> unread[k + 1]]
          <5>1. unread \in Seq({unread[k] : k \in 1..(n - i + 1)})
            <6>1. unread = [k \in 1..(n - i + 1) |-> unread[k]]
              BY <2>1
            <6>2. unread \in [1..(n - i + 1) -> {unread[k] : k \in 1..(n - i + 1)}]
              BY <6>1
            <6> QED BY <4>1, <6>2
          <5>2. PICK S : unread \in Seq(S)
            BY <5>1
          <5>3. /\ Tail(unread) \in Seq(S) /\ Len(Tail(unread)) = n - j + 1
                /\ \A k \in 1..Len(Tail(unread)) : Tail(unread)[k] = unread[k + 1]
            BY <1>0, <2>5, <4>1, <5>2, HeadTailProperties
          <5>4. Tail(unread) = [k \in 1..(n - j + 1) |-> Tail(unread)[k]]
            <6>1. \A q \in Seq(S) : q = [k \in 1..Len(q) |-> q[k]]
              OBVIOUS
            <6> QED BY <5>3, <6>1
          <5> QED BY <5>3, <5>4
        <4>3. \A k \in 1..(n - j + 1) :
                k + 1 \in 1..(n - i + 1) /\ i + (k + 1) - 1 = j + k - 1
          BY <2>4, <3>1
        <4>4. \A k \in 1..(n - j + 1) :
                unread[k + 1] = IssueEvent(t, p, ComponentAt(p, j + k - 1))
          BY <2>1, <4>3
        <4> QED BY <1>0, <4>2, <4>4
      <3>3. PICK w : w = PartView(f, s, j)
        OBVIOUS
      <3>4. Sees(u, IssueEvent(t, p, ComponentAt(p, j)), w)
        BY <2>0, <2>1, <2>2, <2>4, <3>1, <3>3, FurtherSeen
      <3>5. w = PartView(f, s, j)'
        BY <1>0, <2>0, <2>8, <3>3 DEF PartView
      <3>6. IssuingFrom(u, f, s, j)'
        BY <2>0, <2>8, <3>2, <3>4, <3>5 DEF IssuingFrom
      <3>7. j \in 1..WriteCount(payload'[f][s])
        BY <2>0, <2>8, <3>1
      <3> QED BY <2>7, <3>6, <3>7 DEF Unread
    <2> QED BY <2>9, <2>10
  <1> QED BY <1>0, <1>1, <1>2, <1>3 DEF Unread

--------------------------------------------------------------------------------
(* The invariant.                                                          *)

LEMMA NowOK == ASSUME IndInv, NEW v, IsNow(v) PROVE ViewOK(v)
  <1>1. /\ v.bases = base /\ v.next_issue = next_issue /\ v.next_ready = next_publish
        /\ v.next_consume = next_consume /\ v.credit = credit
        /\ v.global_credit = global_credit /\ v.released = released
        /\ v.generations = generations
        /\ v.halted = [f \in Flows |-> IF halted[f] THEN next_issue[f] ELSE NotHalted]
        /\ v.pending_ready = [f \in Flows |-> ReadyInFlight(phase, next_publish, f)]
        /\ v.here = [f \in Flows |-> {s \in Serials : phase[f][s] # "ABSENT"}]
    BY NowFields
  <1>2. /\ base \in [Flows -> Nat] /\ next_issue \in [Flows -> Nat]
        /\ next_publish \in [Flows -> Nat] /\ next_consume \in [Flows -> Nat]
        /\ credit \in [Flows -> Int] /\ global_credit \in Int
        /\ released \in [Flows -> SUBSET Serials]
        /\ generations \in [Flows -> [Slots -> Nat]]
    BY DEF IndInv, TypeOK
  <1>3. v.halted \in [Flows -> Nat \cup {NotHalted}]
    BY <1>1, <1>2
  <1>4. ASSUME NEW f \in Flows
        PROVE  ReadyInFlight(phase, next_publish, f) \in Tokens \cup {NoToken}
    <2>1. PICK s : s = next_publish[f]
      OBVIOUS
    <2>2. CASE s \in Serials /\ phase[f][s] = "COMMITTING"
      <3>1. TokenOf(f, s) \in Tokens
        BY <1>1, <2>2, OwnToken
      <3> QED BY <2>1, <2>2, <3>1 DEF ReadyInFlight
    <2>3. CASE ~(s \in Serials /\ phase[f][s] = "COMMITTING")
      BY <2>1, <2>3 DEF ReadyInFlight
    <2> QED BY <2>2, <2>3
  <1>5. v.pending_ready \in [Flows -> Tokens \cup {NoToken}]
    BY <1>1, <1>4
  <1>6. v.here \in [Flows -> SUBSET Serials]
    BY <1>1
  <1>7. ASSUME NEW f \in Flows, NEW s \in v.here[f]
        PROVE  v.generations[f][SlotOf(s)] # 0
    <2>1. s \in Serials /\ phase[f][s] # "ABSENT"
      BY <1>1
    <2>2. generation[f][s] = generations[f][SlotOf(s)] /\ generation[f][s] > 0
      BY <2>1 DEF IndInv, PacketInWindow
    <2> QED BY <1>1, <2>2
  <1>8. ASSUME NEW f \in Flows, NEW s \in v.here[f], NEW t \in v.here[f], SlotOf(s) = SlotOf(t)
        PROVE  s = t
    <2>1. s \in Serials /\ t \in Serials /\ Present(f, s) /\ Present(f, t)
      BY <1>1 DEF Present
    <2> QED BY <1>8, <2>1, InvSlots DEF SlotsExclusive
  <1> QED BY <1>1, <1>2, <1>3, <1>5, <1>6, <1>7, <1>8 DEF ViewOK

LEMMA CheckerStarts ==
    ASSUME CInit
    PROVE  \E v : Agree(v) /\ Unread(v)
  <1>0. PICK v : IsNow(v)
    BY DEF IsNow
  <1>1. IndInv
    BY InitInv DEF CInit
  <1>2. ViewOK(v)
    BY <1>0, <1>1, NowOK
  <1>3. /\ v.bases = base /\ v.next_issue = next_issue /\ v.next_ready = next_publish
        /\ v.next_consume = next_consume /\ v.credit = credit
        /\ v.global_credit = global_credit /\ v.released = released
        /\ v.generations = generations
        /\ v.halted = [f \in Flows |-> IF halted[f] THEN next_issue[f] ELSE NotHalted]
        /\ v.pending_ready = [f \in Flows |-> ReadyInFlight(phase, next_publish, f)]
        /\ v.here = [f \in Flows |-> {s \in Serials : phase[f][s] # "ABSENT"}]
    BY <1>0, NowFields
  <1>4. \A f \in Flows, s \in Serials : phase[f][s] = "ABSENT" /\ ~halted[f]
    BY DEF CInit, Init
  <1>5. /\ v.halted = [f \in Flows |-> NotHalted]
        /\ v.here = [f \in Flows |-> {}]
    <2>1. \A f \in Flows : ~halted[f]
      BY DEF CInit, Init
    <2> QED BY <1>3, <1>4, <2>1
  <1>6. v.pending_ready = [f \in Flows |-> NoToken]
    <2>1. \A f \in Flows : ReadyInFlight(phase, next_publish, f) = NoToken
      BY <1>4 DEF ReadyInFlight
    <2> QED BY <1>3, <2>1
  <1>7. /\ c_bases = base /\ c_next_issue = next_issue /\ c_next_ready = next_publish
        /\ c_next_consume = next_consume /\ c_credit = credit
        /\ c_global_credit = global_credit /\ c_released = released
        /\ c_generations = generations
        /\ c_pending_ready = [f \in Flows |-> NoToken]
        /\ c_halted = [f \in Flows |-> NotHalted]
        /\ c_active_slots = [f \in Flows |-> [k \in Slots |-> NoToken]]
        /\ DOMAIN c_packets = {}
    BY DEF CInit, Init, Check!Init, Check!Slots, Slots
  <1>8. Agree(v)
    BY <1>2, <1>3, <1>5, <1>6, <1>7 DEF Agree
  <1>9. Unread(v)
    BY <1>0 DEF CInit, Unread, IsNow
  <1> QED BY <1>8, <1>9

LEMMA CallIsStep == Call => Next
  BY DEF Call, Next, Pump

LEMMA SameAgreement ==
    ASSUME NEW v, Agree(v), UNCHANGED replica
    PROVE  Agree(v)'
  BY DEF Agree, replica

LEMMA SameUnread ==
    ASSUME NEW v, Unread(v), UNCHANGED <<vars, unread>>
    PROVE  Unread(v)'
  <1>1. Now' = Now
    BY NowStays
  <1>2. \A f, s, i : IssuingFrom(v, f, s, i)' = IssuingFrom(v, f, s, i)
    BY <1>1 DEF IssuingFrom, PartView, Left, TokenOf, vars, packets
  <1>3. payload' = payload
    BY DEF vars, packets
  <1> QED BY <1>1, <1>2, <1>3 DEF Unread

LEMMA IssuingUnread ==
    ASSUME IndInv, NEW v, NEW f \in Flows, NEW s \in Serials,
           NEW i \in 1..WriteCount(payload[f][s]), IssuingFrom(v, f, s, i)
    PROVE  /\ unread # <<>>
           /\ Head(unread) = IssueEvent(TokenOf(f, s), payload[f][s],
                                        ComponentAt(payload[f][s], i))
  <1>0. PICK p, n, t : p = payload[f][s] /\ n = WriteCount(p) /\ t = TokenOf(f, s)
    OBVIOUS
  <1>1. /\ phase[f][s] = "PUSHING"
        /\ unread = [j \in 1..(n - i + 1) |-> IssueEvent(t, p, ComponentAt(p, i + j - 1))]
    BY <1>0 DEF IssuingFrom
  <1>2. p \in Payloads
    BY <1>0, <1>1 DEF IndInv, PacketInWindow
  <1>3. n \in Nat /\ i \in 1..n
    BY <1>0, <1>2, LinesCounted
  <1>4. 1 \in 1..(n - i + 1) /\ i + 1 - 1 = i /\ n - i + 1 \in Nat
    BY <1>3
  <1>5. unread[1] = IssueEvent(t, p, ComponentAt(p, i)) /\ Len(unread) = n - i + 1
    BY <1>1, <1>4
  <1>6. unread # <<>>
    BY <1>1, <1>4
  <1> QED BY <1>0, <1>5, <1>6

LEMMA NothingUnread ==
    ASSUME IndInv, NEW v, Unread(v), unread = <<>>
    PROVE  IsNow(v)
  BY IssuingUnread DEF Unread, IsNow

LEMMA TraceStep == TraceInv /\ [CNext]_cvars => TraceInv'
  <1> SUFFICES ASSUME TraceInv, [CNext]_cvars PROVE TraceInv'
    OBVIOUS
  <1>1. [Next]_vars
    BY CallIsStep DEF CNext, ReadOne, cvars
  <1>2. IndInv' /\ CreditConserved'
    BY <1>1, StepInv, StepConserves DEF TraceInv
  <1>3. IndInv
    BY DEF TraceInv
  <1>4. PICK v : Agree(v) /\ Unread(v)
    BY DEF TraceInv
  <1>5. CASE unread = <<>> /\ Call
    <2>1. IsNow(v)
      BY <1>3, <1>4, <1>5, NothingUnread
    <2>2. UNCHANGED replica
      BY <1>5 DEF Call, Emit
    <2>3. Agree(v)' /\ Unread(v)'
      BY <1>3, <1>4, <1>5, <2>1, <2>2, SameAgreement, CallUnread
    <2> QED BY <1>2, <2>3 DEF TraceInv
  <1>6. CASE ReadOne
    BY <1>2, <1>3, <1>4, <1>6, ReadUnread DEF TraceInv
  <1>7. CASE UNCHANGED cvars
    <2>1. UNCHANGED replica /\ UNCHANGED <<vars, unread>>
      BY <1>7 DEF cvars
    <2> QED BY <1>2, <1>4, <2>1, SameAgreement, SameUnread DEF TraceInv
  <1> QED BY <1>5, <1>6, <1>7 DEF CNext

(* In every state the checker has a view from which what it has not read   *)
(* yet leads to the present state of the class.                            *)
THEOREM TraceFollows == CSpec => []TraceInv
  <1>1. CInit => TraceInv
    BY InitInv, InitConserves, CheckerStarts DEF TraceInv, CInit
  <1>2. TraceInv /\ [CNext]_cvars => TraceInv'
    BY TraceStep
  <1> QED BY <1>1, <1>2, PTL DEF CSpec

LEMMA NextIsAllowed == TraceInv => NeverRejected
  <1> SUFFICES ASSUME TraceInv, unread # <<>> PROVE Check!Allowed(Head(unread))
    BY DEF NeverRejected
  <1>1. PICK v : Agree(v) /\ Unread(v)
    BY DEF TraceInv
  <1>2. ASSUME NEW e, NEW u, unread = <<e>>, Sees(v, e, u) PROVE Check!Allowed(Head(unread))
    BY <1>1, <1>2, SeenAllowed
  <1>3. ASSUME NEW e, NEW d, NEW u, unread = <<e, d>>, Sees(v, e, u)
        PROVE  Check!Allowed(Head(unread))
    BY <1>1, <1>3, SeenAllowed
  <1>4. ASSUME NEW f \in Flows, NEW s \in Serials, NEW i \in 1..WriteCount(payload[f][s]),
               IssuingFrom(v, f, s, i)
        PROVE  Check!Allowed(Head(unread))
    <2>1. PICK e : e = IssueEvent(TokenOf(f, s), payload[f][s],
                                  ComponentAt(payload[f][s], i))
      OBVIOUS
    <2>2. Head(unread) = e
      BY <1>4, <2>1, IssuingUnread DEF TraceInv
    <2>3. PICK u : Sees(v, e, u)
      BY <1>4, <2>1 DEF IssuingFrom
    <2> QED BY <1>1, <2>2, <2>3, SeenAllowed
  <1> QED BY <1>1, <1>2, <1>3, <1>4 DEF Unread

(* The checker refuses no event of a legal run, for any number of flows,   *)
(* window, packet sizes and order in which writes become visible and       *)
(* packets are released (verify.py:101, tests/test_checker.py).            *)
THEOREM CheckerNeverRejects == CSpec => []NeverRejected
  <1>1. TraceInv => NeverRejected
    BY NextIsAllowed
  <1> QED BY <1>1, TraceFollows, PTL

LEMMA DrainedAlike ==
    ASSUME IndInv, CreditConserved, NEW v, IsNow(v), Agree(v)
    PROVE  Check!Drained <=>
            /\ pending = {}
            /\ \A f \in Flows : ~halted[f] /\ \A s \in Serials : ~Present(f, s)
  <1>1. /\ v.here = [f \in Flows |-> {s \in Serials : phase[f][s] # "ABSENT"}]
        /\ v.halted = [f \in Flows |-> IF halted[f] THEN next_issue[f] ELSE NotHalted]
        /\ v.credit = credit /\ v.global_credit = global_credit
    BY NowFields
  <1>2. c_halted = v.halted /\ c_credit = credit /\ c_global_credit = global_credit
    BY <1>1 DEF Agree
  <1>3. \A f \in Flows : c_halted[f] = NotHalted <=> ~halted[f]
    <2>1. \A f \in Flows : next_issue[f] \in Nat
      BY DEF IndInv, TypeOK
    <2> QED BY <1>1, <1>2, <2>1, NoTokenApart
  <1>4. \A f \in Flows, s \in Serials : Present(f, s) <=> s \in v.here[f]
    BY <1>1 DEF Present
  <1>5. ASSUME pending = {}, \A f \in Flows : ~halted[f] /\ \A s \in Serials : ~Present(f, s)
        PROVE  Check!Drained
    <2>1. \A f \in Flows : v.here[f] = {}
      BY <1>1, <1>4, <1>5
    <2>2. ASSUME NEW f \in Flows PROVE credit[f] = 0
      <3>1. \A i \in Nat : Charged(f)[i] = 0
        BY <1>5 DEF Charged, Issued
      <3>2. Charged(f) \in [Nat -> Int] /\ next_issue[f] \in Nat
        BY ChargedTyped DEF IndInv, TypeOK
      <3>3. PartialSums(Charged(f))[next_issue[f]] = 0
        BY <3>1, <3>2, SumsOfZero
      <3> QED BY <3>3 DEF CreditConserved
    <2>3. global_credit = 0
      <3>1. \A i \in Nat : InUse[i] = 0
        BY <2>2 DEF InUse
      <3>2. InUse \in [Nat -> Int] /\ NumFlows \in Nat
        BY InUseTyped, FlowsAreNat DEF IndInv
      <3>3. PartialSums(InUse)[NumFlows] = 0
        BY <3>1, <3>2, SumsOfZero
      <3> QED BY <3>3 DEF CreditConserved
    <2>4. ASSUME NEW t \in DOMAIN c_packets
          PROVE  c_packets[t].released /\ c_packets[t].pending = {}
      <3>1. /\ t \in Tokens
            /\ \/ c_packets[t].released /\ c_packets[t].pending = {}
               \/ t.serial \in v.here[t.flow]
        BY DEF Agree
      <3>2. t.flow \in Flows
        BY <3>1 DEF Tokens
      <3> QED BY <2>1, <3>1, <3>2
    <2> QED BY <1>2, <1>3, <1>5, <2>2, <2>3, <2>4 DEF Check!Drained
  <1>6. ASSUME Check!Drained
        PROVE  /\ pending = {}
               /\ \A f \in Flows : ~halted[f] /\ \A s \in Serials : ~Present(f, s)
    <2>1. /\ \A f \in Flows : c_halted[f] = NotHalted
          /\ \A t \in DOMAIN c_packets : c_packets[t].released
      BY <1>6 DEF Check!Drained
    <2>2. ASSUME NEW f \in Flows, NEW s \in Serials, Present(f, s) PROVE FALSE
      <3>1. s \in v.here[f]
        BY <1>4, <2>2
      <3>2. PICK t : t = TokenIn(v, f, s)
        OBVIOUS
      <3>3. t \in DOMAIN c_packets /\ c_packets[t] = v.entry[f][s]
        BY <3>1, <3>2 DEF Agree
      <3>4. v.entry[f][s].released = No
        <4>1. EntryAt(phase, data_writes, f, s).released = No
          BY EntryFields DEF EntryAt, Fresh, Pushed, Committed, Readied, Consumed
        <4> QED BY <4>1, EntryNow
      <3> QED BY <2>1, <3>3, <3>4 DEF No
    <2>3. pending = {}
      <3> SUFFICES ASSUME NEW w \in pending PROVE FALSE
        OBVIOUS
      <3>1. w.token.flow \in Flows /\ w.token.serial \in Serials
        BY OwnedTyped DEF IndInv
      <3>2. Present(w.token.flow, w.token.serial)
        BY DEF IndInv, WritesOwned
      <3> QED BY <2>2, <3>1, <3>2
    <2> QED BY <1>3, <2>1, <2>2, <2>3
  <1> QED BY <1>5, <1>6

LEMMA BothAgree == TraceInv => ReplicaAgrees
  <1> SUFFICES ASSUME TraceInv, unread = <<>> PROVE ReplicaAgrees
    BY DEF ReplicaAgrees
  <1>1. PICK v : Agree(v) /\ Unread(v)
    BY DEF TraceInv
  <1>2. IndInv /\ CreditConserved /\ IsNow(v)
    BY <1>1, NothingUnread DEF TraceInv
  <1>3. /\ v.bases = base /\ v.next_issue = next_issue /\ v.next_ready = next_publish
        /\ v.next_consume = next_consume /\ v.credit = credit
        /\ v.global_credit = global_credit /\ v.released = released
        /\ v.generations = generations
        /\ v.halted = [f \in Flows |-> IF halted[f] THEN next_issue[f] ELSE NotHalted]
        /\ v.here = [f \in Flows |-> {s \in Serials : phase[f][s] # "ABSENT"}]
    BY <1>2, NowFields
  <1>4. /\ <<c_bases, c_next_issue, c_next_ready, c_next_consume>>
            = <<base, next_issue, next_publish, next_consume>>
        /\ c_released = released
        /\ c_credit = credit /\ c_global_credit = global_credit
        /\ c_halted = v.halted
    BY <1>1, <1>3 DEF Agree
  <1>5. \A f \in Flows : halted[f] <=> c_halted[f] # NotHalted
    <2>1. \A f \in Flows : next_issue[f] \in Nat
      BY <1>2 DEF IndInv, TypeOK
    <2> QED BY <1>3, <1>4, <2>1, NoTokenApart
  <1>6. ASSUME NEW f \in Flows, NEW k \in Slots
        PROVE  c_active_slots[f][k] =
                IF \E s \in Serials : Present(f, s) /\ SlotOf(s) = k
                THEN TokenOf(f, CHOOSE s \in Serials : Present(f, s) /\ SlotOf(s) = k)
                ELSE NoToken
    <2>1. \A s \in Serials : Present(f, s) <=> s \in v.here[f]
      BY <1>3 DEF Present
    <2>2. CASE \E s \in Serials : Present(f, s) /\ SlotOf(s) = k
      <3>1. PICK s \in Serials :
                /\ s = CHOOSE t \in Serials : Present(f, t) /\ SlotOf(t) = k
                /\ Present(f, s) /\ SlotOf(s) = k
        BY <2>2
      <3>2. c_active_slots[f][k] = TokenIn(v, f, s)
        BY <1>1, <2>1, <3>1 DEF Agree
      <3>3. TokenIn(v, f, s) = TokenOf(f, s)
        <4>1. v.generations = generations /\ phase[f][s] # "ABSENT"
          BY <1>3, <3>1 DEF Present
        <4> QED BY <1>2, <4>1, OwnToken
      <3> QED BY <2>2, <3>1, <3>2, <3>3
    <2>3. CASE ~\E s \in Serials : Present(f, s) /\ SlotOf(s) = k
      <3>1. \A s \in v.here[f] : SlotOf(s) # k
        BY <1>3, <2>1, <2>3
      <3>2. c_active_slots[f][k] = NoToken
        BY <1>1, <3>1 DEF Agree
      <3> QED BY <2>3, <3>2
    <2> QED BY <2>2, <2>3
  <1>7. Check!Drained <=>
            /\ pending = {}
            /\ \A f \in Flows : ~halted[f] /\ \A s \in Serials : ~Present(f, s)
    BY <1>1, <1>2, DrainedAlike
  <1> QED BY <1>4, <1>5, <1>6, <1>7 DEF ReplicaAgrees

(* Whenever the checker has read the whole trace, its cursors, its credit, *)
(* its slots and its verdict on "drained" are those of the class, for      *)
(* every value of the constants (checker.py:307-314).                      *)
THEOREM CheckerAgrees == CSpec => []ReplicaAgrees
  <1>1. TraceInv => ReplicaAgrees
    BY BothAgree
  <1> QED BY <1>1, TraceFollows, PTL

================================================================================
