---------------------------- MODULE ProtocolProofs ----------------------------
(***************************************************************************)
(* Proofs about Protocol for every number of flows, every window, every    *)
(* set of serials and every payload: its inductive invariant, then what    *)
(* follows from it, the safety properties, the conservation of its push    *)
(* credit, that it implements OrderedDelivery, and that its turns are fair.*)
(***************************************************************************)
EXTENDS ProtocolInvariants, PushFairness, CommonProofs, TLAPS

--------------------------------------------------------------------------------
(* Arithmetic of serials, slots and lines.                                 *)

(* Serials are natural numbers (WireSerial, model.py:158).                 *)
LEMMA SerialsAreNat == Serials \subseteq Nat
  <1>1. ASSUME NEW e \in Epochs, NEW q \in Sequences PROVE WireSerial(e, q) \in Nat
    <2>1. e \in Nat /\ q \in Nat /\ SequenceSpace \in Nat
      BY ConfigAssumption, WorldAssumption
    <2>2. e * SequenceSpace \in Nat
      BY <2>1
    <2> QED BY <2>1, <2>2 DEF WireSerial
  <1> QED BY <1>1 DEF Serials

(* Division of a serial by the window.                                     *)
LEMMA DivMod ==
    ASSUME NEW x \in Int
    PROVE  /\ x = Window * (x \div Window) + (x % Window)
           /\ x % Window \in 0..(Window - 1)
           /\ x \div Window \in Int
  BY ConfigAssumption, Z3

LEMMA DivStep ==
    ASSUME NEW x \in Int
    PROVE  (x + Window) \div Window = (x \div Window) + 1
  BY ConfigAssumption, Z3

LEMMA MultiplesApart ==
    ASSUME NEW a \in Int, NEW b \in Int, a < b
    PROVE  Window * b - Window * a >= Window
  <1>1. Window * b - Window * a = Window * (b - a)
    BY ConfigAssumption, Z3
  <1>2. b - a >= 1
    OBVIOUS
  <1>3. Window * (b - a) >= Window * 1
    BY <1>2, ConfigAssumption, Z3
  <1> QED BY <1>1, <1>3, ConfigAssumption, Z3

(* Two serials less than a window apart have different slots               *)
(* (serial % window, model.py:172).                                        *)
LEMMA SlotsInWindowDiffer ==
    ASSUME NEW s \in Nat, NEW t \in Nat,
           SlotOf(s) = SlotOf(t), s - t < Window, t - s < Window
    PROVE  s = t
  <1> DEFINE a == s \div Window
             b == t \div Window
  <1>1. s = Window * a + (s % Window) /\ a \in Int
    BY DivMod
  <1>2. t = Window * b + (t % Window) /\ b \in Int
    BY DivMod
  <1>3. s % Window = t % Window /\ s % Window \in Int
    BY DivMod DEF SlotOf
  <1> HIDE DEF a, b
  <1>4. ~(a < b)
    BY ConfigAssumption, MultiplesApart, <1>1, <1>2, <1>3
  <1>5. ~(b < a)
    BY ConfigAssumption, MultiplesApart, <1>1, <1>2, <1>3
  <1>6. a = b
    BY <1>1, <1>2, <1>4, <1>5
  <1> QED BY <1>1, <1>2, <1>3, <1>6

LEMMA SlotOfSerial == \A s \in Serials : s \in Nat /\ SlotOf(s) \in Slots
  BY SerialsAreNat, DivMod DEF SlotOf, Slots

(* One window later the slot is the same and the generation one more.      *)
LEMMA NextOwner ==
    ASSUME NEW x \in Nat, NEW f \in Flows
    PROVE  /\ SlotOf(x + Window) = SlotOf(x)
           /\ ExpectedGeneration(f, x + Window) = ExpectedGeneration(f, x) + 1
           /\ ExpectedGeneration(f, x) \in Int
  <1>1. Window \in Nat \ {0} /\ InitialSerial[f] \in Nat
    BY ConfigAssumption, WorldAssumption
  <1>2. SlotOf(x + Window) = SlotOf(x)
    <2>1. (x + Window) \div Window = (x \div Window) + 1
      BY DivStep
    <2>2. x \div Window \in Int
      BY DivMod
    <2>3. Window * ((x \div Window) + 1) = Window * (x \div Window) + Window
      BY <1>1, <2>2, Z3
    <2>4. x = Window * (x \div Window) + (x % Window)
      BY DivMod
    <2>5. x + Window = Window * ((x + Window) \div Window) + ((x + Window) % Window)
      BY DivMod, <1>1
    <2>6. x % Window \in Int /\ (x + Window) % Window \in Int
      BY DivMod, <1>1
    <2>7. Window * (x \div Window) \in Int
      BY <1>1, <2>2
    <2> QED BY <1>1, <2>1, <2>3, <2>4, <2>5, <2>6, <2>7 DEF SlotOf
  <1>3. x - InitialSerial[f] \in Int
    BY <1>1
  <1>4. ((x - InitialSerial[f]) + Window) \div Window
            = ((x - InitialSerial[f]) \div Window) + 1
    BY DivStep, <1>3
  <1>5. (x + Window) - InitialSerial[f] = (x - InitialSerial[f]) + Window
    BY <1>1
  <1>6. (x - InitialSerial[f]) \div Window \in Int
    BY DivMod, <1>3
  <1> QED BY <1>2, <1>4, <1>5, <1>6 DEF ExpectedGeneration

(* aligned_size, model.py:16.                                              *)
LEMMA AlignedIsNat ==
    ASSUME NEW n \in Nat
    PROVE  aligned_size(n) \in Nat /\ aligned_size(n) >= n
  BY Z3 DEF aligned_size, LineBytes

(* The lines of a packet are among the lines of a slot.                    *)
LEMMA LinesInSlot ==
    ASSUME NEW n \in 0..MaxPacketBytes
    PROVE  LineNumbers(n) \subseteq HostLines
  <1>1. aligned_size(n) \div LineBytes <= aligned_size(MaxPacketBytes) \div LineBytes
    BY ConfigAssumption, Z3 DEF aligned_size, LineBytes
  <1>2. aligned_size(n) \div LineBytes \in Int
        /\ aligned_size(MaxPacketBytes) \div LineBytes \in Int
    BY ConfigAssumption, Z3 DEF aligned_size, LineBytes
  <1> QED BY <1>1, <1>2 DEF LineNumbers, HostLines
--------------------------------------------------------------------------------
(* Types.                                                                  *)

LEMMA FlowsAreNat == Flows \subseteq Nat /\ 0 \in Flows /\ NumFlows \in Nat
  BY ConfigAssumption DEF Flows

LEMMA SlotsAreNat == Slots \subseteq Nat
  BY ConfigAssumption DEF Slots

LEMMA WriteShape ==
    ASSUME NEW w \in Writes
    PROVE  /\ w.token \in Tokens
           /\ w.kind \in {"payload", "descriptor", "ready"}
           /\ w.kind = "payload" => w.offset \in HostLines /\ w.data \in LineValues
           /\ w.kind = "descriptor" => w.field \in Fields /\ w.value \in Int
  BY DEF Writes

LEMMA NoDeliveryTyped == NoDelivery \in Deliveries
  <1>1. LineNumbers(0) = {}
    BY Z3 DEF LineNumbers, aligned_size, LineBytes
  <1>2. <<>> \in [{} -> LineValues \cup {Stale}]
    OBVIOUS
  <1>3. LineNumbers(0) \in {LineNumbers(n) : n \in 0..MaxPacketBytes}
    <2>1. 0 \in 0..MaxPacketBytes
      BY ConfigAssumption
    <2> QED BY <2>1
  <1>4. <<>> \in [LineNumbers(0) -> LineValues \cup {Stale}]
    BY <1>1, <1>2
  <1>5. <<>> \in LineSequences
    BY <1>3, <1>4 DEF LineSequences
  <1> QED BY <1>5 DEF NoDelivery, Deliveries, UnsetField

LEMMA InitTyped == Init => TypeOK
  <1> SUFFICES ASSUME Init PROVE TypeOK
    OBVIOUS
  <1>1. NoDelivery \in Deliveries
    BY NoDeliveryTyped
  <1>2. /\ base \in [Flows -> Nat] /\ next_issue \in [Flows -> Nat]
        /\ next_publish \in [Flows -> Nat] /\ next_consume \in [Flows -> Nat]
        /\ released \in [Flows -> SUBSET Serials]
        /\ generations \in [Flows -> [Slots -> Nat]]
        /\ credit \in [Flows -> Int] /\ halted \in [Flows -> BOOLEAN]
    BY WorldAssumption DEF Init
  <1>3. /\ phase \in [Flows -> [Serials -> Phases]]
        /\ payload \in [Flows -> [Serials -> Payloads \cup {NoPayload}]]
        /\ generation \in [Flows -> [Serials -> Nat]]
        /\ data_writes \in [Flows -> [Serials -> SUBSET Writes]]
        /\ pending \subseteq Writes
    BY DEF Init, Phases
  <1>4. /\ host_data \in [Flows -> [Slots -> [HostLines -> LineValues \cup {Stale}]]]
        /\ host_descriptor \in [Flows -> [Slots -> [Fields -> Int]]]
        /\ host_ready \in [Flows -> [Slots -> Nat]]
        /\ held \in [Flows -> [Serials -> Deliveries]]
    BY <1>1 DEF Init, UnsetField, NotReady
  <1>5. global_credit = 0 /\ round_robin = 0 /\ start = 0 /\ from = 0
    BY DEF Init
  <1>6. round_robin \in Flows /\ start \in Flows
    BY <1>5, FlowsAreNat
  <1>7. from \in 0..NumFlows
    BY <1>5, ConfigAssumption
  <1>8. pumping \in BOOLEAN
    BY DEF Init
  <1> QED BY <1>2, <1>3, <1>4, <1>5, <1>6, <1>7, <1>8 DEF TypeOK

LEMMA TokenTyped ==
    ASSUME NEW f \in Flows, NEW s \in Serials, NEW g \in Nat \ {0}
    PROVE  Token(f, s, g) \in Tokens
  BY SlotOfSerial DEF Token, Tokens

LEMMA DescriptorTyped ==
    ASSUME NEW token \in Tokens, NEW n \in Nat
    PROVE  Descriptor(token, n) \in [Fields -> Int]
  <1>1. /\ token.flow \in Flows /\ token.serial \in Serials
        /\ token.slot \in Slots /\ token.generation \in Nat
    BY DEF Tokens
  <1>2. /\ token.flow \in Nat /\ token.serial \in Nat
        /\ token.slot \in Nat /\ token.generation \in Nat
    BY <1>1, FlowsAreNat, SerialsAreNat, SlotsAreNat
  <1> QED BY <1>2, WorldAssumption DEF Descriptor

LEMMA DataWritesTyped ==
    ASSUME NEW token \in Tokens, NEW p \in Payloads
    PROVE  DataWrites(token, p) \subseteq Writes
  <1>1. Length[p] \in 1..MaxPacketBytes
    BY WorldAssumption
  <1>2. Length[p] \in 0..MaxPacketBytes /\ Length[p] \in Nat
    BY <1>1, ConfigAssumption
  <1>3. ASSUME NEW i \in LineNumbers(Length[p])
        PROVE  PayloadWrite(token, p, i) \in Writes
    BY <1>2, LinesInSlot DEF PayloadWrite, Lines, Writes, LineValues
  <1>4. ASSUME NEW k \in Fields
        PROVE  DescriptorWrite(token, p, k) \in Writes
    BY <1>2, DescriptorTyped DEF DescriptorWrite, Writes
  <1> QED BY <1>3, <1>4 DEF DataWrites

LEMMA SnapshotTyped ==
    ASSUME TypeOK, NEW f \in Flows, NEW s \in Serials, LengthFits(f, s)
    PROVE  Snapshot(f, s) \in Deliveries
  <1> DEFINE n == VisibleLength(f, s)
  <1>1. n \in 0..MaxPacketBytes
    BY ConfigAssumption DEF LengthFits
  <1>2. SlotOf(s) \in Slots
    BY SlotOfSerial
  <1>3. LineNumbers(n) \subseteq HostLines
    BY <1>1, LinesInSlot
  <1>4. [i \in LineNumbers(n) |-> host_data[f][SlotOf(s)][i]]
            \in [LineNumbers(n) -> LineValues \cup {Stale}]
    BY <1>2, <1>3 DEF TypeOK
  <1>5. [i \in LineNumbers(n) |-> host_data[f][SlotOf(s)][i]] \in LineSequences
    BY <1>1, <1>4 DEF LineSequences
  <1>6. host_descriptor[f][SlotOf(s)] \in [Fields -> Int]
    BY <1>2 DEF TypeOK
  <1> QED BY <1>5, <1>6 DEF Snapshot, Deliveries

LEMMA ReceiveTyped ==
    ASSUME TypeOK, NEW f \in Flows, NEW e \in Epochs, NEW q \in Sequences,
           NEW p \in Payloads, Receive(f, e, q, p)
    PROVE  TypeOK'
  <1> DEFINE s == WireSerial(e, q)
  <1>1. s \in Serials
    BY DEF Serials
  <1>2. SlotOf(s) \in Slots
    BY <1>1, SlotOfSerial
  <1>3. NextGeneration(f, s) \in Nat
    BY <1>2 DEF NextGeneration, TypeOK
  <1>4. "WAIT_SEQ" \in Phases
    BY DEF Phases
  <1> HIDE DEF s
  <1>5. /\ generations' = [generations EXCEPT ![f][SlotOf(s)] = NextGeneration(f, s)]
        /\ phase' = [phase EXCEPT ![f][s] = "WAIT_SEQ"]
        /\ payload' = [payload EXCEPT ![f][s] = p]
        /\ generation' = [generation EXCEPT ![f][s] = NextGeneration(f, s)]
        /\ UNCHANGED <<cursors, released, budgets, halted, data_writes, pending,
                       host, held, loop>>
    BY DEF Receive, s
  <1> QED BY <1>1, <1>2, <1>3, <1>4, <1>5
          DEF TypeOK, cursors, budgets, host, loop

LEMMA HeadTyped ==
    ASSUME TypeOK, PacketInWindow, NEW f \in Flows, HeadWaits(f)
    PROVE  /\ next_issue[f] \in Serials
           /\ payload[f][next_issue[f]] \in Payloads
           /\ HeadSize(f) \in Nat
           /\ TokenOf(f, next_issue[f]) \in Tokens
           /\ DataWrites(TokenOf(f, next_issue[f]), payload[f][next_issue[f]]) \subseteq Writes
  <1> DEFINE s == next_issue[f]
  <1>1. s \in Serials /\ phase[f][s] # "ABSENT"
    BY DEF HeadWaits, Present
  <1>2. payload[f][s] \in Payloads /\ generation[f][s] > 0 /\ generation[f][s] \in Nat
    BY <1>1 DEF PacketInWindow, TypeOK
  <1>3. TokenOf(f, s) \in Tokens
    BY <1>1, <1>2, TokenTyped DEF TokenOf
  <1>4. Length[payload[f][s]] \in Nat
    BY <1>2, WorldAssumption, ConfigAssumption
  <1>5. HeadSize(f) \in Nat
    BY <1>4, AlignedIsNat DEF HeadSize
  <1> QED BY <1>1, <1>2, <1>3, <1>5, DataWritesTyped

LEMMA FlowAtTyped ==
    ASSUME TypeOK, NEW k \in Nat
    PROVE  FlowAt(k) \in Flows
  <1>1. start + k \in Nat
    BY FlowsAreNat DEF TypeOK
  <1>2. (start + k) % NumFlows \in 0..(NumFlows - 1)
    BY <1>1, ConfigAssumption, Z3
  <1> QED BY <1>2 DEF FlowAt, Flows

LEMMA PumpIssueTyped ==
    ASSUME TypeOK, PacketInWindow, NEW k \in 0..(NumFlows - 1), PumpIssue(k)
    PROVE  TypeOK'
  <1> DEFINE f == FlowAt(k)
             s == next_issue[f]
             writes == DataWrites(TokenOf(f, s), payload[f][s])
  <1>1. f \in Flows
    BY FlowAtTyped, ConfigAssumption
  <1>2. HeadWaits(f)
    BY DEF PumpIssue, Issuable
  <1>3. s \in Serials /\ HeadSize(f) \in Nat /\ writes \subseteq Writes
    BY <1>1, <1>2, HeadTyped
  <1>4. NextTurn(f) \in Flows
    <2>1. \A x \in Flows : x + 1 \in Nat
      BY FlowsAreNat
    <2>2. (f + 1) % NumFlows \in 0..(NumFlows - 1)
      <3>1. \A x \in Nat : x % NumFlows \in 0..(NumFlows - 1)
        BY ConfigAssumption, Z3
      <3> QED BY <1>1, <2>1, <3>1
    <2> QED BY <2>2 DEF NextTurn, Flows
  <1>5. k + 1 \in 0..NumFlows
    BY ConfigAssumption
  <1>6. s + 1 \in Nat
    <2>1. \A x \in Serials : x + 1 \in Nat
      BY SerialsAreNat
    <2> QED BY <1>3, <2>1
  <1>7. "PUSHING" \in Phases
    BY DEF Phases
  <1>8. /\ credit' = [credit EXCEPT ![f] = credit[f] + HeadSize(f)]
        /\ global_credit' = global_credit + HeadSize(f)
        /\ phase' = [phase EXCEPT ![f][s] = "PUSHING"]
        /\ data_writes' = [data_writes EXCEPT ![f][s] = writes]
        /\ pending' = pending \cup writes
        /\ next_issue' = [next_issue EXCEPT ![f] = s + 1]
        /\ round_robin' = NextTurn(f)
        /\ from' = k + 1
        /\ UNCHANGED <<base, next_publish, next_consume, released, generations,
                       halted, payload, generation, host, held, pumping, start>>
    BY DEF PumpIssue
  <1> HIDE DEF f, s, writes
  <1>9. credit' \in [Flows -> Int] /\ global_credit' \in Int
    BY <1>1, <1>3, <1>8 DEF TypeOK
  <1>10. /\ phase' \in [Flows -> [Serials -> Phases]]
         /\ data_writes' \in [Flows -> [Serials -> SUBSET Writes]]
         /\ pending' \subseteq Writes
    BY <1>1, <1>3, <1>7, <1>8 DEF TypeOK
  <1>11. next_issue' \in [Flows -> Nat] /\ round_robin' \in Flows /\ from' \in 0..NumFlows
    BY <1>1, <1>4, <1>5, <1>6, <1>8 DEF TypeOK
  <1> QED BY <1>8, <1>9, <1>10, <1>11 DEF TypeOK, host

LEMMA PumpLoopTyped ==
    ASSUME TypeOK, PumpCall \/ PumpPass
    PROVE  TypeOK'
  <1>1. /\ pumping' \in BOOLEAN /\ start' \in Flows /\ from' \in 0..NumFlows
    <2>1. pumping' \in BOOLEAN
      BY DEF PumpCall, PumpPass, TypeOK
    <2>2. start' = round_robin \/ start' = 0
      BY DEF PumpCall, PumpPass
    <2>3. from' = 0
      BY DEF PumpCall, PumpPass
    <2>4. 0 \in 0..NumFlows
      BY ConfigAssumption
    <2> QED BY <2>1, <2>2, <2>3, <2>4, FlowsAreNat DEF TypeOK
  <1>2. UNCHANGED <<cursors, released, generations, budgets, halted, packets,
                    pending, host, held>>
    BY DEF PumpCall, PumpPass
  <1> QED BY <1>1, <1>2 DEF TypeOK, cursors, budgets, packets, host

LEMMA OwnedTyped ==
    ASSUME TypeOK, WritesOwned, NEW w \in pending
    PROVE  /\ w \in Writes /\ w.token \in Tokens
           /\ w.token.flow \in Flows /\ w.token.serial \in Serials
           /\ w.token.slot \in Slots /\ w.token.generation \in Nat
           /\ w.token.slot = SlotOf(w.token.serial)
           /\ w.token = TokenOf(w.token.flow, w.token.serial)
  <1>1. w \in Writes /\ w.token \in Tokens
    BY WriteShape DEF TypeOK
  <1>2. w.token = TokenOf(w.token.flow, w.token.serial)
    BY DEF WritesOwned
  <1> QED BY <1>1, <1>2 DEF Tokens, TokenOf, Token

LEMMA TryCommitTyped ==
    ASSUME TypeOK, WritesOwned, PacketInWindow,
           NEW f \in Flows, NEW phases \in [Flows -> [Serials -> Phases]],
           NEW s, NEW writes \in SUBSET Writes,
           \A t \in Serials : phases[f][t] # "ABSENT" => generation[f][t] > 0,
           TryCommit(f, phases, s, writes)
    PROVE  phase' \in [Flows -> [Serials -> Phases]] /\ pending' \subseteq Writes
  <1>1. CASE Committable(phases, f, s)
    <2>1. s \in Serials /\ phases[f][s] # "ABSENT"
      BY <1>1 DEF Committable
    <2>2. generation[f][s] \in Nat /\ generation[f][s] > 0
      BY <2>1 DEF TypeOK
    <2>3. generation[f][s] \in Nat \ {0}
      BY <2>2
    <2>4. ReadyWrite(TokenOf(f, s)) \in Writes
      BY <2>1, <2>3, TokenTyped DEF TokenOf, ReadyWrite, Writes
    <2> QED BY <1>1, <2>1, <2>4 DEF TryCommit, Phases
  <1>2. CASE ~Committable(phases, f, s)
    BY <1>2 DEF TryCommit
  <1> QED BY <1>1, <1>2

LEMMA CompleteReadyTyped ==
    ASSUME TypeOK, WritesOwned, PacketInWindow, NEW w \in pending, CompleteReady(w)
    PROVE  TypeOK'
  <1> DEFINE f == w.token.flow
             s == w.token.serial
  <1>1. /\ f \in Flows /\ s \in Serials /\ w.token.slot \in Slots
        /\ w.token.generation \in Nat
    BY OwnedTyped
  <1>2. phase[f][s] # "ABSENT"
    BY DEF CompleteReady, Outlived, Present
  <1>3. [phase EXCEPT ![f][s] = "READY"] \in [Flows -> [Serials -> Phases]]
    BY <1>1 DEF TypeOK, Phases
  <1>4. \A t \in Serials :
            [phase EXCEPT ![f][s] = "READY"][f][t] # "ABSENT" => generation[f][t] > 0
    BY <1>1, <1>2 DEF TypeOK, PacketInWindow
  <1>5. pending \ {w} \in SUBSET Writes
    BY DEF TypeOK
  <1>6. /\ host_ready' = [host_ready EXCEPT ![f][w.token.slot] = w.token.generation]
        /\ next_publish' = [next_publish EXCEPT ![f] = next_publish[f] + 1]
        /\ TryCommit(f, [phase EXCEPT ![f][s] = "READY"], SerialToPublish(f), pending \ {w})
        /\ UNCHANGED <<base, next_issue, next_consume, released, generations,
                       budgets, halted, payload, generation, data_writes,
                       host_data, host_descriptor, held, loop>>
    BY DEF CompleteReady
  <1> HIDE DEF f, s
  <1>7. phase' \in [Flows -> [Serials -> Phases]] /\ pending' \subseteq Writes
    BY <1>1, <1>3, <1>4, <1>5, <1>6, TryCommitTyped
  <1>8. host_ready' \in [Flows -> [Slots -> Nat]]
    BY <1>1, <1>6 DEF TypeOK
  <1>9. next_publish' \in [Flows -> Nat]
    BY <1>1, <1>6 DEF TypeOK
  <1> QED BY <1>6, <1>7, <1>8, <1>9 DEF TypeOK, budgets, loop

LEMMA CompleteDataTyped ==
    ASSUME TypeOK, WritesOwned, PacketInWindow, NEW w \in pending, CompleteData(w)
    PROVE  TypeOK'
  <1> DEFINE f == w.token.flow
             s == w.token.serial
             rest == data_writes[f][s] \ {w}
  <1>1. f \in Flows /\ s \in Serials /\ w.token.slot \in Slots /\ w \in Writes
    BY OwnedTyped
  <1>2. phase[f][s] # "ABSENT"
    BY DEF CompleteData, Outlived, Present
  <1>3. [phase EXCEPT ![f][s] = PhaseAfterData(rest)] \in [Flows -> [Serials -> Phases]]
    BY <1>1 DEF TypeOK, Phases, PhaseAfterData
  <1>4. \A t \in Serials :
            [phase EXCEPT ![f][s] = PhaseAfterData(rest)][f][t] # "ABSENT"
                => generation[f][t] > 0
    BY <1>1, <1>2 DEF TypeOK, PacketInWindow
  <1>5. pending \ {w} \in SUBSET Writes
    BY DEF TypeOK
  <1>6. /\ StoreData(f, w.token.slot, w)
        /\ w.kind # "ready"
        /\ data_writes' = [data_writes EXCEPT ![f][s] = rest]
        /\ TryCommit(f, [phase EXCEPT ![f][s] = PhaseAfterData(rest)],
                     next_publish[f], pending \ {w})
        /\ UNCHANGED <<cursors, released, generations, budgets, halted, payload,
                       generation, host_ready, held, loop>>
    BY DEF CompleteData
  <1>7. rest \in SUBSET Writes
    BY <1>1 DEF TypeOK
  <1> HIDE DEF f, s, rest
  <1>8. phase' \in [Flows -> [Serials -> Phases]] /\ pending' \subseteq Writes
    BY <1>1, <1>3, <1>4, <1>5, <1>6, TryCommitTyped
  <1>9. /\ host_data' \in [Flows -> [Slots -> [HostLines -> LineValues \cup {Stale}]]]
        /\ host_descriptor' \in [Flows -> [Slots -> [Fields -> Int]]]
    <2> DEFINE k == w.token.slot
    <2> HIDE DEF k
    <2>1. CASE w.kind = "payload"
      <3>1. w.offset \in HostLines /\ w.data \in LineValues
        BY <1>1, <2>1, WriteShape
      <3>2. /\ host_data' = [host_data EXCEPT ![f][k][w.offset] = w.data]
            /\ host_descriptor' = host_descriptor
        BY <1>6, <2>1 DEF StoreData, k
      <3>3. k \in Slots
        BY <1>1 DEF k
      <3> QED BY <1>1, <3>1, <3>2, <3>3 DEF TypeOK
    <2>2. CASE w.kind = "descriptor"
      <3>1. w.field \in Fields /\ w.value \in Int
        BY <1>1, <2>2, WriteShape
      <3>2. /\ host_descriptor' = [host_descriptor EXCEPT ![f][k][w.field] = w.value]
            /\ host_data' = host_data
        BY <1>6, <2>2 DEF StoreData, k
      <3>3. k \in Slots
        BY <1>1 DEF k
      <3> QED BY <1>1, <3>1, <3>2, <3>3 DEF TypeOK
    <2> QED BY <1>1, <1>6, <2>1, <2>2, WriteShape
  <1>10. data_writes' \in [Flows -> [Serials -> SUBSET Writes]]
    BY <1>1, <1>6, <1>7 DEF TypeOK
  <1> QED BY <1>6, <1>8, <1>9, <1>10 DEF TypeOK, cursors, budgets, loop

LEMMA AcquireTyped ==
    ASSUME TypeOK, NEW f \in Flows, Acquire(f)
    PROVE  TypeOK'
  <1> DEFINE s == next_consume[f]
  <1>1. s \in Serials /\ LengthFits(f, s)
    BY DEF Acquire, MarkerSeen, Present
  <1>2. Snapshot(f, s) \in Deliveries
    BY <1>1, SnapshotTyped
  <1>3. /\ phase' = [phase EXCEPT ![f][s] = "CPU_OWNED"]
        /\ next_consume' = [next_consume EXCEPT ![f] = s + 1]
        /\ held' = [held EXCEPT ![f][s] = Snapshot(f, s)]
        /\ UNCHANGED <<base, next_issue, next_publish, released, generations,
                       budgets, halted, payload, generation, data_writes, pending,
                       host, loop>>
    BY DEF Acquire
  <1>4. s + 1 \in Nat
    BY DEF TypeOK
  <1> HIDE DEF s
  <1>5. phase' \in [Flows -> [Serials -> Phases]]
    BY <1>1, <1>3 DEF TypeOK, Phases
  <1>6. next_consume' \in [Flows -> Nat] /\ held' \in [Flows -> [Serials -> Deliveries]]
    BY <1>1, <1>2, <1>3, <1>4 DEF TypeOK
  <1> QED BY <1>3, <1>5, <1>6 DEF TypeOK, budgets, host, loop

LEMMA ReleaseTyped ==
    ASSUME TypeOK, PacketInWindow, NEW f \in Flows, NEW s \in Serials, Release(f, s)
    PROVE  TypeOK'
  <1>1. payload[f][s] \in Payloads
    BY DEF Release, PacketInWindow
  <1>2. Refund(f, s) \in Nat
    BY <1>1, AlignedIsNat, WorldAssumption, ConfigAssumption DEF Refund
  <1>3. credit' \in [Flows -> Int] /\ global_credit' \in Int
    BY <1>2 DEF Release, TypeOK
  <1>4. base' \in [Flows -> Nat] /\ released' \in [Flows -> SUBSET Serials]
    <2>1. PICK b \in base[f]..(base[f] + Window) :
            /\ base' = [base EXCEPT ![f] = b]
            /\ released' = [released EXCEPT
                    ![f] = (released[f] \cup {s}) \ (base[f]..(b - 1))]
      BY DEF Release, AdvanceBase
    <2>2. b \in Nat
      BY <2>1, ConfigAssumption DEF TypeOK
    <2> QED BY <2>1, <2>2 DEF TypeOK
  <1>5. /\ phase' \in [Flows -> [Serials -> Phases]]
        /\ payload' \in [Flows -> [Serials -> Payloads \cup {NoPayload}]]
        /\ generation' \in [Flows -> [Serials -> Nat]]
    BY DEF Release, TypeOK, Phases
  <1>6. held' \in [Flows -> [Serials -> Deliveries]]
    <2>1. NoDelivery \in Deliveries
      BY NoDeliveryTyped
    <2> QED BY <2>1 DEF Release, TypeOK
  <1>7. UNCHANGED <<next_issue, next_publish, next_consume, generations,
                    round_robin, halted, data_writes, pending, host, loop>>
    BY DEF Release
  <1> QED BY <1>3, <1>4, <1>5, <1>6, <1>7 DEF TypeOK, host, loop

LEMMA FailGapTyped ==
    ASSUME TypeOK, NEW f \in Flows, FailGap(f)
    PROVE  TypeOK'
  BY DEF FailGap, TypeOK, cursors, budgets, packets, host, loop
--------------------------------------------------------------------------------
(* The inductive step, one lemma per call.                                 *)

(* Two packets of a flow never share a slot.                               *)
LEMMA PacketsApart ==
    ASSUME TypeOK, PacketInWindow, NEW f \in Flows,
           NEW s \in Serials, NEW t \in Serials,
           phase[f][s] # "ABSENT", phase[f][t] # "ABSENT", SlotOf(s) = SlotOf(t)
    PROVE  s = t
  <1>1. s \in Nat /\ t \in Nat
    BY SlotOfSerial
  <1>2. /\ base[f] \in Nat /\ base[f] <= s /\ s < base[f] + Window
        /\ base[f] <= t /\ t < base[f] + Window /\ Window \in Nat
    BY ConfigAssumption DEF TypeOK, PacketInWindow
  <1>3. s - t < Window /\ t - s < Window
    BY <1>1, <1>2
  <1> QED BY <1>1, <1>3, SlotsInWindowDiffer

LEMMA ReceiveStep ==
    ASSUME IndInv, NEW f \in Flows, NEW e \in Epochs, NEW q \in Sequences,
           NEW p \in Payloads, Receive(f, e, q, p)
    PROVE  IndInv'
  <1> DEFINE s == WireSerial(e, q)
             n == NextGeneration(f, s)
  <1>1. s \in Serials /\ s \in Nat /\ SlotOf(s) \in Slots
    BY SlotOfSerial DEF Serials
  <1>2. /\ base[f] <= s /\ s < base[f] + Window /\ s \notin released[f]
        /\ phase[f][s] = "ABSENT"
        /\ \A t \in Serials : phase[f][t] # "ABSENT" => SlotOf(t) # SlotOf(s)
        /\ base[f] \in Nat /\ next_issue[f] \in Nat /\ Window \in Nat
    BY <1>1, ConfigAssumption
       DEF Receive, Admissible, Late, OutsideWindow, Present, SlotOwned, IndInv, TypeOK
  <1>3. /\ generations' = [generations EXCEPT ![f][SlotOf(s)] = n]
        /\ phase' = [phase EXCEPT ![f][s] = "WAIT_SEQ"]
        /\ payload' = [payload EXCEPT ![f][s] = p]
        /\ generation' = [generation EXCEPT ![f][s] = n]
        /\ UNCHANGED <<base, next_issue, next_publish, next_consume, released,
                       data_writes, pending, host_data, host_descriptor, host_ready,
                       held>>
    BY DEF Receive, cursors, host
  <1>4. TypeOK
    BY DEF IndInv
  <1>5. n = generations[f][SlotOf(s)] + 1 /\ n \in Nat /\ n > 0
    BY <1>1, <1>4 DEF NextGeneration, TypeOK
  <1>6. TypeOK'
    BY <1>4, ReceiveTyped
  <1> HIDE DEF s, n
  <1>7. \A g \in Flows, t \in Serials : <<g, t>> # <<f, s>> =>
            /\ phase'[g][t] = phase[g][t]
            /\ payload'[g][t] = payload[g][t]
            /\ generation'[g][t] = generation[g][t]
    BY <1>1, <1>3, <1>4 DEF TypeOK
  <1>8. phase'[f][s] = "WAIT_SEQ" /\ payload'[f][s] = p /\ generation'[f][s] = n
    BY <1>1, <1>3, <1>4 DEF TypeOK
  <1>9. \A g \in Flows, k \in Slots :
            generations'[g][k] = IF g = f /\ k = SlotOf(s) THEN n ELSE generations[g][k]
    BY <1>1, <1>3, <1>4 DEF TypeOK
  <1>10. CursorOrder'
    BY <1>3 DEF IndInv, CursorOrder
  <1>11. PacketInWindow'
    BY <1>1, <1>2, <1>3, <1>5, <1>7, <1>8, <1>9, SlotOfSerial DEF IndInv, PacketInWindow
  <1>12. s >= next_issue[f]
    BY <1>1, <1>2 DEF IndInv, IssuedStays
  <1>13. PhaseAmongCursors'
    BY <1>1, <1>2, <1>3, <1>7, <1>8, <1>12 DEF IndInv, PhaseAmongCursors
  <1>14. ReleasedInWindow'
    BY <1>3 DEF IndInv, ReleasedInWindow
  <1>15. IssuedStays'
    BY <1>1, <1>3, <1>7, <1>8 DEF IndInv, IssuedStays
  <1>16. \A w \in pending : <<w.token.flow, w.token.serial>> # <<f, s>>
    BY <1>2 DEF IndInv, WritesOwned, Present
  <1>17. WritesOwned'
    BY <1>3, <1>4, <1>7, <1>16, OwnedTyped
       DEF IndInv, WritesOwned, Present, TokenOf, Token
  <1>18. data_writes[f][s] = {}
    BY <1>1, <1>2 DEF IndInv, DataWritesPending
  <1>19. DataWritesPending'
    BY <1>3, <1>7, <1>18 DEF IndInv, DataWritesPending, TokenOf, Token
  <1>20. ImageInSlot'
    BY <1>3, <1>7, <1>8
       DEF IndInv, ImageInSlot, LineArrived, FieldArrived, TokenOf, Token, Visible
  <1>21. MarkerBehindOwner'
    <2>1. host_ready[f][SlotOf(s)] <= generations[f][SlotOf(s)]
      BY <1>1 DEF IndInv, MarkerBehindOwner
    <2>2. \A g \in Flows, k \in Slots : host_ready[g][k] \in Nat /\ generations[g][k] \in Nat
      BY <1>4 DEF TypeOK
    <2>3. \A g \in Flows, k \in Slots : host_ready'[g][k] <= generations'[g][k]
      BY <1>1, <1>3, <1>5, <1>9, <2>1, <2>2 DEF IndInv, MarkerBehindOwner
    <2>4. host_ready'[f][SlotOf(s)] < generation'[f][s]
      BY <1>1, <1>3, <1>5, <1>8, <2>1, <2>2
    <2> QED BY <1>3, <1>7, <1>8, <2>3, <2>4 DEF IndInv, MarkerBehindOwner, Published
  <1>22. HeldIsImage'
    BY <1>3, <1>7, <1>8 DEF IndInv, HeldIsImage, TokenOf, Token
  <1>23. GenerationsCount'
    <2> SUFFICES ASSUME NEW g \in Flows, NEW x \in base[g]..(base[g] + Window - 1)
                 PROVE  generations'[g][SlotOf(x)] =
                            IF Taken(g, x)' THEN ExpectedGeneration(g, x)
                            ELSE ExpectedGeneration(g, x) - 1
      BY <1>3 DEF GenerationsCount, ExpectedGeneration
    <2>1. x \in Nat /\ base[g] \in Nat /\ SlotOf(x) \in Slots
      <3>1. x \in Nat /\ base[g] \in Nat
        BY <1>2, <1>4 DEF TypeOK
      <3> QED BY <3>1, DivMod DEF SlotOf, Slots
    <2>2. generations[g][SlotOf(x)] =
              IF Taken(g, x) THEN ExpectedGeneration(g, x) ELSE ExpectedGeneration(g, x) - 1
      BY DEF IndInv, GenerationsCount
    <2>3. CASE g = f /\ x = s
      <3>1. ~Taken(f, s) /\ Taken(f, s)'
        BY <1>1, <1>2, <1>8 DEF Taken
      <3>2. ExpectedGeneration(f, s) \in Int
        BY <1>1, NextOwner
      <3> QED BY <1>1, <1>5, <1>9, <2>2, <2>3, <3>1, <3>2
    <2>4. CASE ~(g = f /\ x = s)
      <3>1. Taken(g, x)' <=> Taken(g, x)
        BY <1>3, <1>7, <2>4 DEF Taken
      <3>2. g = f => SlotOf(x) # SlotOf(s)
        <4>1. g = f => x - s < Window /\ s - x < Window
          BY <1>1, <1>2, <2>1
        <4> QED BY <1>1, <2>1, <2>4, <4>1, SlotsInWindowDiffer
      <3> QED BY <1>9, <2>1, <2>2, <3>1, <3>2
    <2> QED BY <2>3, <2>4
  <1> QED BY <1>6, <1>10, <1>11, <1>13, <1>14, <1>15, <1>17, <1>19, <1>20, <1>21,
             <1>22, <1>23 DEF IndInv

LEMMA DataWritesAre ==
    ASSUME NEW token, NEW p, NEW w \in DataWrites(token, p)
    PROVE  /\ w.token = token
           /\ \/ w.kind = "payload" /\ \E i \in LineNumbers(Length[p]) :
                    w = PayloadWrite(token, p, i) /\ w.offset = i /\ w.data = Lines(p)[i]
              \/ w.kind = "descriptor" /\ \E k \in Fields :
                    w = DescriptorWrite(token, p, k) /\ w.field = k
                    /\ w.value = Descriptor(token, Length[p])[k]
  BY DEF DataWrites, PayloadWrite, DescriptorWrite

LEMMA PumpIssueStep ==
    ASSUME IndInv, NEW k \in 0..(NumFlows - 1), PumpIssue(k)
    PROVE  IndInv'
  <1> DEFINE f == FlowAt(k)
             s == next_issue[f]
             writes == DataWrites(TokenOf(f, s), payload[f][s])
  <1>1. TypeOK /\ PacketInWindow
    BY DEF IndInv
  <1>2. TypeOK'
    BY <1>1, PumpIssueTyped
  <1>3. f \in Flows
    BY <1>1, FlowAtTyped, ConfigAssumption
  <1>4. s \in Serials /\ s \in Nat /\ phase[f][s] = "WAIT_SEQ"
    BY SlotOfSerial DEF PumpIssue, Issuable, HeadWaits, Present
  <1>5. /\ phase' = [phase EXCEPT ![f][s] = "PUSHING"]
        /\ data_writes' = [data_writes EXCEPT ![f][s] = writes]
        /\ pending' = pending \cup writes
        /\ next_issue' = [next_issue EXCEPT ![f] = s + 1]
        /\ UNCHANGED <<base, next_publish, next_consume, released, generations,
                       payload, generation, host_data, host_descriptor, host_ready,
                       held>>
    BY DEF PumpIssue, host
  <1>6. \A w \in writes : w.token = TokenOf(f, s) /\ w.kind # "ready"
    BY DataWritesAre
  <1>7. /\ \A i \in LineNumbers(Length[payload[f][s]]) :
                PayloadWrite(TokenOf(f, s), payload[f][s], i) \in writes
        /\ \A d \in Fields :
                DescriptorWrite(TokenOf(f, s), payload[f][s], d) \in writes
    BY DEF DataWrites
  <1>8. next_issue[f] = s /\ writes = DataWrites(TokenOf(f, s), payload[f][s])
    OBVIOUS
  <1> HIDE DEF f, s, writes
  <1>9. \A g \in Flows, t \in Serials : <<g, t>> # <<f, s>> =>
            phase'[g][t] = phase[g][t] /\ data_writes'[g][t] = data_writes[g][t]
    BY <1>1, <1>3, <1>4, <1>5 DEF TypeOK
  <1>10. phase'[f][s] = "PUSHING" /\ data_writes'[f][s] = writes
    BY <1>1, <1>3, <1>4, <1>5 DEF TypeOK
  <1>11. next_issue'[f] = s + 1 /\ \A g \in Flows \ {f} : next_issue'[g] = next_issue[g]
    BY <1>1, <1>3, <1>5 DEF TypeOK
  <1>12. \A g \in Flows : /\ base[g] \in Nat /\ next_issue[g] \in Nat
                           /\ next_publish[g] \in Nat /\ next_consume[g] \in Nat
    BY <1>1 DEF TypeOK
  <1>13. CursorOrder'
    BY <1>3, <1>5, <1>8, <1>11, <1>12 DEF IndInv, CursorOrder
  <1>14. PacketInWindow'
    BY <1>3, <1>4, <1>5, <1>9, <1>10 DEF IndInv, PacketInWindow
  <1>15. PhaseAmongCursors'
    <2> SUFFICES ASSUME NEW g \in Flows, NEW t \in Serials
                 PROVE  /\ phase'[g][t] = "WAIT_SEQ" => next_issue'[g] <= t
                        /\ phase'[g][t] \in {"PUSHING", "PREPARED"} =>
                                next_publish[g] <= t /\ t < next_issue'[g]
                        /\ phase'[g][t] = "COMMITTING" =>
                                t = next_publish[g] /\ t < next_issue'[g]
                        /\ phase'[g][t] = "READY" => next_consume[g] <= t /\ t < next_publish[g]
                        /\ phase'[g][t] = "CPU_OWNED" => t < next_consume[g]
      BY <1>5 DEF PhaseAmongCursors
    <2>1. t \in Nat
      BY SlotOfSerial
    <2>2. CASE g = f /\ t = s
      BY <1>3, <1>4, <1>8, <1>10, <1>11, <1>12, <2>2 DEF IndInv, CursorOrder
    <2>3. CASE ~(g = f /\ t = s)
      <3>1. phase'[g][t] = phase[g][t] /\ next_issue'[g] >= next_issue[g]
        BY <1>4, <1>8, <1>9, <1>11, <1>12, <2>3
      <3>2. next_issue[g] <= t => next_issue'[g] <= t
        BY <1>4, <1>8, <1>11, <1>12, <2>1, <2>3
      <3>3. next_issue'[g] \in Nat
        BY <1>2 DEF TypeOK
      <3> QED BY <1>12, <2>1, <3>1, <3>2, <3>3 DEF IndInv, PhaseAmongCursors
    <2> QED BY <2>2, <2>3
  <1>16. ReleasedInWindow'
    BY <1>5 DEF IndInv, ReleasedInWindow
  <1>17. IssuedStays'
    <2> SUFFICES ASSUME NEW g \in Flows, NEW t \in Serials, base[g] <= t, t < next_issue'[g]
                 PROVE  phase'[g][t] # "ABSENT" \/ t \in released[g]
      BY <1>5 DEF IssuedStays
    <2>1. t \in Nat
      BY SlotOfSerial
    <2>2. CASE g = f /\ t = s
      BY <1>10, <2>2
    <2>3. CASE ~(g = f /\ t = s)
      <3>1. t < next_issue[g]
        BY <1>4, <1>8, <1>11, <1>12, <2>1, <2>3
      <3> QED BY <1>9, <2>3, <3>1 DEF IndInv, IssuedStays
    <2> QED BY <2>2, <2>3
  <1>18. \A w \in pending : <<w.token.flow, w.token.serial>> # <<f, s>>
    BY <1>4 DEF IndInv, WritesOwned
  <1>19. WritesOwned'
    <2> SUFFICES ASSUME NEW w \in pending \cup writes
                 PROVE  LET g == w.token.flow
                            t == w.token.serial
                        IN  /\ Present(g, t)'
                            /\ w.token = TokenOf(g, t)'
                            /\ IF w.kind = "ready"
                               THEN phase'[g][t] = "COMMITTING" /\ t = next_publish'[g]
                               ELSE phase'[g][t] = "PUSHING" /\ w \in data_writes'[g][t]
      BY <1>5 DEF WritesOwned
    <2>1. CASE w \in pending
      BY <1>1, <1>5, <1>9, <1>18, <2>1, OwnedTyped
         DEF IndInv, WritesOwned, Present, TokenOf
    <2>2. CASE w \in writes
      <3>1. w.token.flow = f /\ w.token.serial = s /\ w.kind # "ready" /\ w.token = TokenOf(f, s)
        BY <1>6, <2>2 DEF TokenOf, Token
      <3> QED BY <1>4, <1>5, <1>10, <2>2, <3>1 DEF Present, TokenOf
    <2> QED BY <2>1, <2>2
  <1>20. DataWritesPending'
    BY <1>5, <1>8, <1>9, <1>10 DEF IndInv, DataWritesPending, TokenOf
  <1>21. ImageInSlot'
    <2> SUFFICES ASSUME NEW g \in Flows, NEW t \in Serials,
                        phase'[g][t] \in Visible \cup {"PUSHING"}
                 PROVE  /\ \A i \in LineNumbers(Length[payload[g][t]]) : LineArrived(g, t, i)'
                        /\ \A d \in Fields : FieldArrived(g, t, d)'
      BY <1>5 DEF ImageInSlot
    <2>1. CASE g = f /\ t = s
      BY <1>5, <1>7, <1>10, <2>1 DEF LineArrived, FieldArrived, TokenOf
    <2>2. CASE ~(g = f /\ t = s)
      BY <1>5, <1>9, <2>2 DEF IndInv, ImageInSlot, LineArrived, FieldArrived, TokenOf
    <2> QED BY <2>1, <2>2
  <1>22. MarkerBehindOwner'
    BY <1>4, <1>5, <1>9, <1>10 DEF IndInv, MarkerBehindOwner, Published
  <1>23. HeldIsImage'
    BY <1>5, <1>9, <1>10 DEF IndInv, HeldIsImage, TokenOf
  <1>24. GenerationsCount'
    BY <1>4, <1>5, <1>9, <1>10 DEF IndInv, GenerationsCount, Taken, ExpectedGeneration
  <1> QED BY <1>2, <1>13, <1>14, <1>15, <1>16, <1>17, <1>19, <1>20, <1>21, <1>22,
             <1>23, <1>24 DEF IndInv

LEMMA PumpLoopStep ==
    ASSUME IndInv, PumpCall \/ PumpPass
    PROVE  IndInv'
  <1>1. TypeOK'
    BY PumpLoopTyped DEF IndInv
  <1>2. UNCHANGED <<base, next_issue, next_publish, next_consume, released, generations,
                    phase, payload, generation, data_writes, pending, host_data,
                    host_descriptor, host_ready, held>>
    BY DEF PumpCall, PumpPass, cursors, packets, host
  <1> QED BY <1>1, <1>2
          DEF IndInv, CursorOrder, PacketInWindow, PhaseAmongCursors, ReleasedInWindow,
              IssuedStays, WritesOwned, DataWritesPending, ImageInSlot, MarkerBehindOwner,
              HeldIsImage, GenerationsCount, Present, TokenOf, LineArrived, FieldArrived,
              Taken, ExpectedGeneration

LEMMA FailGapStep ==
    ASSUME IndInv, NEW f \in Flows, FailGap(f)
    PROVE  IndInv'
  <1>1. TypeOK'
    BY FailGapTyped DEF IndInv
  <1>2. UNCHANGED <<base, next_issue, next_publish, next_consume, released, generations,
                    phase, payload, generation, data_writes, pending, host_data,
                    host_descriptor, host_ready, held>>
    BY DEF FailGap, cursors, packets, host
  <1> QED BY <1>1, <1>2
          DEF IndInv, CursorOrder, PacketInWindow, PhaseAmongCursors, ReleasedInWindow,
              IssuedStays, WritesOwned, DataWritesPending, ImageInSlot, MarkerBehindOwner,
              HeldIsImage, GenerationsCount, Present, TokenOf, LineArrived, FieldArrived,
              Taken, ExpectedGeneration

(* What _try_commit does to the phases and the pending writes.             *)
LEMMA TryCommitEffect ==
    ASSUME NEW f \in Flows, NEW phases \in [Flows -> [Serials -> Phases]],
           NEW c, NEW writes, TryCommit(f, phases, c, writes)
    PROVE  /\ Committable(phases, f, c) =>
                /\ c \in Serials /\ phases[f][c] = "PREPARED"
                /\ phase' = [phases EXCEPT ![f][c] = "COMMITTING"]
                /\ phase'[f][c] = "COMMITTING"
                /\ \A g \in Flows, t \in Serials :
                        <<g, t>> # <<f, c>> => phase'[g][t] = phases[g][t]
                /\ pending' = writes \cup {ReadyWrite(TokenOf(f, c))}
           /\ ~Committable(phases, f, c) =>
                /\ phase' = phases
                /\ pending' = writes
  BY DEF TryCommit, Committable

LEMMA CompleteReadyStep ==
    ASSUME IndInv, NEW w \in pending, CompleteReady(w)
    PROVE  IndInv'
  <1> DEFINE f == w.token.flow
             s == w.token.serial
             c == s + 1
             phases == [phase EXCEPT ![f][s] = "READY"]
             Commits == Committable(phases, f, c)
  <1>1. TypeOK /\ PacketInWindow /\ WritesOwned
    BY DEF IndInv
  <1>2. TypeOK'
    BY <1>1, CompleteReadyTyped
  <1>3. /\ f \in Flows /\ s \in Serials /\ s \in Nat /\ w \in Writes
        /\ w.token = TokenOf(f, s) /\ w.token.slot = SlotOf(s) /\ SlotOf(s) \in Slots
        /\ w.kind = "ready"
    BY <1>1, OwnedTyped, SlotOfSerial DEF CompleteReady
  <1>4. phase[f][s] = "COMMITTING" /\ next_publish[f] = s /\ w.token.generation = generation[f][s]
    BY <1>3 DEF CompleteReady, EarlyPublication, TokenOf, Token
  <1>5. /\ host_ready' = [host_ready EXCEPT ![f][SlotOf(s)] = generation[f][s]]
        /\ next_publish' = [next_publish EXCEPT ![f] = s + 1]
        /\ TryCommit(f, phases, c, pending \ {w})
        /\ UNCHANGED <<base, next_issue, next_consume, released, generations,
                       payload, generation, data_writes, host_data, host_descriptor, held>>
    BY <1>3, <1>4 DEF CompleteReady, SerialToPublish
  <1>6. phases \in [Flows -> [Serials -> Phases]]
    BY <1>1, <1>3 DEF TypeOK, Phases
  <1>7. /\ phases[f][s] = "READY"
        /\ \A g \in Flows, t \in Serials : <<g, t>> # <<f, s>> => phases[g][t] = phase[g][t]
    BY <1>1, <1>3 DEF TypeOK
  <1>8. c # s /\ c \in Nat
    BY <1>3
  <1> HIDE DEF f, s, phases
  <1>9. /\ phase'[f][s] = "READY"
        /\ \A g \in Flows, t \in Serials : <<g, t>> # <<f, s>> =>
                \/ phase'[g][t] = phase[g][t]
                \/ /\ phase[g][t] = "PREPARED" /\ phase'[g][t] = "COMMITTING"
                   /\ g = f /\ t = c
    <2>1. CASE Commits
      <3>1. /\ phases[f][c] = "PREPARED" /\ c \in Serials /\ phase'[f][c] = "COMMITTING"
            /\ \A g \in Flows, t \in Serials : <<g, t>> # <<f, c>> => phase'[g][t] = phases[g][t]
        BY <1>3, <1>5, <1>6, <2>1, TryCommitEffect
      <3>2. <<f, s>> # <<f, c>>
        BY <1>8
      <3>3. phase'[f][s] = "READY"
        BY <1>3, <1>7, <3>1, <3>2
      <3>4. phase[f][c] = "PREPARED"
        BY <1>3, <1>7, <3>1, <3>2
      <3> HIDE DEF c
      <3> QED BY <1>7, <3>1, <3>3, <3>4
    <2>2. CASE ~Commits
      BY <1>3, <1>5, <1>6, <1>7, <2>2, TryCommitEffect
    <2> QED BY <2>1, <2>2
  <1>10. /\ pending' \subseteq (pending \ {w}) \cup {ReadyWrite(TokenOf(f, c))}
         /\ pending \ {w} \subseteq pending'
         /\ ReadyWrite(TokenOf(f, c)) \in pending' \ pending =>
                c \in Serials /\ phase[f][c] = "PREPARED" /\ phase'[f][c] = "COMMITTING"
    <2>1. CASE Commits
      BY <1>3, <1>5, <1>6, <1>7, <1>8, <2>1, TryCommitEffect
    <2>2. CASE ~Commits
      BY <1>3, <1>5, <1>6, <2>2, TryCommitEffect
    <2> QED BY <2>1, <2>2
  <1>11. c = s + 1
    OBVIOUS
  <1> HIDE DEF c, Commits
  <1>12. next_publish'[f] = s + 1 /\ \A g \in Flows \ {f} : next_publish'[g] = next_publish[g]
    BY <1>1, <1>3, <1>5 DEF TypeOK
  <1>13. \A g \in Flows : /\ base[g] \in Nat /\ next_issue[g] \in Nat
                           /\ next_publish[g] \in Nat /\ next_consume[g] \in Nat
    BY <1>1 DEF TypeOK
  <1>14. s < next_issue[f]
    BY <1>3, <1>4 DEF IndInv, PhaseAmongCursors
  <1>15. CursorOrder'
    BY <1>3, <1>4, <1>5, <1>12, <1>13, <1>14 DEF IndInv, CursorOrder
  <1>16. \A g \in Flows, t \in Serials :
            /\ phase'[g][t] = "ABSENT" <=> phase[g][t] = "ABSENT"
            /\ phase'[g][t] = "PUSHING" <=> phase[g][t] = "PUSHING"
            /\ phase'[g][t] = "CPU_OWNED" <=> phase[g][t] = "CPU_OWNED"
            /\ phase'[g][t] \in Visible <=> phase[g][t] \in Visible
    BY <1>3, <1>4, <1>9 DEF Visible
  <1>17. PacketInWindow'
    BY <1>5, <1>16 DEF IndInv, PacketInWindow
  <1>18. PhaseAmongCursors'
    <2> SUFFICES ASSUME NEW g \in Flows, NEW t \in Serials
                 PROVE  /\ phase'[g][t] = "WAIT_SEQ" => next_issue[g] <= t
                        /\ phase'[g][t] \in {"PUSHING", "PREPARED"} =>
                                next_publish'[g] <= t /\ t < next_issue[g]
                        /\ phase'[g][t] = "COMMITTING" =>
                                t = next_publish'[g] /\ t < next_issue[g]
                        /\ phase'[g][t] = "READY" => next_consume[g] <= t /\ t < next_publish'[g]
                        /\ phase'[g][t] = "CPU_OWNED" => t < next_consume[g]
      BY <1>5 DEF PhaseAmongCursors
    <2>1. t \in Nat
      BY SlotOfSerial
    <2>2. CASE g # f
      BY <1>9, <1>12, <2>2 DEF IndInv, PhaseAmongCursors
    <2>3. CASE g = f /\ t = s
      BY <1>3, <1>4, <1>9, <1>12, <1>13, <2>3 DEF IndInv, CursorOrder
    <2>4. CASE g = f /\ t # s /\ phase'[g][t] = phase[g][t]
      BY <1>3, <1>4, <1>12, <1>13, <2>1, <2>4 DEF IndInv, PhaseAmongCursors
    <2>5. CASE g = f /\ t # s /\ phase'[g][t] # phase[g][t]
      <3>1. phase[g][t] = "PREPARED" /\ phase'[g][t] = "COMMITTING" /\ t = s + 1
        BY <1>9, <1>11, <2>5
      <3>2. t < next_issue[g]
        BY <3>1 DEF IndInv, PhaseAmongCursors
      <3> QED BY <1>12, <2>5, <3>1, <3>2
    <2> QED BY <2>2, <2>3, <2>4, <2>5
  <1>19. ReleasedInWindow'
    BY <1>5 DEF IndInv, ReleasedInWindow
  <1>20. IssuedStays'
    BY <1>5, <1>16 DEF IndInv, IssuedStays
  <1>21. \A v \in pending \ {w} : <<v.token.flow, v.token.serial>> # <<f, s>>
    <2> SUFFICES ASSUME NEW v \in pending, v.token.flow = f, v.token.serial = s
                 PROVE  v = w
      OBVIOUS
    <2>1. v.kind = "ready" /\ v.token = TokenOf(f, s) /\ v \in Writes
      BY <1>1, <1>4 DEF WritesOwned, TypeOK
    <2> QED BY <1>3, <2>1 DEF Writes
  <1>22. WritesOwned'
    <2> SUFFICES ASSUME NEW v \in pending'
                 PROVE  LET g == v.token.flow
                            t == v.token.serial
                        IN  /\ Present(g, t)'
                            /\ v.token = TokenOf(g, t)'
                            /\ IF v.kind = "ready"
                               THEN phase'[g][t] = "COMMITTING" /\ t = next_publish'[g]
                               ELSE phase'[g][t] = "PUSHING" /\ v \in data_writes'[g][t]
      BY DEF WritesOwned
    <2>1. CASE v \in pending \ {w}
      <3> DEFINE g == v.token.flow
                 t == v.token.serial
      <3>1. g \in Flows /\ t \in Serials /\ <<g, t>> # <<f, s>> /\ v.token = TokenOf(g, t)
        BY <1>1, <1>21, <2>1, OwnedTyped
      <3>2. /\ phase[g][t] \in {"PUSHING", "COMMITTING"}
            /\ v.kind = "ready" => phase[g][t] = "COMMITTING" /\ t = next_publish[g]
            /\ v.kind # "ready" => phase[g][t] = "PUSHING" /\ v \in data_writes[g][t]
        BY <1>1, <2>1 DEF WritesOwned
      <3> HIDE DEF g, t
      <3>3. phase'[g][t] = phase[g][t]
        BY <1>9, <3>1, <3>2
      <3>4. v.kind = "ready" => g # f
        BY <1>4, <3>1, <3>2
      <3>5. /\ Present(g, t)' /\ v.token = TokenOf(g, t)'
            /\ v.kind = "ready" => phase'[g][t] = "COMMITTING" /\ t = next_publish'[g]
            /\ v.kind # "ready" => phase'[g][t] = "PUSHING" /\ v \in data_writes'[g][t]
        BY <1>5, <1>12, <3>1, <3>2, <3>3, <3>4 DEF Present, TokenOf
      <3> QED BY <3>5 DEF g, t
    <2>2. CASE v \notin pending \ {w}
      <3>1. v = ReadyWrite(TokenOf(f, c))
        BY <1>10, <2>2
      <3>2. v.token = TokenOf(f, c) /\ v.kind = "ready" /\ v.token.flow = f /\ v.token.serial = c
        BY <3>1 DEF ReadyWrite, TokenOf, Token
      <3>3. v # w
        BY <1>3, <1>8, <1>11, <3>2 DEF TokenOf, Token
      <3>4. c \in Serials /\ phase'[f][c] = "COMMITTING"
        BY <1>10, <2>2, <3>1, <3>3
      <3> QED BY <1>5, <1>11, <1>12, <3>2, <3>4 DEF Present, TokenOf
    <2> QED BY <2>1, <2>2
  <1>23. DataWritesPending'
    <2> SUFFICES ASSUME NEW g \in Flows, NEW t \in Serials, NEW v \in data_writes[g][t]
                 PROVE  /\ phase'[g][t] = "PUSHING"
                        /\ v \in pending'
                        /\ v \in DataWrites(TokenOf(g, t), payload[g][t])
      BY <1>5 DEF DataWritesPending, TokenOf
    <2>1. /\ phase[g][t] = "PUSHING" /\ v \in pending
          /\ v \in DataWrites(TokenOf(g, t), payload[g][t])
      BY DEF IndInv, DataWritesPending
    <2>2. v.kind # "ready"
      BY <2>1, DataWritesAre
    <2> QED BY <1>3, <1>10, <1>16, <2>1, <2>2
  <1>24. ImageInSlot'
    BY <1>5, <1>16 DEF IndInv, ImageInSlot, LineArrived, FieldArrived, TokenOf
  <1>25. MarkerBehindOwner'
    <2>1. /\ host_ready'[f][SlotOf(s)] = generation[f][s]
          /\ \A g \in Flows, k \in Slots : ~(g = f /\ k = SlotOf(s)) =>
                host_ready'[g][k] = host_ready[g][k]
      BY <1>1, <1>3, <1>5 DEF TypeOK
    <2>2. generation[f][s] = generations[f][SlotOf(s)] /\ generation[f][s] \in Nat
      BY <1>1, <1>3, <1>4 DEF PacketInWindow, TypeOK
    <2>3. \A g \in Flows, k \in Slots : host_ready'[g][k] <= generations[g][k]
      BY <1>3, <2>1, <2>2 DEF IndInv, MarkerBehindOwner
    <2>4. ASSUME NEW g \in Flows, NEW t \in Serials
          PROVE  /\ phase'[g][t] \in Published => host_ready'[g][SlotOf(t)] = generation[g][t]
                 /\ phase'[g][t] \notin Published \cup {"ABSENT"} =>
                        host_ready'[g][SlotOf(t)] < generation[g][t]
      <3>1. CASE g = f /\ t = s
        BY <1>9, <2>1, <3>1 DEF Published
      <3>2. CASE ~(g = f /\ t = s) /\ phase[g][t] # "ABSENT"
        <4>1. ~(g = f /\ SlotOf(t) = SlotOf(s))
          BY <1>1, <1>3, <1>4, <3>2, PacketsApart
        <4>2. host_ready'[g][SlotOf(t)] = host_ready[g][SlotOf(t)]
          BY <2>1, <4>1, SlotOfSerial
        <4>3. phase'[g][t] \in Published <=> phase[g][t] \in Published
          BY <1>9, <3>2 DEF Published
        <4> QED BY <1>16, <3>2, <4>2, <4>3 DEF IndInv, MarkerBehindOwner
      <3>3. CASE phase[g][t] = "ABSENT"
        BY <1>16, <3>3 DEF Published
      <3> QED BY <3>1, <3>2, <3>3
    <2> QED BY <1>5, <2>3, <2>4 DEF MarkerBehindOwner
  <1>26. HeldIsImage'
    BY <1>5, <1>16 DEF IndInv, HeldIsImage, TokenOf
  <1>27. GenerationsCount'
    BY <1>5, <1>16 DEF IndInv, GenerationsCount, Taken, ExpectedGeneration
  <1> QED BY <1>2, <1>15, <1>17, <1>18, <1>19, <1>20, <1>22, <1>23, <1>24, <1>25,
             <1>26, <1>27 DEF IndInv

(* A slot with the fields of a descriptor has that descriptor.             *)
LEMMA DescriptorExtensional ==
    ASSUME NEW token, NEW n, NEW d \in [Fields -> Int],
           \A k \in Fields : d[k] = Descriptor(token, n)[k]
    PROVE  d = Descriptor(token, n)
  <1>1. DOMAIN Descriptor(token, n) = Fields
    BY DEF Descriptor
  <1>2. Descriptor(token, n) = [k \in Fields |-> Descriptor(token, n)[k]]
    BY Zenon DEF Descriptor
  <1>3. d = [k \in Fields |-> d[k]]
    OBVIOUS
  <1> QED BY <1>1, <1>2, <1>3

(* A packet whose data is visible: its slot shows exactly its image.       *)
LEMMA ImageSeen ==
    ASSUME TypeOK, PacketInWindow, DataWritesPending, ImageInSlot,
           NEW f \in Flows, NEW s \in Serials, phase[f][s] \in Visible
    PROVE  /\ LengthFits(f, s)
           /\ Snapshot(f, s) = Image(TokenOf(f, s), payload[f][s])
           /\ data_writes[f][s] = {}
  <1> DEFINE p == payload[f][s]
             token == TokenOf(f, s)
  <1>1. data_writes[f][s] = {}
    BY DEF DataWritesPending, Visible
  <1>2. p \in Payloads /\ Length[p] \in 1..MaxPacketBytes
    BY WorldAssumption DEF PacketInWindow, Visible
  <1>3. SlotOf(s) \in Slots
    BY SlotOfSerial
  <1>4. \A k \in Fields : host_descriptor[f][SlotOf(s)][k] = Descriptor(token, Length[p])[k]
    BY <1>1 DEF ImageInSlot, FieldArrived
  <1>5. host_descriptor[f][SlotOf(s)] \in [Fields -> Int]
    BY <1>3 DEF TypeOK
  <1>6. host_descriptor[f][SlotOf(s)] = Descriptor(token, Length[p])
    BY <1>4, <1>5, DescriptorExtensional
  <1>7. Descriptor(token, Length[p])["length"] = Length[p]
    BY WorldAssumption DEF Descriptor
  <1>8. VisibleLength(f, s) = Length[p]
    BY <1>6, <1>7 DEF VisibleLength
  <1>9. \A i \in LineNumbers(Length[p]) : host_data[f][SlotOf(s)][i] = Lines(p)[i]
    BY <1>1 DEF ImageInSlot, LineArrived
  <1>10. [i \in LineNumbers(Length[p]) |-> host_data[f][SlotOf(s)][i]] = Lines(p)
    BY <1>9 DEF Lines
  <1> HIDE DEF p, token
  <1>11. Snapshot(f, s) = Image(token, p)
    BY <1>6, <1>8, <1>10 DEF Snapshot, Image
  <1> QED BY <1>1, <1>2, <1>8, <1>11 DEF LengthFits, p, token

LEMMA AcquireStep ==
    ASSUME IndInv, NEW f \in Flows, Acquire(f)
    PROVE  IndInv'
  <1> DEFINE s == next_consume[f]
  <1>1. TypeOK
    BY DEF IndInv
  <1>2. TypeOK'
    BY <1>1, AcquireTyped
  <1>3. s \in Serials /\ s \in Nat /\ phase[f][s] = "READY"
    BY SlotOfSerial DEF Acquire, MarkerSeen, Present
  <1>4. /\ phase' = [phase EXCEPT ![f][s] = "CPU_OWNED"]
        /\ next_consume' = [next_consume EXCEPT ![f] = s + 1]
        /\ held' = [held EXCEPT ![f][s] = Snapshot(f, s)]
        /\ UNCHANGED <<base, next_issue, next_publish, released, generations,
                       payload, generation, data_writes, pending, host_data,
                       host_descriptor, host_ready>>
    BY DEF Acquire, host
  <1>5. Snapshot(f, s) = Image(TokenOf(f, s), payload[f][s])
    BY <1>3, ImageSeen DEF IndInv, Visible
  <1>6. next_consume[f] = s
    OBVIOUS
  <1> HIDE DEF s
  <1>7. /\ phase'[f][s] = "CPU_OWNED"
        /\ \A g \in Flows, t \in Serials : <<g, t>> # <<f, s>> => phase'[g][t] = phase[g][t]
    BY <1>1, <1>3, <1>4 DEF TypeOK
  <1>8. /\ held'[f][s] = Snapshot(f, s)
        /\ \A g \in Flows, t \in Serials : <<g, t>> # <<f, s>> => held'[g][t] = held[g][t]
    BY <1>1, <1>3, <1>4 DEF TypeOK
  <1>9. next_consume'[f] = s + 1 /\ \A g \in Flows \ {f} : next_consume'[g] = next_consume[g]
    BY <1>1, <1>4 DEF TypeOK
  <1>10. \A g \in Flows : /\ base[g] \in Nat /\ next_issue[g] \in Nat
                           /\ next_publish[g] \in Nat /\ next_consume[g] \in Nat
    BY <1>1 DEF TypeOK
  <1>11. s < next_publish[f]
    BY <1>3 DEF IndInv, PhaseAmongCursors
  <1>12. CursorOrder'
    BY <1>3, <1>4, <1>6, <1>9, <1>10, <1>11 DEF IndInv, CursorOrder
  <1>13. \A g \in Flows, t \in Serials :
            /\ phase'[g][t] = "ABSENT" <=> phase[g][t] = "ABSENT"
            /\ phase'[g][t] = "PUSHING" <=> phase[g][t] = "PUSHING"
            /\ phase'[g][t] = "COMMITTING" <=> phase[g][t] = "COMMITTING"
            /\ phase'[g][t] \in Visible <=> phase[g][t] \in Visible
            /\ phase'[g][t] \in Published <=> phase[g][t] \in Published
    BY <1>3, <1>7 DEF Visible, Published
  <1>14. PacketInWindow'
    BY <1>4, <1>13 DEF IndInv, PacketInWindow
  <1>15. PhaseAmongCursors'
    <2> SUFFICES ASSUME NEW g \in Flows, NEW t \in Serials
                 PROVE  /\ phase'[g][t] = "WAIT_SEQ" => next_issue[g] <= t
                        /\ phase'[g][t] \in {"PUSHING", "PREPARED"} =>
                                next_publish[g] <= t /\ t < next_issue[g]
                        /\ phase'[g][t] = "COMMITTING" =>
                                t = next_publish[g] /\ t < next_issue[g]
                        /\ phase'[g][t] = "READY" => next_consume'[g] <= t /\ t < next_publish[g]
                        /\ phase'[g][t] = "CPU_OWNED" => t < next_consume'[g]
      BY <1>4 DEF PhaseAmongCursors
    <2>1. t \in Nat
      BY SlotOfSerial
    <2>2. CASE g # f
      BY <1>7, <1>9, <2>2 DEF IndInv, PhaseAmongCursors
    <2>3. CASE g = f /\ t = s
      BY <1>3, <1>7, <1>9, <2>3
    <2>4. CASE g = f /\ t # s
      BY <1>3, <1>6, <1>7, <1>9, <1>10, <2>1, <2>4 DEF IndInv, PhaseAmongCursors
    <2> QED BY <2>2, <2>3, <2>4
  <1>16. ReleasedInWindow'
    <2>1. \A g \in Flows : \A r \in released[g] : r \in Nat
      BY <1>1, SerialsAreNat DEF TypeOK
    <2>2. \A g \in Flows : next_consume'[g] >= next_consume[g] /\ next_consume'[g] \in Nat
      BY <1>3, <1>6, <1>9, <1>10
    <2> QED BY <1>4, <1>10, <2>1, <2>2 DEF IndInv, ReleasedInWindow
  <1>17. IssuedStays'
    BY <1>4, <1>13 DEF IndInv, IssuedStays
  <1>18. WritesOwned'
    <2>1. \A w \in pending : w.token.flow \in Flows /\ w.token.serial \in Serials
      BY <1>1, OwnedTyped DEF IndInv
    <2> QED BY <1>4, <1>13, <2>1 DEF IndInv, WritesOwned, Present, TokenOf
  <1>19. DataWritesPending'
    BY <1>4, <1>13 DEF IndInv, DataWritesPending, TokenOf
  <1>20. ImageInSlot'
    BY <1>4, <1>13 DEF IndInv, ImageInSlot, LineArrived, FieldArrived, TokenOf
  <1>21. MarkerBehindOwner'
    BY <1>4, <1>13 DEF IndInv, MarkerBehindOwner
  <1>22. HeldIsImage'
    BY <1>4, <1>5, <1>7, <1>8 DEF IndInv, HeldIsImage, TokenOf
  <1>23. GenerationsCount'
    BY <1>4, <1>13 DEF IndInv, GenerationsCount, Taken, ExpectedGeneration
  <1> QED BY <1>2, <1>12, <1>14, <1>15, <1>16, <1>17, <1>18, <1>19, <1>20, <1>21,
             <1>22, <1>23 DEF IndInv

LEMMA CompleteDataStep ==
    ASSUME IndInv, NEW w \in pending, CompleteData(w)
    PROVE  IndInv'
  <1> DEFINE f == w.token.flow
             s == w.token.serial
             k == SlotOf(s)
             c == next_publish[f]
             rest == data_writes[f][s] \ {w}
             phases == [phase EXCEPT ![f][s] = PhaseAfterData(rest)]
             Commits == Committable(phases, f, c)
  <1>1. TypeOK /\ PacketInWindow /\ WritesOwned /\ DataWritesPending
    BY DEF IndInv
  <1>2. TypeOK'
    BY <1>1, CompleteDataTyped
  <1>3. /\ f \in Flows /\ s \in Serials /\ s \in Nat /\ w \in Writes
        /\ w.token = TokenOf(f, s) /\ w.token.slot = k /\ k \in Slots
        /\ w.kind # "ready"
    BY <1>1, OwnedTyped, SlotOfSerial DEF CompleteData
  <1>4. phase[f][s] = "PUSHING" /\ w \in data_writes[f][s]
    BY DEF CompleteData, LateData
  <1>5. w \in DataWrites(TokenOf(f, s), payload[f][s])
    BY <1>1, <1>3, <1>4 DEF DataWritesPending
  <1>6. /\ StoreData(f, k, w)
        /\ data_writes' = [data_writes EXCEPT ![f][s] = rest]
        /\ TryCommit(f, phases, c, pending \ {w})
        /\ UNCHANGED <<base, next_issue, next_publish, next_consume, released,
                       generations, payload, generation, host_ready, held>>
    BY <1>3 DEF CompleteData, cursors
  <1>7. phases \in [Flows -> [Serials -> Phases]]
    BY <1>1, <1>3 DEF TypeOK, Phases, PhaseAfterData
  <1>8. /\ phases[f][s] = PhaseAfterData(rest)
        /\ \A g \in Flows, t \in Serials : <<g, t>> # <<f, s>> => phases[g][t] = phase[g][t]
    BY <1>1, <1>3 DEF TypeOK
  <1>9. /\ data_writes'[f][s] = rest
        /\ \A g \in Flows, t \in Serials :
                <<g, t>> # <<f, s>> => data_writes'[g][t] = data_writes[g][t]
    BY <1>1, <1>3, <1>6 DEF TypeOK
  <1>10. /\ c = next_publish[f] /\ rest = data_writes[f][s] \ {w} /\ k = SlotOf(s)
         /\ f = w.token.flow /\ s = w.token.serial
    OBVIOUS
  <1> HIDE DEF f, s, k, c, rest, phases
  (* A packet other than that of w keeps its phase or starts to commit;    *)
  (* that of w waits for the rest of its data or has none left.            *)
  <1>11. /\ \A g \in Flows, t \in Serials : <<g, t>> # <<f, s>> =>
                \/ phase'[g][t] = phase[g][t]
                \/ /\ phase[g][t] = "PREPARED" /\ phase'[g][t] = "COMMITTING"
                   /\ g = f /\ t = c
         /\ rest # {} => phase'[f][s] = "PUSHING"
         /\ rest = {} => \/ phase'[f][s] = "PREPARED"
                         \/ phase'[f][s] = "COMMITTING" /\ s = c
    <2>1. CASE Commits
      <3>1. /\ phases[f][c] = "PREPARED" /\ c \in Serials /\ phase'[f][c] = "COMMITTING"
            /\ \A g \in Flows, t \in Serials : <<g, t>> # <<f, c>> => phase'[g][t] = phases[g][t]
        BY <1>3, <1>6, <1>7, <2>1, TryCommitEffect
      <3>2. CASE c = s
        BY <1>3, <1>8, <3>1, <3>2 DEF PhaseAfterData
      <3>3. CASE c # s
        BY <1>3, <1>8, <3>1, <3>3 DEF PhaseAfterData
      <3> QED BY <3>2, <3>3
    <2>2. CASE ~Commits
      BY <1>3, <1>6, <1>7, <1>8, <2>2, TryCommitEffect DEF PhaseAfterData
    <2> QED BY <2>1, <2>2
  <1>12. /\ pending' \subseteq (pending \ {w}) \cup {ReadyWrite(TokenOf(f, c))}
         /\ pending \ {w} \subseteq pending'
         /\ pending' # pending \ {w} => c \in Serials /\ phase'[f][c] = "COMMITTING"
    <2>1. CASE Commits
      BY <1>3, <1>6, <1>7, <2>1, TryCommitEffect
    <2>2. CASE ~Commits
      BY <1>3, <1>6, <1>7, <2>2, TryCommitEffect
    <2> QED BY <2>1, <2>2
  <1> HIDE DEF Commits
  <1>13. \A g \in Flows, t \in Serials :
            /\ phase'[g][t] = "ABSENT" <=> phase[g][t] = "ABSENT"
            /\ phase'[g][t] = "CPU_OWNED" <=> phase[g][t] = "CPU_OWNED"
            /\ phase'[g][t] \in Published <=> phase[g][t] \in Published
            /\ phase'[g][t] \in Visible \cup {"PUSHING"} <=>
                    phase[g][t] \in Visible \cup {"PUSHING"}
    BY <1>3, <1>4, <1>11 DEF Visible, Published
  <1>14. CursorOrder'
    BY <1>6 DEF IndInv, CursorOrder
  <1>15. PacketInWindow'
    BY <1>6, <1>13 DEF IndInv, PacketInWindow
  <1>16. PhaseAmongCursors'
    <2> SUFFICES ASSUME NEW g \in Flows, NEW t \in Serials
                 PROVE  /\ phase'[g][t] = "WAIT_SEQ" => next_issue[g] <= t
                        /\ phase'[g][t] \in {"PUSHING", "PREPARED"} =>
                                next_publish[g] <= t /\ t < next_issue[g]
                        /\ phase'[g][t] = "COMMITTING" =>
                                t = next_publish[g] /\ t < next_issue[g]
                        /\ phase'[g][t] = "READY" => next_consume[g] <= t /\ t < next_publish[g]
                        /\ phase'[g][t] = "CPU_OWNED" => t < next_consume[g]
      BY <1>6 DEF PhaseAmongCursors
    <2>1. CASE g = f /\ t = s
      BY <1>3, <1>4, <1>10, <1>11, <2>1 DEF IndInv, PhaseAmongCursors
    <2>2. CASE ~(g = f /\ t = s)
      <3>1. \/ phase'[g][t] = phase[g][t]
            \/ /\ phase[g][t] = "PREPARED" /\ phase'[g][t] = "COMMITTING"
               /\ t = next_publish[g]
        BY <1>10, <1>11, <2>2
      <3> QED BY <3>1 DEF IndInv, PhaseAmongCursors
    <2> QED BY <2>1, <2>2
  <1>17. ReleasedInWindow'
    BY <1>6 DEF IndInv, ReleasedInWindow
  <1>18. IssuedStays'
    BY <1>6, <1>13 DEF IndInv, IssuedStays
  <1>19. WritesOwned'
    <2> SUFFICES ASSUME NEW v \in pending'
                 PROVE  LET g == v.token.flow
                            t == v.token.serial
                        IN  /\ Present(g, t)'
                            /\ v.token = TokenOf(g, t)'
                            /\ IF v.kind = "ready"
                               THEN phase'[g][t] = "COMMITTING" /\ t = next_publish'[g]
                               ELSE phase'[g][t] = "PUSHING" /\ v \in data_writes'[g][t]
      BY DEF WritesOwned
    <2>1. CASE v \in pending \ {w}
      <3> DEFINE g == v.token.flow
                 t == v.token.serial
      <3>1. g \in Flows /\ t \in Serials /\ v.token = TokenOf(g, t)
        BY <1>1, <2>1, OwnedTyped
      <3>2. /\ phase[g][t] \in {"PUSHING", "COMMITTING"}
            /\ v.kind = "ready" => phase[g][t] = "COMMITTING" /\ t = next_publish[g]
            /\ v.kind # "ready" => phase[g][t] = "PUSHING" /\ v \in data_writes[g][t]
        BY <1>1, <2>1 DEF WritesOwned
      <3> HIDE DEF g, t
      <3>3. phase'[g][t] = phase[g][t] /\ (v.kind # "ready" => v \in data_writes'[g][t])
        <4>1. CASE g = f /\ t = s
          <5>1. v.kind # "ready" /\ v \in rest
            BY <1>4, <1>10, <2>1, <3>2, <4>1
          <5> QED BY <1>4, <1>9, <1>11, <4>1, <5>1
        <4>2. CASE ~(g = f /\ t = s)
          BY <1>9, <1>11, <3>1, <3>2, <4>2
        <4> QED BY <4>1, <4>2
      <3>4. /\ Present(g, t)' /\ v.token = TokenOf(g, t)'
            /\ v.kind = "ready" => phase'[g][t] = "COMMITTING" /\ t = next_publish'[g]
            /\ v.kind # "ready" => phase'[g][t] = "PUSHING" /\ v \in data_writes'[g][t]
        BY <1>6, <3>1, <3>2, <3>3 DEF Present, TokenOf
      <3> QED BY <3>4 DEF g, t
    <2>2. CASE v \notin pending \ {w}
      <3>1. v = ReadyWrite(TokenOf(f, c)) /\ c \in Serials /\ phase'[f][c] = "COMMITTING"
        BY <1>12, <2>2
      <3>2. v.token = TokenOf(f, c) /\ v.kind = "ready" /\ v.token.flow = f /\ v.token.serial = c
        BY <3>1 DEF ReadyWrite, TokenOf, Token
      <3> QED BY <1>6, <1>10, <3>1, <3>2 DEF Present, TokenOf
    <2> QED BY <2>1, <2>2
  <1>20. DataWritesPending'
    <2> SUFFICES ASSUME NEW g \in Flows, NEW t \in Serials, NEW v \in data_writes'[g][t]
                 PROVE  /\ phase'[g][t] = "PUSHING"
                        /\ v \in pending'
                        /\ v \in DataWrites(TokenOf(g, t), payload[g][t])
      BY <1>6 DEF DataWritesPending, TokenOf
    <2>1. v \in data_writes[g][t] /\ (g = f /\ t = s => v \in rest /\ v # w)
      BY <1>9, <1>10
    <2>2. /\ phase[g][t] = "PUSHING" /\ v \in pending
          /\ v \in DataWrites(TokenOf(g, t), payload[g][t])
      BY <1>1, <2>1 DEF DataWritesPending
    <2>3. v.token = TokenOf(g, t)
      BY <2>2, DataWritesAre
    <2>4. v # w
      BY <1>10, <2>1, <2>3 DEF TokenOf, Token
    <2>5. phase'[g][t] = "PUSHING"
      BY <1>11, <2>1, <2>2
    <2> QED BY <1>12, <2>2, <2>4, <2>5
  <1>21. ImageInSlot'
    <2> SUFFICES ASSUME NEW g \in Flows, NEW t \in Serials,
                        phase[g][t] \in Visible \cup {"PUSHING"}
                 PROVE  /\ \A i \in LineNumbers(Length[payload[g][t]]) : LineArrived(g, t, i)'
                        /\ \A d \in Fields : FieldArrived(g, t, d)'
      BY <1>6, <1>13 DEF ImageInSlot
    <2>1. /\ \A i \in LineNumbers(Length[payload[g][t]]) : LineArrived(g, t, i)
          /\ \A d \in Fields : FieldArrived(g, t, d)
      BY DEF IndInv, ImageInSlot
    <2>2. payload[g][t] \in Payloads /\ SlotOf(t) \in Slots
      BY <1>1, SlotOfSerial DEF PacketInWindow, Visible
    <2>3. LineNumbers(Length[payload[g][t]]) \subseteq HostLines
      <3>1. Length[payload[g][t]] \in 0..MaxPacketBytes
        BY <2>2, WorldAssumption, ConfigAssumption
      <3> QED BY <3>1, LinesInSlot
    <2>4. CASE ~(g = f /\ t = s)
      <3>1. ~(g = f /\ SlotOf(t) = k)
        BY <1>1, <1>3, <1>4, <1>10, <2>4, PacketsApart DEF Visible
      <3>2. /\ \A i \in HostLines : host_data'[g][SlotOf(t)][i] = host_data[g][SlotOf(t)][i]
            /\ \A d \in Fields :
                    host_descriptor'[g][SlotOf(t)][d] = host_descriptor[g][SlotOf(t)][d]
        <4>1. CASE w.kind = "payload"
          <5>1. /\ host_data' = [host_data EXCEPT ![f][k][w.offset] = w.data]
                /\ host_descriptor' = host_descriptor
            BY <1>6, <4>1 DEF StoreData
          <5> QED BY <1>1, <2>2, <3>1, <5>1 DEF TypeOK
        <4>2. CASE w.kind # "payload"
          <5>1. /\ host_descriptor' = [host_descriptor EXCEPT ![f][k][w.field] = w.value]
                /\ host_data' = host_data
            BY <1>6, <4>2 DEF StoreData
          <5> QED BY <1>1, <2>2, <3>1, <5>1 DEF TypeOK
        <4> QED BY <4>1, <4>2
      <3> QED BY <1>6, <1>9, <2>1, <2>3, <2>4, <3>2 DEF LineArrived, FieldArrived, TokenOf
    <2>5. CASE g = f /\ t = s
      <3> DEFINE p == payload[f][s]
                 token == TokenOf(f, s)
      <3>1. CASE w.kind = "payload"
        <4>1. /\ host_data' = [host_data EXCEPT ![f][k][w.offset] = w.data]
              /\ host_descriptor' = host_descriptor
          BY <1>6, <3>1 DEF StoreData
        <4>2. PICK j \in LineNumbers(Length[p]) :
                w = PayloadWrite(token, p, j) /\ w.offset = j /\ w.data = Lines(p)[j]
          BY <1>5, <3>1, DataWritesAre
        <4>3. ASSUME NEW i \in LineNumbers(Length[p]) PROVE LineArrived(f, s, i)'
          <5>1. i \in HostLines
            BY <2>3, <2>5
          <5>2. CASE i = j
            <6>1. host_data'[f][k][i] = Lines(p)[i]
              BY <1>1, <1>3, <4>1, <4>2, <5>1, <5>2 DEF TypeOK
            <6> QED BY <1>6, <1>10, <6>1 DEF LineArrived
          <5>3. CASE i # j
            <6>1. host_data'[f][k][i] = host_data[f][k][i]
              BY <1>1, <1>3, <4>1, <4>2, <5>1, <5>3 DEF TypeOK
            <6>2. PayloadWrite(token, p, i) # w
              BY <4>2, <5>3 DEF PayloadWrite
            <6> QED BY <1>6, <1>9, <1>10, <2>1, <2>5, <6>1, <6>2 DEF LineArrived, TokenOf
          <5> QED BY <5>2, <5>3
        <4>4. ASSUME NEW d \in Fields PROVE FieldArrived(f, s, d)'
          <5>1. DescriptorWrite(token, p, d) # w
            BY <3>1 DEF DescriptorWrite
          <5> QED BY <1>6, <1>9, <1>10, <2>1, <2>5, <4>1, <5>1 DEF FieldArrived, TokenOf
        <4> QED BY <2>5, <4>3, <4>4
      <3>2. CASE w.kind # "payload"
        <4>1. /\ host_descriptor' = [host_descriptor EXCEPT ![f][k][w.field] = w.value]
              /\ host_data' = host_data
          BY <1>6, <3>2 DEF StoreData
        <4>2. PICK j \in Fields :
                w = DescriptorWrite(token, p, j) /\ w.field = j
                /\ w.value = Descriptor(token, Length[p])[j]
          BY <1>5, <3>2, DataWritesAre
        <4>3. ASSUME NEW i \in LineNumbers(Length[p]) PROVE LineArrived(f, s, i)'
          <5>1. PayloadWrite(token, p, i) # w
            BY <3>2 DEF PayloadWrite
          <5> QED BY <1>6, <1>9, <1>10, <2>1, <2>5, <4>1, <5>1 DEF LineArrived, TokenOf
        <4>4. ASSUME NEW d \in Fields PROVE FieldArrived(f, s, d)'
          <5>1. CASE d = j
            <6>1. host_descriptor'[f][k][d] = Descriptor(token, Length[p])[d]
              BY <1>1, <1>3, <4>1, <4>2, <5>1 DEF TypeOK
            <6> QED BY <1>6, <1>10, <6>1 DEF FieldArrived, TokenOf
          <5>2. CASE d # j
            <6>1. host_descriptor'[f][k][d] = host_descriptor[f][k][d]
              BY <1>1, <1>3, <4>1, <4>2, <5>2 DEF TypeOK
            <6>2. DescriptorWrite(token, p, d) # w
              BY <4>2, <5>2 DEF DescriptorWrite
            <6> QED BY <1>6, <1>9, <1>10, <2>1, <2>5, <6>1, <6>2 DEF FieldArrived, TokenOf
          <5> QED BY <5>1, <5>2
        <4> QED BY <2>5, <4>3, <4>4
      <3> QED BY <3>1, <3>2
    <2> QED BY <2>4, <2>5
  <1>22. MarkerBehindOwner'
    BY <1>6, <1>13 DEF IndInv, MarkerBehindOwner
  <1>23. HeldIsImage'
    BY <1>6, <1>13 DEF IndInv, HeldIsImage, TokenOf
  <1>24. GenerationsCount'
    BY <1>6, <1>13 DEF IndInv, GenerationsCount, Taken, ExpectedGeneration
  <1> QED BY <1>2, <1>14, <1>15, <1>16, <1>17, <1>18, <1>19, <1>20, <1>21, <1>22,
             <1>23, <1>24 DEF IndInv

LEMMA ReleaseStep ==
    ASSUME IndInv, NEW f \in Flows, NEW s \in Serials, Release(f, s)
    PROVE  IndInv'
  <1> DEFINE back == released[f] \cup {s}
  <1>1. TypeOK /\ PacketInWindow
    BY DEF IndInv
  <1>2. TypeOK'
    BY <1>1, ReleaseTyped
  <1>3. phase[f][s] = "CPU_OWNED" /\ s \in Nat
    BY SlotOfSerial DEF Release
  <1>4. PICK b \in base[f]..(base[f] + Window) :
            /\ b \notin back
            /\ base[f]..(b - 1) \subseteq back
            /\ base' = [base EXCEPT ![f] = b]
            /\ released' = [released EXCEPT ![f] = back \ (base[f]..(b - 1))]
    BY DEF Release, AdvanceBase
  <1>5. /\ phase' = [phase EXCEPT ![f][s] = "ABSENT"]
        /\ payload' = [payload EXCEPT ![f][s] = NoPayload]
        /\ generation' = [generation EXCEPT ![f][s] = 0]
        /\ held' = [held EXCEPT ![f][s] = NoDelivery]
        /\ UNCHANGED <<next_issue, next_publish, next_consume, generations,
                       data_writes, pending, host_data, host_descriptor, host_ready>>
    BY DEF Release, host
  <1>6. phase'[f][s] = "ABSENT"
    BY <1>1, <1>5 DEF TypeOK
  <1>7. \A g \in Flows, t \in Serials : <<g, t>> # <<f, s>> =>
            /\ phase'[g][t] = phase[g][t]
            /\ payload'[g][t] = payload[g][t]
            /\ generation'[g][t] = generation[g][t]
            /\ held'[g][t] = held[g][t]
    BY <1>1, <1>5 DEF TypeOK
  <1>8. /\ base'[f] = b
        /\ released'[f] = back \ (base[f]..(b - 1))
        /\ \A g \in Flows \ {f} : base'[g] = base[g] /\ released'[g] = released[g]
    BY <1>1, <1>4 DEF TypeOK
  <1>9. /\ \A g \in Flows : /\ base[g] \in Nat /\ next_issue[g] \in Nat
                              /\ next_publish[g] \in Nat /\ next_consume[g] \in Nat
                              /\ InitialSerial[g] \in Nat
        /\ Window \in Nat /\ Window > 0
    BY <1>1, ConfigAssumption, WorldAssumption DEF TypeOK
  <1>10. b \in Nat /\ base[f] <= b /\ b <= base[f] + Window
    BY <1>4, <1>9
  <1>11. /\ base[f] <= s /\ s < base[f] + Window /\ s < next_consume[f]
         /\ \A r \in released[f] : /\ r \in Nat /\ base[f] < r /\ r < base[f] + Window
                                   /\ r < next_consume[f]
    BY <1>1, <1>3, SerialsAreNat DEF IndInv, PacketInWindow, PhaseAmongCursors,
       ReleasedInWindow, TypeOK
  <1> HIDE DEF back
  <1>12. \A r \in back : /\ r \in Nat /\ base[f] <= r /\ r < base[f] + Window
                         /\ r < next_consume[f]
    BY <1>3, <1>9, <1>11 DEF back
  <1>13. b <= next_consume[f]
    <2>1. CASE next_consume[f] < b
      <3>1. next_consume[f] \in base[f]..(b - 1)
        BY <1>9, <1>10, <2>1 DEF IndInv, CursorOrder
      <3> QED BY <1>4, <1>9, <1>12, <3>1
    <2> QED BY <1>9, <1>10, <2>1
  <1>14. \A t \in Nat : base[f] <= t /\ t \notin back => b <= t
    <2> SUFFICES ASSUME NEW t \in Nat, base[f] <= t, t < b PROVE t \in back
      BY <1>10
    <2> QED BY <1>4, <1>9, <1>10
  <1>15. \A g \in Flows, t \in Serials :
            phase'[g][t] # "ABSENT" => <<g, t>> # <<f, s>> /\ phase[g][t] # "ABSENT"
    BY <1>6, <1>7
  <1>16. CursorOrder'
    <2>1. /\ InitialSerial[f] <= b /\ b <= next_consume[f]
          /\ next_consume[f] <= next_publish[f] /\ next_publish[f] <= next_issue[f]
      BY <1>9, <1>10, <1>13 DEF IndInv, CursorOrder
    <2> QED BY <1>5, <1>8, <2>1 DEF IndInv, CursorOrder
  <1>17. PacketInWindow'
    <2> SUFFICES ASSUME NEW g \in Flows, NEW t \in Serials, phase'[g][t] # "ABSENT"
                 PROVE  /\ base'[g] <= t /\ t < base'[g] + Window
                        /\ t \notin released'[g]
                        /\ payload'[g][t] \in Payloads
                        /\ generation'[g][t] > 0
                        /\ generation'[g][t] = generations[g][SlotOf(t)]
      BY <1>5 DEF PacketInWindow
    <2>1. <<g, t>> # <<f, s>> /\ phase[g][t] # "ABSENT" /\ t \in Nat
      BY <1>15, SlotOfSerial
    <2>2. /\ base[g] <= t /\ t < base[g] + Window /\ t \notin released[g]
          /\ payload[g][t] \in Payloads /\ generation[g][t] > 0
          /\ generation[g][t] = generations[g][SlotOf(t)]
      BY <1>1, <2>1 DEF PacketInWindow
    <2>3. base'[g] <= t /\ t < base'[g] + Window /\ t \notin released'[g]
      <3>1. CASE g = f
        <4>1. t \notin back
          BY <2>1, <2>2, <3>1 DEF back
        <4>2. b <= t /\ t < b + Window
          BY <1>9, <1>10, <1>14, <2>1, <2>2, <3>1, <4>1
        <4> QED BY <1>8, <3>1, <4>1, <4>2
      <3>2. CASE g # f
        BY <1>8, <2>2, <3>2
      <3> QED BY <3>1, <3>2
    <2> QED BY <1>7, <2>1, <2>2, <2>3
  <1>18. PhaseAmongCursors'
    BY <1>5, <1>6, <1>7 DEF IndInv, PhaseAmongCursors
  <1>19. ReleasedInWindow'
    <2> SUFFICES ASSUME NEW g \in Flows, NEW r \in released'[g]
                 PROVE  base'[g] < r /\ r < base'[g] + Window /\ r < next_consume[g]
      BY <1>5 DEF ReleasedInWindow
    <2>1. CASE g = f
      <3>1. r \in back /\ r \notin base[f]..(b - 1)
        BY <1>8, <2>1
      <3>2. r \in Nat /\ base[f] <= r /\ r < base[f] + Window /\ r < next_consume[f] /\ r # b
        BY <1>4, <1>12, <3>1
      <3>3. b < r /\ r < b + Window
        BY <1>9, <1>10, <3>1, <3>2
      <3> QED BY <1>8, <2>1, <3>2, <3>3
    <2>2. CASE g # f
      BY <1>8, <2>2 DEF IndInv, ReleasedInWindow
    <2> QED BY <2>1, <2>2
  <1>20. IssuedStays'
    <2> SUFFICES ASSUME NEW g \in Flows, NEW t \in Serials, base'[g] <= t, t < next_issue[g]
                 PROVE  phase'[g][t] # "ABSENT" \/ t \in released'[g]
      BY <1>5 DEF IssuedStays
    <2>1. CASE g = f
      <3>1. t \in Nat /\ b <= t /\ t \notin base[f]..(b - 1) /\ base[f] <= t
        BY <1>8, <1>9, <1>10, <2>1, SlotOfSerial
      <3>2. phase[f][t] # "ABSENT" \/ t \in released[f]
        BY <2>1, <3>1 DEF IndInv, IssuedStays
      <3>3. CASE t = s \/ t \in released[f]
        BY <1>8, <2>1, <3>1, <3>3 DEF back
      <3>4. CASE t # s /\ phase[f][t] # "ABSENT"
        BY <1>7, <2>1, <3>4
      <3> QED BY <3>2, <3>3, <3>4
    <2>2. CASE g # f
      BY <1>7, <1>8, <2>2 DEF IndInv, IssuedStays
    <2> QED BY <2>1, <2>2
  <1>21. WritesOwned'
    <2>1. \A w \in pending : /\ w.token.flow \in Flows /\ w.token.serial \in Serials
                             /\ <<w.token.flow, w.token.serial>> # <<f, s>>
      BY <1>1, <1>3, OwnedTyped DEF IndInv, WritesOwned
    <2> QED BY <1>5, <1>7, <2>1 DEF IndInv, WritesOwned, Present, TokenOf
  <1>22. DataWritesPending'
    <2>1. data_writes[f][s] = {}
      BY <1>3 DEF IndInv, DataWritesPending
    <2> QED BY <1>5, <1>7, <2>1 DEF IndInv, DataWritesPending, TokenOf
  <1>23. ImageInSlot'
    BY <1>5, <1>6, <1>7
       DEF IndInv, ImageInSlot, LineArrived, FieldArrived, TokenOf, Visible
  <1>24. MarkerBehindOwner'
    BY <1>5, <1>6, <1>7 DEF IndInv, MarkerBehindOwner, Published
  <1>25. HeldIsImage'
    BY <1>5, <1>6, <1>7 DEF IndInv, HeldIsImage, TokenOf
  <1>26. GenerationsCount'
    <2> SUFFICES ASSUME NEW g \in Flows, NEW x \in base'[g]..(base'[g] + Window - 1)
                 PROVE  generations[g][SlotOf(x)] =
                            IF Taken(g, x)' THEN ExpectedGeneration(g, x)
                            ELSE ExpectedGeneration(g, x) - 1
      BY <1>5 DEF GenerationsCount, ExpectedGeneration
    <2>1. CASE g # f
      <3>1. Taken(g, x)' <=> Taken(g, x)
        BY <1>7, <1>8, <2>1 DEF Taken
      <3> QED BY <1>8, <2>1, <3>1 DEF IndInv, GenerationsCount
    <2>2. CASE g = f /\ x < base[f] + Window
      <3>1. x \in Nat /\ b <= x /\ x \in base[f]..(base[f] + Window - 1)
            /\ x \notin base[f]..(b - 1)
        BY <1>8, <1>9, <1>10, <2>2
      <3>2. Taken(f, x)' <=> Taken(f, x)
        <4>1. CASE x = s
          BY <1>3, <1>8, <3>1, <4>1 DEF Taken, back
        <4>2. CASE x # s
          BY <1>7, <1>8, <3>1, <4>2 DEF Taken, back
        <4> QED BY <4>1, <4>2
      <3> QED BY <2>2, <3>1, <3>2 DEF IndInv, GenerationsCount
    <2>3. CASE g = f /\ x >= base[f] + Window
      <3> DEFINE y == x - Window
      <3>1. x \in Nat /\ x < b + Window
        BY <1>8, <1>9, <1>10, <2>3
      <3>2. y \in Nat /\ y \in base[f]..(b - 1) /\ y \in base[f]..(base[f] + Window - 1)
            /\ x = y + Window
        BY <1>9, <1>10, <2>3, <3>1
      <3>3. Taken(f, y)
        BY <1>3, <1>4, <3>2 DEF Taken, back
      <3>4. generations[f][SlotOf(y)] = ExpectedGeneration(f, y)
        BY <3>2, <3>3 DEF IndInv, GenerationsCount
      <3>5. /\ SlotOf(x) = SlotOf(y)
            /\ ExpectedGeneration(f, x) = ExpectedGeneration(f, y) + 1
            /\ ExpectedGeneration(f, y) \in Int
        BY <3>2, NextOwner
      <3>6. ~Taken(f, x)'
        <4>1. x \notin back
          BY <1>9, <1>12, <2>3, <3>1
        <4>2. x \in Serials => phase[f][x] = "ABSENT"
          BY <1>1, <1>9, <2>3, <3>1 DEF PacketInWindow
        <4> QED BY <1>6, <1>7, <1>8, <4>1, <4>2 DEF Taken
      <3> QED BY <2>3, <3>4, <3>5, <3>6
    <2>4. x \in Nat /\ base[f] + Window \in Nat
      BY <1>2, <1>9 DEF TypeOK
    <2> QED BY <2>1, <2>2, <2>3, <2>4
  <1> QED BY <1>2, <1>16, <1>17, <1>18, <1>19, <1>20, <1>21, <1>22, <1>23, <1>24,
             <1>25, <1>26 DEF IndInv

LEMMA InitInv == Init => IndInv
  <1> SUFFICES ASSUME Init PROVE IndInv
    OBVIOUS
  <1>1. TypeOK
    BY InitTyped
  <1>2. /\ \A f \in Flows : /\ base[f] = InitialSerial[f] /\ InitialSerial[f] \in Nat
                             /\ next_issue[f] = InitialSerial[f]
                             /\ next_publish[f] = InitialSerial[f]
                             /\ next_consume[f] = InitialSerial[f]
                             /\ released[f] = {}
                             /\ \A k \in Slots : generations[f][k] = 0 /\ host_ready[f][k] = 0
        /\ \A f \in Flows, s \in Serials : phase[f][s] = "ABSENT" /\ data_writes[f][s] = {}
        /\ pending = {}
    BY WorldAssumption DEF Init, NotReady
  <1>3. CursorOrder /\ PacketInWindow /\ PhaseAmongCursors /\ ReleasedInWindow
    BY <1>2 DEF CursorOrder, PacketInWindow, PhaseAmongCursors, ReleasedInWindow
  <1>4. IssuedStays
    BY <1>2, SerialsAreNat DEF IssuedStays
  <1>5. WritesOwned /\ DataWritesPending /\ ImageInSlot /\ MarkerBehindOwner /\ HeldIsImage
    BY <1>2 DEF WritesOwned, DataWritesPending, ImageInSlot, MarkerBehindOwner,
       HeldIsImage, Visible, Published
  <1>6. GenerationsCount
    <2> SUFFICES ASSUME NEW f \in Flows, NEW x \in base[f]..(base[f] + Window - 1)
                 PROVE  generations[f][SlotOf(x)] = IF Taken(f, x) THEN ExpectedGeneration(f, x)
                                                    ELSE ExpectedGeneration(f, x) - 1
      BY DEF GenerationsCount
    <2>1. x \in Nat /\ x - InitialSerial[f] \in 0..(Window - 1) /\ Window \in Nat \ {0}
      BY <1>2, ConfigAssumption
    <2>2. SlotOf(x) \in Slots
      BY <2>1, DivMod DEF SlotOf, Slots
    <2>3. \A y \in 0..(Window - 1) : y \div Window = 0
      BY ConfigAssumption, Z3
    <2>4. ExpectedGeneration(f, x) = 1
      BY <2>1, <2>3 DEF ExpectedGeneration
    <2>5. ~Taken(f, x)
      BY <1>2 DEF Taken
    <2> QED BY <1>2, <2>2, <2>4, <2>5
  <1> QED BY <1>1, <1>3, <1>4, <1>5, <1>6 DEF IndInv

LEMMA StepInv == IndInv /\ [Next]_vars => IndInv'
  <1> SUFFICES ASSUME IndInv, [Next]_vars PROVE IndInv'
    OBVIOUS
  <1>1. ASSUME NEW f \in Flows, NEW e \in Epochs, NEW q \in Sequences, NEW p \in Payloads,
               Receive(f, e, q, p)
        PROVE  IndInv'
    BY <1>1, ReceiveStep
  <1>2. CASE Pump
    BY <1>2, PumpLoopStep, PumpIssueStep DEF Pump
  <1>3. ASSUME NEW w \in pending, Complete(w) PROVE IndInv'
    BY <1>3, CompleteReadyStep, CompleteDataStep DEF Complete
  <1>4. ASSUME NEW f \in Flows, Acquire(f) \/ FailGap(f) PROVE IndInv'
    BY <1>4, AcquireStep, FailGapStep
  <1>5. ASSUME NEW f \in Flows, NEW s \in Serials, Release(f, s) PROVE IndInv'
    BY <1>5, ReleaseStep
  <1>6. CASE UNCHANGED vars
    <2>1. TypeOK'
      BY <1>6 DEF IndInv, TypeOK, vars, cursors, budgets, packets, host, loop
    <2>2. UNCHANGED <<base, next_issue, next_publish, next_consume, released, generations,
                      phase, payload, generation, data_writes, pending, host_data,
                      host_descriptor, host_ready, held>>
      BY <1>6 DEF vars, cursors, packets, host
    <2> QED BY <2>1, <2>2
          DEF IndInv, CursorOrder, PacketInWindow, PhaseAmongCursors, ReleasedInWindow,
              IssuedStays, WritesOwned, DataWritesPending, ImageInSlot, MarkerBehindOwner,
              HeldIsImage, GenerationsCount, Present, TokenOf, LineArrived, FieldArrived,
              Taken, ExpectedGeneration
  <1> QED BY <1>1, <1>2, <1>3, <1>4, <1>5, <1>6 DEF Next

(* The inductive invariant holds of every behaviour of the class.          *)
THEOREM Invariance == Spec => []IndInv
  <1>1. Init => IndInv
    BY InitInv
  <1>2. IndInv /\ [Next]_vars => IndInv'
    BY StepInv
  <1> QED BY <1>1, <1>2, PTL DEF Spec

(* The state keeps its shape: every cursor, slot, write and delivery is    *)
(* one the class can hold.                                                 *)
THEOREM TypeCorrect == Spec => []TypeOK
  <1>1. IndInv => TypeOK
    BY DEF IndInv
  <1> QED BY <1>1, Invariance, PTL
--------------------------------------------------------------------------------
(* What follows from the invariant.                                        *)

(* Every slot has one owner, inside the window of its flow.                *)
LEMMA InvSlots == IndInv => SlotsExclusive
  <1> SUFFICES ASSUME IndInv PROVE SlotsExclusive
    OBVIOUS
  <1>1. \A f \in Flows : /\ base[f] <= next_consume[f]
                        /\ next_consume[f] <= next_publish[f]
                        /\ next_publish[f] <= next_issue[f]
    BY DEF IndInv, CursorOrder
  <1>2. ASSUME NEW f \in Flows, NEW s \in Serials, Present(f, s) \/ s \in released[f]
        PROVE  s \in base[f]..(base[f] + Window - 1)
    <2>1. s \in Nat /\ base[f] \in Nat /\ Window \in Nat
      BY SlotOfSerial, ConfigAssumption DEF IndInv, TypeOK
    <2>2. base[f] <= s /\ s < base[f] + Window
      BY <1>2, <2>1 DEF Present, IndInv, PacketInWindow, ReleasedInWindow
    <2> QED BY <2>1, <2>2
  <1>3. ASSUME NEW f \in Flows, NEW s \in Serials, NEW t \in Serials,
               Present(f, s), Present(f, t), SlotOf(s) = SlotOf(t)
        PROVE  s = t
    BY <1>3, PacketsApart DEF Present, IndInv
  <1>4. ASSUME NEW f \in Flows, NEW s \in Serials, Present(f, s)
        PROVE  generations[f][SlotOf(s)] = generation[f][s]
    BY <1>4 DEF Present, IndInv, PacketInWindow
  <1> QED BY <1>1, <1>2, <1>3, <1>4 DEF SlotsExclusive

(* A slot never has two owners and the window never stretches, for every   *)
(* window and every order of releases.                                     *)
THEOREM SlotsAreExclusive == Spec => []SlotsExclusive
  BY InvSlots, Invariance, PTL

(* No write is in flight for a packet that does not own its slot any more. *)
THEOREM WritesAreOwned == Spec => []WritesOwned
  <1>1. IndInv => WritesOwned
    BY DEF IndInv
  <1> QED BY <1>1, Invariance, PTL

LEMMA InvImage == IndInv => PublishedImage
  <1> SUFFICES ASSUME IndInv, NEW f \in Flows, NEW s \in Serials
               PROVE  /\ phase[f][s] \in Visible =>
                            /\ LengthFits(f, s)
                            /\ Snapshot(f, s) = Image(TokenOf(f, s), payload[f][s])
                            /\ data_writes[f][s] = {}
                      /\ phase[f][s] \in Published =>
                            host_ready[f][SlotOf(s)] = generation[f][s]
    BY DEF PublishedImage
  <1> QED BY ImageSeen DEF IndInv, MarkerBehindOwner

(* A published packet is in its slot to the last line and field.           *)
THEOREM PublishedIsImage == Spec => []PublishedImage
  BY InvImage, Invariance, PTL

LEMMA InvHeld == IndInv => HeldIntact
  <1> SUFFICES ASSUME IndInv, NEW f \in Flows, NEW s \in Serials, phase[f][s] = "CPU_OWNED"
               PROVE  /\ held[f][s] = Image(TokenOf(f, s), payload[f][s])
                      /\ Snapshot(f, s) = held[f][s]
    BY DEF HeldIntact
  <1>1. held[f][s] = Image(TokenOf(f, s), payload[f][s])
    BY DEF IndInv, HeldIsImage
  <1>2. phase[f][s] \in Visible
    BY DEF Visible
  <1>3. Snapshot(f, s) = Image(TokenOf(f, s), payload[f][s])
    BY <1>2, ImageSeen DEF IndInv
  <1> QED BY <1>1, <1>3

(* What the CPU holds is the packet that came in, until it hands it back.  *)
THEOREM DeliveriesAreIntact == Spec => []HeldIntact
  BY InvHeld, Invariance, PTL

LEMMA InvNoFault == IndInv => NoInternalFault
  <1> SUFFICES ASSUME IndInv PROVE NoInternalFault
    OBVIOUS
  <1>1. TypeOK /\ WritesOwned /\ PacketInWindow
    BY DEF IndInv
  <1>2. ASSUME NEW f \in Flows, NEW s \in Serials, Admissible(f, s)
        PROVE  ~SlotOwned(f, s)
    <2> SUFFICES ASSUME NEW t \in Serials, Present(f, t), SlotOf(t) = SlotOf(s)
                 PROVE  FALSE
      BY DEF SlotOwned
    <2>1. s \in Nat /\ t \in Nat /\ base[f] \in Nat /\ Window \in Nat
      BY <1>1, SlotOfSerial, ConfigAssumption DEF TypeOK
    <2>2. base[f] <= s /\ s < base[f] + Window /\ phase[f][s] = "ABSENT"
      BY <1>2, <2>1 DEF Admissible, Late, OutsideWindow, Present
    <2>3. base[f] <= t /\ t < base[f] + Window /\ phase[f][t] # "ABSENT"
      BY <1>1 DEF Present, PacketInWindow
    <2>4. s - t < Window /\ t - s < Window
      BY <2>1, <2>2, <2>3
    <2> QED BY <2>1, <2>2, <2>3, <2>4, SlotsInWindowDiffer
  <1>3. ASSUME NEW w \in pending
        PROVE  /\ ~Outlived(w)
               /\ w.kind = "ready" => ~EarlyPublication(w)
               /\ w.kind # "ready" => ~LateData(w)
    <2>1. w.token.flow \in Flows /\ w.token.serial \in Serials
      BY <1>1, OwnedTyped
    <2>2. ~Outlived(w)
      BY DEF IndInv, WritesOwned, Outlived
    <2>3. w.kind = "ready" => ~EarlyPublication(w)
      BY <2>1 DEF IndInv, WritesOwned, DataWritesPending, EarlyPublication
    <2>4. w.kind # "ready" => ~LateData(w)
      BY DEF IndInv, WritesOwned, LateData
    <2> QED BY <2>2, <2>3, <2>4
  <1>4. ASSUME NEW f \in Flows, MarkerSeen(f, next_consume[f])
        PROVE  phase[f][next_consume[f]] = "READY" /\ LengthFits(f, next_consume[f])
    <2> DEFINE s == next_consume[f]
    <2>1. s \in Serials /\ s \in Nat /\ phase[f][s] # "ABSENT"
          /\ host_ready[f][SlotOf(s)] = generation[f][s]
      BY <1>4, SlotOfSerial DEF MarkerSeen, Present
    <2>2. generation[f][s] \in Nat
      BY <1>1, <2>1 DEF TypeOK
    <2>3. phase[f][s] \in Published
      BY <2>1, <2>2 DEF IndInv, MarkerBehindOwner
    <2>4. phase[f][s] # "CPU_OWNED"
      BY <2>1 DEF IndInv, PhaseAmongCursors
    <2>5. phase[f][s] = "READY" /\ phase[f][s] \in Visible
      BY <2>3, <2>4 DEF Published, Visible
    <2> QED BY <2>1, <2>5, ImageSeen DEF IndInv
  <1>5. ASSUME NEW f \in Flows, NEW s \in Serials, phase[f][s] = "CPU_OWNED"
        PROVE  ~WritesInFlight(f, s)
    <2> SUFFICES ASSUME NEW w \in pending, w.token = TokenOf(f, s) PROVE FALSE
      BY DEF WritesInFlight
    <2>1. w.token.flow = f /\ w.token.serial = s
      BY DEF TokenOf, Token
    <2> QED BY <1>1, <1>5, <2>1 DEF WritesOwned
  <1> QED BY <1>2, <1>3, <1>4, <1>5 DEF NoInternalFault

(* None of the class's internal errors is reachable by legal calls.        *)
THEOREM InternalFaultsUnreachable == Spec => []NoInternalFault
  BY InvNoFault, Invariance, PTL
--------------------------------------------------------------------------------
(* The generation a polling CPU computes.                                  *)

(* Quotient and remainder by the window are unique.                        *)
LEMMA QuotientUnique ==
    ASSUME NEW a \in Int, NEW b \in Int, NEW r \in 0..(Window - 1), NEW q \in 0..(Window - 1),
           Window * a + r = Window * b + q
    PROVE  a = b /\ r = q
  <1>1. Window \in Nat /\ Window * a \in Int /\ Window * b \in Int
    BY ConfigAssumption
  <1>2. ~(a < b)
    BY <1>1, MultiplesApart
  <1>3. ~(b < a)
    BY <1>1, MultiplesApart
  <1>4. a = b
    BY <1>2, <1>3
  <1> QED BY <1>1, <1>4

LEMMA DivShift ==
    ASSUME NEW x \in Int, NEW d \in Int
    PROVE  /\ (x + Window * d) \div Window = (x \div Window) + d
           /\ (x + Window * d) % Window = x % Window
  <1> DEFINE y == x + Window * d
             a == x \div Window
  <1>1. Window \in Nat /\ Window * d \in Int /\ y \in Int
    BY ConfigAssumption
  <1>2. x = Window * a + (x % Window) /\ x % Window \in 0..(Window - 1) /\ a \in Int
    BY DivMod
  <1>3. /\ y = Window * (y \div Window) + (y % Window)
        /\ y % Window \in 0..(Window - 1) /\ y \div Window \in Int
    BY <1>1, DivMod
  <1>4. Window * (a + d) = Window * a + Window * d
    BY <1>1, <1>2, Z3
  <1>5. Window * a \in Int
    BY <1>1, <1>2
  <1>6. y = Window * (a + d) + (x % Window)
    BY <1>1, <1>2, <1>4, <1>5
  <1> HIDE DEF y, a
  <1>7. y \div Window = a + d /\ y % Window = x % Window
    BY <1>2, <1>3, <1>6, QuotientUnique
  <1> QED BY <1>7 DEF y, a

(* A serial beyond the window has the slot of one inside it, and a larger  *)
(* generation.                                                             *)
LEMMA OwnerInWindow ==
    ASSUME NEW f \in Flows, NEW o \in Nat, NEW s \in Nat, s >= o + Window
    PROVE  \E x \in o..(o + Window - 1) :
                /\ SlotOf(x) = SlotOf(s)
                /\ ExpectedGeneration(f, x) < ExpectedGeneration(f, s)
                /\ ExpectedGeneration(f, x) \in Int
                /\ ExpectedGeneration(f, s) \in Int
  <1> DEFINE d == (s - o) \div Window
             x == o + ((s - o) % Window)
             i == InitialSerial[f]
  <1>1. Window \in Nat /\ Window > 0 /\ s - o \in Int /\ i \in Nat
    BY ConfigAssumption, WorldAssumption
  <1>2. /\ s - o = Window * d + ((s - o) % Window)
        /\ (s - o) % Window \in 0..(Window - 1) /\ d \in Int
    BY <1>1, DivMod
  <1>3. Window * d \in Int
    BY <1>1, <1>2
  <1>4. x \in o..(o + Window - 1) /\ x \in Nat
    BY <1>1, <1>2
  <1>5. s = x + Window * d
    BY <1>2, <1>3
  <1>6. d > 0
    <2>1. CASE d < 1
      <3>1. Window * 1 - Window * d >= Window
        BY <1>2, <2>1, MultiplesApart
      <3> QED BY <1>1, <1>2, <1>3, <3>1
    <2> QED BY <1>2, <2>1
  <1> HIDE DEF d, x
  <1>7. SlotOf(s) = SlotOf(x)
    BY <1>2, <1>4, <1>5, DivShift DEF SlotOf
  <1>8. s - i = (x - i) + Window * d /\ x - i \in Int
    BY <1>1, <1>3, <1>4, <1>5
  <1>9. (s - i) \div Window = ((x - i) \div Window) + d
    BY <1>2, <1>8, DivShift
  <1>10. (x - i) \div Window \in Int
    BY <1>8, DivMod
  <1>11. /\ ExpectedGeneration(f, x) = ((x - i) \div Window) + 1
         /\ ExpectedGeneration(f, s) = ((s - i) \div Window) + 1
    BY DEF ExpectedGeneration
  <1>12. /\ ExpectedGeneration(f, x) < ExpectedGeneration(f, s)
         /\ ExpectedGeneration(f, x) \in Int /\ ExpectedGeneration(f, s) \in Int
    BY <1>2, <1>6, <1>9, <1>10, <1>11
  <1> QED BY <1>4, <1>7, <1>12

LEMMA InvMarker == IndInv => ReadyMeansPrefixVisible
  <1> SUFFICES ASSUME IndInv, NEW f \in Flows, NEW s \in Serials, s >= InitialSerial[f]
               PROVE  /\ host_ready[f][SlotOf(s)] = ExpectedGeneration(f, s) =>
                            s < next_publish[f]
                      /\ Present(f, s) /\ s < next_publish[f] =>
                            host_ready[f][SlotOf(s)] = ExpectedGeneration(f, s)
    BY DEF ReadyMeansPrefixVisible
  <1> DEFINE k == SlotOf(s)
  <1>1. TypeOK /\ s \in Nat /\ k \in Slots
    BY SlotOfSerial DEF IndInv
  <1>2. /\ base[f] \in Nat /\ next_publish[f] \in Nat /\ next_consume[f] \in Nat
        /\ next_issue[f] \in Nat /\ Window \in Nat
        /\ host_ready[f][k] \in Nat /\ generations[f][k] \in Nat
        /\ generation[f][s] \in Nat
    BY <1>1, ConfigAssumption DEF TypeOK
  <1>3. /\ base[f] <= next_consume[f] /\ next_consume[f] <= next_publish[f]
        /\ next_publish[f] <= next_issue[f]
        /\ host_ready[f][k] <= generations[f][k]
    BY <1>1 DEF IndInv, CursorOrder, MarkerBehindOwner
  <1>4. ExpectedGeneration(f, s) \in Int
    BY <1>1, NextOwner
  <1>5. s \in base[f]..(base[f] + Window - 1) =>
            generations[f][k] = IF Taken(f, s) THEN ExpectedGeneration(f, s)
                                ELSE ExpectedGeneration(f, s) - 1
    BY DEF IndInv, GenerationsCount
  <1>6. ASSUME host_ready[f][k] = ExpectedGeneration(f, s)
        PROVE  s < next_publish[f]
    <2> SUFFICES ASSUME s >= next_publish[f] PROVE FALSE
      BY <1>1, <1>2
    <2>1. CASE s < base[f] + Window
      <3>1. s \in base[f]..(base[f] + Window - 1)
        BY <1>1, <1>2, <1>3, <2>1
      <3>2. Taken(f, s)
        BY <1>2, <1>3, <1>4, <1>5, <1>6, <3>1
      <3>3. s \notin released[f]
        BY <1>1, <1>2, <1>3 DEF IndInv, ReleasedInWindow
      <3>4. phase[f][s] # "ABSENT"
        BY <3>2, <3>3 DEF Taken
      <3>5. phase[f][s] \notin Published
        BY <1>1, <1>2, <1>3 DEF IndInv, PhaseAmongCursors, Published
      <3>6. host_ready[f][k] < generation[f][s] /\ generation[f][s] = generations[f][k]
        BY <3>4, <3>5 DEF IndInv, MarkerBehindOwner, PacketInWindow
      <3> QED BY <1>2, <1>4, <1>5, <1>6, <3>1, <3>2, <3>6
    <2>2. CASE s >= base[f] + Window
      <3>1. PICK x \in base[f]..(base[f] + Window - 1) :
                /\ SlotOf(x) = k
                /\ ExpectedGeneration(f, x) < ExpectedGeneration(f, s)
                /\ ExpectedGeneration(f, x) \in Int
        BY <1>1, <1>2, <2>2, OwnerInWindow
      <3>2. generations[f][k] <= ExpectedGeneration(f, x)
        BY <1>2, <3>1 DEF IndInv, GenerationsCount
      <3> QED BY <1>2, <1>3, <1>4, <1>6, <3>1, <3>2
    <2> QED BY <1>1, <1>2, <2>1, <2>2
  <1>7. ASSUME Present(f, s), s < next_publish[f]
        PROVE  host_ready[f][k] = ExpectedGeneration(f, s)
    <2>1. phase[f][s] # "ABSENT" /\ phase[f][s] \in Phases
      BY <1>1, <1>7 DEF Present, TypeOK
    <2>2. phase[f][s] \in Published
      BY <1>1, <1>2, <1>3, <1>7, <2>1 DEF IndInv, PhaseAmongCursors, Published, Phases
    <2>3. host_ready[f][k] = generations[f][k]
      BY <2>1, <2>2 DEF IndInv, MarkerBehindOwner, PacketInWindow
    <2>4. s \in base[f]..(base[f] + Window - 1) /\ Taken(f, s)
      BY <1>1, <1>2, <2>1 DEF IndInv, PacketInWindow, Taken
    <2> QED BY <1>5, <2>3, <2>4
  <1> QED BY <1>6, <1>7

(* A CPU that only counts packets and looks at the marker of the next slot *)
(* never takes an unpublished packet for published, nor misses one.        *)
THEOREM MarkerIsTrustworthy == Spec => []ReadyMeansPrefixVisible
  BY InvMarker, Invariance, PTL
--------------------------------------------------------------------------------
(* Steps of complete() move packets only between the phases from PUSHING   *)
(* to READY.                                                               *)
Moving == {"PUSHING", "PREPARED", "COMMITTING"}

LEMMA CompleteMoves ==
    ASSUME IndInv, NEW w \in pending, Complete(w)
    PROVE  \A g \in Flows, t \in Serials :
                \/ phase'[g][t] = phase[g][t]
                \/ /\ phase[g][t] \in Moving
                   /\ phase'[g][t] \in Moving \cup {"READY"}
  <1> DEFINE f == w.token.flow
             s == w.token.serial
  <1>1. TypeOK /\ f \in Flows /\ s \in Serials
    BY OwnedTyped DEF IndInv
  <1>2. CASE CompleteReady(w)
    <2> DEFINE phases == [phase EXCEPT ![f][s] = "READY"]
    <2>1. /\ TryCommit(f, phases, SerialToPublish(f), pending \ {w})
          /\ phase[f][s] = "COMMITTING"
      BY <1>2 DEF CompleteReady, EarlyPublication
    <2>2. /\ phases \in [Flows -> [Serials -> Phases]] /\ phases[f][s] = "READY"
          /\ \A g \in Flows, t \in Serials : <<g, t>> # <<f, s>> => phases[g][t] = phase[g][t]
      BY <1>1 DEF TypeOK, Phases
    <2> HIDE DEF f, s, phases
    <2> QED BY <1>1, <2>1, <2>2, TryCommitEffect DEF Moving
  <1>3. CASE CompleteData(w)
    <2> DEFINE next == PhaseAfterData(data_writes[f][s] \ {w})
               phases == [phase EXCEPT ![f][s] = next]
    <2>1. /\ TryCommit(f, phases, next_publish[f], pending \ {w})
          /\ phase[f][s] = "PUSHING"
      BY <1>3 DEF CompleteData, LateData
    <2>2. next \in {"PUSHING", "PREPARED"}
      BY DEF PhaseAfterData
    <2> HIDE DEF next
    <2>3. /\ phases \in [Flows -> [Serials -> Phases]] /\ phases[f][s] = next
          /\ \A g \in Flows, t \in Serials : <<g, t>> # <<f, s>> => phases[g][t] = phase[g][t]
      BY <1>1, <2>2 DEF TypeOK, Phases
    <2> HIDE DEF f, s, phases
    <2> QED BY <1>1, <2>1, <2>2, <2>3, TryCommitEffect DEF Moving
  <1> QED BY <1>2, <1>3 DEF Complete

LEMMA NoSkip ==
    ASSUME IndInv, IndInv', [Next]_vars, NEW f \in Flows, halted[f]
    PROVE  /\ halted'[f]
           /\ next_issue'[f] = next_issue[f]
           /\ base'[f] <= next_issue[f]
           /\ \A s \in Serials : s >= next_issue[f] => phase'[f][s] = phase[f][s]
  <1> DEFINE Stays ==
                /\ halted'[f]
                /\ next_issue'[f] = next_issue[f]
                /\ \A s \in Serials : s >= next_issue[f] => phase'[f][s] = phase[f][s]
  <1>1. TypeOK
    BY DEF IndInv
  <1>2. Stays
    <2>1. ASSUME NEW g \in Flows, NEW e \in Epochs, NEW q \in Sequences, NEW p \in Payloads,
                 Receive(g, e, q, p)
          PROVE  Stays
      <3>1. g # f
        BY <2>1 DEF Receive, Admissible
      <3> QED BY <1>1, <2>1, <3>1 DEF Receive, TypeOK, cursors
    <2>2. CASE PumpCall \/ PumpPass
      BY <2>2 DEF PumpCall, PumpPass, cursors, packets
    <2>3. ASSUME NEW k \in 0..(NumFlows - 1), PumpIssue(k) PROVE Stays
      <3>1. FlowAt(k) # f
        BY <2>3 DEF PumpIssue, Issuable, HeadWaits
      <3> QED BY <1>1, <2>3, <3>1 DEF PumpIssue, TypeOK
    <2>4. ASSUME NEW w \in pending, Complete(w) PROVE Stays
      <3>1. UNCHANGED <<halted, next_issue>>
        BY <2>4 DEF Complete, CompleteReady, CompleteData, cursors
      <3>2. ASSUME NEW s \in Serials, s >= next_issue[f] PROVE phase'[f][s] = phase[f][s]
        <4>1. s \in Nat /\ next_issue[f] \in Nat
          BY <1>1, SlotOfSerial DEF TypeOK
        <4>2. phase[f][s] \notin Moving
          BY <3>2, <4>1 DEF Moving, IndInv, PhaseAmongCursors
        <4> QED BY <2>4, <4>2, CompleteMoves
      <3> QED BY <3>1, <3>2
    <2>5. ASSUME NEW g \in Flows, Acquire(g) PROVE Stays
      <3>1. next_consume[g] \in Serials /\ phase[g][next_consume[g]] = "READY"
        BY <2>5 DEF Acquire, MarkerSeen, Present
      <3>2. next_consume[g] < next_issue[g]
        <4>1. next_consume[g] < next_publish[g] /\ next_publish[g] <= next_issue[g]
          BY <3>1 DEF IndInv, PhaseAmongCursors, CursorOrder
        <4> QED BY <1>1, <4>1 DEF TypeOK
      <3>3. UNCHANGED <<halted, next_issue>>
            /\ phase' = [phase EXCEPT ![g][next_consume[g]] = "CPU_OWNED"]
        BY <2>5 DEF Acquire
      <3>4. ASSUME NEW s \in Serials, s >= next_issue[f] PROVE phase'[f][s] = phase[f][s]
        <4>1. ~(g = f /\ s = next_consume[g])
          BY <1>1, <3>2, <3>4, SlotOfSerial DEF TypeOK
        <4> QED BY <1>1, <3>1, <3>3, <4>1 DEF TypeOK
      <3> QED BY <3>3, <3>4
    <2>6. ASSUME NEW g \in Flows, FailGap(g) PROVE Stays
      BY <1>1, <2>6 DEF FailGap, TypeOK, cursors, packets
    <2>7. ASSUME NEW g \in Flows, NEW r \in Serials, Release(g, r) PROVE Stays
      <3>1. r \in Nat /\ phase[g][r] = "CPU_OWNED"
        BY <2>7, SlotOfSerial DEF Release
      <3>2. r < next_issue[g]
        <4>1. r < next_consume[g] /\ next_consume[g] <= next_publish[g]
              /\ next_publish[g] <= next_issue[g]
          BY <3>1 DEF IndInv, PhaseAmongCursors, CursorOrder
        <4> QED BY <1>1, <3>1, <4>1 DEF TypeOK
      <3>3. UNCHANGED <<halted, next_issue>> /\ phase' = [phase EXCEPT ![g][r] = "ABSENT"]
        BY <2>7 DEF Release
      <3>4. ASSUME NEW s \in Serials, s >= next_issue[f] PROVE phase'[f][s] = phase[f][s]
        <4>1. ~(g = f /\ s = r)
          BY <1>1, <3>1, <3>2, <3>4 DEF TypeOK
        <4> QED BY <1>1, <3>3, <4>1 DEF TypeOK
      <3> QED BY <3>3, <3>4
    <2>8. CASE UNCHANGED vars
      BY <2>8 DEF vars, cursors, packets
    <2> QED BY <2>1, <2>2, <2>3, <2>4, <2>5, <2>6, <2>7, <2>8 DEF Next, Pump
  <1>3. base'[f] <= next_issue[f]
    <2>1. /\ base'[f] <= next_consume'[f] /\ next_consume'[f] <= next_publish'[f]
          /\ next_publish'[f] <= next_issue'[f]
      BY DEF IndInv, CursorOrder
    <2>2. /\ base'[f] \in Nat /\ next_consume'[f] \in Nat /\ next_publish'[f] \in Nat
          /\ next_issue'[f] \in Nat
      BY DEF IndInv, TypeOK
    <2> QED BY <1>2, <2>1, <2>2
  <1> QED BY <1>2, <1>3

(* A flow that gave up on a gap leaves everything at and behind it alone.  *)
THEOREM HaltIsTerminal == Spec => HaltNeverSkips
  <1>1. IndInv /\ IndInv' /\ [Next]_vars =>
            [\A f \in Flows : halted[f] =>
                /\ halted'[f]
                /\ next_issue'[f] = next_issue[f]
                /\ base'[f] <= next_issue[f]
                /\ \A s \in Serials : s >= next_issue[f] => phase'[f][s] = phase[f][s]]_vars
    BY NoSkip
  <1> QED BY <1>1, Invariance, PTL DEF Spec, HaltNeverSkips
--------------------------------------------------------------------------------
(* Credit.  The steps that issue and release a packet move one term of the *)
(* sum of its flow, every other step leaves all of them alone.             *)
LEMMA ChargedTyped ==
    ASSUME IndInv, NEW f \in Flows
    PROVE  /\ Charged(f) \in [Nat -> Int]
           /\ \A s \in Nat : Charged(f)[s] >= 0
           /\ \A s \in Serials : Present(f, s) => Refund(f, s) \in Nat
  <1>1. ASSUME NEW s \in Serials, Present(f, s)
        PROVE  Refund(f, s) \in Nat
    <2>1. payload[f][s] \in Payloads
      BY <1>1 DEF IndInv, PacketInWindow, Present
    <2>2. Length[payload[f][s]] \in Nat
      BY <2>1, WorldAssumption, ConfigAssumption
    <2> QED BY <2>2, AlignedIsNat DEF Refund
  <1>2. ASSUME NEW s \in Nat PROVE Charged(f)[s] \in Nat
    BY <1>1 DEF Charged, Issued, Refund
  <1> QED BY <1>1, <1>2 DEF Charged

LEMMA ChargedTypedNext ==
    ASSUME IndInv', NEW f \in Flows
    PROVE  Charged(f)' \in [Nat -> Int]
  <1>1. ASSUME NEW s \in Serials, Present(f, s)'
        PROVE  aligned_size(Length[payload'[f][s]]) \in Nat
    <2>1. payload'[f][s] \in Payloads
      BY <1>1 DEF IndInv, PacketInWindow, Present
    <2>2. Length[payload'[f][s]] \in Nat
      BY <2>1, WorldAssumption, ConfigAssumption
    <2> QED BY <2>2, AlignedIsNat
  <1> QED BY <1>1 DEF Charged, Issued

LEMMA InUseTyped ==
    ASSUME TypeOK
    PROVE  /\ InUse \in [Nat -> Int]
           /\ \A f \in Flows : f \in Nat /\ f < NumFlows /\ InUse[f] = credit[f]
  <1>1. \A f \in Flows : f \in Nat /\ f < NumFlows
    BY ConfigAssumption DEF Flows
  <1> QED BY <1>1 DEF InUse, TypeOK

(* The steps that neither charge nor refund.                               *)
LEMMA SameCharges ==
    ASSUME CreditConserved, UNCHANGED <<credit, global_credit, next_issue>>,
           \A f \in Flows : Charged(f)' = Charged(f)
    PROVE  CreditConserved'
  <1>1. InUse' = InUse
    BY DEF InUse
  <1> QED BY <1>1 DEF CreditConserved

LEMMA ChargedExtensional ==
    ASSUME NEW f \in Flows,
           \A s \in Serials :
                \/ ~Present(f, s) /\ phase'[f][s] \in {"ABSENT", "WAIT_SEQ"}
                \/ phase[f][s] = "WAIT_SEQ" /\ phase'[f][s] = "WAIT_SEQ"
                \/ /\ Present(f, s) /\ phase[f][s] # "WAIT_SEQ"
                   /\ phase'[f][s] \notin {"ABSENT", "WAIT_SEQ"}
                   /\ payload'[f][s] = payload[f][s]
    PROVE  Charged(f)' = Charged(f)
  <1>1. Issued(f)' = Issued(f)
    BY DEF Issued, Present
  <1>2. \A s \in Issued(f) : payload'[f][s] = payload[f][s]
    BY DEF Issued, Present
  <1> QED BY <1>1, <1>2 DEF Charged

LEMMA ReceiveConserves ==
    ASSUME IndInv, CreditConserved, NEW f \in Flows, NEW e \in Epochs, NEW q \in Sequences,
           NEW p \in Payloads, Receive(f, e, q, p)
    PROVE  CreditConserved'
  <1> DEFINE s == WireSerial(e, q)
  <1>1. TypeOK /\ s \in Serials
    BY DEF IndInv, Serials
  <1>2. /\ ~Present(f, s)
        /\ phase' = [phase EXCEPT ![f][s] = "WAIT_SEQ"]
        /\ payload' = [payload EXCEPT ![f][s] = p]
        /\ UNCHANGED <<credit, global_credit, next_issue>>
    BY DEF Receive, Admissible, cursors, budgets
  <1> HIDE DEF s
  <1>3. /\ phase'[f][s] = "WAIT_SEQ"
        /\ \A g \in Flows, t \in Serials : <<g, t>> # <<f, s>> =>
                phase'[g][t] = phase[g][t] /\ payload'[g][t] = payload[g][t]
    BY <1>1, <1>2 DEF TypeOK
  <1>4. ASSUME NEW g \in Flows PROVE Charged(g)' = Charged(g)
    <2>1. ASSUME NEW t \in Serials
          PROVE  \/ ~Present(g, t) /\ phase'[g][t] \in {"ABSENT", "WAIT_SEQ"}
                 \/ phase[g][t] = "WAIT_SEQ" /\ phase'[g][t] = "WAIT_SEQ"
                 \/ /\ Present(g, t) /\ phase[g][t] # "WAIT_SEQ"
                    /\ phase'[g][t] \notin {"ABSENT", "WAIT_SEQ"}
                    /\ payload'[g][t] = payload[g][t]
      BY <1>2, <1>3 DEF Present
    <2> QED BY <2>1, ChargedExtensional
  <1> QED BY <1>2, <1>4, SameCharges

LEMMA CompleteConserves ==
    ASSUME IndInv, CreditConserved, NEW w \in pending, Complete(w)
    PROVE  CreditConserved'
  <1>1. UNCHANGED <<credit, global_credit, next_issue, payload>>
    BY DEF Complete, CompleteReady, CompleteData, cursors, budgets
  <1>2. ASSUME NEW g \in Flows PROVE Charged(g)' = Charged(g)
    <2>1. ASSUME NEW t \in Serials
          PROVE  \/ ~Present(g, t) /\ phase'[g][t] \in {"ABSENT", "WAIT_SEQ"}
                 \/ phase[g][t] = "WAIT_SEQ" /\ phase'[g][t] = "WAIT_SEQ"
                 \/ /\ Present(g, t) /\ phase[g][t] # "WAIT_SEQ"
                    /\ phase'[g][t] \notin {"ABSENT", "WAIT_SEQ"}
                    /\ payload'[g][t] = payload[g][t]
      BY <1>1, CompleteMoves DEF Present, Moving
    <2> QED BY <2>1, ChargedExtensional
  <1> QED BY <1>1, <1>2, SameCharges

LEMMA AcquireConserves ==
    ASSUME IndInv, CreditConserved, NEW f \in Flows, Acquire(f)
    PROVE  CreditConserved'
  <1> DEFINE s == next_consume[f]
  <1>1. /\ TypeOK /\ s \in Serials /\ phase[f][s] = "READY"
        /\ phase' = [phase EXCEPT ![f][s] = "CPU_OWNED"]
        /\ UNCHANGED <<credit, global_credit, next_issue, payload>>
    BY DEF IndInv, Acquire, MarkerSeen, Present, budgets
  <1> HIDE DEF s
  <1>2. /\ phase'[f][s] = "CPU_OWNED"
        /\ \A g \in Flows, t \in Serials : <<g, t>> # <<f, s>> => phase'[g][t] = phase[g][t]
    BY <1>1 DEF TypeOK
  <1>3. ASSUME NEW g \in Flows PROVE Charged(g)' = Charged(g)
    <2>1. ASSUME NEW t \in Serials
          PROVE  \/ ~Present(g, t) /\ phase'[g][t] \in {"ABSENT", "WAIT_SEQ"}
                 \/ phase[g][t] = "WAIT_SEQ" /\ phase'[g][t] = "WAIT_SEQ"
                 \/ /\ Present(g, t) /\ phase[g][t] # "WAIT_SEQ"
                    /\ phase'[g][t] \notin {"ABSENT", "WAIT_SEQ"}
                    /\ payload'[g][t] = payload[g][t]
      BY <1>1, <1>2 DEF Present
    <2> QED BY <2>1, ChargedExtensional
  <1> QED BY <1>1, <1>3, SameCharges

(* The flow that a step charges or refunds, and the total over the flows.  *)
LEMMA OneFlowMoves ==
    ASSUME TypeOK, TypeOK', CreditConserved, NEW f \in Flows, NEW d \in Int,
           credit' = [credit EXCEPT ![f] = credit[f] + d],
           global_credit' = global_credit + d,
           PartialSums(Charged(f)')[next_issue'[f]]
                = PartialSums(Charged(f))[next_issue[f]] + d,
           \A g \in Flows : g # f => Charged(g)' = Charged(g) /\ next_issue'[g] = next_issue[g],
           credit[f] + d <= PerFlowCredit,
           GlobalCredit # 0 => global_credit + d <= GlobalCredit
    PROVE  CreditConserved'
  <1>1. /\ credit'[f] = credit[f] + d
        /\ \A g \in Flows : g # f => credit'[g] = credit[g]
    BY DEF TypeOK
  <1>2. ASSUME NEW g \in Flows
        PROVE  /\ credit'[g] = PartialSums(Charged(g)')[next_issue'[g]]
               /\ credit'[g] <= PerFlowCredit
    BY <1>1 DEF CreditConserved
  <1>3. InUse \in [Nat -> Int] /\ InUse' \in [Nat -> Int]
    BY InUseTyped DEF InUse, TypeOK
  <1>4. f \in Nat /\ f < NumFlows /\ NumFlows \in Nat /\ InUse[f] = credit[f]
    BY InUseTyped, FlowsAreNat
  <1>5. InUse'[f] = credit[f] + d /\ \A g \in Nat : g # f => InUse[g] = InUse'[g]
    BY <1>1, <1>4 DEF InUse
  <1>6. PartialSums(InUse')[NumFlows] = PartialSums(InUse)[NumFlows] + (InUse'[f] - InUse[f])
    BY <1>3, <1>4, <1>5, SumsMove
  <1>7. PartialSums(InUse)[NumFlows] \in Int /\ credit[f] \in Int
    <2>1. PartialSums(InUse) \in [Nat -> Int]
      BY <1>3, PartialSumsStep
    <2> QED BY <1>4, <2>1 DEF TypeOK
  <1>8. global_credit' = PartialSums(InUse')[NumFlows]
    BY <1>4, <1>5, <1>6, <1>7 DEF CreditConserved
  <1> QED BY <1>2, <1>8 DEF CreditConserved

LEMMA PumpIssueConserves ==
    ASSUME IndInv, IndInv', CreditConserved, NEW k \in 0..(NumFlows - 1), PumpIssue(k)
    PROVE  CreditConserved'
  <1>0. PICK f \in Flows : f = FlowAt(k) /\ HeadWaits(f)
    BY FlowAtTyped, ConfigAssumption DEF IndInv, PumpIssue, Issuable
  <1>00. PICK s \in Serials, d \in Nat : s = next_issue[f] /\ d = HeadSize(f)
    BY <1>0, HeadTyped DEF IndInv
  <1>1. TypeOK /\ TypeOK'
    BY DEF IndInv
  <1>2. HeadWaits(f) /\ FlowCreditFits(f) /\ GlobalCreditFits(f)
    BY <1>0 DEF PumpIssue, Issuable
  <1>3. s \in Nat /\ s + 1 \in Nat /\ d \in Int
    BY SlotOfSerial
  <1>4. /\ phase[f][s] = "WAIT_SEQ"
        /\ credit' = [credit EXCEPT ![f] = credit[f] + d]
        /\ global_credit' = global_credit + d
        /\ phase' = [phase EXCEPT ![f][s] = "PUSHING"]
        /\ next_issue' = [next_issue EXCEPT ![f] = s + 1]
        /\ UNCHANGED payload
    BY <1>0, <1>00 DEF PumpIssue, HeadWaits
  <1>5. d = Refund(f, s)
    BY <1>00 DEF HeadSize, Refund
  <1>6. /\ phase'[f][s] = "PUSHING" /\ next_issue'[f] = s + 1
        /\ \A g \in Flows : g # f => next_issue'[g] = next_issue[g]
        /\ \A g \in Flows, t \in Serials : <<g, t>> # <<f, s>> => phase'[g][t] = phase[g][t]
    BY <1>1, <1>3, <1>4 DEF TypeOK
  <1>7. ASSUME NEW g \in Flows, g # f PROVE Charged(g)' = Charged(g)
    <2>1. ASSUME NEW t \in Serials
          PROVE  \/ ~Present(g, t) /\ phase'[g][t] \in {"ABSENT", "WAIT_SEQ"}
                 \/ phase[g][t] = "WAIT_SEQ" /\ phase'[g][t] = "WAIT_SEQ"
                 \/ /\ Present(g, t) /\ phase[g][t] # "WAIT_SEQ"
                    /\ phase'[g][t] \notin {"ABSENT", "WAIT_SEQ"}
                    /\ payload'[g][t] = payload[g][t]
      BY <1>4, <1>6, <1>7 DEF Present
    <2> QED BY <2>1, ChargedExtensional
  <1>8. Charged(f) \in [Nat -> Int] /\ Charged(f)' \in [Nat -> Int]
    BY ChargedTyped, ChargedTypedNext
  <1>9. \A t \in Serials : t # s => (t \in Issued(f)' <=> t \in Issued(f))
    BY <1>1, <1>6 DEF Issued, Present
  <1>10. s \in Issued(f)'
    BY <1>3, <1>6 DEF Issued, Present
  <1>11. /\ Charged(f)'[s] = d
         /\ \A t \in Nat : t # s => Charged(f)'[t] = Charged(f)[t]
    BY <1>3, <1>4, <1>5, <1>9, <1>10 DEF Charged, Issued, Refund
  <1>12. PartialSums(Charged(f)')[s + 1] = PartialSums(Charged(f))[s] + d
    <2>1. \A i \in 0..(s - 1) : Charged(f)[i] = Charged(f)'[i]
      BY <1>3, <1>11
    <2>2. PartialSums(Charged(f))[s] = PartialSums(Charged(f)')[s]
      BY <1>3, <1>8, <2>1, SumsSame
    <2>3. PartialSums(Charged(f)')[s + 1] = PartialSums(Charged(f)')[s] + Charged(f)'[s]
      BY <1>3, <1>8, PartialSumsStep
    <2> QED BY <1>11, <2>2, <2>3
  <1>13. /\ credit[f] + d <= PerFlowCredit
         /\ GlobalCredit # 0 => global_credit + d <= GlobalCredit
    BY <1>00, <1>2 DEF FlowCreditFits, GlobalCreditFits
  <1>14. PartialSums(Charged(f)')[next_issue'[f]]
            = PartialSums(Charged(f))[next_issue[f]] + d
    BY <1>00, <1>6, <1>12
  <1> QED BY <1>1, <1>3, <1>4, <1>6, <1>7, <1>13, <1>14, OneFlowMoves

LEMMA ReleaseConserves ==
    ASSUME IndInv, IndInv', CreditConserved, NEW f \in Flows, NEW s \in Serials, Release(f, s)
    PROVE  CreditConserved'
  <1>1. /\ TypeOK /\ TypeOK' /\ s \in Nat
        /\ phase[f][s] = "CPU_OWNED"
        /\ credit' = [credit EXCEPT ![f] = credit[f] - Refund(f, s)]
        /\ global_credit' = global_credit - Refund(f, s)
        /\ phase' = [phase EXCEPT ![f][s] = "ABSENT"]
        /\ payload' = [payload EXCEPT ![f][s] = NoPayload]
        /\ UNCHANGED next_issue
    BY SlotOfSerial DEF IndInv, Release
  <1>2. Present(f, s) /\ Refund(f, s) \in Nat
    BY <1>1, ChargedTyped DEF Present
  <1>3. s < next_issue[f] /\ next_issue[f] \in Nat
    <2>1. s < next_consume[f]
      BY <1>1 DEF IndInv, PhaseAmongCursors
    <2> QED BY <1>1, <2>1 DEF IndInv, CursorOrder, TypeOK
  <1>4. /\ phase'[f][s] = "ABSENT"
        /\ \A g \in Flows, t \in Serials : <<g, t>> # <<f, s>> =>
                phase'[g][t] = phase[g][t] /\ payload'[g][t] = payload[g][t]
    BY <1>1 DEF TypeOK
  <1>5. ASSUME NEW g \in Flows, g # f PROVE Charged(g)' = Charged(g)
    <2>1. ASSUME NEW t \in Serials
          PROVE  \/ ~Present(g, t) /\ phase'[g][t] \in {"ABSENT", "WAIT_SEQ"}
                 \/ phase[g][t] = "WAIT_SEQ" /\ phase'[g][t] = "WAIT_SEQ"
                 \/ /\ Present(g, t) /\ phase[g][t] # "WAIT_SEQ"
                    /\ phase'[g][t] \notin {"ABSENT", "WAIT_SEQ"}
                    /\ payload'[g][t] = payload[g][t]
      BY <1>1, <1>4, <1>5 DEF Present, TypeOK, Phases
    <2> QED BY <2>1, ChargedExtensional
  <1>6. Charged(f) \in [Nat -> Int] /\ Charged(f)' \in [Nat -> Int]
    BY ChargedTyped, ChargedTypedNext
  <1>7. \A t \in Serials : t # s => (t \in Issued(f)' <=> t \in Issued(f))
    BY <1>4 DEF Issued, Present
  <1>8. s \notin Issued(f)' /\ s \in Issued(f)
    BY <1>1, <1>4 DEF Issued, Present
  <1>9. /\ Charged(f)'[s] = 0 /\ Charged(f)[s] = Refund(f, s)
        /\ \A t \in Nat : t # s => Charged(f)[t] = Charged(f)'[t]
    BY <1>1, <1>4, <1>7, <1>8 DEF Charged, Issued, Refund
  <1>10. PartialSums(Charged(f)')[next_issue[f]]
            = PartialSums(Charged(f))[next_issue[f]] + (0 - Refund(f, s))
    BY <1>1, <1>3, <1>6, <1>9, SumsMove
  <1> DEFINE d == 0 - Refund(f, s)
  <1>11. /\ d \in Int /\ d <= 0 /\ credit[f] - Refund(f, s) = credit[f] + d
         /\ global_credit - Refund(f, s) = global_credit + d
         /\ credit[f] \in Int /\ global_credit \in Int
         /\ PerFlowCredit \in Int /\ GlobalCredit \in Int
    BY <1>1, <1>2, ConfigAssumption DEF TypeOK
  <1> HIDE DEF d
  <1>12. /\ credit[f] + d <= PerFlowCredit
         /\ GlobalCredit # 0 => global_credit + d <= GlobalCredit
    BY <1>11 DEF CreditConserved
  <1>13. PartialSums(Charged(f)')[next_issue'[f]]
            = PartialSums(Charged(f))[next_issue[f]] + d
    BY <1>1, <1>10 DEF d
  <1> QED BY <1>1, <1>5, <1>11, <1>12, <1>13, OneFlowMoves

LEMMA InitConserves == Init => CreditConserved
  <1> SUFFICES ASSUME Init PROVE CreditConserved
    OBVIOUS
  <1>1. IndInv
    BY InitInv
  <1>2. ASSUME NEW f \in Flows
        PROVE  credit[f] = PartialSums(Charged(f))[next_issue[f]] /\ credit[f] <= PerFlowCredit
    <2>1. \A i \in Nat : Charged(f)[i] = 0
      BY DEF Charged, Issued, Present, Init
    <2>2. Charged(f) \in [Nat -> Int] /\ next_issue[f] \in Nat
      BY <1>1, ChargedTyped DEF IndInv, TypeOK
    <2>3. PartialSums(Charged(f))[next_issue[f]] = 0
      BY <2>1, <2>2, SumsOfZero
    <2> QED BY <2>3, ConfigAssumption DEF Init
  <1>3. global_credit = PartialSums(InUse)[NumFlows]
    <2>1. \A i \in Nat : InUse[i] = 0
      BY DEF InUse, Init
    <2>2. InUse \in [Nat -> Int] /\ NumFlows \in Nat
      BY <1>1, InUseTyped, FlowsAreNat DEF IndInv
    <2>3. PartialSums(InUse)[NumFlows] = 0
      BY <2>1, <2>2, SumsOfZero
    <2> QED BY <2>3 DEF Init
  <1> QED BY <1>2, <1>3, ConfigAssumption DEF CreditConserved, Init

LEMMA StepConserves == IndInv /\ CreditConserved /\ [Next]_vars => CreditConserved'
  <1> SUFFICES ASSUME IndInv, CreditConserved, [Next]_vars PROVE CreditConserved'
    OBVIOUS
  <1>0. IndInv'
    BY StepInv
  <1>1. CASE PumpCall \/ PumpPass \/ UNCHANGED vars \/ \E f \in Flows : FailGap(f)
    <2>1. UNCHANGED <<phase, payload, credit, global_credit, next_issue>>
      BY <1>1 DEF PumpCall, PumpPass, vars, FailGap, cursors, budgets, packets
    <2>2. ASSUME NEW f \in Flows PROVE Charged(f)' = Charged(f)
      BY <2>1 DEF Charged, Issued, Present
    <2> QED BY <2>1, <2>2, SameCharges
  <1>2. ASSUME NEW f \in Flows, NEW e \in Epochs, NEW q \in Sequences, NEW p \in Payloads,
               Receive(f, e, q, p)
        PROVE  CreditConserved'
    BY <1>2, ReceiveConserves
  <1>3. ASSUME NEW k \in 0..(NumFlows - 1), PumpIssue(k) PROVE CreditConserved'
    BY <1>0, <1>3, PumpIssueConserves
  <1>4. ASSUME NEW w \in pending, Complete(w) PROVE CreditConserved'
    BY <1>4, CompleteConserves
  <1>5. ASSUME NEW f \in Flows, Acquire(f) PROVE CreditConserved'
    BY <1>5, AcquireConserves
  <1>6. ASSUME NEW f \in Flows, NEW s \in Serials, Release(f, s) PROVE CreditConserved'
    BY <1>0, <1>6, ReleaseConserves
  <1> QED BY <1>1, <1>2, <1>3, <1>4, <1>5, <1>6 DEF Next, Pump

(* The credit of a flow is what its issued packets were charged and never  *)
(* passes its budget, for any number of flows, window, packet sizes and    *)
(* order of releases (model.py:338-346).                                   *)
THEOREM CreditIsConserved == Spec => []CreditConserved
  <1>1. Init => CreditConserved
    BY InitConserves
  <1>2. IndInv /\ CreditConserved /\ [Next]_vars => CreditConserved'
    BY StepConserves
  <1> QED BY <1>1, <1>2, Invariance, PTL DEF Spec
--------------------------------------------------------------------------------
(* Protocol implements OrderedDelivery: every call that the CPU or the     *)
(* network makes is the abstract step of the same name, and pump() and     *)
(* complete() change nothing the abstract specification speaks of.         *)

(* The abstract state, one serial at a time.                               *)
LEMMA StandingAt ==
    \A f \in Flows, s \in Serials :
        Standing[f][s] = StatusOf(f, s) /\ Observed[f][s] = ObservedBy(f, s)
  BY DEF Standing, Observed

(* A step that moves one serial of the abstract state is an EXCEPT.        *)
LEMMA OneStanding ==
    ASSUME NEW f \in Flows, NEW s \in Serials, NEW v,
           StatusOf(f, s)' = v,
           \A g \in Flows, t \in Serials :
                <<g, t>> # <<f, s>> => StatusOf(g, t)' = StatusOf(g, t)
    PROVE  Standing' = [Standing EXCEPT ![f][s] = v]
  BY DEF Standing

LEMMA OneObserved ==
    ASSUME NEW f \in Flows, NEW s \in Serials, NEW v,
           ObservedBy(f, s)' = v,
           \A g \in Flows, t \in Serials :
                <<g, t>> # <<f, s>> => ObservedBy(g, t)' = ObservedBy(g, t)
    PROVE  Observed' = [Observed EXCEPT ![f][s] = v]
  BY DEF Observed

LEMMA SameStanding ==
    ASSUME \A g \in Flows, t \in Serials : StatusOf(g, t)' = StatusOf(g, t)
    PROVE  Standing' = Standing
  BY DEF Standing

LEMMA SameObserved ==
    ASSUME \A g \in Flows, t \in Serials : ObservedBy(g, t)' = ObservedBy(g, t)
    PROVE  Observed' = Observed
  BY DEF Observed

LEMMA InitRefines == Init => Ordered!Init
  <1> SUFFICES ASSUME Init PROVE Ordered!Init
    OBVIOUS
  <1>1. ASSUME NEW f \in Flows, NEW s \in Serials
        PROVE  /\ StatusOf(f, s) = IF s < InitialSerial[f] THEN "settled" ELSE "new"
               /\ ObservedBy(f, s) = NoPayload
    BY DEF Init, StatusOf, ObservedBy, Settled
  <1>2. Standing = [f \in Flows |-> [s \in Serials |->
                        IF s < InitialSerial[f] THEN "settled" ELSE "new"]]
    BY <1>1 DEF Standing
  <1>3. Observed = [f \in Flows |-> [s \in Serials |-> NoPayload]]
    BY <1>1 DEF Observed
  <1> QED BY <1>2, <1>3 DEF Init, Ordered!Init
--------------------------------------------------------------------------------
LEMMA ReceiveRefines ==
    ASSUME IndInv, NEW f \in Flows, NEW e \in Epochs, NEW q \in Sequences,
           NEW p \in Payloads, Receive(f, e, q, p)
    PROVE  Ordered!Accept(f, WireSerial(e, q), p)
  <1> DEFINE s == WireSerial(e, q)
  <1>1. TypeOK /\ s \in Serials
    BY DEF IndInv, Serials
  <1>2. /\ ~halted[f] /\ phase[f][s] = "ABSENT" /\ ~Settled(f, s)
        /\ ~(s >= base[f] + Window)
    BY <1>1 DEF Receive, Admissible, Late, OutsideWindow, Present, Settled
  <1>3. /\ phase' = [phase EXCEPT ![f][s] = "WAIT_SEQ"]
        /\ payload' = [payload EXCEPT ![f][s] = p]
        /\ generation' = [generation EXCEPT ![f][s] = NextGeneration(f, s)]
        /\ UNCHANGED <<base, released, halted, held>>
    BY DEF Receive, cursors
  <1> HIDE DEF s
  <1>4. ASSUME NEW t \in Serials, t + Window <= s
        PROVE  Standing[f][t] = "settled"
    <2>1. t < base[f]
      BY <1>1, <1>2, <1>4, SlotOfSerial, ConfigAssumption DEF TypeOK
    <2>2. phase[f][t] = "ABSENT"
      BY <1>1, <2>1, SlotOfSerial DEF IndInv, PacketInWindow, TypeOK
    <2> QED BY <2>1, <2>2, StandingAt DEF StatusOf, Settled
  <1>5. Standing[f][s] = "new"
    BY <1>1, <1>2, StandingAt DEF StatusOf
  <1>6. phase'[f][s] = "WAIT_SEQ"
        /\ \A g \in Flows, t \in Serials : <<g, t>> # <<f, s>> =>
                /\ phase'[g][t] = phase[g][t]
                /\ payload'[g][t] = payload[g][t]
                /\ generation'[g][t] = generation[g][t]
    BY <1>1, <1>3 DEF TypeOK
  <1>7. Standing' = [Standing EXCEPT ![f][s] = "accepted"]
    BY <1>1, <1>3, <1>6, OneStanding DEF StatusOf, Settled
  <1>8. Observed' = Observed
    <2>1. ASSUME NEW g \in Flows, NEW t \in Serials, <<g, t>> # <<f, s>>
          PROVE  ObservedBy(g, t)' = ObservedBy(g, t)
      BY <1>3, <1>6, <2>1 DEF ObservedBy, TokenOf
    <2>2. ObservedBy(f, s)' = ObservedBy(f, s)
      BY <1>2, <1>6 DEF ObservedBy
    <2> QED BY <2>1, <2>2, SameObserved
  <1>9. Ordered!Accept(f, s, p)
    BY <1>2, <1>3, <1>4, <1>5, <1>7, <1>8 DEF Ordered!Accept
  <1> QED BY <1>9 DEF s

LEMMA AcquireRefines ==
    ASSUME IndInv, NEW f \in Flows, Acquire(f)
    PROVE  next_consume[f] \in Serials /\ Ordered!Deliver(f, next_consume[f])
  <1>0. PICK s \in Serials, v \in Payloads \cup {NoPayload} :
            s = next_consume[f] /\ v = payload[f][s]
    BY DEF Acquire, MarkerSeen, Present, IndInv, TypeOK
  <1>1. TypeOK /\ phase[f][s] = "READY"
    BY <1>0 DEF IndInv, Acquire
  <1>2. /\ phase' = [phase EXCEPT ![f][s] = "CPU_OWNED"]
        /\ held' = [held EXCEPT ![f][s] = Snapshot(f, s)]
        /\ UNCHANGED <<base, released, halted, payload, generation>>
    BY <1>0 DEF Acquire
  <1>3. Snapshot(f, s) = Image(TokenOf(f, s), payload[f][s])
    BY <1>1, ImageSeen DEF IndInv, Visible
  <1>4. /\ base[f] \in Nat /\ next_publish[f] \in Nat /\ next_issue[f] \in Nat /\ s \in Nat
        /\ s <= next_publish[f] /\ next_publish[f] <= next_issue[f]
    BY <1>0, <1>1 DEF TypeOK, IndInv, CursorOrder
  <1>5. ASSUME NEW t \in Serials, t < s
        PROVE  Standing[f][t] \in {"held", "settled"}
    <2>1. t \in Nat /\ phase[f][t] \in Phases
      BY <1>1, SlotOfSerial DEF TypeOK
    <2>2. CASE phase[f][t] = "ABSENT"
      <3>1. t < base[f] \/ t \in released[f]
        BY <1>4, <1>5, <2>1, <2>2 DEF IndInv, IssuedStays
      <3> QED BY <2>2, <3>1, StandingAt DEF StatusOf, Settled
    <2>3. CASE phase[f][t] # "ABSENT"
      <3>1. phase[f][t] = "CPU_OWNED"
        BY <1>0, <1>4, <1>5, <2>1, <2>3 DEF IndInv, PhaseAmongCursors, Phases
      <3> QED BY <3>1, StandingAt DEF StatusOf
    <2> QED BY <2>2, <2>3
  <1>6. Standing[f][s] = "accepted"
    BY <1>1, StandingAt DEF StatusOf
  <1>7. /\ phase'[f][s] = "CPU_OWNED" /\ held'[f][s] = Snapshot(f, s)
        /\ \A g \in Flows, t \in Serials : <<g, t>> # <<f, s>> =>
                phase'[g][t] = phase[g][t] /\ held'[g][t] = held[g][t]
    BY <1>1, <1>2 DEF TypeOK
  <1>8. Standing' = [Standing EXCEPT ![f][s] = "held"]
    BY <1>1, <1>2, <1>7, OneStanding DEF StatusOf, Settled
  <1>9. ObservedBy(f, s)' = v
    BY <1>0, <1>2, <1>3, <1>7 DEF ObservedBy, TokenOf
  <1>10. ASSUME NEW g \in Flows, NEW t \in Serials, <<g, t>> # <<f, s>>
         PROVE  ObservedBy(g, t)' = ObservedBy(g, t)
    BY <1>2, <1>7, <1>10 DEF ObservedBy, TokenOf
  <1>11. Observed' = [Observed EXCEPT ![f][s] = v]
    BY <1>1, <1>9, <1>10, OneObserved
  <1>12. Ordered!Deliver(f, s)
    BY <1>0, <1>2, <1>5, <1>6, <1>8, <1>11 DEF Ordered!Deliver
  <1> QED BY <1>0, <1>12

LEMMA ReleaseRefines ==
    ASSUME IndInv, NEW f \in Flows, NEW s \in Serials, Release(f, s)
    PROVE  Ordered!Release(f, s)
  <1>1. TypeOK /\ s \in Nat
    BY SlotOfSerial DEF IndInv
  <1>2. /\ phase[f][s] = "CPU_OWNED"
        /\ phase' = [phase EXCEPT ![f][s] = "ABSENT"]
        /\ payload' = [payload EXCEPT ![f][s] = NoPayload]
        /\ generation' = [generation EXCEPT ![f][s] = 0]
        /\ held' = [held EXCEPT ![f][s] = NoDelivery]
        /\ AdvanceBase(f, released[f] \cup {s})
        /\ UNCHANGED halted
    BY DEF Release
  <1>3. PICK b \in base[f]..(base[f] + Window) :
            /\ base[f]..(b - 1) \subseteq released[f] \cup {s}
            /\ base' = [base EXCEPT ![f] = b]
            /\ released' = [released EXCEPT ![f] =
                                (released[f] \cup {s}) \ (base[f]..(b - 1))]
    BY <1>2 DEF AdvanceBase
  <1>4. base[f] \in Nat /\ b \in Nat /\ base[f] <= b
    BY <1>1, ConfigAssumption DEF TypeOK
  <1>5. /\ base'[f] = b
        /\ released'[f] = (released[f] \cup {s}) \ (base[f]..(b - 1))
        /\ \A g \in Flows : g # f => base'[g] = base[g] /\ released'[g] = released[g]
    BY <1>1, <1>3 DEF TypeOK
  <1>6. /\ phase'[f][s] = "ABSENT"
        /\ \A g \in Flows, t \in Serials : <<g, t>> # <<f, s>> =>
                /\ phase'[g][t] = phase[g][t]
                /\ payload'[g][t] = payload[g][t]
                /\ generation'[g][t] = generation[g][t]
                /\ held'[g][t] = held[g][t]
    BY <1>1, <1>2 DEF TypeOK
  <1>7. Settled(f, s)'
    BY <1>1, <1>4, <1>5 DEF Settled
  <1>8. ASSUME NEW g \in Flows, NEW t \in Serials, <<g, t>> # <<f, s>>
        PROVE  Settled(g, t)' <=> Settled(g, t)
    <2>1. CASE g # f
      BY <1>5, <2>1 DEF Settled
    <2>2. CASE g = f
      <3>1. t \in Nat /\ t # s
        BY <1>8, <2>2, SlotOfSerial
      <3>2. t < b => t < base[f] \/ t \in released[f]
        BY <1>3, <1>4, <3>1
      <3>3. t \in released[f] => t < b \/ t \in released'[f]
        BY <1>4, <1>5, <3>1
      <3>4. t \in released'[f] => t \in released[f]
        BY <1>5, <3>1
      <3>5. t < base[f] => t < b
        BY <1>4, <3>1
      <3> QED BY <1>5, <2>2, <3>2, <3>3, <3>4, <3>5 DEF Settled
    <2> QED BY <2>1, <2>2
  <1>9. Standing' = [Standing EXCEPT ![f][s] = "settled"]
    <2>1. StatusOf(f, s)' = "settled"
      BY <1>6, <1>7 DEF StatusOf
    <2>2. ASSUME NEW g \in Flows, NEW t \in Serials, <<g, t>> # <<f, s>>
          PROVE  StatusOf(g, t)' = StatusOf(g, t)
      BY <1>6, <1>8, <2>2 DEF StatusOf
    <2> QED BY <2>1, <2>2, OneStanding
  <1>10. Observed' = [Observed EXCEPT ![f][s] = NoPayload]
    <2>1. ObservedBy(f, s)' = NoPayload
      BY <1>6 DEF ObservedBy
    <2>2. ASSUME NEW g \in Flows, NEW t \in Serials, <<g, t>> # <<f, s>>
          PROVE  ObservedBy(g, t)' = ObservedBy(g, t)
      BY <1>6, <2>2 DEF ObservedBy, TokenOf
    <2> QED BY <2>1, <2>2, OneObserved
  <1>11. Standing[f][s] = "held"
    BY <1>2, StandingAt DEF StatusOf
  <1> QED BY <1>2, <1>9, <1>10, <1>11 DEF Ordered!Release

LEMMA FailGapRefines ==
    ASSUME IndInv, NEW f \in Flows, FailGap(f)
    PROVE  Ordered!Halt(f)
  <1> DEFINE n == next_issue[f]
  <1>1. /\ TypeOK /\ ~halted[f] /\ ~Present(f, n)
        /\ halted' = [halted EXCEPT ![f] = TRUE]
        /\ UNCHANGED <<base, released, phase, payload, generation, held>>
    BY DEF IndInv, FailGap, cursors, packets
  <1>2. PICK t \in Serials : t > n /\ Present(f, t)
    BY DEF FailGap, GapBehind
  <1>3. /\ InitialSerial[f] \in Nat /\ base[f] \in Nat /\ next_consume[f] \in Nat
        /\ next_publish[f] \in Nat /\ n \in Nat /\ t \in Nat
        /\ InitialSerial[f] <= base[f] /\ base[f] <= next_consume[f]
        /\ next_consume[f] <= next_publish[f] /\ next_publish[f] <= n
    BY <1>1, SlotOfSerial, WorldAssumption DEF TypeOK, IndInv, CursorOrder
  <1>4. Standing[f][t] = "accepted"
    <2>1. phase[f][t] # "CPU_OWNED"
      BY <1>2, <1>3 DEF IndInv, PhaseAmongCursors
    <2> QED BY <1>2, <2>1, StandingAt DEF Present, StatusOf
  <1>5. n \in InitialSerial[f]..(t - 1)
    BY <1>2, <1>3
  <1>6. ASSUME n \in Serials PROVE Standing[f][n] = "new"
    <2>1. phase[f][n] = "ABSENT"
      BY <1>1, <1>6 DEF Present
    <2>2. ~Settled(f, n)
      BY <1>3 DEF Settled, IndInv, ReleasedInWindow
    <2> QED BY <1>6, <2>1, <2>2, StandingAt DEF StatusOf
  <1>7. UNCHANGED <<Standing, payload, Observed>>
    BY <1>1, SameStanding, SameObserved DEF StatusOf, Settled, ObservedBy, TokenOf
  <1> QED BY <1>1, <1>4, <1>5, <1>6, <1>7 DEF Ordered!Halt
--------------------------------------------------------------------------------
(* The pushing side does not show.                                         *)
LEMMA PumpStutters ==
    ASSUME IndInv, Pump
    PROVE  UNCHANGED Ordered!vars
  <1>1. TypeOK
    BY DEF IndInv
  <1>2. CASE PumpCall \/ PumpPass
    <2>1. UNCHANGED <<base, released, halted, phase, payload, generation, held>>
      BY <1>2 DEF PumpCall, PumpPass, cursors, packets
    <2>2. UNCHANGED <<Standing, Observed>>
      BY <2>1, SameStanding, SameObserved DEF StatusOf, Settled, ObservedBy, TokenOf
    <2> QED BY <2>1, <2>2 DEF Ordered!vars
  <1>3. ASSUME NEW k \in 0..(NumFlows - 1), PumpIssue(k) PROVE UNCHANGED Ordered!vars
    <2> DEFINE f == FlowAt(k)
               s == next_issue[f]
    <2>1. f \in Flows
      BY <1>1, FlowAtTyped
    <2>2. /\ s \in Serials /\ phase[f][s] = "WAIT_SEQ"
          /\ phase' = [phase EXCEPT ![f][s] = "PUSHING"]
          /\ UNCHANGED <<base, released, halted, payload, generation, held>>
      BY <1>3 DEF PumpIssue, Issuable, HeadWaits, Present
    <2> HIDE DEF f, s
    <2>3. /\ phase'[f][s] = "PUSHING"
          /\ \A g \in Flows, t \in Serials : <<g, t>> # <<f, s>> => phase'[g][t] = phase[g][t]
      BY <1>1, <2>1, <2>2 DEF TypeOK
    <2>4. ASSUME NEW g \in Flows, NEW t \in Serials
          PROVE  /\ StatusOf(g, t)' = StatusOf(g, t)
                 /\ ObservedBy(g, t)' = ObservedBy(g, t)
      <3>1. CASE <<g, t>> = <<f, s>>
        BY <2>2, <2>3, <3>1 DEF StatusOf, ObservedBy
      <3>2. CASE <<g, t>> # <<f, s>>
        BY <2>2, <2>3, <3>2 DEF StatusOf, Settled, ObservedBy, TokenOf
      <3> QED BY <3>1, <3>2
    <2> QED BY <2>2, <2>4, SameStanding, SameObserved DEF Ordered!vars
  <1> QED BY <1>2, <1>3 DEF Pump

LEMMA CompleteStutters ==
    ASSUME IndInv, NEW w \in pending, Complete(w)
    PROVE  UNCHANGED Ordered!vars
  <1>1. UNCHANGED <<base, released, halted, payload, generation, held>>
    BY DEF Complete, CompleteReady, CompleteData, cursors
  <1>2. ASSUME NEW g \in Flows, NEW t \in Serials
        PROVE  /\ StatusOf(g, t)' = StatusOf(g, t)
               /\ ObservedBy(g, t)' = ObservedBy(g, t)
    <2>1. CASE phase'[g][t] = phase[g][t]
      BY <1>1, <2>1 DEF StatusOf, Settled, ObservedBy, TokenOf
    <2>2. CASE phase[g][t] \in Moving /\ phase'[g][t] \in Moving \cup {"READY"}
      BY <2>2 DEF StatusOf, ObservedBy, Moving
    <2> QED BY <2>1, <2>2, CompleteMoves
  <1> QED BY <1>1, <1>2, SameStanding, SameObserved DEF Ordered!vars

LEMMA StepRefines == IndInv /\ [Next]_vars => [Ordered!Next]_Ordered!vars
  <1> SUFFICES ASSUME IndInv, [Next]_vars PROVE [Ordered!Next]_Ordered!vars
    OBVIOUS
  <1>1. ASSUME NEW f \in Flows, NEW e \in Epochs, NEW q \in Sequences, NEW p \in Payloads,
               Receive(f, e, q, p)
        PROVE  Ordered!Next
    BY <1>1, ReceiveRefines DEF Ordered!Next, Serials
  <1>2. CASE Pump
    BY <1>2, PumpStutters
  <1>3. ASSUME NEW w \in pending, Complete(w) PROVE UNCHANGED Ordered!vars
    BY <1>3, CompleteStutters
  <1>4. ASSUME NEW f \in Flows, Acquire(f) PROVE Ordered!Next
    BY <1>4, AcquireRefines DEF Ordered!Next
  <1>5. ASSUME NEW f \in Flows, FailGap(f) PROVE Ordered!Next
    BY <1>5, FailGapRefines DEF Ordered!Next
  <1>6. ASSUME NEW f \in Flows, NEW s \in Serials, Release(f, s) PROVE Ordered!Next
    BY <1>6, ReleaseRefines DEF Ordered!Next
  <1>7. CASE UNCHANGED vars
    <2>1. UNCHANGED <<base, released, halted, phase, payload, generation, held>>
      BY <1>7 DEF vars, cursors, packets
    <2>2. UNCHANGED <<Standing, Observed>>
      BY <2>1, SameStanding, SameObserved DEF StatusOf, Settled, ObservedBy, TokenOf
    <2> QED BY <2>1, <2>2 DEF Ordered!vars
  <1> QED BY <1>1, <1>2, <1>3, <1>4, <1>5, <1>6, <1>7 DEF Next

(* Each serial of each flow is taken in once, handed to the CPU once, in   *)
(* order and intact, for every window, budget, number of flows, payload    *)
(* set and order in which writes become visible (model.py:111-118).        *)
THEOREM DeliversInOrder == Spec => ImplementsOrderedDelivery
  <1>1. IndInv /\ [Next]_vars => [Ordered!Next]_Ordered!vars
    BY StepRefines
  <1>2. Init => Ordered!Init
    BY InitRefines
  <1> QED BY <1>1, <1>2, Invariance, PTL DEF Spec, ImplementsOrderedDelivery, Ordered!Spec
--------------------------------------------------------------------------------
(* Turns: each issue of another flow brings the scan nearer to the flow    *)
(* that waits.                                                             *)

(* How many flows the scan looks at before f.                              *)
Ahead(f) == IF f >= round_robin THEN f - round_robin ELSE f - round_robin + NumFlows

(* The pass looks next at the flow the turn is with.                       *)
ScanAtTurn == pumping => FlowAt(from) = round_robin

(* A flow that passed the one that waits is behind it in the turn.         *)
PassedBounded ==
    \A f, g \in Flows : passed[f][g] \in {0, 1} /\ (passed[f][g] = 1 => Ahead(f) < Ahead(g))

TurnInv == IndInv /\ ScanAtTurn /\ PassedBounded

LEMMA ModBelowTwice ==
    ASSUME NEW x \in Nat, x < 2 * NumFlows
    PROVE  x % NumFlows = IF x < NumFlows THEN x ELSE x - NumFlows
  BY ConfigAssumption, Z3

LEMMA FlowAtIs ==
    ASSUME TypeOK, NEW k \in 0..NumFlows
    PROVE  FlowAt(k) = IF start + k < NumFlows THEN start + k ELSE start + k - NumFlows
  <1>1. start \in Nat /\ start < NumFlows /\ NumFlows \in Nat
    BY ConfigAssumption DEF TypeOK, Flows
  <1>2. PICK x \in Nat : x = start + k /\ x < 2 * NumFlows
    BY <1>1
  <1>3. x % NumFlows = IF x < NumFlows THEN x ELSE x - NumFlows
    BY <1>2, ModBelowTwice
  <1>4. FlowAt(k) = x % NumFlows
    BY <1>2 DEF FlowAt
  <1>5. x < NumFlows <=> start + k < NumFlows
    BY <1>2
  <1>6. x - NumFlows = start + k - NumFlows
    BY <1>1, <1>2
  <1> QED BY <1>2, <1>3, <1>4, <1>5, <1>6

LEMMA NextTurnIs ==
    ASSUME NEW f \in Flows
    PROVE  NextTurn(f) = IF f = NumFlows - 1 THEN 0 ELSE f + 1
  <1>1. f \in Nat /\ f < NumFlows /\ NumFlows \in Nat
    BY ConfigAssumption DEF Flows
  <1>2. f + 1 \in Nat /\ f + 1 < 2 * NumFlows
    BY <1>1
  <1> QED BY <1>1, <1>2, ModBelowTwice DEF NextTurn

LEMMA AheadTyped ==
    ASSUME TypeOK, NEW f \in Flows
    PROVE  Ahead(f) \in 0..(NumFlows - 1)
  BY ConfigAssumption DEF TypeOK, Flows, Ahead

AheadInRange == TypeOK => \A f \in Flows : Ahead(f) \in 0..(NumFlows - 1)

LEMMA AheadTypedNow == AheadInRange
  BY AheadTyped DEF AheadInRange

LEMMA AheadTypedNext == AheadInRange'
  BY AheadTypedNow, PTL

(* Among packets of one size, who waits only for the turn can go when      *)
(* another can.                                                            *)
LEMMA WaitsIsIssuable ==
    ASSUME OneSize, TypeOK, PacketInWindow, NEW f \in Flows, NEW g \in Flows,
           WaitsForTurn(f), Issuable(g)
    PROVE  Issuable(f)
  <1>1. HeadWaits(f) /\ HeadWaits(g)
    BY DEF WaitsForTurn, Issuable
  <1>2. HeadSize(f) = HeadSize(g)
    BY <1>1, HeadTyped DEF OneSize, HeadSize
  <1> QED BY <1>2 DEF WaitsForTurn, Issuable, GlobalCreditFits

(* A step that issues nothing and leaves the turn where it is.             *)
LEMMA TurnStays ==
    ASSUME TurnInv, CountPasses, UNCHANGED <<next_issue, round_robin>>
    PROVE  PassedBounded'
  <1>1. \A f, g \in Flows : passed'[f][g] = 0 \/ passed'[f][g] = passed[f][g]
    BY DEF CountPasses, HasIssued
  <1>2. \A f \in Flows : Ahead(f)' = Ahead(f)
    BY DEF Ahead
  <1> QED BY <1>1, <1>2 DEF TurnInv, PassedBounded

LEMMA IssueTakesTurn ==
    ASSUME OneSize, TurnInv, CountPasses, NEW k \in 0..(NumFlows - 1), PumpIssue(k), IndInv'
    PROVE  ScanAtTurn' /\ PassedBounded'
  <1>1. PICK g \in Flows : g = FlowAt(k)
    BY FlowAtTyped, ConfigAssumption DEF TurnInv, IndInv
  <1>2. /\ pumping /\ k >= from /\ Issuable(g)
        /\ \A j \in from..(k - 1) : ~Issuable(FlowAt(j))
        /\ next_issue' = [next_issue EXCEPT ![g] = next_issue[g] + 1]
        /\ round_robin' = NextTurn(g)
        /\ from' = k + 1 /\ start' = start
    BY <1>1 DEF PumpIssue
  <1>3. /\ TypeOK /\ TypeOK' /\ NumFlows \in Nat \ {0}
        /\ start \in 0..(NumFlows - 1) /\ from \in 0..NumFlows
        /\ round_robin \in 0..(NumFlows - 1) /\ g \in 0..(NumFlows - 1)
        /\ round_robin' \in 0..(NumFlows - 1)
    BY ConfigAssumption DEF TurnInv, IndInv, TypeOK, Flows
  <1>4. g = IF start + k < NumFlows THEN start + k ELSE start + k - NumFlows
    BY <1>1, <1>3, FlowAtIs
  <1>5. round_robin = IF start + from < NumFlows THEN start + from
                      ELSE start + from - NumFlows
    BY <1>2, <1>3, FlowAtIs DEF TurnInv, ScanAtTurn
  <1>6. round_robin' = IF g = NumFlows - 1 THEN 0 ELSE g + 1
    BY <1>2, NextTurnIs
  <1>7. ScanAtTurn'
    <2>1. FlowAt(k + 1)' = (start + (k + 1)) % NumFlows
      BY <1>2 DEF FlowAt
    <2>2. (start + (k + 1)) % NumFlows = IF start + (k + 1) < NumFlows THEN start + (k + 1)
                                         ELSE start + (k + 1) - NumFlows
      <3>1. PICK x \in Nat : x = start + (k + 1) /\ x < 2 * NumFlows
        BY <1>3
      <3>2. x % NumFlows = IF x < NumFlows THEN x ELSE x - NumFlows
        BY <3>1, ModBelowTwice
      <3>3. (start + (k + 1)) % NumFlows = x % NumFlows
        BY <3>1
      <3>4. x < NumFlows <=> start + (k + 1) < NumFlows
        BY <3>1
      <3>5. x - NumFlows = start + (k + 1) - NumFlows
        BY <1>3, <3>1
      <3> QED BY <3>1, <3>2, <3>3, <3>4, <3>5
    <2>3. (start + (k + 1)) % NumFlows = round_robin'
      BY <1>3, <1>4, <1>6, <2>2
    <2>4. FlowAt(from)' = (start' + from') % NumFlows
      BY DEF FlowAt
    <2> QED BY <1>2, <2>3, <2>4 DEF ScanAtTurn
  <1>8. /\ HasIssued(g) /\ \A h \in Flows : HasIssued(h) => h = g
    BY <1>2, <1>3 DEF HasIssued, TypeOK
  <1>9. \A h \in Flows : /\ Ahead(h) \in 0..(NumFlows - 1) /\ Ahead(h)' \in 0..(NumFlows - 1)
                         /\ h \in 0..(NumFlows - 1)
    <2>1. TypeOK'
      BY <1>3
    <2> QED BY <1>3, <2>1, AheadTyped, AheadTypedNext DEF AheadInRange, Flows
  (* The turn moves past g: the flows behind g come nearer, the others go  *)
  (* to the end.                                                           *)
  <1>10. ASSUME NEW h \in Flows
         PROVE  Ahead(h)' = IF Ahead(g) < Ahead(h) THEN Ahead(h) - Ahead(g) - 1
                            ELSE Ahead(h) - Ahead(g) - 1 + NumFlows
    <2>1. /\ Ahead(h)' = IF h >= round_robin' THEN h - round_robin' ELSE h - round_robin' + NumFlows
          /\ Ahead(h) = IF h >= round_robin THEN h - round_robin ELSE h - round_robin + NumFlows
          /\ Ahead(g) = IF g >= round_robin THEN g - round_robin ELSE g - round_robin + NumFlows
      BY DEF Ahead
    <2> QED BY <1>3, <1>6, <1>9, <2>1
  (* Who waits could go, so the scan has not come to it before g.          *)
  <1>11. ASSUME NEW f \in Flows, f # g, WaitsForTurn(f)
         PROVE  Ahead(g) < Ahead(f)
    <2>1. Issuable(f)
      BY <1>2, <1>11, WaitsIsIssuable DEF TurnInv, IndInv
    <2>2. \A j \in from..(k - 1) : FlowAt(j) # f
      BY <1>2, <2>1
    <2>3. ~(from + Ahead(f) \in from..(k - 1))
      <3> SUFFICES ASSUME from + Ahead(f) \in from..(k - 1) PROVE FALSE
        OBVIOUS
      <3>1. PICK j \in from..(k - 1) : j = from + Ahead(f)
        OBVIOUS
      <3>2. j \in 0..NumFlows
        BY <1>3
      <3>3. FlowAt(j) = IF start + j < NumFlows THEN start + j ELSE start + j - NumFlows
        BY <1>3, <3>2, FlowAtIs
      <3>4. FlowAt(j) = f
        <4>1. Ahead(f) = IF f >= round_robin THEN f - round_robin ELSE f - round_robin + NumFlows
          BY DEF Ahead
        <4>2. PICK n \in Nat : n = NumFlows
          BY <1>3
        <4>3. f \in 0..(n - 1) /\ Ahead(f) \in 0..(n - 1)
          BY <1>9, <4>2
        <4>4. round_robin = IF start + from < n THEN start + from ELSE start + from - n
          BY <1>5, <4>2
        <4>5. j = IF f >= round_robin THEN from + f - round_robin
                  ELSE from + f - round_robin + n
          BY <1>3, <3>1, <4>1, <4>2, <4>3
        <4>6. f = IF start + j < n THEN start + j ELSE start + j - n
          BY <1>3, <4>2, <4>3, <4>4, <4>5
        <4> QED BY <3>3, <4>2, <4>6
      <3> QED BY <2>2, <3>4
    <2>4. from + Ahead(f) >= k
      BY <1>2, <1>3, <1>9, <2>3
    <2>5. /\ Ahead(f) = IF f >= round_robin THEN f - round_robin ELSE f - round_robin + NumFlows
          /\ Ahead(g) = IF g >= round_robin THEN g - round_robin ELSE g - round_robin + NumFlows
      BY DEF Ahead
    <2>6. Ahead(g) = k - from
      BY <1>2, <1>3, <1>4, <1>5, <2>5
    <2>7. Ahead(f) # Ahead(g)
      BY <1>3, <1>9, <1>11, <2>5
    <2> QED BY <1>3, <1>9, <2>4, <2>6, <2>7
  <1>12. ASSUME NEW f \in Flows, NEW h \in Flows
         PROVE  passed'[f][h] \in {0, 1} /\ (passed'[f][h] = 1 => Ahead(f)' < Ahead(h)')
    <2>1. passed[f][h] \in {0, 1} /\ (passed[f][h] = 1 => Ahead(f) < Ahead(h))
      BY DEF TurnInv, PassedBounded
    <2>2. CASE HasIssued(f) \/ ~WaitsForTurn(f) \/ ~WaitsForTurn(f)'
      <3>1. passed'[f][h] = 0
        BY <2>2 DEF CountPasses
      <3> QED BY <3>1
    <2>3. CASE ~HasIssued(f) /\ WaitsForTurn(f) /\ WaitsForTurn(f)'
      <3>1. f # g /\ Ahead(g) < Ahead(f)
        BY <1>8, <1>11, <2>3
      <3>2. CASE h = g
        <4>1. passed[f][h] = 0
          BY <1>9, <2>1, <3>1, <3>2
        <4>2. passed'[f][h] = 1
          BY <1>8, <2>3, <3>2, <4>1 DEF CountPasses
        <4>3. Ahead(f)' < Ahead(g)'
          BY <1>3, <1>9, <1>10, <3>1
        <4> QED BY <3>2, <4>2, <4>3
      <3>3. CASE h # g
        <4>1. passed'[f][h] = passed[f][h]
          BY <1>8, <2>3, <3>3 DEF CountPasses
        <4>2. Ahead(f) < Ahead(h) => Ahead(f)' < Ahead(h)'
          BY <1>3, <1>9, <1>10, <3>1
        <4> QED BY <2>1, <4>1, <4>2
      <3> QED BY <3>2, <3>3
    <2> QED BY <2>2, <2>3
  <1> QED BY <1>7, <1>12 DEF PassedBounded

LEMMA TurnStep ==
    ASSUME OneSize, TurnInv, [FNext]_fvars
    PROVE  TurnInv'
  <1>1. IndInv'
    <2>1. [Next]_vars
      BY DEF FNext, fvars
    <2> QED BY <2>1, StepInv DEF TurnInv
  <1>2. CASE UNCHANGED fvars
    BY <1>1, <1>2 DEF fvars, vars, cursors, budgets, loop, TurnInv, ScanAtTurn, PassedBounded,
                      FlowAt, Ahead
  <1>3. CASE CountPasses /\ PumpCall
    <2>1. /\ UNCHANGED <<next_issue, round_robin>>
          /\ start' = round_robin /\ from' = 0
      BY <1>3 DEF PumpCall, cursors, budgets
    <2>2. round_robin \in Nat /\ round_robin < NumFlows /\ NumFlows \in Nat
      BY ConfigAssumption DEF TurnInv, IndInv, TypeOK, Flows
    <2>3. round_robin + 0 \in Nat /\ round_robin + 0 < 2 * NumFlows
      BY <2>2
    <2>4. (round_robin + 0) % NumFlows = round_robin
      BY <2>2, <2>3, ModBelowTwice
    <2>5. ScanAtTurn'
      BY <2>1, <2>4 DEF ScanAtTurn, FlowAt
    <2> QED BY <1>1, <1>3, <2>1, <2>5, TurnStays DEF TurnInv
  <1>4. CASE CountPasses /\ PumpPass
    <2>1. /\ UNCHANGED <<next_issue, round_robin>>
          /\ pumping' => start' = round_robin /\ from' = 0
      BY <1>4 DEF PumpPass, cursors, budgets
    <2>2. round_robin \in Nat /\ round_robin < NumFlows /\ NumFlows \in Nat
      BY ConfigAssumption DEF TurnInv, IndInv, TypeOK, Flows
    <2>3. round_robin + 0 \in Nat /\ round_robin + 0 < 2 * NumFlows
      BY <2>2
    <2>4. (round_robin + 0) % NumFlows = round_robin
      BY <2>2, <2>3, ModBelowTwice
    <2>5. ScanAtTurn'
      BY <2>1, <2>4 DEF ScanAtTurn, FlowAt
    <2> QED BY <1>1, <1>4, <2>1, <2>5, TurnStays DEF TurnInv
  <1>5. ASSUME NEW k \in 0..(NumFlows - 1), CountPasses, PumpIssue(k) PROVE TurnInv'
    BY <1>1, <1>5, IssueTakesTurn DEF TurnInv
  <1>6. ASSUME CountPasses, UNCHANGED <<next_issue, round_robin, loop>> PROVE TurnInv'
    <2>1. ScanAtTurn'
      BY <1>6 DEF TurnInv, ScanAtTurn, FlowAt, loop
    <2> QED BY <1>1, <1>6, <2>1, TurnStays DEF TurnInv
  <1>7. ASSUME CountPasses, NEW f \in Flows, NEW e \in Epochs, NEW q \in Sequences,
               NEW p \in Payloads, Receive(f, e, q, p)
        PROVE  TurnInv'
    BY <1>6, <1>7 DEF Receive, cursors, budgets
  <1>8. ASSUME CountPasses, NEW w \in pending, Complete(w) PROVE TurnInv'
    BY <1>6, <1>8 DEF Complete, CompleteReady, CompleteData, cursors, budgets
  <1>9. ASSUME CountPasses, NEW f \in Flows, Acquire(f) \/ FailGap(f) PROVE TurnInv'
    BY <1>6, <1>9 DEF Acquire, FailGap, cursors, budgets
  <1>10. ASSUME CountPasses, NEW f \in Flows, NEW s \in Serials, Release(f, s) PROVE TurnInv'
    BY <1>6, <1>10 DEF Release
  <1> QED BY <1>2, <1>3, <1>4, <1>5, <1>7, <1>8, <1>9, <1>10 DEF FNext, Next, Pump

LEMMA TurnStart == ASSUME FInit PROVE TurnInv
  <1>1. IndInv
    BY InitInv DEF FInit
  <1>2. ScanAtTurn
    BY DEF FInit, Init, ScanAtTurn
  <1>3. PassedBounded
    BY DEF FInit, PassedBounded
  <1> QED BY <1>1, <1>2, <1>3 DEF TurnInv

(* No flow is passed more than once by each other flow while it waits for  *)
(* its share of the global budget, for every number of flows, every budget *)
(* and every mix of calls in between, when packets have one aligned size   *)
(* (model.py:199-223).                                                     *)
THEOREM TurnsAreFair == ASSUME OneSize PROVE FSpec => []BoundedBypass
  <1>1. FInit => TurnInv
    BY TurnStart
  <1>2. TurnInv /\ [FNext]_fvars => TurnInv'
    BY TurnStep
  <1>3. TurnInv => BoundedBypass
    BY DEF TurnInv, PassedBounded, BoundedBypass
  <1> QED BY <1>1, <1>2, <1>3, PTL DEF FSpec
================================================================================
