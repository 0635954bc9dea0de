--------------------------- MODULE IntegrationProofs ---------------------------
(***************************************************************************)
(* The integration test never raises, for every number of flows, window,   *)
(* number of packets and payloads, in each of its modes: what the guest    *)
(* reports is what came in, and a planted fault is noticed.  And nobody    *)
(* touches a slot that the guest reads.                                    *)
(***************************************************************************)
EXTENDS IntegrationInvariants, ProtocolProofs, SequenceTheorems

--------------------------------------------------------------------------------
(* Constants.                                                              *)

LEMMA FlowsAndCounts ==
    /\ 0 \in Flows /\ 1 \in Flows /\ Flows \subseteq Nat
    /\ Count \in Nat /\ Count > 0 /\ NumFlows \in Nat
    /\ Window \in Nat /\ Window > 0 /\ InitialSerial \in [Flows -> Nat]
  BY ConfigAssumption, WorldAssumption, IntegrationAssumption DEF Flows

LEMMA SentTyped ==
    ASSUME NEW f \in Flows, NEW s \in Sent(f)
    PROVE  /\ s \in Serials /\ s \in Nat
           /\ InitialSerial[f] <= s /\ s < InitialSerial[f] + Count
           /\ PayloadOf[f][s] \in Payloads
           /\ Length[PayloadOf[f][s]] \in 1..MaxPacketBytes
           /\ Length[PayloadOf[f][s]] \in Nat
  <1>1. s \in InitialSerial[f]..(InitialSerial[f] + Count - 1)
    BY DEF Sent
  <1>2. s \in Serials /\ PayloadOf[f][s] \in Payloads
    BY <1>1, IntegrationAssumption
  <1> QED BY <1>1, <1>2, FlowsAndCounts, SerialsAreNat, WorldAssumption, ConfigAssumption

LEMMA FirstSent ==
    /\ FirstSerial = InitialSerial[0] /\ FirstSerial \in Sent(0)
    /\ FirstSerial \in Serials /\ FirstSerial \in Nat /\ SlotOf(FirstSerial) \in Slots
    /\ PayloadOf[0][FirstSerial] \in Payloads
    /\ Length[PayloadOf[0][FirstSerial]] \in 1..MaxPacketBytes
  <1>1. FirstSerial = InitialSerial[0] /\ FirstSerial \in Sent(0)
    BY FlowsAndCounts DEF FirstSerial, Sent
  <1> QED BY <1>1, SentTyped, FlowsAndCounts, SlotOfSerial

(* A packet has a line at least.                                           *)
LEMMA LinesOfSize ==
    ASSUME NEW n \in 1..MaxPacketBytes
    PROVE  \E m \in Nat : LineNumbers(n) = 0..m /\ LineNumbers(n) \subseteq HostLines
  <1> DEFINE m == (aligned_size(n) \div LineBytes) - 1
  <1>1. n \in Nat /\ n >= 1 /\ n \in 0..MaxPacketBytes
    BY ConfigAssumption
  <1>2. m \in Nat
    BY <1>1, Z3 DEF aligned_size, LineBytes
  <1>3. LineNumbers(n) = 0..m
    BY DEF LineNumbers
  <1> QED BY <1>1, <1>2, <1>3, LinesInSlot

LEMMA TargetLines ==
    /\ LastLine \in LineNumbers(Length[PayloadOf[0][FirstSerial]])
    /\ 0 \in LineNumbers(Length[PayloadOf[0][FirstSerial]])
    /\ LineNumbers(Length[PayloadOf[0][FirstSerial]]) \subseteq HostLines
    /\ LastLine \in Nat /\ HostLines \subseteq Nat
  <1> DEFINE S == LineNumbers(Length[PayloadOf[0][FirstSerial]])
  <1>1. PICK m \in Nat : S = 0..m /\ S \subseteq HostLines
    BY FirstSent, LinesOfSize
  <1>2. \E x \in S : \A y \in S : x >= y
    <2>1. m \in S /\ \A y \in S : m >= y
      BY <1>1
    <2> QED BY <2>1
  <1>3. LastLine \in S
    <2>1. Max(S) \in S
      BY <1>2 DEF Max
    <2> QED BY <2>1 DEF LastLine
  <1>4. HostLines \subseteq Nat
    <2>1. MaxPacketBytes \in 1..MaxPacketBytes
      BY ConfigAssumption
    <2> QED BY <2>1, LinesOfSize DEF HostLines
  <1> QED BY <1>1, <1>3, <1>4

LEMMA OneLine == \A x \in Nat : Min({x}) = x
  BY DEF Min

(* The generation and the slot together tell a serial.                     *)
LEMMA SameSerial ==
    ASSUME NEW f \in Flows, NEW s \in Nat, NEW t \in Nat, SlotOf(s) = SlotOf(t),
           s >= InitialSerial[f], t >= InitialSerial[f],
           ExpectedGeneration(f, s) = ExpectedGeneration(f, t)
    PROVE  s = t
  <1> DEFINE i == InitialSerial[f]
             q == (s - i) \div Window
             r == (t - i) \div Window
  <1>1. i \in Nat /\ Window \in Nat /\ Window > 0
    BY FlowsAndCounts
  <1>2. /\ s - i = Window * q + ((s - i) % Window) /\ (s - i) % Window \in 0..(Window - 1)
        /\ t - i = Window * r + ((t - i) % Window) /\ (t - i) % Window \in 0..(Window - 1)
        /\ q \in Int /\ r \in Int
    <2>1. s - i \in Int /\ t - i \in Int
      BY <1>1
    <2> HIDE DEF i
    <2> QED BY <1>1, <2>1, DivMod
  <1>3. q + 1 = r + 1
    BY DEF ExpectedGeneration
  <1>4. q = r
    BY <1>2, <1>3
  <1> DEFINE m == Window * q
  <1>5. m \in Int
    BY <1>1, <1>2
  <1>6. s - i = m + ((s - i) % Window) /\ t - i = m + ((t - i) % Window)
    BY <1>2, <1>4
  <1> HIDE DEF m, q, r
  <1>7. s - t < Window /\ t - s < Window
    BY <1>1, <1>2, <1>5, <1>6
  <1> QED BY <1>7, SlotsInWindowDiffer

LEMMA GenerationTyped ==
    ASSUME NEW f \in Flows, NEW s \in Nat, s >= InitialSerial[f]
    PROVE  ExpectedGeneration(f, s) \in Nat /\ ExpectedGeneration(f, s) > 0
  <1>1. s - InitialSerial[f] \in Nat
    BY FlowsAndCounts
  <1>2. (s - InitialSerial[f]) \div Window \in Nat
    BY <1>1, FlowsAndCounts, Z3
  <1> QED BY <1>2 DEF ExpectedGeneration
--------------------------------------------------------------------------------
(* What the class knows of its packets and writes.                         *)

LEMMA NowTyped ==
    ASSUME IndInv
    PROVE  /\ TypeOK
           /\ \A f \in Flows :
                /\ base[f] \in Nat /\ next_issue[f] \in Nat
                /\ next_publish[f] \in Nat /\ next_consume[f] \in Nat
                /\ InitialSerial[f] <= base[f] /\ base[f] <= next_consume[f]
                /\ next_consume[f] <= next_publish[f] /\ next_publish[f] <= next_issue[f]
  BY DEF IndInv, TypeOK, CursorOrder

LEMMA GenerationIs ==
    ASSUME IndInv, NEW f \in Flows, NEW s \in Serials, phase[f][s] # "ABSENT"
    PROVE  /\ generation[f][s] = ExpectedGeneration(f, s)
           /\ s >= InitialSerial[f]
           /\ TokenOf(f, s) = Token(f, s, ExpectedGeneration(f, s))
  <1>1. base[f] <= s /\ s < base[f] + Window /\ generation[f][s] = generations[f][SlotOf(s)]
    BY DEF IndInv, PacketInWindow
  <1>2. s \in base[f]..(base[f] + Window - 1) /\ s >= InitialSerial[f]
    BY <1>1, NowTyped, SerialsAreNat, FlowsAndCounts
  <1>3. generations[f][SlotOf(s)] = ExpectedGeneration(f, s)
    BY <1>2 DEF IndInv, GenerationsCount, Taken
  <1> QED BY <1>1, <1>2, <1>3 DEF TokenOf

(* A slot has one owner.                                                   *)
LEMMA OneOwner ==
    ASSUME IndInv, NEW f \in Flows, NEW s \in Serials, NEW t \in Serials,
           phase[f][s] # "ABSENT", phase[f][t] # "ABSENT", SlotOf(s) = SlotOf(t)
    PROVE  s = t
  BY PacketsApart DEF IndInv

(* A pending write and its packet.                                         *)
LEMMA OwnerOf ==
    ASSUME IndInv, NEW w \in pending
    PROVE  /\ w \in Writes /\ w.token \in Tokens
           /\ w.token.flow \in Flows /\ w.token.serial \in Serials
           /\ w.token.slot = SlotOf(w.token.serial) /\ w.token.slot \in Slots
           /\ w.token = TokenOf(w.token.flow, w.token.serial)
           /\ w.token.generation = generation[w.token.flow][w.token.serial]
           /\ w.kind \in {"payload", "descriptor", "ready"}
           /\ w.kind = "ready" =>
                /\ phase[w.token.flow][w.token.serial] = "COMMITTING"
                /\ w.token.serial = next_publish[w.token.flow]
           /\ w.kind # "ready" =>
                /\ phase[w.token.flow][w.token.serial] = "PUSHING"
                /\ w \in data_writes[w.token.flow][w.token.serial]
                /\ w \in DataWrites(w.token, payload[w.token.flow][w.token.serial])
  <1>1. TypeOK /\ WritesOwned /\ DataWritesPending
    BY DEF IndInv
  <1>2. w \in Writes /\ w.token \in Tokens /\ w.token.flow \in Flows /\ w.token.serial \in Serials
        /\ w.token.slot = SlotOf(w.token.serial) /\ w.token.slot \in Slots
        /\ w.token = TokenOf(w.token.flow, w.token.serial)
    BY <1>1, OwnedTyped
  <1>3. w.kind \in {"payload", "descriptor", "ready"}
    BY <1>2, WriteShape
  <1>4. w.token.generation = generation[w.token.flow][w.token.serial]
    BY <1>2 DEF TokenOf, Token
  <1>5. w.kind = "ready" =>
            phase[w.token.flow][w.token.serial] = "COMMITTING"
            /\ w.token.serial = next_publish[w.token.flow]
    BY <1>1 DEF WritesOwned
  <1>6. w.kind # "ready" =>
            phase[w.token.flow][w.token.serial] = "PUSHING"
            /\ w \in data_writes[w.token.flow][w.token.serial]
    BY <1>1 DEF WritesOwned
  <1>7. w.kind # "ready" => w \in DataWrites(w.token, payload[w.token.flow][w.token.serial])
    BY <1>1, <1>2, <1>6 DEF DataWritesPending
  <1> QED BY <1>2, <1>3, <1>4, <1>5, <1>6, <1>7

LEMMA WriteOfSlot ==
    ASSUME IndInv, NEW w \in pending, NEW s \in Serials,
           phase[w.token.flow][s] # "ABSENT", w.token.slot = SlotOf(s)
    PROVE  w.token.serial = s
  BY OwnerOf, OneOwner

(* Between consumption and publication, packets are ready.                 *)
LEMMA PublishedIsReady ==
    ASSUME IndInv, NEW f \in Flows, NEW s \in Serials,
           next_consume[f] <= s, s < next_publish[f]
    PROVE  /\ phase[f][s] = "READY" /\ MarkerSeen(f, s) /\ LengthFits(f, s)
           /\ Snapshot(f, s) = Image(TokenOf(f, s), payload[f][s])
  <1>1. s \in Nat
    BY SerialsAreNat
  <1>2. base[f] <= s /\ s < next_issue[f]
    BY <1>1, NowTyped
  <1>3. s \notin released[f]
    BY <1>1, NowTyped DEF IndInv, ReleasedInWindow
  <1>4. phase[f][s] # "ABSENT"
    BY <1>2, <1>3 DEF IndInv, IssuedStays
  <1>5. phase[f][s] \in Phases
    BY NowTyped DEF TypeOK
  <1>6. phase[f][s] = "READY"
    BY <1>1, <1>4, <1>5, NowTyped DEF IndInv, PhaseAmongCursors, Phases
  <1>7. PublishedImage
    BY InvImage
  <1> QED BY <1>6, <1>7 DEF PublishedImage, Visible, Published, MarkerSeen, Present

(* Below the first serial that is not published, everything not handed     *)
(* back is published.                                                      *)
LEMMA PublishedStays ==
    ASSUME IndInv, NEW f \in Flows, NEW s \in Serials,
           base[f] <= s, s \notin released[f], s < next_publish[f]
    PROVE  phase[f][s] \in Published
  <1>1. s \in Nat /\ s < next_issue[f]
    BY SerialsAreNat, NowTyped
  <1>2. phase[f][s] # "ABSENT"
    BY <1>1 DEF IndInv, IssuedStays
  <1>3. phase[f][s] \in Phases
    BY NowTyped DEF TypeOK
  <1> QED BY <1>1, <1>2, <1>3, NowTyped DEF IndInv, PhaseAmongCursors, Phases, Published
--------------------------------------------------------------------------------
(* What the guest finds in a slot it may read.                             *)

LEMMA DescriptorIsNat ==
    ASSUME NEW token \in Tokens, NEW n \in Nat, NEW d \in Fields
    PROVE  Descriptor(token, n)[d] \in Nat
  <1>1. /\ token.flow \in Flows /\ token.serial \in Serials
        /\ token.slot \in Slots /\ token.generation \in Nat
    BY DEF Tokens
  <1>2. /\ token.flow \in Nat /\ token.serial \in Nat
        /\ token.slot \in Nat /\ token.generation \in Nat
    BY <1>1, FlowsAreNat, SerialsAreNat, SlotsAreNat
  <1> QED BY <1>2, WorldAssumption DEF Descriptor

LEMMA ModeTyped ==
    ASSUME ITypeOK
    PROVE  mode \in {"adversarial", "corrupt-payload", "early-ready"}
  <1>1. mode \in Modes
    BY DEF ITypeOK
  <1>2. Modes \subseteq {"adversarial", "corrupt-payload", "early-ready"}
    BY IntegrationAssumption
  <1> QED BY <1>1, <1>2

LEMMA NextTyped ==
    ASSUME ITypeOK, NEW f \in Flows
    PROVE  /\ NextOf(f) \in Nat /\ NextOf(f) >= InitialSerial[f]
           /\ guest_consumed[f] \in Nat /\ guest_consumed[f] <= Count
           /\ guest_consumed[f] < Count =>
                /\ NextOf(f) \in Sent(f) /\ NextOf(f) \in Serials
                /\ SlotOf(NextOf(f)) \in Slots
           /\ guest_consumed[f] \div Window + 1 = ExpectedGeneration(f, NextOf(f))
  <1>1. guest_consumed[f] \in 0..Count
    BY DEF ITypeOK
  <1>2. guest_consumed[f] \in Nat /\ guest_consumed[f] <= Count
    BY <1>1, FlowsAndCounts
  <1>3. NextOf(f) \in Nat /\ NextOf(f) >= InitialSerial[f] /\ NextOf(f) - InitialSerial[f] = guest_consumed[f]
    BY <1>2, FlowsAndCounts DEF NextOf
  <1>4. guest_consumed[f] < Count => NextOf(f) \in Sent(f)
    BY <1>2, FlowsAndCounts DEF Sent, NextOf
  <1> QED BY <1>2, <1>3, <1>4, SentTyped, SlotOfSerial DEF ExpectedGeneration

(* Nothing is being written to a slot that may be read, and what is not    *)
(* there yet is the line held back for ever.                               *)
LEMMA EntitledState ==
    ASSUME IndInv, ITypeOK, TurnInvariant, FaultInv,
           NEW f \in Flows, NEW s \in Serials, s = NextOf(f), Entitled(f, s)
    PROVE  /\ phase[f][s] \in Visible \cup {"PUSHING"} /\ phase[f][s] # "ABSENT"
           /\ phase[f][s] \in Visible \/ (mode = "early-ready" /\ fault_injected /\ f = 0 /\ s = FirstSerial)
           /\ \A w \in data_writes[f][s] : IsLastLine(w) /\ mode = "early-ready"
           /\ \A w \in pending : w.token.flow = f /\ w.token.slot = SlotOf(s) =>
                w.kind = "ready" \/ (IsLastLine(w) /\ mode = "early-ready")
           /\ ~Writing("payload", f, SlotOf(s)) /\ ~Writing("descriptor", f, SlotOf(s))
  <1>1. writing # NoWrite => writing \in pending /\ ~HeldBack(writing)
    BY DEF TurnInvariant
  <1>2. \A w \in pending : w.token.flow = f /\ w.token.slot = SlotOf(s) /\ phase[f][s] # "ABSENT"
            => w.token.serial = s
    BY WriteOfSlot
  <1>3. SUFFICES
           /\ phase[f][s] \in Visible \cup {"PUSHING"} /\ phase[f][s] # "ABSENT"
           /\ phase[f][s] \in Visible \/ (mode = "early-ready" /\ fault_injected /\ f = 0 /\ s = FirstSerial)
           /\ \A w \in data_writes[f][s] : IsLastLine(w) /\ mode = "early-ready"
           /\ \A w \in pending : w.token.flow = f /\ w.token.slot = SlotOf(s) =>
                w.kind = "ready" \/ (IsLastLine(w) /\ mode = "early-ready")
    <2>1. ~(writing # NoWrite /\ writing.kind = "payload" /\ writing.token.flow = f
            /\ writing.token.slot = SlotOf(s))
      BY <1>1, <1>3 DEF HeldBack
    <2>2. ~(writing # NoWrite /\ writing.kind = "descriptor" /\ writing.token.flow = f
            /\ writing.token.slot = SlotOf(s))
      BY <1>1, <1>3 DEF HeldBack, IsLastLine
    <2> QED BY <1>3, <2>1, <2>2 DEF Writing
  <1>4. CASE phase[f][s] \in Visible
    <2>1. data_writes[f][s] = {}
      BY <1>4, ImageSeen DEF IndInv
    <2>2. \A w \in pending : w.token.flow = f /\ w.token.slot = SlotOf(s) => w.kind = "ready"
      BY <1>2, <1>4, OwnerOf DEF Visible
    <2> QED BY <1>4, <2>1, <2>2 DEF Visible
  <1>5. CASE phase[f][s] \in Published
    BY <1>4, <1>5 DEF Visible, Published
  <1>6. CASE Writing("ready", f, SlotOf(s)) /\ writing.token.serial = s
    <2>1. phase[f][s] = "COMMITTING"
      BY <1>1, <1>6, OwnerOf DEF Writing
    <2> QED BY <1>4, <2>1 DEF Visible
  <1>7. CASE mode = "early-ready" /\ fault_injected /\ f = 0 /\ s = FirstSerial
    <2>1. phase[f][s] = "PUSHING" /\ \A w \in pending : IsTarget(w) => IsLastLine(w)
      BY <1>7 DEF FaultInv, TargetPhase
    <2>2. \A w \in pending : w.token.flow = f /\ w.token.slot = SlotOf(s) => IsLastLine(w)
      BY <1>2, <1>7, <2>1 DEF IsTarget
    <2>3. \A w \in data_writes[f][s] : w \in pending /\ w.token = TokenOf(f, s)
      BY DataWritesAre DEF IndInv, DataWritesPending
    <2>4. \A w \in data_writes[f][s] : IsLastLine(w)
      BY <1>7, <2>1, <2>3 DEF IsTarget, TokenOf, Token
    <2> QED BY <1>7, <2>1, <2>2, <2>4
  <1> QED BY <1>5, <1>6, <1>7 DEF Entitled

(* Which line the guest will find wrong.                                   *)
Wrong(f, i) == mode # "adversarial" /\ f = 0 /\ i = InjectedLine

LEMMA EntitledContent ==
    ASSUME IndInv, ITypeOK, TurnInvariant, BooksAgree, MemoryShown, FaultInv,
           NEW f \in Flows, guest_consumed[f] < Count, Entitled(f, NextOf(f))
    PROVE  LET s == NextOf(f)
               p == PayloadOf[f][s]
           IN  /\ s \in Sent(f) /\ phase[f][s] # "ABSENT"
               /\ \A d \in Fields : memory.field[f][SlotOf(s)][d]
                        = Descriptor(Token(f, s, ExpectedGeneration(f, s)), Length[p])[d]
               /\ \A i \in LineNumbers(Length[p]) :
                        IF Wrong(f, i) THEN memory.line[f][SlotOf(s)][i] \in {Corrupt, Stale}
                        ELSE memory.line[f][SlotOf(s)][i] = <<p, i>>
               /\ mode # "adversarial" /\ f = 0 => fault_injected /\ s = FirstSerial
  <1> DEFINE s == NextOf(f)
             p == PayloadOf[f][s]
             k == SlotOf(s)
             token == TokenOf(f, s)
  <1>1. s \in Serials /\ s \in Sent(f) /\ k \in Slots
    BY NextTyped
  <1>2. /\ phase[f][s] \in Visible \cup {"PUSHING"} /\ phase[f][s] # "ABSENT"
        /\ phase[f][s] \in Visible \/ (mode = "early-ready" /\ fault_injected /\ f = 0 /\ s = FirstSerial)
        /\ \A w \in data_writes[f][s] : IsLastLine(w) /\ mode = "early-ready"
        /\ ~Writing("payload", f, k) /\ ~Writing("descriptor", f, k)
    BY <1>1, EntitledState
  <1>3. payload[f][s] = p
    BY <1>1, <1>2 DEF BooksAgree
  <1>4. token = Token(f, s, ExpectedGeneration(f, s))
    BY <1>1, <1>2, GenerationIs
  <1>5. Length[p] \in 1..MaxPacketBytes /\ Length[p] \in Nat /\ p \in Payloads
    BY <1>1, SentTyped
  <1>6. LineNumbers(Length[p]) \subseteq HostLines
    BY <1>5, LinesOfSize
  <1>7. mode # "adversarial" /\ f = 0 => s = FirstSerial
    BY FlowsAndCounts, FirstSent DEF FaultInv, NextOf
  <1>8. mode = "early-ready" /\ f = 0 => fault_injected /\ phase[f][s] = "PUSHING"
    BY <1>2, <1>7 DEF FaultInv, TargetHeld, TargetPhase, Visible
  <1>9. mode = "corrupt-payload" /\ f = 0 => fault_injected
    BY <1>2, <1>7 DEF FaultInv, TargetComing, TargetPhase, Visible
  <1>10. mode \in {"adversarial", "corrupt-payload", "early-ready"}
    BY ModeTyped
  <1>11. token \in Tokens
    <2>1. generation[f][s] > 0 /\ generation[f][s] \in Nat
      BY <1>1, <1>2 DEF IndInv, PacketInWindow, TypeOK
    <2>2. generation[f][s] \in Nat \ {0}
      BY <2>1
    <2> QED BY <1>1, <2>2, TokenTyped DEF TokenOf
  <1>12. /\ \A i \in LineNumbers(Length[p]) : LineArrived(f, s, i)
         /\ \A d \in Fields : FieldArrived(f, s, d)
    BY <1>1, <1>2, <1>3 DEF IndInv, ImageInSlot
  <1> HIDE DEF s, p, k, token
  <1>13. ASSUME NEW d \in Fields
         PROVE  memory.field[f][k][d] = Descriptor(token, Length[p])[d]
    <2>1. DescriptorWrite(token, p, d).kind = "descriptor"
      BY DEF DescriptorWrite
    <2>2. DescriptorWrite(token, p, d) \notin data_writes[f][s]
      BY <1>2, <2>1 DEF IsLastLine
    <2>3. host_descriptor[f][k][d] = Descriptor(token, Length[p])[d]
      BY <1>3, <1>12, <2>2 DEF FieldArrived, k, token
    <2>4. Descriptor(token, Length[p])[d] # UnsetField
      BY <1>5, <1>11, DescriptorIsNat DEF UnsetField
    <2>5. memory.field[f][k][d] = FieldShown(f, k, d)
      BY <1>1 DEF MemoryShown
    <2> QED BY <1>2, <2>3, <2>4, <2>5 DEF FieldShown
  <1>14. ASSUME NEW i \in LineNumbers(Length[p]), ~Wrong(f, i)
         PROVE  memory.line[f][k][i] = <<p, i>>
    <2>1. PayloadWrite(token, p, i).kind = "payload" /\ PayloadWrite(token, p, i).offset = i
          /\ PayloadWrite(token, p, i).token = token
      BY DEF PayloadWrite
    <2>2. PayloadWrite(token, p, i) \notin data_writes[f][s]
      <3> SUFFICES ASSUME PayloadWrite(token, p, i) \in data_writes[f][s] PROVE FALSE
        OBVIOUS
      <3>1. IsLastLine(PayloadWrite(token, p, i)) /\ mode = "early-ready"
        BY <1>2
      <3>2. i = LastLine /\ f = 0
        BY <2>1, <3>1 DEF IsLastLine, IsTarget, token, TokenOf, Token
      <3> QED BY <1>14, <3>1, <3>2 DEF Wrong, InjectedLine
    <2>3. host_data[f][k][i] = <<p, i>>
      BY <1>3, <1>12, <2>2 DEF LineArrived, Lines, k, token
    <2>4. ~(mode = "corrupt-payload" /\ fault_injected /\ AtTarget(f, k) /\ i = 0)
      BY <1>14 DEF AtTarget, Wrong, InjectedLine
    <2>5. memory.line[f][k][i] = LineShown(f, k, i)
      BY <1>1, <1>6 DEF MemoryShown
    <2> QED BY <1>2, <2>3, <2>4, <2>5 DEF LineShown
  <1>15. ASSUME NEW i \in LineNumbers(Length[p]), Wrong(f, i)
         PROVE  memory.line[f][k][i] \in {Corrupt, Stale}
    <2>1. memory.line[f][k][i] = LineShown(f, k, i)
      BY <1>1, <1>6 DEF MemoryShown
    <2>2. AtTarget(f, k)
      BY <1>7, <1>15 DEF AtTarget, Wrong, k
    <2>3. CASE mode = "corrupt-payload"
      BY <1>9, <1>15, <2>1, <2>2, <2>3 DEF LineShown, Wrong, InjectedLine
    <2>4. CASE mode = "early-ready"
      <3>1. i = LastLine
        BY <1>15, <2>4 DEF Wrong, InjectedLine
      <3>2. host_data[f][k][i] = Stale
        BY <2>2, <2>4, <3>1 DEF FaultInv, AtTarget
      <3> QED BY <1>2, <2>1, <2>4, <3>2 DEF LineShown
    <2> QED BY <1>10, <1>15, <2>3, <2>4 DEF Wrong
  <1> QED BY <1>1, <1>2, <1>4, <1>7, <1>8, <1>9, <1>10, <1>13, <1>14, <1>15 DEF s, p, k, token
--------------------------------------------------------------------------------
(* Frames: parts that a step leaves alone.                                 *)

LEMMA TypedMemory ==
    ASSUME ITypeOK
    PROVE  /\ memory.line \in [Flows -> [Slots -> [HostLines -> LineValues \cup {Stale, Corrupt}]]]
           /\ memory.field \in [Flows -> [Slots -> [Fields -> Int]]]
           /\ memory.ready \in [Flows -> [Slots -> Nat]]
           /\ memory.release \in [Flows -> [Slots -> Nat]]
  <1>1. memory \in Memories
    BY DEF ITypeOK
  <1> QED BY <1>1 DEF Memories

LEMMA PrintedTyped ==
    ASSUME ITypeOK
    PROVE  Printed \in Seq(Prints) /\ input \in Seq(Prints) /\ serial_line \in Seq(Prints)
  BY DEF ITypeOK, Printed

(* The guest's steps leave the driver and the class alone, and of the      *)
(* memory all but the release words.                                       *)
GuestFrame ==
    /\ UnchangedByGuest
    /\ memory'.line = memory.line /\ memory'.field = memory.field /\ memory'.ready = memory.ready

LEMMA GuestLeaves ==
    ASSUME GuestFrame
    PROVE  /\ UNCHANGED <<mode, post_push, turn, input, unread, writing, remaining, bases, freed,
                          consumed, holding, withdrawn, guest_ready, guest_done, guest_failure,
                          fault_injected, held_progress, outcome>>
           /\ UNCHANGED <<base, next_issue, next_publish, next_consume, released, generations,
                          phase, payload, generation, data_writes, pending, host_data,
                          host_descriptor, host_ready, halted, pumping>>
           /\ UNCHANGED vars
           /\ memory'.line = memory.line /\ memory'.field = memory.field /\ memory'.ready = memory.ready
  BY DEF GuestFrame, UnchangedByGuest, driver, books, flags, vars, cursors, packets, host, loop

LEMMA GuestKeepsDriver ==
    ASSUME IndInv, TurnInvariant, BooksAgree, HoldingInv, MemoryShown, GuestFrame
    PROVE  IndInv' /\ TurnInvariant' /\ BooksAgree' /\ HoldingInv' /\ MemoryShown'
  <1>1. IndInv'
    BY GuestLeaves, StepInv
  <1>2. TurnInvariant'
    BY GuestLeaves DEF TurnInvariant, HeldBack, IsLastLine, IsLengthField, IsTarget
  <1>3. BooksAgree'
    BY GuestLeaves DEF BooksAgree
  <1>4. HoldingInv'
    BY GuestLeaves DEF HoldingInv, IsHeld, TokenOf, Distinct, Within
  <1>5. MemoryShown'
    BY GuestLeaves DEF MemoryShown, LineShown, FieldShown, ReadyShown, Writing, AtTarget
  <1> QED BY <1>1, <1>2, <1>3, <1>4, <1>5

LEMMA GuestKeepsFaults ==
    ASSUME FaultInv, GuestFrame,
           mode # "adversarial" => guest_consumed'[0] = 0 /\ (at' = "release" => flow_at' # 0)
    PROVE  FaultInv'
  BY GuestLeaves DEF FaultInv, TargetHeld, TargetComing, TargetPhase, TargetWrite, IsTarget,
     IsLastLine, TokenOf

LEMMA GuestKeepsEntitled ==
    ASSUME GuestFrame, NEW f, NEW s
    PROVE  Entitled(f, s)' <=> Entitled(f, s)
  BY GuestLeaves DEF Entitled, Writing

LEMMA GuestKeepsFreed ==
    ASSUME FreedByGuest, ReleaseWords, GuestFrame, UNCHANGED <<memory, guest_consumed>>
    PROVE  FreedByGuest' /\ ReleaseWords'
  BY GuestLeaves DEF FreedByGuest, ReleaseWords, NextOf, ShownTo

LEMMA SamePrints ==
    ASSUME mode' = mode
    PROVE  Prints' = Prints /\ InjectedFailure' = InjectedFailure /\ LastWords' = LastWords
  BY DEF Prints, InjectedFailure, InjectedLine

LEMMA GuestTypes ==
    ASSUME ITypeOK, GuestFrame,
           memory' \in Memories, status' \in Statuses, serial_line' \in Seq(Prints),
           at' \in Places, flow_at' \in Flows, copy' \in Copies,
           guest_consumed' \in [Flows -> 0..Count]
    PROVE  ITypeOK'
  BY GuestLeaves, SamePrints DEF ITypeOK
--------------------------------------------------------------------------------
(* Reports that do not change, or get a line that is none.                 *)

LEMMA AppendPrinted ==
    ASSUME ITypeOK, NEW line \in Prints, serial_line' = Append(serial_line, line), input' = input
    PROVE  /\ Printed' = Append(Printed, line) /\ Printed' \in Seq(Prints)
           /\ serial_line' \in Seq(Prints)
           /\ Len(Printed') = Len(Printed) + 1 /\ Printed'[Len(Printed')] = line
           /\ DOMAIN Printed' = DOMAIN Printed \cup {Len(Printed) + 1}
           /\ DOMAIN Printed = 1..Len(Printed) /\ Len(Printed) \in Nat
           /\ \A i \in DOMAIN Printed : Printed'[i] = Printed[i]
  <1>1. input \in Seq(Prints) /\ serial_line \in Seq(Prints)
    BY PrintedTyped
  <1> DEFINE o == input \o serial_line
  <1>2. o \in Seq(Prints)
    BY <1>1
  <1>3. input \o Append(serial_line, line) = Append(o, line)
    BY <1>1
  <1>4. Printed = o /\ Printed' = Append(o, line)
    BY <1>3 DEF Printed
  <1> HIDE DEF o
  <1> QED BY <1>1, <1>2, <1>4

LEMMA SameReports ==
    ASSUME ReportsInTurn, Printed' = Printed, next_consume' = next_consume,
           \A f \in Flows : ReportedTo(f)' = ReportedTo(f)
    PROVE  ReportsInTurn'
  <1>1. PICK n \in [DOMAIN Printed -> Serials] : Numbers(Printed, n)
    BY DEF ReportsInTurn
  <1>2. n \in [DOMAIN Printed' -> Serials] /\ Numbers(Printed, n)'
    BY <1>1 DEF Numbers
  <1>3. (\E m \in [DOMAIN Printed -> Serials] : Numbers(Printed, m))'
    BY <1>2
  <1> QED BY <1>3 DEF ReportsInTurn

LEMMA ReportedTyped ==
    ASSUME ITypeOK, NEW f \in Flows
    PROVE  /\ ReportedTo(f) \in Nat
           /\ ReportedTo(f) = NextOf(f) \/ ReportedTo(f) = NextOf(f) + 1
           /\ at # "release" \/ flow_at # f => ReportedTo(f) = NextOf(f)
           /\ at = "release" /\ flow_at = f => ReportedTo(f) = NextOf(f) + 1
  BY NextTyped DEF ReportedTo

LEMMA OtherLine ==
    ASSUME ITypeOK, ReportsInTurn, NEW line \in Prints, line[1] # "PACKET",
           serial_line' = Append(serial_line, line), input' = input, next_consume' = next_consume,
           \A f \in Flows : ReportedTo(f)' = ReportedTo(f)
    PROVE  ReportsInTurn'
  <1>1. PICK n \in [DOMAIN Printed -> Serials] : Numbers(Printed, n)
    BY DEF ReportsInTurn
  <1> PICK m : m = [i \in DOMAIN Printed' |-> IF i \in DOMAIN Printed THEN n[i] ELSE FirstSerial]
    OBVIOUS
  <1>2. /\ DOMAIN Printed' = DOMAIN Printed \cup {Len(Printed) + 1}
        /\ DOMAIN Printed = 1..Len(Printed) /\ Len(Printed) \in Nat
        /\ \A i \in DOMAIN Printed : Printed'[i] = Printed[i]
        /\ Printed'[Len(Printed) + 1] = line
    BY AppendPrinted
  <1>3. m \in [DOMAIN Printed' -> Serials]
    BY FirstSent
  <1>4. /\ \A i \in DOMAIN Printed : m[i] = n[i]
        /\ \A i \in DOMAIN Printed', f \in Flows :
                IsPacketOf(Printed'[i], f) => i \in DOMAIN Printed /\ Printed'[i] = Printed[i]
    BY <1>2 DEF IsPacketOf
  <1>5. ASSUME NEW f \in Flows
        PROVE  /\ \A i \in DOMAIN Printed' : IsPacketOf(Printed'[i], f) =>
                    /\ m[i] \in next_consume[f]..(ReportedTo(f) - 1)
                    /\ Printed'[i][3] = CopyOf(f, m[i])
               /\ \A i, j \in DOMAIN Printed' :
                    i < j /\ IsPacketOf(Printed'[i], f) /\ IsPacketOf(Printed'[j], f) => m[i] < m[j]
               /\ \A s \in next_consume[f]..(ReportedTo(f) - 1) :
                    \E i \in DOMAIN Printed' : IsPacketOf(Printed'[i], f) /\ m[i] = s
    <2>1. \A i \in DOMAIN Printed' : IsPacketOf(Printed'[i], f) =>
                    /\ m[i] \in next_consume[f]..(ReportedTo(f) - 1)
                    /\ Printed'[i][3] = CopyOf(f, m[i])
      BY <1>1, <1>4 DEF Numbers
    <2>2. \A i, j \in DOMAIN Printed' :
                    i < j /\ IsPacketOf(Printed'[i], f) /\ IsPacketOf(Printed'[j], f) => m[i] < m[j]
      BY <1>1, <1>4 DEF Numbers
    <2>3. ASSUME NEW s \in next_consume[f]..(ReportedTo(f) - 1)
          PROVE  \E i \in DOMAIN Printed' : IsPacketOf(Printed'[i], f) /\ m[i] = s
      <3>1. PICK i \in DOMAIN Printed : IsPacketOf(Printed[i], f) /\ n[i] = s
        BY <1>1 DEF Numbers
      <3>2. i \in DOMAIN Printed' /\ Printed'[i] = Printed[i] /\ m[i] = n[i]
        BY <1>2, <1>4
      <3> QED BY <3>1, <3>2
    <2> QED BY <2>1, <2>2, <2>3
  <1>6. Numbers(Printed, m)'
    BY <1>5 DEF Numbers, CopyOf
  <1>7. (\E k \in [DOMAIN Printed -> Serials] : Numbers(Printed, k))'
    BY <1>3, <1>6
  <1> QED BY <1>7 DEF ReportsInTurn

(* The guest reports the packet it has read.                               *)
LEMMA NewReport ==
    ASSUME ITypeOK, IndInv, ReportsInTurn, NEW g \in Flows, NEW line \in Prints,
           line = <<"PACKET", g, CopyOf(g, ReportedTo(g))>>, ReportedTo(g) \in Serials,
           serial_line' = Append(serial_line, line), input' = input, next_consume' = next_consume,
           ReportedTo(g)' = ReportedTo(g) + 1,
           \A f \in Flows \ {g} : ReportedTo(f)' = ReportedTo(f)
    PROVE  ReportsInTurn'
  <1>1. PICK n \in [DOMAIN Printed -> Serials] : Numbers(Printed, n)
    BY DEF ReportsInTurn
  <1> DEFINE L == Len(Printed)
  <1> PICK m : m = [i \in DOMAIN Printed' |-> IF i \in DOMAIN Printed THEN n[i] ELSE ReportedTo(g)]
    OBVIOUS
  <1>2. /\ DOMAIN Printed' = DOMAIN Printed \cup {L + 1}
        /\ DOMAIN Printed = 1..L /\ L \in Nat
        /\ \A i \in DOMAIN Printed : Printed'[i] = Printed[i]
        /\ Printed'[L + 1] = line
    BY AppendPrinted
  <1>3. m \in [DOMAIN Printed' -> Serials]
    OBVIOUS
  <1>4. /\ \A i \in DOMAIN Printed : m[i] = n[i]
        /\ m[L + 1] = ReportedTo(g)
        /\ line[1] = "PACKET" /\ line[2] = g /\ line[3] = CopyOf(g, ReportedTo(g))
    BY <1>2
  <1> HIDE DEF L
  <1>5. /\ \A i \in DOMAIN Printed', f \in Flows : IsPacketOf(Printed'[i], f) =>
                \/ i \in DOMAIN Printed /\ IsPacketOf(Printed[i], f)
                \/ i = L + 1 /\ f = g
        /\ \A i, j \in DOMAIN Printed' : i < j => i \in DOMAIN Printed
        /\ \A i \in DOMAIN Printed : i # L + 1
    BY <1>2, <1>4 DEF IsPacketOf
  <1>6. \A f \in Flows : ReportedTo(f) \in Nat /\ next_consume[f] \in Nat /\ next_consume[f] <= ReportedTo(f)
    BY ReportedTyped, NowTyped DEF ReportsInTurn
  <1>7. \A f \in Flows : ReportedTo(f)' = ReportedTo(f) \/ (f = g /\ ReportedTo(f)' = ReportedTo(f) + 1)
    OBVIOUS
  <1>8. ASSUME NEW f \in Flows
        PROVE  /\ \A i \in DOMAIN Printed' : IsPacketOf(Printed'[i], f) =>
                    /\ m[i] \in next_consume[f]..(ReportedTo(f)' - 1)
                    /\ Printed'[i][3] = CopyOf(f, m[i])
               /\ \A i, j \in DOMAIN Printed' :
                    i < j /\ IsPacketOf(Printed'[i], f) /\ IsPacketOf(Printed'[j], f) => m[i] < m[j]
               /\ \A s \in next_consume[f]..(ReportedTo(f)' - 1) :
                    \E i \in DOMAIN Printed' : IsPacketOf(Printed'[i], f) /\ m[i] = s
    <2>1. ASSUME NEW i \in DOMAIN Printed', IsPacketOf(Printed'[i], f)
          PROVE  /\ m[i] \in next_consume[f]..(ReportedTo(f)' - 1)
                 /\ Printed'[i][3] = CopyOf(f, m[i])
                 /\ i \in DOMAIN Printed => m[i] < ReportedTo(f) /\ m[i] = n[i]
                 /\ i \in DOMAIN Printed \/ (i = L + 1 /\ f = g /\ m[i] = ReportedTo(f))
      <3>1. CASE i \in DOMAIN Printed
        <4>1. m[i] = n[i] /\ Printed'[i] = Printed[i] /\ IsPacketOf(Printed[i], f)
          BY <1>2, <1>4, <2>1, <3>1
        <4>2. n[i] \in next_consume[f]..(ReportedTo(f) - 1) /\ Printed[i][3] = CopyOf(f, n[i])
          BY <1>1, <3>1, <4>1 DEF Numbers
        <4> QED BY <1>6, <1>7, <3>1, <4>1, <4>2
      <3>2. CASE i = L + 1 /\ f = g
        BY <1>2, <1>4, <1>5, <1>6, <3>2
      <3> QED BY <1>5, <2>1, <3>1, <3>2
    <2>2. ASSUME NEW i \in DOMAIN Printed', NEW j \in DOMAIN Printed', i < j,
                 IsPacketOf(Printed'[i], f), IsPacketOf(Printed'[j], f)
          PROVE  m[i] < m[j]
      <3>1. i \in DOMAIN Printed /\ m[i] < ReportedTo(f) /\ m[i] = n[i] /\ IsPacketOf(Printed[i], f)
        BY <1>2, <1>5, <2>1, <2>2
      <3>2. CASE j \in DOMAIN Printed
        <4>1. m[j] = n[j] /\ IsPacketOf(Printed[j], f)
          BY <1>2, <1>4, <2>2, <3>2
        <4> QED BY <1>1, <2>2, <3>1, <3>2, <4>1 DEF Numbers
      <3>3. CASE m[j] = ReportedTo(f)
        BY <3>1, <3>3
      <3> QED BY <2>1, <2>2, <3>2, <3>3
    <2>3. ASSUME NEW s \in next_consume[f]..(ReportedTo(f)' - 1)
          PROVE  \E i \in DOMAIN Printed' : IsPacketOf(Printed'[i], f) /\ m[i] = s
      <3>1. CASE s \in next_consume[f]..(ReportedTo(f) - 1)
        <4>1. PICK i \in DOMAIN Printed : IsPacketOf(Printed[i], f) /\ n[i] = s
          BY <1>1, <3>1 DEF Numbers
        <4>2. i \in DOMAIN Printed' /\ Printed'[i] = Printed[i] /\ m[i] = n[i]
          BY <1>2, <1>4
        <4> QED BY <4>1, <4>2
      <3>2. CASE f = g /\ s = ReportedTo(f)
        BY <1>2, <1>4, <3>2 DEF IsPacketOf
      <3> QED BY <1>6, <1>7, <2>3, <3>1, <3>2
    <2> QED BY <2>1, <2>2, <2>3
  <1>9. Numbers(Printed, m)'
    BY <1>8 DEF Numbers, CopyOf
  <1>10. (\E k \in [DOMAIN Printed -> Serials] : Numbers(Printed, k))'
    BY <1>3, <1>9
  <1>11. \A f \in Flows : next_consume'[f] <= ReportedTo(f)'
    BY <1>6, <1>7
  <1> QED BY <1>10, <1>11 DEF ReportsInTurn
--------------------------------------------------------------------------------
(* The steps of the guest.                                                 *)

(* What a step of the guest has to keep by itself.                         *)
GuestKept ==
    /\ ITypeOK' /\ FaultInv' /\ FreedByGuest' /\ ReleaseWords'
    /\ GuestInv' /\ ReportsInTurn' /\ LinesInv'

RunningState == IndInv /\ ITypeOK /\ RunningInv

LEMMA ProveGuestKept ==
    ASSUME RunningState, GuestFrame, GuestKept
    PROVE  IndInv' /\ ITypeOK' /\ RunningInv'
  <1>1. IndInv' /\ TurnInvariant' /\ BooksAgree' /\ HoldingInv' /\ MemoryShown'
    BY GuestKeepsDriver DEF RunningState, RunningInv
  <1> QED BY <1>1 DEF GuestKept, RunningInv

LEMMA ProveStart ==
    ASSUME RunningState, UnchangedByGuest, GuestStart
    PROVE  GuestFrame /\ GuestKept
  <1>1. GuestFrame
    BY DEF GuestFrame, GuestStart
  <1>2. /\ at = "start" /\ at' = "announce" /\ status' = 1
        /\ UNCHANGED <<memory, serial_line, flow_at, copy, guest_consumed>>
    BY DEF GuestStart, Goto
  <1>3. ~guest_ready /\ BeforeReady /\ copy = EmptyCopy
    BY <1>2 DEF RunningState, RunningInv, LinesInv, GuestInv
  <1>4. Printed = <<>> /\ Printed' = Printed
    BY <1>1, <1>2, <1>3, GuestLeaves DEF BeforeReady, Printed
  <1>5. ITypeOK'
    <2>1. ITypeOK /\ at' \in Places /\ status' \in Statuses
      BY <1>2 DEF RunningState, Places, Statuses
    <2>2. /\ memory' \in Memories /\ serial_line' \in Seq(Prints) /\ flow_at' \in Flows
          /\ copy' \in Copies /\ guest_consumed' \in [Flows -> 0..Count]
      BY <1>2, <2>1 DEF ITypeOK
    <2> QED BY <1>1, <2>1, <2>2, GuestTypes
  <1>6. FaultInv'
    BY <1>1, <1>2, GuestKeepsFaults DEF RunningState, RunningInv, FaultInv
  <1>7. FreedByGuest' /\ ReleaseWords'
    BY <1>1, <1>2, GuestKeepsFreed DEF RunningState, RunningInv
  <1>8. GuestInv'
    BY <1>2, <1>3 DEF GuestInv, Reading, EmptyCopy
  <1>9. ReportsInTurn'
    <2>1. \A f \in Flows : ReportedTo(f)' = ReportedTo(f)
      BY <1>2 DEF ReportedTo, NextOf
    <2> QED BY <1>1, <1>4, <2>1, GuestLeaves, SameReports DEF RunningState, RunningInv
  <1>10. LinesInv'
    <2>1. BeforeReady'
      BY <1>2, <1>3, <1>4 DEF BeforeReady
    <2>2. ~guest_ready' /\ ~guest_done' /\ UNCHANGED <<mode, fault_injected, guest_failure>>
      BY <1>1, <1>2, <1>3, GuestLeaves DEF RunningState, RunningInv, LinesInv
    <2>3. guest_failure # <<>> => mode # "adversarial" /\ fault_injected
      BY DEF RunningState, RunningInv, LinesInv
    <2>4. \A i \in DOMAIN Printed' : FALSE
      BY <1>4
    <2> QED BY <2>1, <2>2, <2>3, <2>4 DEF LinesInv
  <1> QED BY <1>1, <1>5, <1>6, <1>7, <1>8, <1>9, <1>10 DEF GuestKept

LEMMA ProveAnnounce ==
    ASSUME RunningState, UnchangedByGuest, GuestAnnounce
    PROVE  GuestFrame /\ GuestKept
  <1>1. GuestFrame
    BY DEF GuestFrame, GuestAnnounce
  <1> DEFINE line == <<"READY">>
  <1>2. /\ at = "announce" /\ at' = "poll" /\ serial_line' = Append(serial_line, line)
        /\ UNCHANGED <<memory, status, flow_at, copy, guest_consumed>>
    BY DEF GuestAnnounce, Goto, Says
  <1>3. ~guest_ready /\ BeforeReady /\ copy = EmptyCopy
    BY <1>2 DEF RunningState, RunningInv, LinesInv, GuestInv
  <1>4. Printed = <<>>
    BY <1>2, <1>3 DEF BeforeReady
  <1>5. ITypeOK /\ input' = input /\ line \in Prints /\ line[1] # "PACKET"
    BY <1>1, GuestLeaves DEF RunningState, Prints
  <1>6. Printed' = <<line>> /\ serial_line' \in Seq(Prints)
    <2>1. Printed' = Append(Printed, line) /\ serial_line' \in Seq(Prints)
      <3> HIDE DEF line
      <3> QED BY <1>2, <1>5, AppendPrinted
    <2> QED BY <1>4, <2>1
  <1>7. ITypeOK'
    <2>1. at' \in Places
      BY <1>2 DEF Places
    <2>2. /\ memory' \in Memories /\ status' \in Statuses /\ flow_at' \in Flows
          /\ copy' \in Copies /\ guest_consumed' \in [Flows -> 0..Count]
      BY <1>2, <1>5 DEF ITypeOK
    <2> QED BY <1>1, <1>5, <1>6, <2>1, <2>2, GuestTypes
  <1>8. FaultInv'
    BY <1>1, <1>2, GuestKeepsFaults DEF RunningState, RunningInv, FaultInv
  <1>9. FreedByGuest' /\ ReleaseWords'
    BY <1>1, <1>2, GuestKeepsFreed DEF RunningState, RunningInv
  <1>10. GuestInv'
    BY <1>2, <1>3 DEF GuestInv, Reading, EmptyCopy
  <1>11. ReportsInTurn'
    <2>1. \A f \in Flows : ReportedTo(f)' = ReportedTo(f)
      BY <1>2 DEF ReportedTo, NextOf
    <2>2. next_consume' = next_consume /\ ReportsInTurn
      BY <1>1, GuestLeaves DEF RunningState, RunningInv
    <2> HIDE DEF line
    <2> QED BY <1>2, <1>5, <2>1, <2>2, OtherLine
  <1>12. LinesInv'
    <2>1. BeforeReady'
      BY <1>2, <1>3, <1>6 DEF BeforeReady
    <2>2. ~guest_ready' /\ ~guest_done' /\ UNCHANGED <<mode, fault_injected, guest_failure>>
      BY <1>1, <1>2, <1>3, GuestLeaves DEF RunningState, RunningInv, LinesInv
    <2>3. guest_failure # <<>> => mode # "adversarial" /\ fault_injected
      BY DEF RunningState, RunningInv, LinesInv
    <2>4. \A i \in DOMAIN Printed' : Printed'[i] = line
      BY <1>6
    <2>5. line # InjectedFailure' /\ line # LastWords
      BY DEF InjectedFailure, LastWords
    <2> QED BY <2>1, <2>2, <2>3, <2>4, <2>5 DEF LinesInv, LastWords
  <1> QED BY <1>1, <1>7, <1>8, <1>9, <1>10, <1>11, <1>12 DEF GuestKept

LEMMA NextFlowTyped ==
    ASSUME flow_at \in Flows
    PROVE  NextFlow \in Flows
  <1>1. flow_at + 1 \in Nat /\ flow_at + 1 <= NumFlows /\ flow_at + 1 < 2 * NumFlows /\ NumFlows \in Nat
    BY ConfigAssumption DEF Flows
  <1> DEFINE x == flow_at + 1
  <1>2. NextFlow = IF x < NumFlows THEN x ELSE x - NumFlows
    <2>1. NextFlow = x % NumFlows
      BY DEF NextFlow
    <2> HIDE DEF x
    <2>2. x \in Nat /\ x < 2 * NumFlows
      BY <1>1 DEF x
    <2> QED BY <2>1, <2>2, ModBelowTwice
  <1> QED BY <1>1, <1>2 DEF Flows

(* The marker of the packet that a flow waits for tells that it may be     *)
(* read.                                                                   *)
LEMMA MarkerEntitles ==
    ASSUME RunningState, NEW f \in Flows, guest_consumed[f] < Count,
           memory.ready[f][SlotOf(NextOf(f))] = ExpectedGeneration(f, NextOf(f))
    PROVE  Entitled(f, NextOf(f))
  <1> DEFINE s == NextOf(f)
             k == SlotOf(s)
  <1>1. IndInv /\ ITypeOK /\ TurnInvariant /\ MemoryShown /\ FaultInv /\ FreedByGuest
    BY DEF RunningState, RunningInv
  <1>2. s \in Serials /\ s \in Nat /\ k \in Slots /\ s >= InitialSerial[f]
    BY <1>1, NextTyped
  <1>3. memory.ready[f][k] = ReadyShown(f, k)
    BY <1>1, <1>2 DEF MemoryShown
  <1>4. CASE mode = "early-ready" /\ fault_injected /\ AtTarget(f, k)
    <2>1. f = 0 /\ s = FirstSerial
      BY <1>1, <1>4, FlowsAndCounts, FirstSent DEF AtTarget, FaultInv, NextOf
    <2> QED BY <1>4, <2>1 DEF Entitled
  <1>5. CASE /\ ~(mode = "early-ready" /\ fault_injected /\ AtTarget(f, k))
             /\ Writing("ready", f, k)
    <2> DEFINE t == writing.token.serial
    <2>1. writing \in pending /\ writing.kind = "ready" /\ writing.token.flow = f
          /\ writing.token.slot = k
      BY <1>1, <1>5 DEF Writing, TurnInvariant
    <2>2. /\ t \in Serials /\ SlotOf(t) = k /\ phase[f][t] = "COMMITTING"
          /\ writing.token.generation = generation[f][t]
      BY <1>1, <2>1, OwnerOf
    <2>3. generation[f][t] = ExpectedGeneration(f, t) /\ t >= InitialSerial[f] /\ t \in Nat
      BY <1>1, <2>2, GenerationIs, SerialsAreNat
    <2>4. ExpectedGeneration(f, s) = ExpectedGeneration(f, t)
      BY <1>3, <1>5, <2>2, <2>3 DEF ReadyShown
    <2>5. s = t
      BY <1>2, <2>2, <2>3, <2>4, SameSerial
    <2> QED BY <1>5, <2>5 DEF Entitled
  <1>6. CASE /\ ~(mode = "early-ready" /\ fault_injected /\ AtTarget(f, k))
             /\ ~Writing("ready", f, k)
    <2>1. host_ready[f][k] = ExpectedGeneration(f, s)
      BY <1>3, <1>6 DEF ReadyShown
    <2>2. s < next_publish[f]
      BY <1>1, <1>2, <2>1, InvMarker DEF ReadyMeansPrefixVisible
    <2>3. base[f] <= s /\ s \notin released[f]
      BY <1>1, <1>2 DEF FreedByGuest
    <2>4. phase[f][s] \in Published
      BY <1>1, <1>2, <2>2, <2>3, PublishedStays
    <2> QED BY <2>4 DEF Entitled
  <1> QED BY <1>4, <1>5, <1>6

(* Steps of the guest that touch neither the memory nor the lines.         *)
LEMMA ProveQuietStep ==
    ASSUME RunningState, UnchangedByGuest,
           UNCHANGED <<memory, status, serial_line, guest_consumed>>,
           at \in {"poll", "descriptor", "payload"}, at' \in {"poll", "descriptor", "payload"},
           at = "poll" \/ at' # "poll", at = "poll" \/ flow_at' = flow_at,
           flow_at' \in Flows, copy' \in Copies, GuestInv', at' # "poll" => guest_ready
    PROVE  GuestFrame /\ GuestKept
  <1>1. GuestFrame
    BY DEF GuestFrame
  <1>2. ITypeOK'
    <2>1. ITypeOK /\ at' \in Places
      BY DEF RunningState, Places
    <2>2. /\ memory' \in Memories /\ status' \in Statuses /\ serial_line' \in Seq(Prints)
          /\ guest_consumed' \in [Flows -> 0..Count]
      BY <2>1 DEF ITypeOK
    <2> QED BY <1>1, <2>1, <2>2, GuestTypes
  <1>3. FaultInv'
    BY <1>1, GuestKeepsFaults DEF RunningState, RunningInv, FaultInv
  <1>4. FreedByGuest' /\ ReleaseWords'
    BY <1>1, GuestKeepsFreed DEF RunningState, RunningInv
  <1>5. Printed' = Printed /\ next_consume' = next_consume
    BY <1>1, GuestLeaves DEF Printed
  <1>6. ReportsInTurn'
    <2>1. \A f \in Flows : ReportedTo(f)' = ReportedTo(f)
      BY DEF ReportedTo, NextOf
    <2> QED BY <1>1, <1>5, <2>1, SameReports DEF RunningState, RunningInv
  <1>7. LinesInv'
    <2>1. LinesInv
      BY DEF RunningState, RunningInv
    <2>2. UNCHANGED <<mode, fault_injected, guest_failure, guest_ready, guest_done>>
          /\ InjectedFailure' = InjectedFailure
      BY <1>1, GuestLeaves, SamePrints
    <2>3. BeforeReady /\ at' = "poll" => BeforeReady'
      BY <1>5 DEF BeforeReady
    <2>4. IF guest_ready
          THEN /\ at' \notin {"start", "announce"}
               /\ \A i \in DOMAIN Printed : Printed[i] # <<"READY">>
          ELSE BeforeReady'
      <3>1. CASE guest_ready
        BY <2>1, <3>1 DEF LinesInv
      <3>2. CASE ~guest_ready
        BY <2>1, <2>3, <3>2 DEF LinesInv
      <3> QED BY <3>1, <3>2
    <2>5. ~guest_done /\ \A i \in DOMAIN Printed : Printed[i] # LastWords
      BY <2>1 DEF LinesInv
    <2>6. /\ \A i \in DOMAIN Printed :
                Printed[i] = InjectedFailure => mode # "adversarial" /\ fault_injected
          /\ guest_failure # <<>> => mode # "adversarial" /\ fault_injected
      BY <2>1 DEF LinesInv
    <2> QED BY <1>5, <2>2, <2>4, <2>5, <2>6 DEF LinesInv, LastWords
  <1> QED BY <1>1, <1>2, <1>3, <1>4, <1>6, <1>7 DEF GuestKept

LEMMA ProvePoll ==
    ASSUME RunningState, UnchangedByGuest, GuestPoll
    PROVE  GuestFrame /\ GuestKept
  <1>1. /\ at = "poll" /\ UNCHANGED <<memory, status, serial_line, guest_consumed, copy>>
        /\ at' \in {"poll", "descriptor"}
    BY DEF GuestPoll, shared, Goto
  <1>2. ITypeOK /\ flow_at \in Flows /\ copy \in Copies /\ copy = EmptyCopy
    BY <1>1 DEF RunningState, RunningInv, ITypeOK, GuestInv
  <1>3. CASE guest_consumed[flow_at] # Count /\ memory.ready[flow_at][SlotAt] = GenerationAt
    <2>1. at' = "descriptor" /\ flow_at' = flow_at
      BY <1>3 DEF GuestPoll, Goto
    <2>2. guest_consumed[flow_at] < Count /\ SerialAt = NextOf(flow_at)
      BY <1>2, <1>3, NextTyped, FlowsAndCounts DEF SerialAt, NextOf
    <2>3. GenerationAt = ExpectedGeneration(flow_at, NextOf(flow_at)) /\ GenerationAt # 0
      BY <1>2, NextTyped, GenerationTyped DEF GenerationAt
    <2>4. Entitled(flow_at, NextOf(flow_at))
      BY <1>2, <1>3, <2>2, <2>3, MarkerEntitles DEF SlotAt
    <2>5. Entitled(flow_at, NextOf(flow_at))'
      <3>1. NextOf(flow_at)' = NextOf(flow_at) /\ GuestFrame
        BY <1>1, <2>1 DEF NextOf, GuestFrame
      <3> QED BY <2>1, <2>4, <3>1, GuestLeaves DEF Entitled, Writing
    <2>6. GuestInv'
      <3>1. SerialAt' = NextOf(flow_at)'
        BY DEF SerialAt, NextOf
      <3>2. copy'.field = <<>> /\ copy'.line = <<>>
        BY <1>1, <1>2 DEF EmptyCopy
      <3>3. at' = "descriptor" /\ guest_consumed'[flow_at'] < Count /\ Entitled(flow_at, SerialAt)'
        BY <1>1, <2>1, <2>2, <2>5, <3>1
      <3>4. DOMAIN copy'.field = {} /\ DOMAIN copy'.line = {}
        BY <3>2
      <3> QED BY <3>2, <3>3, <3>4 DEF GuestInv, Reading
    <2>7. guest_ready
      <3>1. SlotAt \in Slots
        BY <1>2, <2>2, NextTyped DEF SlotAt
      <3>2. ~(memory.ready = [f \in Flows |-> [k \in Slots |-> 0]])
        BY <1>2, <1>3, <2>3, <3>1
      <3> QED BY <3>2 DEF RunningState, RunningInv, LinesInv, BeforeReady
    <2> QED BY <1>1, <1>2, <2>1, <2>6, <2>7, ProveQuietStep
  <1>4. CASE ~(guest_consumed[flow_at] # Count /\ memory.ready[flow_at][SlotAt] = GenerationAt)
    <2>1. at' = "poll" /\ flow_at' = NextFlow
      BY <1>1, <1>4 DEF GuestPoll
    <2>2. flow_at' \in Flows
      BY <1>2, <2>1, NextFlowTyped
    <2>3. GuestInv'
      BY <1>1, <1>2, <2>1 DEF GuestInv, Reading, EmptyCopy
    <2> QED BY <1>1, <1>2, <2>1, <2>2, <2>3, ProveQuietStep
  <1> QED BY <1>3, <1>4

(* Where the guest reads, and what is there.                               *)
LEMMA ReadingState ==
    ASSUME RunningState, Reading
    PROVE  /\ flow_at \in Flows /\ guest_consumed[flow_at] < Count /\ guest_ready
           /\ SerialAt = NextOf(flow_at) /\ SlotAt \in Slots
           /\ SerialAt \in Serials /\ SerialAt \in Sent(flow_at) /\ SerialAt \in Nat
           /\ PayloadOf[flow_at][SerialAt] \in Payloads
           /\ Length[PayloadOf[flow_at][SerialAt]] \in 1..MaxPacketBytes
           /\ LineNumbers(Length[PayloadOf[flow_at][SerialAt]]) \subseteq HostLines
           /\ GenerationAt = ExpectedGeneration(flow_at, SerialAt)
           /\ DescriptorAt = Token(flow_at, SerialAt, ExpectedGeneration(flow_at, SerialAt))
           /\ \A d \in Fields : memory.field[flow_at][SlotAt][d]
                    = Descriptor(DescriptorAt, Length[PayloadOf[flow_at][SerialAt]])[d]
           /\ \A i \in LineNumbers(Length[PayloadOf[flow_at][SerialAt]]) :
                    IF Wrong(flow_at, i) THEN memory.line[flow_at][SlotAt][i] \in {Corrupt, Stale}
                    ELSE memory.line[flow_at][SlotAt][i] = <<PayloadOf[flow_at][SerialAt], i>>
           /\ mode # "adversarial" /\ flow_at = 0 => fault_injected /\ SerialAt = FirstSerial
  <1>1. IndInv /\ ITypeOK /\ TurnInvariant /\ BooksAgree /\ MemoryShown /\ FaultInv
    BY DEF RunningState, RunningInv
  <1>2. /\ guest_consumed[flow_at] < Count /\ Entitled(flow_at, SerialAt)
        /\ flow_at \in Flows /\ SerialAt = NextOf(flow_at)
    BY <1>1 DEF RunningState, RunningInv, GuestInv, ITypeOK, NextOf, SerialAt
  <1>3. guest_ready
    BY DEF Reading, RunningState, RunningInv, LinesInv, BeforeReady
  <1>4. /\ SlotAt \in Slots /\ SerialAt \in Serials /\ SerialAt \in Sent(flow_at)
        /\ GenerationAt = ExpectedGeneration(flow_at, SerialAt) /\ SlotAt = SlotOf(SerialAt)
    BY <1>1, <1>2, NextTyped DEF SlotAt, GenerationAt
  <1>5. DescriptorAt = Token(flow_at, SerialAt, ExpectedGeneration(flow_at, SerialAt))
    BY <1>4 DEF DescriptorAt
  <1>6. /\ SerialAt \in Nat
        /\ PayloadOf[flow_at][SerialAt] \in Payloads
        /\ Length[PayloadOf[flow_at][SerialAt]] \in 1..MaxPacketBytes
    BY <1>2, <1>4, SentTyped
  <1>7. LineNumbers(Length[PayloadOf[flow_at][SerialAt]]) \subseteq HostLines
    BY <1>6, LinesOfSize
  <1> QED BY <1>1, <1>2, <1>3, <1>4, <1>5, <1>6, <1>7, EntitledContent

LEMMA CopyTyped ==
    ASSUME ITypeOK
    PROVE  /\ copy = [field |-> copy.field, line |-> copy.line]
           /\ DOMAIN copy.field \subseteq Fields /\ DOMAIN copy.line \subseteq HostLines
           /\ copy.field \in [DOMAIN copy.field -> Int]
           /\ copy.line \in [DOMAIN copy.line -> LineValues \cup {Stale, Corrupt}]
  <1>1. copy \in Copies
    BY DEF ITypeOK
  <1>2. copy = [field |-> copy.field, line |-> copy.line] /\ copy.field \in FieldCopies /\ copy.line \in LineCopies
    BY <1>1 DEF Copies
  <1>3. PICK D \in SUBSET Fields : copy.field \in [D -> Int]
    BY <1>2 DEF FieldCopies
  <1>4. PICK E \in SUBSET HostLines : copy.line \in [E -> LineValues \cup {Stale, Corrupt}]
    BY <1>2 DEF LineCopies
  <1> QED BY <1>2, <1>3, <1>4

LEMMA CopiesMade ==
    ASSUME NEW D \in SUBSET Fields, NEW E \in SUBSET HostLines, NEW g \in [D -> Int],
           NEW h \in [E -> LineValues \cup {Stale, Corrupt}]
    PROVE  [field |-> g, line |-> h] \in Copies
  <1>1. g \in FieldCopies
    BY DEF FieldCopies
  <1>2. h \in LineCopies
    BY DEF LineCopies
  <1> QED BY <1>1, <1>2 DEF Copies

LEMMA ProveLoadField ==
    ASSUME RunningState, UnchangedByGuest, GuestLoadField
    PROVE  GuestFrame /\ GuestKept
  <1>1. /\ at = "descriptor" /\ at' = at /\ flow_at' = flow_at
        /\ UNCHANGED <<memory, status, serial_line, guest_consumed>>
    BY DEF GuestLoadField, shared
  <1>2. ITypeOK /\ Reading /\ GuestFrame
    BY <1>1 DEF RunningState, Reading, GuestFrame
  <1>3. /\ flow_at \in Flows /\ SlotAt \in Slots /\ guest_ready /\ guest_consumed[flow_at] < Count
        /\ Entitled(flow_at, SerialAt)
    BY <1>2, ReadingState DEF RunningState, RunningInv, GuestInv
  <1>4. PICK d \in Fields \ DOMAIN copy.field :
        copy' = [copy EXCEPT !.field = [k \in DOMAIN copy.field \cup {d} |->
                    IF k = d THEN memory.field[flow_at][SlotAt][d] ELSE copy.field[k]]]
    BY DEF GuestLoadField
  <1> DEFINE D == DOMAIN copy.field \cup {d}
             g == [k \in D |-> IF k = d THEN memory.field[flow_at][SlotAt][d] ELSE copy.field[k]]
  <1>5. copy' = [field |-> g, line |-> copy.line]
    BY <1>2, <1>4, CopyTyped
  <1>6. memory.field[flow_at][SlotAt][d] \in Int
    BY <1>2, <1>3, TypedMemory
  <1>7. D \in SUBSET Fields /\ g \in [D -> Int]
    BY <1>2, <1>6, CopyTyped
  <1>8. copy' \in Copies
    <2>1. DOMAIN copy.line \in SUBSET HostLines
          /\ copy.line \in [DOMAIN copy.line -> LineValues \cup {Stale, Corrupt}]
      BY <1>2, CopyTyped
    <2> HIDE DEF D, g
    <2> QED BY <1>5, <1>7, <2>1, CopiesMade
  <1>9. SlotAt' = SlotAt /\ SerialAt' = SerialAt
    BY <1>1 DEF SlotAt, SerialAt
  <1>10. Entitled(flow_at, SerialAt)'
    BY <1>1, <1>2, <1>3, <1>9, GuestLeaves DEF Entitled, Writing
  <1>11. GuestInv'
    <2>1. copy'.line = copy.line /\ copy.line = <<>>
      BY <1>1, <1>5 DEF RunningState, RunningInv, GuestInv
    <2>2. \A k \in DOMAIN copy'.field : copy'.field[k] = memory'.field[flow_at'][SlotAt'][k]
      <3>1. \A k \in DOMAIN copy.field : copy.field[k] = memory.field[flow_at][SlotAt][k]
        BY <1>2 DEF RunningState, RunningInv, GuestInv
      <3> QED BY <1>1, <1>5, <1>9, <3>1
    <2>3. guest_consumed'[flow_at'] < Count /\ at' = "descriptor"
      BY <1>1, <1>3
    <2>4. DOMAIN copy'.line = {}
      BY <2>1
    <2> QED BY <1>10, <2>1, <2>2, <2>3, <2>4 DEF GuestInv, Reading
  <1> QED BY <1>1, <1>3, <1>8, <1>11, ProveQuietStep

LEMMA ProveCheckDescriptor ==
    ASSUME RunningState, UnchangedByGuest, GuestCheckDescriptor
    PROVE  GuestFrame /\ GuestKept
  <1>1. at = "descriptor" /\ DOMAIN copy.field = Fields
        /\ UNCHANGED <<memory, status, flow_at, copy, guest_consumed>>
    BY DEF GuestCheckDescriptor
  <1>2. ITypeOK /\ Reading /\ GuestFrame
    BY <1>1 DEF RunningState, Reading, GuestFrame
  <1>3. \A d \in Fields : copy.field[d] = memory.field[flow_at][SlotAt][d]
    BY <1>1, <1>2 DEF RunningState, RunningInv, GuestInv
  <1>4. \A d \in Fields : ~WrongField(d)
    <2> SUFFICES ASSUME NEW d \in Fields PROVE ~WrongField(d)
      OBVIOUS
    <2> DEFINE n == Length[PayloadOf[flow_at][SerialAt]]
    <2>1. copy.field[d] = Descriptor(DescriptorAt, n)[d] /\ n \in 1..MaxPacketBytes
      BY <1>2, <1>3, ReadingState
    <2>2. d \in {"flow", "serial", "slot", "generation", "length"}
      BY WorldAssumption
    <2> HIDE DEF n
    <2>3. Descriptor(DescriptorAt, n)[d] = IF d = "length" THEN n ELSE DescriptorAt[d]
      <3>1. CASE d = "length"
        BY <3>1 DEF Descriptor
      <3>2. CASE d = "flow"
        BY <3>2 DEF Descriptor
      <3>3. CASE d = "serial"
        BY <3>3 DEF Descriptor
      <3>4. CASE d = "slot"
        BY <3>4 DEF Descriptor
      <3>5. CASE d = "generation"
        BY <3>5 DEF Descriptor
      <3> QED BY <2>2, <3>1, <3>2, <3>3, <3>4, <3>5
    <2> QED BY <2>1, <2>3 DEF WrongField
  <1>5. at' = "payload" /\ serial_line' = serial_line
    BY <1>4 DEF GuestCheckDescriptor, Goto
  <1>6. flow_at \in Flows /\ copy \in Copies /\ guest_ready /\ guest_consumed[flow_at] < Count
        /\ Entitled(flow_at, SerialAt) /\ copy.line = <<>>
    BY <1>1, <1>2, ReadingState DEF RunningState, RunningInv, GuestInv, ITypeOK
  <1>7. SlotAt' = SlotAt /\ SerialAt' = SerialAt
    BY <1>1 DEF SlotAt, SerialAt
  <1>8. Entitled(flow_at, SerialAt)'
    BY <1>1, <1>2, <1>6, <1>7, GuestLeaves DEF Entitled, Writing
  <1>9. GuestInv'
    <2>1. guest_consumed'[flow_at'] < Count /\ at' = "payload" /\ copy' = copy
      BY <1>1, <1>5, <1>6
    <2>2. DOMAIN copy.line = {}
      BY <1>6
    <2>3. \A d \in DOMAIN copy'.field : copy'.field[d] = memory'.field[flow_at'][SlotAt'][d]
      BY <1>1, <1>3, <1>7
    <2> QED BY <1>1, <1>8, <2>1, <2>2, <2>3 DEF GuestInv, Reading
  <1> QED BY <1>1, <1>5, <1>6, <1>9, ProveQuietStep

(* The length the guest has read is that of the packet.                    *)
LEMMA LengthRead ==
    ASSUME RunningState, at \in {"payload", "release"}
    PROVE  /\ Reading /\ DOMAIN copy.field = Fields
           /\ \A d \in Fields : copy.field[d] = Descriptor(DescriptorAt,
                    Length[PayloadOf[flow_at][SerialAt]])[d]
           /\ LinesAt = LineNumbers(Length[PayloadOf[flow_at][SerialAt]])
           /\ LinesAt \subseteq HostLines
  <1> DEFINE n == Length[PayloadOf[flow_at][SerialAt]]
  <1>1. Reading
    BY DEF Reading
  <1>2. DOMAIN copy.field = Fields
        /\ \A d \in Fields : copy.field[d] = memory.field[flow_at][SlotAt][d]
    BY <1>1 DEF RunningState, RunningInv, GuestInv
  <1>3. \A d \in Fields : copy.field[d] = Descriptor(DescriptorAt, n)[d]
    BY <1>1, <1>2, ReadingState
  <1>4. copy.field["length"] = n
    <2>1. copy.field["length"] = Descriptor(DescriptorAt, n)["length"] /\ "length" \in Fields
      BY <1>3, WorldAssumption
    <2> HIDE DEF n
    <2> QED BY <2>1 DEF Descriptor
  <1>5. LinesAt = LineNumbers(n) /\ LineNumbers(n) \subseteq HostLines
    BY <1>1, <1>4, ReadingState DEF LinesAt
  <1> QED BY <1>1, <1>2, <1>3, <1>5

LEMMA ProveLoadLine ==
    ASSUME RunningState, UnchangedByGuest, GuestLoadLine
    PROVE  GuestFrame /\ GuestKept
  <1>1. /\ at = "payload" /\ at' = at /\ flow_at' = flow_at
        /\ UNCHANGED <<memory, status, serial_line, guest_consumed>>
    BY DEF GuestLoadLine, shared
  <1>2. ITypeOK /\ Reading /\ GuestFrame
    BY <1>1 DEF RunningState, Reading, GuestFrame
  <1>3. /\ flow_at \in Flows /\ SlotAt \in Slots /\ guest_ready /\ guest_consumed[flow_at] < Count
        /\ Entitled(flow_at, SerialAt) /\ LinesAt \subseteq HostLines /\ DOMAIN copy.field = Fields
        /\ DOMAIN copy.line \subseteq LinesAt
    BY <1>1, <1>2, ReadingState, LengthRead DEF RunningState, RunningInv, GuestInv
  <1>4. PICK i \in LinesAt \ DOMAIN copy.line :
        copy' = [copy EXCEPT !.line = [k \in DOMAIN copy.line \cup {i} |->
                    IF k = i THEN memory.line[flow_at][SlotAt][i] ELSE copy.line[k]]]
    BY DEF GuestLoadLine
  <1> DEFINE E == DOMAIN copy.line \cup {i}
             h == [k \in E |-> IF k = i THEN memory.line[flow_at][SlotAt][i] ELSE copy.line[k]]
  <1>5. copy' = [field |-> copy.field, line |-> h]
    BY <1>2, <1>4, CopyTyped
  <1>6. memory.line[flow_at][SlotAt][i] \in LineValues \cup {Stale, Corrupt}
    <2>1. i \in HostLines
      BY <1>3
    <2> QED BY <1>2, <1>3, <2>1, TypedMemory
  <1>7. E \in SUBSET HostLines /\ h \in [E -> LineValues \cup {Stale, Corrupt}]
    BY <1>2, <1>3, <1>6, CopyTyped
  <1>8. copy' \in Copies
    <2>1. Fields \in SUBSET Fields /\ copy.field \in [Fields -> Int]
      BY <1>2, <1>3, CopyTyped
    <2> HIDE DEF E, h
    <2> QED BY <1>5, <1>7, <2>1, CopiesMade
  <1>9. SlotAt' = SlotAt /\ SerialAt' = SerialAt /\ copy'.field = copy.field /\ LinesAt' = LinesAt
    BY <1>1, <1>5 DEF SlotAt, SerialAt, LinesAt
  <1>10. Entitled(flow_at, SerialAt)'
    BY <1>1, <1>2, <1>3, <1>9, GuestLeaves DEF Entitled, Writing
  <1>11. GuestInv'
    <2>1. \A k \in DOMAIN copy'.line : copy'.line[k] = memory'.line[flow_at'][SlotAt'][k]
      <3>1. \A k \in DOMAIN copy.line : copy.line[k] = memory.line[flow_at][SlotAt][k]
        BY <1>2 DEF RunningState, RunningInv, GuestInv
      <3> QED BY <1>1, <1>5, <1>9, <3>1
    <2>2. \A k \in DOMAIN copy'.field : copy'.field[k] = memory'.field[flow_at'][SlotAt'][k]
      <3>1. \A k \in DOMAIN copy.field : copy.field[k] = memory.field[flow_at][SlotAt][k]
        BY <1>2 DEF RunningState, RunningInv, GuestInv
      <3> QED BY <1>1, <1>9, <3>1
    <2>3. guest_consumed'[flow_at'] < Count /\ at' = "payload"
      BY <1>1, <1>3
    <2>4. DOMAIN copy'.field = Fields
      BY <1>3, <1>9
    <2>5. DOMAIN copy'.line \subseteq LinesAt'
      BY <1>3, <1>5, <1>9
    <2> QED BY <1>10, <2>1, <2>2, <2>3, <2>4, <2>5 DEF GuestInv, Reading
  <1> QED BY <1>1, <1>3, <1>8, <1>11, ProveQuietStep

(* What the guest makes of the lines it has read.                          *)
LEMMA LinesRead ==
    ASSUME RunningState, at = "payload", DOMAIN copy.line = LinesAt
    PROVE  /\ WrongLines # {} =>
                /\ mode # "adversarial" /\ fault_injected
                /\ <<"FAIL", 2, flow_at, SerialAt, Min(WrongLines)>> = InjectedFailure
           /\ WrongLines = {} =>
                /\ copy = CopyOf(flow_at, SerialAt)
                /\ mode # "adversarial" => flow_at # 0
  <1> DEFINE p == PayloadOf[flow_at][SerialAt]
  <1>1. Reading /\ ITypeOK
    BY DEF Reading, RunningState
  <1>2. \A i \in LinesAt : copy.line[i] = memory.line[flow_at][SlotAt][i]
    BY <1>1 DEF RunningState, RunningInv, GuestInv
  <1>3. \A i \in LinesAt : IF Wrong(flow_at, i) THEN copy.line[i] \in {Corrupt, Stale}
                           ELSE copy.line[i] = <<p, i>>
    BY <1>1, <1>2, LengthRead, ReadingState
  <1>4. \A i \in LinesAt : <<p, i>> \in Payloads \X HostLines
    BY <1>1, LengthRead, ReadingState
  <1>5. \A i \in LinesAt : copy.line[i] # <<p, i>> <=> Wrong(flow_at, i)
    BY <1>3, <1>4, IntegrationAssumption
  <1>6. \A i \in WrongLines : Wrong(flow_at, i)
    BY <1>5 DEF WrongLines
  <1>7. ASSUME WrongLines # {}
        PROVE  /\ mode # "adversarial" /\ fault_injected
               /\ <<"FAIL", 2, flow_at, SerialAt, Min(WrongLines)>> = InjectedFailure
    <2>1. mode # "adversarial" /\ flow_at = 0
      BY <1>6, <1>7 DEF Wrong
    <2>2. fault_injected /\ SerialAt = FirstSerial
      BY <1>1, <2>1, ReadingState
    <2>3. WrongLines = {InjectedLine}
      BY <1>6, <1>7 DEF Wrong
    <2>4. InjectedLine \in Nat
      BY TargetLines DEF InjectedLine
    <2>5. Min(WrongLines) = InjectedLine
      BY <2>3, <2>4, OneLine
    <2> QED BY <2>1, <2>2, <2>5 DEF InjectedFailure
  <1>8. ASSUME WrongLines = {}
        PROVE  copy = CopyOf(flow_at, SerialAt) /\ (mode # "adversarial" => flow_at # 0)
    <2>1. \A i \in LinesAt : copy.line[i] = <<p, i>>
      BY <1>8 DEF WrongLines
    <2>2. copy.line = Lines(p)
      BY <1>1, <2>1, LengthRead, CopyTyped DEF Lines
    <2>3. copy.field = Descriptor(DescriptorAt, Length[p])
      <3> PICK g : g = Descriptor(DescriptorAt, Length[p])
        OBVIOUS
      <3>1. g = [d \in Fields |-> g[d]]
        <4>1. ExpectedGeneration(flow_at, SerialAt) \in Nat \ {0} /\ SerialAt \in Serials
              /\ flow_at \in Flows /\ Length[p] \in Nat
          BY <1>1, ReadingState, GenerationTyped, NextTyped, SentTyped
        <4>2. DescriptorAt \in Tokens
          BY <1>1, <4>1, ReadingState, TokenTyped
        <4> QED BY <4>1, <4>2, DescriptorTyped
      <3>2. copy.field = [d \in Fields |-> copy.field[d]]
        BY <1>1, LengthRead, CopyTyped
      <3>3. \A d \in Fields : copy.field[d] = g[d]
        BY LengthRead
      <3> HIDE DEF p
      <3> QED BY <3>1, <3>2, <3>3
    <2>4. copy = CopyOf(flow_at, SerialAt)
      BY <1>1, <2>2, <2>3, CopyTyped, ReadingState DEF CopyOf
    <2>5. ASSUME mode # "adversarial", flow_at = 0 PROVE FALSE
      <3>1. SerialAt = FirstSerial
        BY <1>1, <2>5, ReadingState
      <3>2. InjectedLine \in LinesAt
        BY <2>5, <3>1, LengthRead, TargetLines DEF InjectedLine
      <3> QED BY <1>5, <2>1, <2>5, <3>2 DEF Wrong
    <2> QED BY <2>4, <2>5
  <1> QED BY <1>7, <1>8

(* A line more, with the guest ready.                                      *)
LEMMA LinesInvMore ==
    ASSUME RunningState, GuestFrame, guest_ready, NEW line \in Prints, line # <<"READY">>,
           serial_line' = Append(serial_line, line),
           at \notin {"done", "parked"}, at' \notin {"start", "announce"},
           line = InjectedFailure => mode # "adversarial" /\ fault_injected,
           line = LastWords => at' = "done" /\ AllConsumed, guest_consumed' = guest_consumed
    PROVE  LinesInv'
  <1>1. ITypeOK /\ LinesInv
    BY DEF RunningState, RunningInv
  <1>2. UNCHANGED <<mode, input, fault_injected, guest_failure, guest_ready, guest_done>>
        /\ InjectedFailure' = InjectedFailure /\ LastWords' = LastWords
    BY GuestLeaves, SamePrints
  <1>3. /\ Len(Printed') = Len(Printed) + 1 /\ Printed'[Len(Printed')] = line
        /\ DOMAIN Printed' = DOMAIN Printed \cup {Len(Printed) + 1}
        /\ DOMAIN Printed = 1..Len(Printed) /\ Len(Printed) \in Nat
        /\ \A i \in DOMAIN Printed : Printed'[i] = Printed[i]
    BY <1>1, <1>2, AppendPrinted
  <1>4. ~guest_done /\ \A i \in DOMAIN Printed : Printed[i] # LastWords /\ Printed[i] # <<"READY">>
    BY <1>1 DEF LinesInv
  <1>5. /\ \A i \in DOMAIN Printed :
                Printed[i] = InjectedFailure => mode # "adversarial" /\ fault_injected
        /\ guest_failure # <<>> => mode # "adversarial" /\ fault_injected
    BY <1>1 DEF LinesInv
  <1>6. AllConsumed' <=> AllConsumed
    BY DEF AllConsumed
  <1>7. ASSUME NEW i \in DOMAIN Printed'
        PROVE  /\ Printed'[i] # <<"READY">>
               /\ Printed'[i] = InjectedFailure => mode # "adversarial" /\ fault_injected
               /\ Printed'[i] = LastWords => i = Len(Printed') /\ at' \in {"done", "parked"} /\ AllConsumed'
    <2>1. CASE i \in DOMAIN Printed
      BY <1>3, <1>4, <1>5, <2>1
    <2>2. CASE i = Len(Printed')
      BY <1>3, <1>6, <2>2
    <2> QED BY <1>3, <2>1, <2>2
  <1> QED BY <1>2, <1>4, <1>5, <1>7 DEF LinesInv

LEMMA ProveCheckPayload ==
    ASSUME RunningState, UnchangedByGuest, GuestCheckPayload
    PROVE  GuestFrame /\ GuestKept
  <1>1. at = "payload" /\ DOMAIN copy.line = LinesAt
        /\ UNCHANGED <<memory, status, flow_at, copy, guest_consumed>>
    BY DEF GuestCheckPayload
  <1>2. ITypeOK /\ IndInv /\ Reading /\ GuestFrame
    BY <1>1 DEF RunningState, Reading, GuestFrame
  <1>3. flow_at \in Flows /\ copy \in Copies /\ guest_ready /\ guest_consumed[flow_at] < Count
        /\ Entitled(flow_at, SerialAt) /\ SerialAt = NextOf(flow_at) /\ SerialAt \in Serials
        /\ DOMAIN copy.field = Fields
    BY <1>1, <1>2, ReadingState, LengthRead DEF RunningState, RunningInv, GuestInv, ITypeOK
  <1>4. PICK line \in Prints :
        /\ serial_line' = Append(serial_line, line) /\ line # <<"READY">> /\ line # LastWords
        /\ line = InjectedFailure => mode # "adversarial" /\ fault_injected
        /\ \/ line = InjectedFailure /\ at' = "fail payload"
           \/ /\ line = <<"PACKET", flow_at, CopyOf(flow_at, SerialAt)>> /\ at' = "release"
              /\ mode # "adversarial" => flow_at # 0
    <2>1. CASE WrongLines # {}
      <3>1. serial_line' = Append(serial_line, <<"FAIL", 2, flow_at, SerialAt, Min(WrongLines)>>)
            /\ at' = "fail payload"
        BY <2>1 DEF GuestCheckPayload, Goto, Says
      <3>2. InjectedFailure \in Prints /\ InjectedFailure # LastWords /\ InjectedFailure # <<"READY">>
        BY DEF Prints, InjectedFailure, LastWords
      <3> QED BY <1>1, <2>1, <3>1, <3>2, LinesRead
    <2>2. CASE WrongLines = {}
      <3> DEFINE line == <<"PACKET", flow_at, copy>>
      <3>1. serial_line' = Append(serial_line, line) /\ at' = "release"
        BY <2>2 DEF GuestCheckPayload, Goto, Says
      <3>2. line \in Prints /\ line # LastWords /\ line # <<"READY">> /\ line # InjectedFailure
        BY <1>3 DEF Prints, InjectedFailure, LastWords
      <3>3. copy = CopyOf(flow_at, SerialAt) /\ (mode # "adversarial" => flow_at # 0)
        BY <1>1, <2>2, LinesRead
      <3> QED BY <3>1, <3>2, <3>3
    <2> QED BY <2>1, <2>2
  <1>5. ITypeOK'
    <2>1. at' \in Places /\ serial_line' \in Seq(Prints)
      BY <1>2, <1>4, GuestLeaves, AppendPrinted DEF Places
    <2>2. /\ memory' \in Memories /\ status' \in Statuses /\ flow_at' \in Flows
          /\ copy' \in Copies /\ guest_consumed' \in [Flows -> 0..Count]
      BY <1>1, <1>2 DEF ITypeOK
    <2> QED BY <1>2, <2>1, <2>2, GuestTypes
  <1>6. FaultInv'
    <2>1. mode # "adversarial" => guest_consumed'[0] = 0 /\ (at' = "release" => flow_at' # 0)
      BY <1>1, <1>4 DEF RunningState, RunningInv, FaultInv
    <2> QED BY <1>2, <2>1, GuestKeepsFaults DEF RunningState, RunningInv
  <1>7. FreedByGuest' /\ ReleaseWords'
    BY <1>1, <1>2, GuestKeepsFreed DEF RunningState, RunningInv
  <1>8. SlotAt' = SlotAt /\ SerialAt' = SerialAt /\ LinesAt' = LinesAt
    BY <1>1 DEF SlotAt, SerialAt, LinesAt
  <1>9. Entitled(flow_at, SerialAt)'
    BY <1>1, <1>2, <1>3, <1>8, GuestLeaves DEF Entitled, Writing
  <1>10. GuestInv'
    <2>1. /\ \A d \in DOMAIN copy.field : copy.field[d] = memory.field[flow_at][SlotAt][d]
          /\ \A i \in DOMAIN copy.line : copy.line[i] = memory.line[flow_at][SlotAt][i]
      BY <1>2 DEF RunningState, RunningInv, GuestInv
    <2>2. at' \in {"fail payload", "release"}
      BY <1>4
    <2> QED BY <1>1, <1>3, <1>8, <1>9, <2>1, <2>2 DEF GuestInv, Reading
  <1>11. ReportsInTurn'
    <2>1. \A f \in Flows : /\ ReportedTo(f) = NextOf(f)
                           /\ ReportedTo(f)' = NextOf(f) + (IF at' = "release" /\ flow_at = f THEN 1 ELSE 0)
      BY <1>1, <1>2, ReportedTyped DEF ReportedTo, NextOf
    <2>2. \A f \in Flows : NextOf(f) \in Nat
      BY <1>2, NextTyped
    <2>3. input' = input /\ next_consume' = next_consume /\ ReportsInTurn
      BY <1>2, GuestLeaves DEF RunningState, RunningInv
    <2>4. CASE line = InjectedFailure /\ at' = "fail payload"
      <3>1. line[1] # "PACKET"
        BY <2>4 DEF InjectedFailure
      <3>2. \A f \in Flows : ReportedTo(f)' = ReportedTo(f)
        <4> SUFFICES ASSUME NEW f \in Flows PROVE ReportedTo(f)' = ReportedTo(f)
          OBVIOUS
        <4>1. at' # "release"
          BY <2>4
        <4> QED BY <2>1, <2>2, <4>1
      <3> QED BY <1>2, <1>4, <2>3, <3>1, <3>2, OtherLine
    <2>5. CASE line = <<"PACKET", flow_at, CopyOf(flow_at, SerialAt)>> /\ at' = "release"
      <3>1. ReportedTo(flow_at)' = ReportedTo(flow_at) + 1 /\ ReportedTo(flow_at) = SerialAt
        <4> PICK g \in Flows : g = flow_at /\ g = flow_at'
          BY <1>1, <1>3
        <4>1. ReportedTo(g)' = NextOf(g) + 1 /\ ReportedTo(g) = NextOf(g)
          BY <2>1, <2>5
        <4> QED BY <1>3, <4>1
      <3>2. \A f \in Flows \ {flow_at} : ReportedTo(f)' = ReportedTo(f)
        BY <2>1, <2>2, <2>5
      <3>3. PICK g \in Flows : g = flow_at
        BY <1>3
      <3>4. /\ line = <<"PACKET", g, CopyOf(g, ReportedTo(g))>> /\ ReportedTo(g) \in Serials
            /\ ReportedTo(g)' = ReportedTo(g) + 1
        BY <1>1, <1>3, <2>1, <2>2, <2>5, <3>1, <3>3
      <3>5. \A f \in Flows \ {g} : ReportedTo(f)' = ReportedTo(f)
        BY <3>2, <3>3
      <3> QED BY <1>2, <1>4, <2>3, <3>4, <3>5, NewReport
    <2> QED BY <1>4, <2>4, <2>5
  <1>12. LinesInv'
    BY <1>1, <1>2, <1>3, <1>4, LinesInvMore
  <1> QED BY <1>2, <1>5, <1>6, <1>7, <1>10, <1>11, <1>12 DEF GuestKept

LEMMA ProveDone ==
    ASSUME RunningState, UnchangedByGuest, GuestDone
    PROVE  GuestFrame /\ GuestKept
  <1>1. at = "poll" /\ AllConsumed /\ at' = "done" /\ serial_line' = Append(serial_line, LastWords)
        /\ UNCHANGED <<memory, status, flow_at, copy, guest_consumed>>
    BY DEF GuestDone, Says, Goto, LastWords
  <1>2. ITypeOK /\ IndInv /\ GuestFrame
    BY <1>1 DEF RunningState, GuestFrame
  <1>3. LastWords \in Prints /\ LastWords[1] # "PACKET" /\ LastWords # <<"READY">> /\ LastWords # InjectedFailure
    BY DEF Prints, LastWords, InjectedFailure
  <1>4. guest_ready
    <2>1. guest_consumed[0] # 0
      BY <1>1, FlowsAndCounts DEF AllConsumed
    <2> QED BY <2>1, FlowsAndCounts DEF RunningState, RunningInv, LinesInv, BeforeReady
  <1>5. ITypeOK'
    <2>1. at' \in Places /\ serial_line' \in Seq(Prints)
      BY <1>1, <1>2, <1>3, GuestLeaves, AppendPrinted DEF Places
    <2>2. /\ memory' \in Memories /\ status' \in Statuses /\ flow_at' \in Flows
          /\ copy' \in Copies /\ guest_consumed' \in [Flows -> 0..Count]
      BY <1>1, <1>2 DEF ITypeOK
    <2> QED BY <1>2, <2>1, <2>2, GuestTypes
  <1>6. FaultInv'
    BY <1>1, <1>2, GuestKeepsFaults DEF RunningState, RunningInv, FaultInv
  <1>7. FreedByGuest' /\ ReleaseWords'
    BY <1>1, <1>2, GuestKeepsFreed DEF RunningState, RunningInv
  <1>8. GuestInv'
    BY <1>1 DEF GuestInv, Reading
  <1>9. ReportsInTurn'
    <2>1. \A f \in Flows : ReportedTo(f)' = ReportedTo(f)
      BY <1>1 DEF ReportedTo, NextOf
    <2>2. input' = input /\ next_consume' = next_consume /\ ReportsInTurn
      BY <1>2, GuestLeaves DEF RunningState, RunningInv
    <2> QED BY <1>1, <1>2, <1>3, <2>1, <2>2, OtherLine
  <1>10. LinesInv'
    BY <1>1, <1>2, <1>3, <1>4, LinesInvMore
  <1> QED BY <1>2, <1>5, <1>6, <1>7, <1>8, <1>9, <1>10 DEF GuestKept

LEMMA ProvePark ==
    ASSUME RunningState, UnchangedByGuest, GuestPark
    PROVE  GuestFrame /\ GuestKept
  <1>1. at \in {"done", "fail descriptor", "fail payload"} /\ at' = "parked" /\ status' = FinalStatus
        /\ UNCHANGED <<memory, serial_line, flow_at, copy, guest_consumed>>
    BY DEF GuestPark, Goto
  <1>2. ITypeOK /\ LinesInv /\ GuestFrame
    BY <1>1 DEF RunningState, RunningInv, GuestFrame
  <1>3. at \in {"done", "fail payload"}
    BY <1>1, <1>2 DEF ITypeOK, Places
  <1>4. status' \in Statuses
    BY <1>1, <1>3 DEF FinalStatus, Statuses
  <1>5. ITypeOK'
    <2>1. at' \in Places
      BY <1>1 DEF Places
    <2>2. /\ memory' \in Memories /\ serial_line' \in Seq(Prints) /\ flow_at' \in Flows
          /\ copy' \in Copies /\ guest_consumed' \in [Flows -> 0..Count]
      BY <1>1, <1>2, GuestLeaves, SamePrints DEF ITypeOK
    <2> QED BY <1>2, <1>4, <2>1, <2>2, GuestTypes
  <1>6. FaultInv'
    BY <1>1, <1>2, GuestKeepsFaults DEF RunningState, RunningInv, FaultInv
  <1>7. FreedByGuest' /\ ReleaseWords'
    BY <1>1, <1>2, GuestKeepsFreed DEF RunningState, RunningInv
  <1>8. GuestInv'
    BY <1>1 DEF GuestInv, Reading
  <1>9. Printed' = Printed /\ next_consume' = next_consume
    BY <1>1, <1>2, GuestLeaves DEF Printed
  <1>10. ReportsInTurn'
    <2>1. \A f \in Flows : ReportedTo(f)' = ReportedTo(f)
      BY <1>1, <1>3 DEF ReportedTo, NextOf
    <2> QED BY <1>9, <2>1, SameReports DEF RunningState, RunningInv
  <1>11. LinesInv'
    <2>1. UNCHANGED <<mode, fault_injected, guest_failure, guest_ready, guest_done>>
          /\ InjectedFailure' = InjectedFailure /\ LastWords' = LastWords
      BY <1>2, GuestLeaves, SamePrints
    <2>2. guest_ready
      BY <1>2, <1>3 DEF LinesInv, BeforeReady
    <2>3. AllConsumed' <=> AllConsumed
      BY <1>1 DEF AllConsumed
    <2> QED BY <1>1, <1>2, <1>3, <1>9, <2>1, <2>2, <2>3 DEF LinesInv
  <1> QED BY <1>2, <1>5, <1>6, <1>7, <1>8, <1>10, <1>11 DEF GuestKept

(* What may be read and is not planted is below the first unpublished.     *)
LEMMA EntitledShown ==
    ASSUME RunningState, NEW f \in Flows, NEW s \in Serials, Entitled(f, s),
           mode = "early-ready" => f # 0
    PROVE  s < ShownTo(f)
  <1>1. IndInv /\ TurnInvariant /\ s \in Nat /\ next_publish[f] \in Nat
    BY NowTyped, SerialsAreNat DEF RunningState, RunningInv
  <1>2. ShownTo(f) \in Nat /\ ShownTo(f) >= next_publish[f]
        /\ (Writing("ready", f, SlotOf(s)) => ShownTo(f) = next_publish[f] + 1)
    BY <1>1 DEF ShownTo, Writing
  <1>3. CASE phase[f][s] \in Published
    <2>1. s < next_publish[f]
      BY <1>1, <1>3, NowTyped DEF IndInv, PhaseAmongCursors, Published
    <2> QED BY <1>1, <1>2, <2>1
  <1>4. CASE Writing("ready", f, SlotOf(s)) /\ writing.token.serial = s
    <2>1. writing \in pending /\ writing.kind = "ready" /\ writing.token.flow = f
      BY <1>1, <1>4 DEF Writing, TurnInvariant
    <2>2. s = next_publish[f]
      BY <1>1, <1>4, <2>1, OwnerOf
    <2> QED BY <1>1, <1>2, <1>4, <2>2
  <1> QED BY <1>3, <1>4 DEF Entitled

LEMMA ProveGuestRelease ==
    ASSUME RunningState, UnchangedByGuest, GuestRelease
    PROVE  GuestFrame /\ GuestKept
  <1>1. /\ at = "release" /\ at' = "poll" /\ flow_at' = NextFlow /\ copy' = EmptyCopy
        /\ memory' = [memory EXCEPT !.release[flow_at][SlotAt] = GenerationAt]
        /\ guest_consumed' = [guest_consumed EXCEPT ![flow_at] = @ + 1]
        /\ UNCHANGED <<status, serial_line>>
    BY DEF GuestRelease, Goto
  <1>2. ITypeOK /\ IndInv /\ Reading
    BY <1>1 DEF RunningState, Reading
  <1>3. /\ flow_at \in Flows /\ guest_ready /\ guest_consumed[flow_at] < Count
        /\ Entitled(flow_at, SerialAt) /\ SerialAt = NextOf(flow_at) /\ SerialAt \in Serials
        /\ SlotAt \in Slots /\ SlotAt = SlotOf(NextOf(flow_at))
        /\ GenerationAt = guest_consumed[flow_at] \div Window + 1 /\ GenerationAt \in Nat
    BY <1>2, ReadingState, NextTyped, GenerationTyped
       DEF RunningState, RunningInv, GuestInv, SlotAt, GenerationAt
  <1>4. /\ memory' \in Memories
        /\ memory'.line = memory.line /\ memory'.field = memory.field /\ memory'.ready = memory.ready
        /\ memory'.release = [memory.release EXCEPT ![flow_at][SlotAt] = GenerationAt]
    <2>1. memory \in Memories
      BY <1>2 DEF ITypeOK
    <2>2. /\ memory'.line = memory.line /\ memory'.field = memory.field /\ memory'.ready = memory.ready
          /\ memory'.release = [memory.release EXCEPT ![flow_at][SlotAt] = GenerationAt]
      BY <1>1, <2>1 DEF Memories
    <2>3. memory'.release \in [Flows -> [Slots -> Nat]]
      BY <1>2, <1>3, <2>2, TypedMemory
    <2>4. memory' = [line |-> memory.line, field |-> memory.field, ready |-> memory.ready,
                     release |-> memory'.release]
      BY <1>1, <2>1 DEF Memories
    <2> QED BY <1>2, <2>2, <2>3, <2>4, TypedMemory DEF Memories
  <1>5. GuestFrame
    BY <1>4 DEF GuestFrame
  <1>6. guest_consumed \in [Flows -> 0..Count] /\ guest_consumed' \in [Flows -> 0..Count]
    <2>1. guest_consumed \in [Flows -> 0..Count]
      BY <1>2 DEF ITypeOK
    <2>2. guest_consumed[flow_at] + 1 \in 0..Count
      BY <1>3, <2>1, FlowsAndCounts
    <2> QED BY <1>1, <1>3, <2>1, <2>2
  <1>7. ITypeOK'
    <2>1. EmptyCopy \in Copies
      <3>1. <<>> \in [{} -> Int] /\ <<>> \in [{} -> LineValues \cup {Stale, Corrupt}]
        OBVIOUS
      <3>2. {} \in SUBSET Fields /\ {} \in SUBSET HostLines
        OBVIOUS
      <3> QED BY <3>1, <3>2, CopiesMade DEF EmptyCopy
    <2>2. at' \in Places /\ flow_at' \in Flows /\ copy' \in Copies
      BY <1>1, <1>3, <2>1, NextFlowTyped DEF Places
    <2>3. status' \in Statuses /\ serial_line' \in Seq(Prints)
      BY <1>1, <1>2 DEF ITypeOK
    <2> QED BY <1>2, <1>4, <1>5, <1>6, <2>2, <2>3, GuestTypes
  <1>8. mode # "adversarial" => flow_at # 0 /\ guest_consumed[0] = 0
    BY <1>1 DEF RunningState, RunningInv, FaultInv
  <1>9. FaultInv'
    <2>1. mode # "adversarial" => guest_consumed'[0] = 0 /\ (at' = "release" => flow_at' # 0)
      BY <1>1, <1>6, <1>8, FlowsAndCounts
    <2> QED BY <1>5, <2>1, GuestKeepsFaults DEF RunningState, RunningInv
  <1>10. ASSUME NEW f \in Flows
         PROVE  /\ NextOf(f) \in Nat /\ NextOf(f)' \in Nat
                /\ NextOf(f)' = IF f = flow_at THEN NextOf(f) + 1 ELSE NextOf(f)
    <2>1. NextOf(f) \in Nat /\ guest_consumed[f] \in Nat /\ InitialSerial[f] \in Nat
      BY <1>2, NextTyped, FlowsAndCounts
    <2>2. guest_consumed'[f] = IF f = flow_at THEN guest_consumed[f] + 1 ELSE guest_consumed[f]
      BY <1>1, <1>6
    <2> QED BY <2>1, <2>2 DEF NextOf
  <1>11. FreedByGuest'
    <2>1. UNCHANGED <<base, released, next_publish, writing>> /\ \A f \in Flows : ShownTo(f)' = ShownTo(f)
      BY <1>5, GuestLeaves DEF ShownTo
    <2>2. ASSUME NEW f \in Flows
          PROVE  /\ NextOf(f)' <= ShownTo(f) /\ base[f] <= NextOf(f)'
                 /\ \A s \in released[f] : s < NextOf(f)'
      <3>1. NextOf(f) <= ShownTo(f) /\ base[f] <= NextOf(f) /\ \A s \in released[f] : s < NextOf(f)
        BY DEF RunningState, RunningInv, FreedByGuest
      <3>2. base[f] \in Nat /\ next_publish[f] \in Nat /\ ShownTo(f) \in Nat
        BY <1>2, NowTyped DEF ShownTo
      <3>3. \A s \in released[f] : s \in Nat
        BY <1>2, NowTyped, SerialsAreNat DEF TypeOK
      <3>4. f = flow_at => NextOf(f) < ShownTo(f)
        BY <1>3, <1>8, EntitledShown
      <3> QED BY <1>10, <3>1, <3>2, <3>3, <3>4
    <2> QED BY <2>1, <2>2 DEF FreedByGuest
  <1>12. ReleaseWords'
    <2> SUFFICES ASSUME NEW f \in Flows, NEW k \in Slots, memory'.release[f][k] # 0
                 PROVE  \E n \in 0..(guest_consumed'[f] - 1) :
                            /\ SlotOf(InitialSerial[f] + n) = k
                            /\ memory'.release[f][k] = n \div Window + 1
      BY DEF ReleaseWords
    <2>1. guest_consumed[f] \in Nat
          /\ guest_consumed'[f] = IF f = flow_at THEN guest_consumed[f] + 1 ELSE guest_consumed[f]
      BY <1>1, <1>2, <1>6, NextTyped
    <2>2. CASE f = flow_at /\ k = SlotAt
      <3> DEFINE n == guest_consumed[f]
      <3>1. n \in 0..(guest_consumed'[f] - 1) /\ SlotOf(InitialSerial[f] + n) = k
        BY <1>3, <2>1, <2>2 DEF NextOf
      <3>2. memory'.release[f][k] = n \div Window + 1
        BY <1>2, <1>3, <1>4, <2>2, TypedMemory
      <3> QED BY <3>1, <3>2
    <2>3. CASE ~(f = flow_at /\ k = SlotAt)
      <3>1. memory'.release[f][k] = memory.release[f][k]
        BY <1>2, <1>3, <1>4, <2>3, TypedMemory
      <3>2. PICK n \in 0..(guest_consumed[f] - 1) :
                SlotOf(InitialSerial[f] + n) = k /\ memory.release[f][k] = n \div Window + 1
        BY <3>1 DEF RunningState, RunningInv, ReleaseWords
      <3>3. n \in 0..(guest_consumed'[f] - 1)
        BY <2>1
      <3> QED BY <3>1, <3>2, <3>3
    <2> QED BY <2>2, <2>3
  <1>13. GuestInv'
    BY <1>1 DEF GuestInv, Reading
  <1>14. Printed' = Printed /\ next_consume' = next_consume
    BY <1>1, <1>5, GuestLeaves DEF Printed
  <1>15. ReportsInTurn'
    <2>1. ASSUME NEW f \in Flows PROVE ReportedTo(f)' = ReportedTo(f)
      <3>1. ReportedTo(f)' = NextOf(f)'
        BY <1>1, <1>10 DEF ReportedTo
      <3> QED BY <1>1, <1>2, <1>10, <3>1, ReportedTyped
    <2> QED BY <1>14, <2>1, SameReports DEF RunningState, RunningInv
  <1>16. LinesInv'
    <2>1. UNCHANGED <<mode, fault_injected, guest_failure, guest_ready, guest_done>>
          /\ InjectedFailure' = InjectedFailure /\ LastWords' = LastWords
      BY <1>5, GuestLeaves, SamePrints
    <2>2. LinesInv
      BY DEF RunningState, RunningInv
    <2> QED BY <1>1, <1>3, <1>14, <2>1, <2>2 DEF LinesInv
  <1> QED BY <1>5, <1>7, <1>9, <1>11, <1>12, <1>13, <1>15, <1>16 DEF GuestKept

LEMMA GuestSteps ==
    ASSUME RunningState, Guest
    PROVE  GuestFrame /\ GuestKept
  <1>1. UnchangedByGuest
    BY DEF Guest
  <1> QED BY <1>1, ProveStart, ProveAnnounce, ProvePoll, ProveLoadField, ProveCheckDescriptor,
       ProveLoadLine, ProveCheckPayload, ProveGuestRelease, ProveDone, ProvePark DEF Guest

LEMMA ProveGuest ==
    ASSUME RunningState, Running, NeverRaises, Guest
    PROVE  IntegrationInv'
  <1>2. GuestFrame /\ GuestKept
    BY GuestSteps
  <1>3. outcome' = outcome
    BY <1>2, GuestLeaves
  <1> QED BY <1>2, <1>3, ProveGuestKept DEF IntegrationInv, NeverRaises, Running
--------------------------------------------------------------------------------
(* The steps of the driver.                                                *)

LEMMA DriverLeaves ==
    ASSUME UnchangedByDriver
    PROVE  /\ UNCHANGED <<mode, post_push, at, flow_at, copy, guest_consumed>>
           /\ SerialAt' = SerialAt /\ SlotAt' = SlotAt /\ LinesAt' = LinesAt
           /\ (AllConsumed' <=> AllConsumed) /\ (Reading' <=> Reading)
           /\ Prints' = Prints /\ InjectedFailure' = InjectedFailure /\ LastWords' = LastWords
           /\ \A f \in Flows : NextOf(f)' = NextOf(f) /\ ReportedTo(f)' = ReportedTo(f)
  <1>1. UNCHANGED <<mode, post_push, at, flow_at, copy, guest_consumed>>
    BY DEF UnchangedByDriver, guest
  <1>2. SerialAt' = SerialAt
    BY <1>1 DEF SerialAt
  <1>3. SlotAt' = SlotAt
    BY <1>2 DEF SlotAt
  <1>4. LinesAt' = LinesAt
    BY <1>1 DEF LinesAt
  <1>5. (AllConsumed' <=> AllConsumed) /\ (Reading' <=> Reading)
    BY <1>1 DEF AllConsumed, Reading
  <1>6. \A f \in Flows : NextOf(f)' = NextOf(f)
    BY <1>1 DEF NextOf
  <1>7. \A f \in Flows : ReportedTo(f)' = ReportedTo(f)
    BY <1>1 DEF ReportedTo, NextOf
  <1> QED BY <1>1, <1>2, <1>3, <1>4, <1>5, <1>6, <1>7, SamePrints

LEMMA ClassLeaves ==
    ASSUME UNCHANGED vars
    PROVE  UNCHANGED <<base, next_issue, next_publish, next_consume, released, generations,
                       phase, payload, generation, data_writes, pending, host_data,
                       host_descriptor, host_ready, halted, pumping>>
  BY DEF vars, cursors, packets, host, loop

(* What follows when the class, the memory and the books stay.             *)
LEMMA QuietDriver ==
    ASSUME RunningState, UnchangedByDriver,
           UNCHANGED <<vars, memory, writing, remaining, bases, freed, consumed, fault_injected,
                       held_progress>>
    PROVE  /\ IndInv' /\ BooksAgree' /\ MemoryShown' /\ FaultInv' /\ FreedByGuest'
           /\ ReleaseWords' /\ GuestInv'
  <1>1. IndInv' /\ UNCHANGED <<base, next_issue, next_publish, next_consume, released, generations,
                       phase, payload, generation, data_writes, pending, host_data,
                       host_descriptor, host_ready, halted, pumping>>
    BY ClassLeaves, StepInv DEF RunningState
  <1>2. UNCHANGED <<mode, post_push, at, flow_at, copy, guest_consumed>>
    BY DriverLeaves
  <1>3. BooksAgree'
    BY <1>1 DEF RunningState, RunningInv, BooksAgree
  <1>4. MemoryShown'
    BY <1>1, <1>2 DEF RunningState, RunningInv, MemoryShown, LineShown, FieldShown, ReadyShown,
       Writing, AtTarget
  <1>5. FaultInv'
    BY <1>1, <1>2 DEF RunningState, RunningInv, FaultInv, TargetHeld, TargetComing, TargetPhase,
       TargetWrite, IsTarget, IsLastLine, TokenOf
  <1>6. FreedByGuest'
    BY <1>1, <1>2 DEF RunningState, RunningInv, FreedByGuest, NextOf, ShownTo
  <1>7. ReleaseWords'
    BY <1>2 DEF RunningState, RunningInv, ReleaseWords
  <1>8. GuestInv'
    <2>1. Entitled(flow_at, SerialAt)' <=> Entitled(flow_at, SerialAt)
      BY <1>1, <1>2, DriverLeaves DEF Entitled, Writing
    <2> QED BY <1>2, <2>1, DriverLeaves DEF RunningState, RunningInv, GuestInv
  <1> QED BY <1>1, <1>3, <1>4, <1>5, <1>6, <1>7, <1>8

LEMMA SameLines ==
    ASSUME RunningState, UnchangedByDriver, Printed' = Printed,
           UNCHANGED <<memory, status, guest_ready, guest_done, guest_failure>>,
           fault_injected => fault_injected'
    PROVE  LinesInv'
  <1>1. LinesInv
    BY DEF RunningState, RunningInv
  <1>2. BeforeReady => BeforeReady'
    BY DriverLeaves DEF BeforeReady
  <1>3. IF guest_ready
        THEN at' \notin {"start", "announce"} /\ \A i \in DOMAIN Printed : Printed[i] # <<"READY">>
        ELSE BeforeReady'
    BY <1>1, <1>2, DriverLeaves DEF LinesInv
  <1> QED BY <1>1, <1>3, DriverLeaves DEF LinesInv

(* The driver goes on in its loop.                                         *)
Moves ==
    /\ UnchangedByDriver
    /\ UNCHANGED <<vars, memory, status, writing, remaining, bases, freed, consumed, holding, flags>>
    /\ outcome' = outcome /\ Printed' = Printed

LEMMA ProveMove ==
    ASSUME RunningState, Running, Moves,
           input' \in Seq(Prints), serial_line' \in Seq(Prints), unread' \in Seq(Tokens),
           turn' \in {"poll", "lines", "release", "feed", "pump", "withdraw", "write",
                      "complete", "inject", "finish"},
           TurnInvariant', HoldingInv'
    PROVE  IntegrationInv'
  <1>1. UNCHANGED <<guest_ready, guest_done, guest_failure, fault_injected, held_progress>>
    BY DEF Moves, flags
  <1>2. /\ IndInv' /\ BooksAgree' /\ MemoryShown' /\ FaultInv' /\ FreedByGuest'
        /\ ReleaseWords' /\ GuestInv'
    BY <1>1, QuietDriver DEF Moves
  <1>3. LinesInv'
    BY <1>1, SameLines DEF Moves
  <1>4. ReportsInTurn'
    BY DriverLeaves, ClassLeaves, SameReports DEF Moves, RunningState, RunningInv
  <1>5. ITypeOK'
    BY <1>1, DriverLeaves DEF ITypeOK, Moves, RunningState
  <1>6. NeverRaises'
    BY DEF Moves, NeverRaises, Running
  <1> QED BY <1>2, <1>3, <1>4, <1>5, <1>6 DEF IntegrationInv, RunningInv

LEMMA ProveDriverPoll ==
    ASSUME RunningState, UnchangedByDriver, DriverPoll
    PROVE  IntegrationInv'
  <1>1. /\ Running /\ turn = "poll" /\ turn' = "lines" /\ input' = serial_line /\ serial_line' = <<>>
        /\ UNCHANGED <<vars, memory, status, unread, writing, books, flags, outcome>>
    BY DEF DriverPoll, InTurn
  <1>2. ITypeOK /\ TurnInvariant /\ HoldingInv
    BY DEF RunningState, RunningInv
  <1>3. input = <<>>
    BY <1>1, <1>2 DEF TurnInvariant
  <1>4. Printed' = Printed
    <2>1. serial_line \in Seq(Prints)
      BY <1>2 DEF ITypeOK
    <2>2. serial_line \o <<>> = serial_line /\ <<>> \o serial_line = serial_line
      BY <2>1
    <2> QED BY <1>1, <1>3, <2>2 DEF Printed
  <1>5. Moves
    BY <1>1, <1>4 DEF Moves, books
  <1>6. TurnInvariant'
    BY <1>1, <1>2, DriverLeaves, ClassLeaves
       DEF TurnInvariant, HeldBack, IsTarget, IsLastLine, IsLengthField, flags
  <1>7. HoldingInv'
    BY <1>1, <1>2, ClassLeaves DEF HoldingInv, IsHeld, TokenOf, Distinct, Within, books
  <1>8. input' \in Seq(Prints) /\ serial_line' \in Seq(Prints) /\ unread' \in Seq(Tokens)
    BY <1>1, <1>2 DEF ITypeOK
  <1> QED BY <1>1, <1>5, <1>6, <1>7, <1>8, ProveMove

(* A step of the loop that changes the place only.                         *)
LEMMA ProveTurn ==
    ASSUME RunningState, Running, UnchangedByDriver,
           UNCHANGED <<vars, memory, status, serial_line, input, writing, remaining, bases, freed,
                       consumed, holding, flags, outcome>>,
           turn # "complete", turn' # "complete", turn # "pump" \/ ~pumping,
           turn = "lines" => input = <<>>, turn' = "withdraw" => mode = "adversarial",
           turn' = "finish" => guest_done, turn' # "poll" => guest_ready, turn' # "lines",
           turn' \in {"poll", "release", "feed", "pump", "withdraw", "write", "inject", "finish"},
           unread' = unread \/ unread' = holding
    PROVE  IntegrationInv'
  <1>1. ITypeOK /\ TurnInvariant /\ HoldingInv
    BY DEF RunningState, RunningInv
  <1>2. UNCHANGED <<guest_ready, guest_done, pumping, pending>>
    BY ClassLeaves DEF flags
  <1>3. Moves
    BY DEF Moves, Printed
  <1>4. TurnInvariant'
    <2>1. ~pumping /\ writing = NoWrite /\ input = <<>>
      BY <1>1 DEF TurnInvariant
    <2> QED BY <1>2, <2>1, DriverLeaves DEF TurnInvariant
  <1>5. HoldingInv'
    <2>1. \A i \in DOMAIN holding : IsHeld(holding[i])'
      BY <1>1, ClassLeaves DEF HoldingInv, IsHeld, TokenOf
    <2>2. Distinct(holding) /\ Distinct(unread') /\ Within(unread', holding)
      BY <1>1 DEF HoldingInv, Distinct, Within
    <2> QED BY <2>1, <2>2 DEF HoldingInv, Distinct, Within
  <1>6. input' \in Seq(Prints) /\ serial_line' \in Seq(Prints) /\ unread' \in Seq(Tokens)
    BY <1>1 DEF ITypeOK
  <1> QED BY <1>3, <1>4, <1>5, <1>6, ProveMove

LEMMA ProveOn ==
    ASSUME RunningState, UnchangedByDriver, DriverOn
    PROVE  IntegrationInv'
  <1>1. /\ Running /\ turn = "lines" /\ input = <<>>
        /\ UNCHANGED <<vars, shared, input, writing, books, flags, outcome>>
        /\ \/ guest_ready /\ turn' = "release" /\ unread' = holding
           \/ turn' = "poll" /\ unread' = unread
    BY DEF DriverOn, InTurn
  <1> QED BY <1>1, ProveTurn DEF shared, books

LEMMA ProveReleased ==
    ASSUME RunningState, UnchangedByDriver, DriverReleased
    PROVE  IntegrationInv'
  <1>1. /\ Running /\ turn = "release" /\ turn' = "feed"
        /\ UNCHANGED <<vars, shared, input, unread, writing, books, flags, outcome>>
    BY DEF DriverReleased, InTurn
  <1>2. guest_ready
    BY <1>1 DEF RunningState, RunningInv, TurnInvariant
  <1> QED BY <1>1, <1>2, ProveTurn DEF shared, books

LEMMA ProveFed ==
    ASSUME RunningState, UnchangedByDriver, DriverFed
    PROVE  IntegrationInv'
  <1>1. /\ Running /\ turn = "feed" /\ turn' = "pump"
        /\ UNCHANGED <<vars, shared, input, unread, writing, books, flags, outcome>>
    BY DEF DriverFed, InTurn
  <1>2. guest_ready
    BY <1>1 DEF RunningState, RunningInv, TurnInvariant
  <1> QED BY <1>1, <1>2, ProveTurn DEF shared, books

LEMMA ProveIdle ==
    ASSUME RunningState, UnchangedByDriver, DriverIdle
    PROVE  IntegrationInv'
  <1>1. /\ Running /\ turn = "write" /\ turn' = "inject"
        /\ UNCHANGED <<vars, shared, input, unread, writing, books, flags, outcome>>
    BY DEF DriverIdle, InTurn
  <1>2. guest_ready
    BY <1>1 DEF RunningState, RunningInv, TurnInvariant
  <1> QED BY <1>1, <1>2, ProveTurn DEF shared, books

(* Nothing is left to issue.                                               *)
LEMMA ProvePumped ==
    ASSUME RunningState, UnchangedByDriver, InTurn("pump"), ~pumping,
           turn' = IF post_push THEN "withdraw" ELSE "write", UNCHANGED vars,
           UNCHANGED <<shared, input, unread, writing, books, flags, outcome>>
    PROVE  IntegrationInv'
  <1>1. Running /\ turn = "pump"
    BY DEF InTurn
  <1>2. guest_ready
    BY <1>1 DEF RunningState, RunningInv, TurnInvariant
  <1>3. post_push => mode = "adversarial"
    BY DEF RunningState, ITypeOK
  <1>4. turn' \in {"withdraw", "write"} /\ (turn' = "withdraw" => mode = "adversarial")
    BY <1>3
  <1> QED BY <1>1, <1>2, <1>4, ProveTurn DEF shared, books

(* A payload that is written once more is in its slot.                     *)
LEMMA WithdrawnIsThere ==
    ASSUME RunningState, turn = "withdraw", NEW t \in Unwithdrawn
    PROVE  memory = [memory EXCEPT !.line[t.flow][t.slot] =
                [i \in HostLines |-> IF i \in LineNumbers(Length[PayloadOf[t.flow][t.serial]])
                                     THEN Lines(PayloadOf[t.flow][t.serial])[i] ELSE @[i]]]
  <1> DEFINE f == t.flow
             s == t.serial
             k == t.slot
             p == PayloadOf[f][s]
             old == memory.line[f][k]
             new == [i \in HostLines |-> IF i \in LineNumbers(Length[p]) THEN Lines(p)[i] ELSE old[i]]
  <1>1. IndInv /\ ITypeOK /\ TurnInvariant /\ BooksAgree /\ MemoryShown
    BY DEF RunningState, RunningInv
  <1>2. PICK w \in pending : w.kind = "ready" /\ w.token = t
    BY DEF Unwithdrawn
  <1>3. /\ f \in Flows /\ s \in Serials /\ k \in Slots /\ k = SlotOf(s)
        /\ phase[f][s] = "COMMITTING"
    BY <1>1, <1>2, OwnerOf
  <1>4. payload[f][s] = p
    BY <1>1, <1>3 DEF BooksAgree
  <1>5. data_writes[f][s] = {}
    BY <1>1, <1>3 DEF IndInv, DataWritesPending
  <1>6. \A i \in LineNumbers(Length[p]) : host_data[f][k][i] = Lines(p)[i]
    BY <1>1, <1>3, <1>4, <1>5 DEF IndInv, ImageInSlot, LineArrived, Visible
  <1>7. writing = NoWrite /\ mode = "adversarial"
    BY <1>1 DEF TurnInvariant
  <1>8. \A i \in HostLines : old[i] = host_data[f][k][i]
    BY <1>1, <1>3, <1>7 DEF MemoryShown, LineShown, Writing
  <1>9. memory.line \in [Flows -> [Slots -> [HostLines -> LineValues \cup {Stale, Corrupt}]]]
        /\ memory \in Memories
    BY <1>1, TypedMemory DEF ITypeOK
  <1>10. new = old
    <2>1. old = [i \in HostLines |-> old[i]]
      BY <1>3, <1>9
    <2>2. \A i \in HostLines : (IF i \in LineNumbers(Length[p]) THEN Lines(p)[i] ELSE old[i]) = old[i]
      BY <1>6, <1>8
    <2> HIDE DEF old, p
    <2> QED BY <2>1, <2>2
  <1>11. memory = [memory EXCEPT !.line[f][k] = old]
    <2>1. memory.line = [memory.line EXCEPT ![f] = [memory.line[f] EXCEPT ![k] = old]]
      BY <1>3, <1>9
    <2>2. memory = [memory EXCEPT !.line = memory.line]
      BY <1>9 DEF Memories
    <2> QED BY <2>1, <2>2
  <1>12. memory = [memory EXCEPT !.line[f][k] = new]
    BY <1>10, <1>11
  <1> QED BY <1>12

LEMMA ProveWithdraw ==
    ASSUME RunningState, UnchangedByDriver, DriverWithdraw
    PROVE  IntegrationInv'
  <1>1. /\ Running /\ turn = "withdraw"
        /\ UNCHANGED <<vars, status, serial_line, input, unread, writing, remaining, bases,
                   freed, consumed, holding, flags, outcome>>
    BY DEF DriverWithdraw, InTurn
  <1>2. guest_ready /\ mode = "adversarial"
    BY <1>1 DEF RunningState, RunningInv, TurnInvariant
  <1>3. memory' = memory /\ turn' \in {"write", "withdraw"}
    <2>1. CASE Unwithdrawn = {}
      BY <2>1 DEF DriverWithdraw
    <2>2. CASE Unwithdrawn # {}
      <3>1. PICK t \in Unwithdrawn :
                memory' = [memory EXCEPT !.line[t.flow][t.slot] =
                    [i \in HostLines |-> IF i \in LineNumbers(Length[PayloadOf[t.flow][t.serial]])
                                         THEN Lines(PayloadOf[t.flow][t.serial])[i] ELSE @[i]]]
        BY <2>2 DEF DriverWithdraw
      <3>2. turn' = turn
        BY <2>2 DEF DriverWithdraw
      <3> QED BY <1>1, <3>1, <3>2, WithdrawnIsThere
    <2> QED BY <2>1, <2>2
  <1> QED BY <1>1, <1>2, <1>3, ProveTurn

(* A step that ends the run leaves little to show.                         *)
LEMMA ProveEnd ==
    ASSUME RunningState, UnchangedByDriver,
           outcome' \in {"passed", "expected_rejection"},
           UNCHANGED <<vars, shared, turn, input, unread, writing, books, flags>>
    PROVE  IntegrationInv'
  <1>1. IndInv'
    BY StepInv DEF RunningState
  <1>2. ITypeOK'
    BY DriverLeaves DEF ITypeOK, RunningState, shared, books, flags
  <1> QED BY <1>1, <1>2 DEF IntegrationInv, NeverRaises, Running

LEMMA ProveJudge ==
    ASSUME RunningState, UnchangedByDriver, DriverJudge
    PROVE  IntegrationInv'
  <1>1. /\ Running /\ turn = "lines" /\ input = <<>> /\ guest_failure # <<>>
        /\ UNCHANGED <<vars, shared, input, unread, writing, books, flags>>
    BY DEF DriverJudge, InTurn
  <1>2. mode # "adversarial" /\ fault_injected /\ guest_failure = InjectedFailure
    BY <1>1 DEF RunningState, RunningInv, LinesInv, ITypeOK
  <1>3. status \in {0, 1, 2, Failed + 2}
    BY DEF RunningState, ITypeOK, Statuses
  <1>4. CASE status < Failed
    <2>1. turn' = "poll" /\ outcome' = outcome
      BY <1>2, <1>4 DEF DriverJudge
    <2> QED BY <1>1, <2>1, ProveTurn DEF shared, books
  <1>5. CASE ~(status < Failed)
    <2>1. status = Failed + 2
      BY <1>3, <1>5 DEF Failed
    <2>2. outcome' = "expected_rejection" /\ turn' = turn
      BY <1>2, <1>5, <2>1 DEF DriverJudge
    <2> QED BY <1>1, <2>2, ProveEnd
  <1> QED BY <1>4, <1>5

LEMMA ProveFinish ==
    ASSUME RunningState, UnchangedByDriver, DriverFinish
    PROVE  IntegrationInv'
  <1>1. /\ Running /\ turn = "finish"
        /\ UNCHANGED <<vars, shared, input, unread, writing, books, flags>>
    BY DEF DriverFinish, InTurn
  <1>2. IndInv /\ ITypeOK /\ BooksAgree /\ FaultInv /\ ReportsInTurn
    BY DEF RunningState, RunningInv
  <1>3. guest_done /\ guest_ready
    BY <1>1 DEF RunningState, RunningInv, TurnInvariant
  <1>4. Printed = <<>> /\ at \in {"done", "parked"} /\ AllConsumed
    BY <1>3 DEF RunningState, RunningInv, LinesInv
  <1>5. mode = "adversarial"
    BY <1>2, <1>4, FlowsAndCounts DEF FaultInv, AllConsumed
  <1>6. \A f \in Flows : consumed[f] = Count
    <2> SUFFICES ASSUME NEW f \in Flows PROVE consumed[f] = Count
      OBVIOUS
    <2>1. ReportedTo(f) = InitialSerial[f] + Count
      BY <1>2, <1>4, ReportedTyped DEF NextOf, AllConsumed
    <2>2. next_consume[f] <= ReportedTo(f)
      BY <1>2 DEF ReportsInTurn
    <2>3. PICK n \in [DOMAIN Printed -> Serials] : Numbers(Printed, n)
      BY <1>2 DEF ReportsInTurn
    <2>4. ~\E s \in next_consume[f]..(ReportedTo(f) - 1) : TRUE
      BY <1>4, <2>3 DEF Numbers
    <2>5. next_consume[f] = ReportedTo(f)
      BY <1>2, <2>1, <2>2, <2>4, NowTyped, FlowsAndCounts
    <2>6. next_consume[f] = InitialSerial[f] + consumed[f] /\ consumed[f] \in Nat
      BY <1>2 DEF BooksAgree, ITypeOK
    <2> QED BY <2>1, <2>5, <2>6, FlowsAndCounts
  <1>7. consumed = [f \in Flows |-> Count] /\ held_progress
    <2>1. consumed \in [Flows -> Nat]
      BY <1>2 DEF ITypeOK
    <2>2. consumed[1] # 0
      BY <1>6, FlowsAndCounts
    <2> QED BY <1>2, <1>5, <1>6, <2>1, <2>2 DEF FaultInv
  <1>8. CASE ~Finished \/ status # 2
    <2>1. turn' = "poll" /\ outcome' = outcome
      BY <1>5, <1>8 DEF DriverFinish
    <2> QED BY <1>1, <2>1, ProveTurn DEF shared, books
  <1>9. CASE ~(~Finished \/ status # 2)
    <2>1. outcome' = "passed" /\ turn' = turn
      BY <1>5, <1>7, <1>9 DEF DriverFinish
    <2> QED BY <1>1, <2>1, ProveEnd
  <1> QED BY <1>8, <1>9
--------------------------------------------------------------------------------
(* The lines of a poll.                                                    *)

LEMMA PopPrinted ==
    ASSUME ITypeOK, input # <<>>, input' = Tail(input), serial_line' = serial_line
    PROVE  /\ NextLine \in Prints /\ NextLine = Printed[1] /\ input' \in Seq(Prints)
           /\ Len(Printed) \in Nat /\ Len(Printed) > 0 /\ DOMAIN Printed = 1..Len(Printed)
           /\ Len(Printed') = Len(Printed) - 1 /\ DOMAIN Printed' = 1..(Len(Printed) - 1)
           /\ \A i \in DOMAIN Printed' : i + 1 \in DOMAIN Printed /\ Printed'[i] = Printed[i + 1]
  <1>1. input \in Seq(Prints) /\ serial_line \in Seq(Prints)
    BY PrintedTyped
  <1>2. Len(input) \in Nat /\ Len(input) > 0 /\ Head(input) = input[1] /\ Head(input) \in Prints
        /\ Tail(input) \in Seq(Prints) /\ Len(Tail(input)) = Len(input) - 1
        /\ \A i \in 1..(Len(input) - 1) : Tail(input)[i] = input[i + 1]
    BY <1>1
  <1> DEFINE o == input \o serial_line
             r == Tail(input) \o serial_line
  <1>3. Len(o) = Len(input) + Len(serial_line) /\ DOMAIN o = 1..Len(o) /\ o[1] = input[1]
        /\ Len(r) = Len(Tail(input)) + Len(serial_line) /\ DOMAIN r = 1..Len(r)
        /\ Len(serial_line) \in Nat
    BY <1>1, <1>2
  <1>4. \A i \in 1..Len(o) : o[i] = IF i <= Len(input) THEN input[i] ELSE serial_line[i - Len(input)]
    BY <1>1
  <1>5. \A i \in 1..Len(r) : r[i] = IF i <= Len(Tail(input)) THEN Tail(input)[i]
                                    ELSE serial_line[i - Len(Tail(input))]
    BY <1>1, <1>2
  <1>6. \A i \in DOMAIN r : i + 1 \in DOMAIN o /\ r[i] = o[i + 1]
    <2> SUFFICES ASSUME NEW i \in DOMAIN r PROVE i + 1 \in DOMAIN o /\ r[i] = o[i + 1]
      OBVIOUS
    <2>1. i \in 1..Len(r) /\ i \in Nat /\ i + 1 \in 1..Len(o)
      BY <1>2, <1>3
    <2>2. CASE i <= Len(input) - 1
      <3>1. r[i] = Tail(input)[i] /\ o[i + 1] = input[i + 1] /\ i \in 1..(Len(input) - 1)
        BY <1>2, <1>4, <1>5, <2>1, <2>2
      <3> QED BY <1>2, <1>3, <2>1, <3>1
    <2>3. CASE i > Len(input) - 1
      <3>1. r[i] = serial_line[i - (Len(input) - 1)] /\ o[i + 1] = serial_line[(i + 1) - Len(input)]
        BY <1>2, <1>4, <1>5, <2>1, <2>3
      <3>2. i - (Len(input) - 1) = (i + 1) - Len(input)
        BY <1>2, <2>1
      <3> QED BY <1>3, <2>1, <3>1, <3>2
    <2> QED BY <1>2, <2>1, <2>2, <2>3
  <1>7. Printed = o /\ Printed' = r
    BY DEF Printed
  <1> HIDE DEF o, r
  <1> QED BY <1>2, <1>3, <1>6, <1>7 DEF NextLine

LEMMA KindsOfLines ==
    ASSUME NEW line \in Prints
    PROVE  /\ line[1] = "READY" => line = <<"READY">>
           /\ line[1] = "DONE" => line = LastWords
           /\ line[1] = "FAIL" => line = InjectedFailure
           /\ line[1] = "PACKET" => line[2] \in Flows /\ line[3] \in Copies
  BY DEF Prints, LastWords, InjectedFailure

LEMMA HeadNumber ==
    ASSUME ITypeOK, IndInv, NEW n \in [DOMAIN Printed -> Serials], Numbers(Printed, n),
           1 \in DOMAIN Printed, DOMAIN Printed \subseteq Nat, \A i \in DOMAIN Printed : i >= 1,
           NEW f \in Flows, IsPacketOf(Printed[1], f)
    PROVE  /\ n[1] = next_consume[f] /\ next_consume[f] < ReportedTo(f)
           /\ next_consume[f] \in Serials /\ Printed[1][3] = CopyOf(f, next_consume[f])
  <1>1. next_consume[f] \in Nat /\ ReportedTo(f) \in Nat
    BY NowTyped, ReportedTyped
  <1>2. n[1] \in next_consume[f]..(ReportedTo(f) - 1) /\ Printed[1][3] = CopyOf(f, n[1])
    BY DEF Numbers
  <1>3. next_consume[f] \in next_consume[f]..(ReportedTo(f) - 1)
    BY <1>1, <1>2
  <1>4. PICK i \in DOMAIN Printed : IsPacketOf(Printed[i], f) /\ n[i] = next_consume[f]
    BY <1>3 DEF Numbers
  <1>5. i = 1
    <2> SUFFICES ASSUME i # 1 PROVE FALSE
      OBVIOUS
    <2>1. 1 < i
      OBVIOUS
    <2>2. n[1] < n[i]
      BY <1>4, <2>1 DEF Numbers
    <2> QED BY <1>1, <1>2, <1>4, <2>2
  <1> QED BY <1>1, <1>2, <1>3, <1>4, <1>5

(* A report is read, or another line.                                      *)
LEMMA ReportsPopped ==
    ASSUME RunningState, UnchangedByDriver, input # <<>>, input' = Tail(input),
           serial_line' = serial_line,
           \/ NextLine[1] # "PACKET" /\ next_consume' = next_consume
           \/ /\ NextLine[1] = "PACKET"
              /\ next_consume' = [next_consume EXCEPT ![NextLine[2]] = @ + 1]
    PROVE  ReportsInTurn'
  <1>1. ITypeOK /\ IndInv /\ ReportsInTurn
    BY DEF RunningState, RunningInv
  <1>2. PICK n \in [DOMAIN Printed -> Serials] : Numbers(Printed, n)
    BY <1>1 DEF ReportsInTurn
  <1> DEFINE L == Len(Printed)
  <1>3. /\ NextLine = Printed[1] /\ L \in Nat /\ L > 0 /\ DOMAIN Printed = 1..L
        /\ DOMAIN Printed' = 1..(L - 1)
        /\ \A i \in DOMAIN Printed' : i + 1 \in DOMAIN Printed /\ Printed'[i] = Printed[i + 1]
    BY <1>1, PopPrinted
  <1>4. PICK m : m = [i \in DOMAIN Printed' |-> n[i + 1]]
    OBVIOUS
  <1>5. m \in [DOMAIN Printed' -> Serials] /\ \A i \in DOMAIN Printed' : m[i] = n[i + 1]
    BY <1>3, <1>4
  <1> HIDE DEF L
  <1>6. next_consume \in [Flows -> Nat]
    BY <1>1, NowTyped DEF TypeOK
  <1>7. ASSUME NEW f \in Flows
        PROVE  /\ next_consume'[f] = IF IsPacketOf(Printed[1], f) THEN next_consume[f] + 1
                                     ELSE next_consume[f]
               /\ ReportedTo(f)' = ReportedTo(f) /\ ReportedTo(f) \in Nat /\ next_consume[f] \in Nat
               /\ next_consume'[f] <= ReportedTo(f)
               /\ IsPacketOf(Printed[1], f) => n[1] = next_consume[f]
    <2>1. next_consume'[f] = IF IsPacketOf(Printed[1], f) THEN next_consume[f] + 1
                                     ELSE next_consume[f]
      BY <1>3, <1>6 DEF IsPacketOf
    <2>2. IsPacketOf(Printed[1], f) => n[1] = next_consume[f] /\ next_consume[f] < ReportedTo(f)
      BY <1>1, <1>2, <1>3, HeadNumber
    <2>3. ReportedTo(f) \in Nat /\ next_consume[f] \in Nat /\ next_consume[f] <= ReportedTo(f)
          /\ ReportedTo(f)' = ReportedTo(f)
      BY <1>1, NowTyped, ReportedTyped, DriverLeaves DEF ReportsInTurn
    <2> QED BY <2>1, <2>2, <2>3
  <1>8. ASSUME NEW f \in Flows
        PROVE  /\ \A i \in DOMAIN Printed' : IsPacketOf(Printed'[i], f) =>
                    /\ m[i] \in next_consume'[f]..(ReportedTo(f) - 1)
                    /\ Printed'[i][3] = CopyOf(f, m[i])
               /\ \A i, j \in DOMAIN Printed' :
                    i < j /\ IsPacketOf(Printed'[i], f) /\ IsPacketOf(Printed'[j], f) => m[i] < m[j]
               /\ \A s \in next_consume'[f]..(ReportedTo(f) - 1) :
                    \E i \in DOMAIN Printed' : IsPacketOf(Printed'[i], f) /\ m[i] = s
    <2>1. ASSUME NEW i \in DOMAIN Printed', IsPacketOf(Printed'[i], f)
          PROVE  /\ m[i] \in next_consume'[f]..(ReportedTo(f) - 1)
                 /\ Printed'[i][3] = CopyOf(f, m[i])
      <3>1. i + 1 \in DOMAIN Printed /\ Printed'[i] = Printed[i + 1] /\ m[i] = n[i + 1]
        BY <1>3, <1>5
      <3>2. n[i + 1] \in next_consume[f]..(ReportedTo(f) - 1) /\ Printed[i + 1][3] = CopyOf(f, n[i + 1])
        BY <1>2, <2>1, <3>1 DEF Numbers
      <3>3. IsPacketOf(Printed[1], f) => n[1] < n[i + 1]
        <4>1. 1 \in DOMAIN Printed /\ 1 < i + 1
          BY <1>3, <3>1
        <4> QED BY <1>2, <2>1, <3>1, <4>1 DEF Numbers
      <3> QED BY <1>7, <3>1, <3>2, <3>3
    <2>2. ASSUME NEW i \in DOMAIN Printed', NEW j \in DOMAIN Printed', i < j,
                 IsPacketOf(Printed'[i], f), IsPacketOf(Printed'[j], f)
          PROVE  m[i] < m[j]
      <3>1. /\ i + 1 \in DOMAIN Printed /\ Printed'[i] = Printed[i + 1] /\ m[i] = n[i + 1]
            /\ j + 1 \in DOMAIN Printed /\ Printed'[j] = Printed[j + 1] /\ m[j] = n[j + 1]
            /\ i + 1 < j + 1
        BY <1>3, <1>5, <2>2
      <3> QED BY <1>2, <2>2, <3>1 DEF Numbers
    <2>3. ASSUME NEW s \in next_consume'[f]..(ReportedTo(f) - 1)
          PROVE  \E i \in DOMAIN Printed' : IsPacketOf(Printed'[i], f) /\ m[i] = s
      <3>1. s \in next_consume[f]..(ReportedTo(f) - 1)
        BY <1>7
      <3>2. PICK i \in DOMAIN Printed : IsPacketOf(Printed[i], f) /\ n[i] = s
        BY <1>2, <3>1 DEF Numbers
      <3>3. i # 1
        <4> SUFFICES ASSUME i = 1 PROVE FALSE
          OBVIOUS
        <4>1. s = next_consume[f] /\ next_consume'[f] = next_consume[f] + 1
          BY <1>7, <3>2
        <4> QED BY <1>7, <2>3, <4>1
      <3>4. i - 1 \in DOMAIN Printed' /\ (i - 1) + 1 = i
        BY <1>3, <3>2, <3>3
      <3>5. Printed'[i - 1] = Printed[i] /\ m[i - 1] = n[i]
        BY <1>3, <1>5, <3>4
      <3> QED BY <3>2, <3>4, <3>5
    <2> QED BY <2>1, <2>2, <2>3
  <1>9. Numbers(Printed, m)'
    BY <1>7, <1>8 DEF Numbers, CopyOf
  <1>10. (\E k \in [DOMAIN Printed -> Serials] : Numbers(Printed, k))'
    BY <1>5, <1>9
  <1>11. \A f \in Flows : next_consume'[f] <= ReportedTo(f)'
    BY <1>7
  <1> QED BY <1>10, <1>11 DEF ReportsInTurn

LEMMA LinesPopped ==
    ASSUME RunningState, UnchangedByDriver, input # <<>>, input' = Tail(input),
           serial_line' = serial_line, UNCHANGED <<memory, status, guest_ready, fault_injected>>,
           guest_ready, guest_failure' = guest_failure \/ NextLine = InjectedFailure,
           guest_done' = guest_done \/ NextLine = LastWords
    PROVE  LinesInv'
  <1>1. ITypeOK /\ LinesInv
    BY DEF RunningState, RunningInv
  <1> DEFINE L == Len(Printed)
  <1>2. /\ NextLine = Printed[1] /\ L \in Nat /\ L > 0 /\ DOMAIN Printed = 1..L
        /\ Len(Printed') = L - 1 /\ DOMAIN Printed' = 1..(L - 1)
        /\ \A i \in DOMAIN Printed' : i + 1 \in DOMAIN Printed /\ Printed'[i] = Printed[i + 1]
    BY <1>1, PopPrinted
  <1>3. 1 \in DOMAIN Printed /\ ~guest_done
    BY <1>1, <1>2 DEF LinesInv
  <1>4. NextLine = InjectedFailure => mode # "adversarial" /\ fault_injected
    BY <1>1, <1>2, <1>3 DEF LinesInv
  <1>5. guest_failure' # <<>> => mode # "adversarial" /\ fault_injected
    BY <1>1, <1>4 DEF LinesInv
  <1>6. guest_done' => Printed' = <<>> /\ at \in {"done", "parked"} /\ AllConsumed
    <2> SUFFICES ASSUME guest_done' PROVE Printed' = <<>> /\ at \in {"done", "parked"} /\ AllConsumed
      OBVIOUS
    <2>1. Printed[1] = LastWords
      BY <1>2, <1>3
    <2>2. 1 = L /\ at \in {"done", "parked"} /\ AllConsumed
      BY <1>1, <1>3, <2>1 DEF LinesInv
    <2>3. Printed' \in Seq(Prints)
      <3>1. input' \in Seq(Prints) /\ serial_line' \in Seq(Prints)
        BY <1>1, PopPrinted, PrintedTyped
      <3> QED BY <3>1 DEF Printed
    <2>4. Len(Printed') = 0
      <3> HIDE DEF L
      <3>1. L = 1
        BY <2>2
      <3>2. Len(Printed') = L - 1
        BY <1>2
      <3> QED BY <3>1, <3>2
    <2> QED BY <2>2, <2>3, <2>4
  <1>7. ASSUME NEW i \in DOMAIN Printed'
        PROVE  /\ Printed'[i] # <<"READY">>
               /\ Printed'[i] = InjectedFailure => mode # "adversarial" /\ fault_injected
               /\ Printed'[i] = LastWords => i = Len(Printed') /\ at \in {"done", "parked"} /\ AllConsumed
    <2>1. i + 1 \in DOMAIN Printed /\ Printed'[i] = Printed[i + 1] /\ i \in Nat
      BY <1>2
    <2>2. i + 1 = L => i = Len(Printed')
      BY <1>2, <2>1
    <2> QED BY <1>1, <2>1, <2>2 DEF LinesInv
  <1>8. at \notin {"start", "announce"}
    BY <1>1 DEF LinesInv
  <1> QED BY <1>5, <1>6, <1>7, <1>8, DriverLeaves DEF LinesInv

LEMMA ProvePop ==
    ASSUME RunningState, Running, UnchangedByDriver, turn = "lines", input # <<>>, input' = Tail(input),
           NextLine[1] # "PACKET",
           UNCHANGED <<vars, shared, turn, unread, writing, books, fault_injected, held_progress,
                       outcome>>,
           guest_ready' \in BOOLEAN, guest_done' \in BOOLEAN,
           guest_failure' \in {<<>>, InjectedFailure}, LinesInv'
    PROVE  IntegrationInv'
  <1>1. ITypeOK /\ TurnInvariant /\ HoldingInv
    BY DEF RunningState, RunningInv
  <1>2. UNCHANGED <<memory, status, serial_line, remaining, bases, freed, consumed, holding>>
    BY DEF shared, books
  <1>3. /\ IndInv' /\ BooksAgree' /\ MemoryShown' /\ FaultInv' /\ FreedByGuest'
        /\ ReleaseWords' /\ GuestInv'
    BY <1>2, QuietDriver
  <1>4. ReportsInTurn'
    BY <1>2, ReportsPopped, ClassLeaves
  <1>5. TurnInvariant'
    BY <1>1, ClassLeaves DEF TurnInvariant
  <1>6. HoldingInv'
    BY <1>1, <1>2, ClassLeaves DEF HoldingInv, IsHeld, TokenOf, Distinct, Within
  <1>7. ITypeOK'
    BY <1>1, <1>2, PopPrinted, DriverLeaves DEF ITypeOK
  <1>8. NeverRaises'
    BY DEF NeverRaises, Running
  <1> QED BY <1>3, <1>4, <1>5, <1>6, <1>7, <1>8 DEF IntegrationInv, RunningInv

LEMMA LineRead ==
    ASSUME RunningState, input # <<>>, input' = Tail(input), serial_line' = serial_line
    PROVE  /\ NextLine \in Prints /\ NextLine = Printed[1] /\ 1 \in DOMAIN Printed
           /\ NextLine = <<"READY">> <=> ~guest_ready
           /\ ~guest_ready => status = 1 /\ at = "poll" /\ Len(Printed') = 0 /\ DOMAIN Printed' = {}
  <1>1. ITypeOK /\ LinesInv
    BY DEF RunningState, RunningInv
  <1>2. /\ NextLine \in Prints /\ NextLine = Printed[1] /\ Len(Printed) \in Nat /\ Len(Printed) > 0
        /\ DOMAIN Printed = 1..Len(Printed) /\ Len(Printed') = Len(Printed) - 1
        /\ DOMAIN Printed' = 1..(Len(Printed) - 1)
    BY <1>1, PopPrinted
  <1>3. 1 \in DOMAIN Printed
    BY <1>2
  <1>4. CASE guest_ready
    BY <1>1, <1>2, <1>3, <1>4 DEF LinesInv
  <1>5. CASE ~guest_ready
    <2>1. BeforeReady
      BY <1>1, <1>5 DEF LinesInv
    <2>2. Printed # <<>>
      BY <1>2
    <2>3. at = "poll" /\ status = 1 /\ Printed = <<<<"READY">>>>
      BY <2>1, <2>2 DEF BeforeReady
    <2>4. Printed[1] = <<"READY">> /\ Len(Printed) = 1
      BY <2>3
    <2> QED BY <1>2, <1>3, <1>5, <2>3, <2>4
  <1> QED BY <1>4, <1>5

LEMMA ProveReady ==
    ASSUME RunningState, UnchangedByDriver, DriverReady
    PROVE  IntegrationInv'
  <1>1. /\ Running /\ turn = "lines" /\ input # <<>> /\ NextLine[1] = "READY" /\ input' = Tail(input)
        /\ UNCHANGED <<vars, shared, turn, unread, writing, books, guest_done,
                   guest_failure, fault_injected, held_progress>>
    BY DEF DriverReady, ReadLine, InTurn
  <1>2. serial_line' = serial_line /\ ITypeOK /\ LinesInv
    BY <1>1 DEF shared, RunningState, RunningInv
  <1>3. NextLine = <<"READY">>
    BY <1>1, <1>2, LineRead, KindsOfLines
  <1>4. ~guest_ready /\ status = 1 /\ at = "poll" /\ DOMAIN Printed' = {}
    BY <1>1, <1>2, <1>3, LineRead
  <1>5. guest_ready' = TRUE /\ outcome' = outcome
    BY <1>4 DEF DriverReady
  <1>6. LinesInv'
    <2>1. ~guest_done
      BY <1>2, <1>4 DEF LinesInv
    <2> QED BY <1>1, <1>2, <1>4, <1>5, <2>1, DriverLeaves DEF LinesInv
  <1>7. guest_done' \in BOOLEAN /\ guest_failure' \in {<<>>, InjectedFailure}
    BY <1>1, <1>2 DEF ITypeOK
  <1> QED BY <1>1, <1>5, <1>6, <1>7, ProvePop

LEMMA ProveDriverDone ==
    ASSUME RunningState, UnchangedByDriver, DriverDone
    PROVE  IntegrationInv'
  <1>1. /\ Running /\ turn = "lines" /\ input # <<>> /\ NextLine[1] = "DONE" /\ input' = Tail(input)
        /\ UNCHANGED <<vars, shared, turn, unread, writing, books, guest_ready,
                   guest_failure, fault_injected, held_progress>>
    BY DEF DriverDone, ReadLine, InTurn
  <1>2. serial_line' = serial_line /\ memory' = memory /\ status' = status /\ ITypeOK
    BY <1>1 DEF shared, RunningState
  <1>3. NextLine = LastWords /\ guest_ready
    BY <1>1, <1>2, LineRead, KindsOfLines
  <1>4. guest_done' = TRUE /\ outcome' = outcome
    <2>1. NextLine[2] = NumFlows * Count
      BY <1>3 DEF LastWords
    <2> QED BY <2>1 DEF DriverDone
  <1>5. LinesInv'
    BY <1>1, <1>2, <1>3, LinesPopped
  <1>6. guest_ready' \in BOOLEAN /\ guest_failure' \in {<<>>, InjectedFailure}
    BY <1>1, <1>2 DEF ITypeOK
  <1> QED BY <1>1, <1>4, <1>5, <1>6, ProvePop

LEMMA ProveFail ==
    ASSUME RunningState, UnchangedByDriver, DriverFail
    PROVE  IntegrationInv'
  <1>1. /\ Running /\ turn = "lines" /\ input # <<>> /\ NextLine[1] = "FAIL" /\ input' = Tail(input)
        /\ guest_failure' = NextLine
        /\ UNCHANGED <<vars, shared, turn, unread, writing, books, guest_ready, guest_done,
                   fault_injected, held_progress, outcome>>
    BY DEF DriverFail, ReadLine, InTurn
  <1>2. serial_line' = serial_line /\ memory' = memory /\ status' = status /\ ITypeOK
    BY <1>1 DEF shared, RunningState
  <1>3. NextLine = InjectedFailure /\ guest_ready
    BY <1>1, <1>2, LineRead, KindsOfLines
  <1>4. LinesInv'
    BY <1>1, <1>2, <1>3, LinesPopped
  <1>5. guest_ready' \in BOOLEAN /\ guest_done' \in BOOLEAN
    BY <1>1, <1>2 DEF ITypeOK
  <1> QED BY <1>1, <1>3, <1>4, <1>5, ProvePop

(* What the guest has reported is published.                               *)
LEMMA ReportedIsPublished ==
    ASSUME RunningState, writing = NoWrite, NEW f \in Flows
    PROVE  ReportedTo(f) <= next_publish[f]
  <1>1. IndInv /\ ITypeOK /\ FreedByGuest /\ FaultInv
    BY DEF RunningState, RunningInv
  <1>2. next_publish[f] \in Nat /\ NextOf(f) \in Nat
    BY <1>1, NowTyped, NextTyped
  <1>3. ShownTo(f) = next_publish[f]
    BY <1>2 DEF ShownTo
  <1>4. NextOf(f) <= next_publish[f]
    BY <1>1, <1>3 DEF FreedByGuest
  <1>5. CASE at = "release" /\ flow_at = f
    <2>1. Reading
      BY <1>5 DEF Reading
    <2>2. Entitled(f, NextOf(f)) /\ NextOf(f) \in Serials
      BY <1>5, <2>1, ReadingState DEF RunningState, RunningInv, GuestInv
    <2>3. mode = "early-ready" => f # 0
      BY <1>1, <1>5 DEF FaultInv
    <2>4. NextOf(f) < next_publish[f]
      BY <1>3, <2>2, <2>3, EntitledShown
    <2> QED BY <1>1, <1>2, <1>5, <2>4, ReportedTyped
  <1> QED BY <1>1, <1>2, <1>4, <1>5, ReportedTyped

(* The report that is read is that of the packet the class expects.        *)
LEMMA ReportIsExpected ==
    ASSUME RunningState, writing = NoWrite, input # <<>>, input' = Tail(input),
           serial_line' = serial_line, NextLine[1] = "PACKET"
    PROVE  LET f == NextLine[2]
               s == next_consume[f]
           IN  /\ f \in Flows /\ s \in Serials /\ s < next_publish[f]
               /\ phase[f][s] = "READY" /\ MarkerSeen(f, s) /\ LengthFits(f, s)
               /\ Reported = Snapshot(f, s) /\ Expected(f, Reported)
               /\ payload[f][s] = PayloadOf[f][s] /\ guest_ready
  <1>1. IndInv /\ ITypeOK /\ BooksAgree /\ ReportsInTurn
    BY DEF RunningState, RunningInv
  <1>2. NextLine \in Prints /\ NextLine = Printed[1] /\ 1 \in DOMAIN Printed /\ guest_ready
    BY LineRead
  <1>3. PICK f \in Flows : f = NextLine[2]
    BY <1>2, KindsOfLines
  <1>4. PICK n \in [DOMAIN Printed -> Serials] : Numbers(Printed, n)
    BY <1>1 DEF ReportsInTurn
  <1>5. DOMAIN Printed \subseteq Nat /\ \A i \in DOMAIN Printed : i >= 1
    BY <1>1, PopPrinted
  <1>6. PICK s \in Serials : s = next_consume[f]
    BY <1>1, <1>2, <1>3, <1>4, <1>5, HeadNumber DEF IsPacketOf
  <1>7. s < ReportedTo(f) /\ NextLine[3] = CopyOf(f, s)
    BY <1>1, <1>2, <1>3, <1>4, <1>5, <1>6, HeadNumber DEF IsPacketOf
  <1>8. s \in Nat /\ next_publish[f] \in Nat /\ s < next_publish[f]
    BY <1>1, <1>6, <1>7, NowTyped, ReportedTyped, ReportedIsPublished
  <1>9. /\ phase[f][s] = "READY" /\ MarkerSeen(f, s) /\ LengthFits(f, s)
        /\ Snapshot(f, s) = Image(TokenOf(f, s), payload[f][s])
    BY <1>1, <1>6, <1>8, PublishedIsReady
  <1>10. payload[f][s] = PayloadOf[f][s]
    BY <1>1, <1>9 DEF BooksAgree
  <1>11. TokenOf(f, s) = Token(f, s, ExpectedGeneration(f, s))
    BY <1>1, <1>9, GenerationIs
  <1>12. Reported = Image(TokenOf(f, s), PayloadOf[f][s])
    BY <1>7, <1>11 DEF Reported, CopyOf, Image
  <1>13. Expected(f, Reported)
    BY <1>6, <1>9, <1>12 DEF Expected
  <1> QED BY <1>2, <1>3, <1>6, <1>8, <1>9, <1>10, <1>12, <1>13

(* A report makes the driver's books move as the class does.               *)
LEMMA ProvePacket ==
    ASSUME RunningState, UnchangedByDriver, DriverPacket
    PROVE  IntegrationInv'
  <1>1. /\ Running /\ turn = "lines" /\ input # <<>> /\ NextLine[1] = "PACKET" /\ input' = Tail(input)
        /\ UNCHANGED <<shared, turn, unread, writing, remaining, bases, freed, withdrawn,
                   guest_ready, guest_done, guest_failure, fault_injected>>
    BY DEF DriverPacket, ReadLine, InTurn
  <1>2. IndInv /\ ITypeOK /\ TurnInvariant /\ BooksAgree /\ HoldingInv /\ MemoryShown /\ FaultInv
    BY DEF RunningState, RunningInv
  <1>3. UNCHANGED <<memory, status, serial_line>> /\ writing = NoWrite /\ ~pumping
    BY <1>1, <1>2 DEF shared, TurnInvariant
  <1>4. PICK f \in Flows : f = NextLine[2]
    BY <1>1, <1>3, ReportIsExpected
  <1>5. PICK s \in Serials : s = next_consume[f]
    BY <1>1, <1>3, <1>4, ReportIsExpected
  <1>6. /\ s < next_publish[f] /\ phase[f][s] = "READY" /\ MarkerSeen(f, s) /\ LengthFits(f, s)
        /\ Reported = Snapshot(f, s) /\ Expected(f, Reported) /\ payload[f][s] = PayloadOf[f][s]
        /\ guest_ready /\ s \in Nat
    BY <1>1, <1>3, <1>4, <1>5, ReportIsExpected, SerialsAreNat
  <1>7. /\ ObserveConsumption(f, Reported) /\ outcome' = outcome
        /\ holding' = Append(holding, TokenOf(f, s))
        /\ consumed' = [consumed EXCEPT ![f] = @ + 1]
        /\ held_progress' = (held_progress \/ (f = 1 /\ consumed[0] = 0))
    BY <1>4, <1>5, <1>6 DEF DriverPacket
  <1>8. /\ phase' = [phase EXCEPT ![f][s] = "CPU_OWNED"]
        /\ next_consume' = [next_consume EXCEPT ![f] = s + 1]
        /\ UNCHANGED <<base, next_issue, next_publish, released, generations, halted, payload,
                       generation, data_writes, pending, host_data, host_descriptor, host_ready,
                       pumping>>
    BY <1>5, <1>7 DEF ObserveConsumption, host, loop
  <1>9. IndInv'
    <2>1. Acquire(f)
      BY <1>3, <1>5, <1>6, <1>7 DEF ObserveConsumption, Acquire
    <2> QED BY <1>2, <2>1, StepInv DEF Next
  <1>10. TypeOK /\ phase \in [Flows -> [Serials -> Phases]] /\ next_consume \in [Flows -> Nat]
         /\ consumed \in [Flows -> Nat] /\ holding \in Seq(Tokens) /\ InitialSerial[f] \in Nat
    BY <1>2, NowTyped, FlowsAndCounts DEF TypeOK, ITypeOK
  <1>11. \A g \in Flows, t \in Serials :
            phase'[g][t] = IF g = f /\ t = s THEN "CPU_OWNED" ELSE phase[g][t]
    BY <1>8, <1>10
  <1>12. TokenOf(f, s) \in Tokens /\ TokenOf(f, s).flow = f /\ TokenOf(f, s).serial = s
    <2>1. generation[f][s] \in Nat \ {0}
      <3>1. generation[f][s] \in Nat
        BY <1>10 DEF TypeOK
      <3>2. generation[f][s] > 0
        BY <1>2, <1>6 DEF IndInv, PacketInWindow
      <3> QED BY <3>1, <3>2
    <2> QED BY <2>1, TokenTyped DEF TokenOf, Token
  <1>13. TurnInvariant'
    BY <1>1, <1>3, <1>8 DEF TurnInvariant
  <1>14. BooksAgree'
    <2>1. \A g \in Flows : next_consume'[g] = InitialSerial[g] + consumed'[g]
      <3> TAKE g \in Flows
      <3>1. next_consume[g] = InitialSerial[g] + consumed[g] /\ InitialSerial[g] \in Nat
        BY <1>2, FlowsAndCounts DEF BooksAgree
      <3> QED BY <1>5, <1>7, <1>8, <1>10, <3>1
    <2>2. \A g \in Flows : \A t \in remaining[g] :
                t \in Sent(g) /\ phase'[g][t] = "ABSENT" /\ t \notin released[g]
      <3> SUFFICES ASSUME NEW g \in Flows, NEW t \in remaining[g]
                   PROVE  t \in Sent(g) /\ phase'[g][t] = "ABSENT" /\ t \notin released[g]
        OBVIOUS
      <3>1. t \in Sent(g) /\ phase[g][t] = "ABSENT" /\ t \notin released[g] /\ t \in Serials
        BY <1>2 DEF BooksAgree, ITypeOK
      <3> QED BY <1>6, <1>11, <3>1
    <2>3. \A g \in Flows : \A t \in Serials : phase'[g][t] # "ABSENT" =>
                t \in Sent(g) /\ payload[g][t] = PayloadOf[g][t]
      BY <1>2, <1>6, <1>11 DEF BooksAgree
    <2> QED BY <1>1, <1>2, <1>8, <2>1, <2>2, <2>3 DEF BooksAgree
  <1>15. HoldingInv'
    <2> DEFINE t == TokenOf(f, s)
    <2>1. /\ DOMAIN holding = 1..Len(holding) /\ Len(holding) \in Nat
          /\ DOMAIN holding' = 1..(Len(holding) + 1) /\ holding'[Len(holding) + 1] = t
          /\ \A i \in DOMAIN holding : holding'[i] = holding[i]
      BY <1>7, <1>10, <1>12
    <2>2. \A i \in DOMAIN holding : IsHeld(holding[i]) /\ holding[i] \in Tokens
      BY <1>2, <1>10 DEF HoldingInv
    <2>3. \A i \in DOMAIN holding : holding[i] # t
      BY <1>6, <1>12, <2>2 DEF IsHeld
    <2>4. (\A i \in DOMAIN holding : IsHeld(holding[i]))'
      <3> SUFFICES ASSUME NEW i \in DOMAIN holding'
                   PROVE  /\ phase'[holding'[i].flow][holding'[i].serial] = "CPU_OWNED"
                          /\ holding'[i] = TokenOf(holding'[i].flow, holding'[i].serial)
        BY <1>8 DEF IsHeld, TokenOf
      <3>1. CASE i \in DOMAIN holding
        <4>1. holding'[i] = holding[i] /\ holding[i].flow \in Flows /\ holding[i].serial \in Serials
          BY <2>1, <2>2, <3>1 DEF Tokens
        <4> QED BY <1>11, <2>2, <3>1, <4>1 DEF IsHeld
      <3>2. CASE i = Len(holding) + 1
        BY <1>11, <1>12, <2>1, <3>2
      <3> QED BY <2>1, <3>1, <3>2
    <2> HIDE DEF t
    <2>5. Distinct(holding')
      BY <1>2, <2>1, <2>3 DEF HoldingInv, Distinct
    <2>6. Distinct(unread) /\ Within(unread, holding')
      BY <1>2, <2>1 DEF HoldingInv, Within
    <2> QED BY <1>1, <2>4, <2>5, <2>6 DEF HoldingInv, Distinct, Within
  <1>16. MemoryShown'
    BY <1>1, <1>2, <1>3, <1>8, DriverLeaves
       DEF MemoryShown, LineShown, FieldShown, ReadyShown, Writing, AtTarget
  <1>17. FaultInv'
    <2>1. TargetPhase' = TargetPhase \/ (TargetPhase = "READY" /\ TargetPhase' = "CPU_OWNED")
      BY <1>6, <1>11, FirstSent, FlowsAndCounts DEF TargetPhase, FirstSerial
    <2>2. \A i : TargetWrite(i)' = TargetWrite(i)
      BY <1>8 DEF TargetWrite, TokenOf, FirstSerial
    <2>3. TargetHeld => TargetHeld'
      BY <1>8, <2>1, <2>2 DEF TargetHeld, FirstSerial, LastLine
    <2>4. TargetComing => TargetComing'
      BY <1>1, <1>8, <2>1, <2>2 DEF TargetComing, FirstSerial
    <2>5. consumed'[1] = 0 => consumed[1] = 0
      BY <1>7, <1>10, FlowsAndCounts
    <2>6. mode = "adversarial" /\ consumed'[1] # 0 => held_progress'
      <3>1. CASE consumed[1] # 0
        BY <1>2, <1>7, <3>1 DEF FaultInv
      <3>2. CASE consumed[1] = 0 /\ consumed'[1] # 0 /\ mode = "adversarial"
        <4>1. f = 1
          BY <1>7, <1>10, <3>2, FlowsAndCounts
        <4>2. next_publish[0] = InitialSerial[0]
          BY <1>2, <3>2 DEF FaultInv, TargetHeld, FirstSerial
        <4>3. next_consume[0] = InitialSerial[0]
          BY <1>2, <4>2, NowTyped, FlowsAndCounts
        <4>4. consumed[0] = 0
          BY <1>2, <1>10, <4>3, FlowsAndCounts DEF BooksAgree
        <4> QED BY <1>7, <4>1, <4>4
      <3> QED BY <3>1, <3>2
    <2>7. \A w : (IsTarget(w) <=> IsTarget(w)') /\ (IsLastLine(w) <=> IsLastLine(w)')
      BY DEF IsTarget, IsLastLine, LastLine, FirstSerial
    <2>8. TargetPhase \notin {"ABSENT", "WAIT_SEQ"} => TargetPhase' \notin {"ABSENT", "WAIT_SEQ"}
      BY <2>1
    <2>9. UNCHANGED <<mode, guest_consumed, at, flow_at>>
      BY DriverLeaves
    <2>10. TargetPhase = "PUSHING" => TargetPhase' = "PUSHING"
      BY <2>1
    <2> QED BY <1>1, <1>2, <1>8, <2>2, <2>3, <2>4, <2>5, <2>6, <2>7, <2>8, <2>9, <2>10 DEF FaultInv
  <1>18. FreedByGuest'
    BY <1>1, <1>8, DriverLeaves DEF RunningState, RunningInv, FreedByGuest, ShownTo
  <1>19. ReleaseWords'
    BY <1>3, DriverLeaves DEF RunningState, RunningInv, ReleaseWords
  <1>20. GuestInv'
    <2>1. Reading => Entitled(flow_at, SerialAt)'
      <3>1. Reading => Entitled(flow_at, SerialAt) /\ flow_at \in Flows /\ SerialAt \in Serials
        BY ReadingState DEF RunningState, RunningInv, GuestInv
      <3> QED BY <1>1, <1>6, <1>11, <3>1, DriverLeaves DEF Entitled, Writing, Published
    <2> QED BY <1>3, <2>1, DriverLeaves DEF RunningState, RunningInv, GuestInv
  <1>21. ReportsInTurn'
    BY <1>1, <1>3, <1>4, <1>5, <1>8, ReportsPopped
  <1>22. LinesInv'
    BY <1>1, <1>3, <1>6, LinesPopped
  <1>23. ITypeOK'
    <2>1. input' \in Seq(Prints) /\ holding' \in Seq(Tokens)
      BY <1>1, <1>2, <1>3, <1>7, <1>10, <1>12, PopPrinted
    <2>2. consumed' \in [Flows -> Nat] /\ held_progress' \in BOOLEAN
      BY <1>2, <1>7, <1>10 DEF ITypeOK
    <2> QED BY <1>1, <1>2, <1>3, <1>7, <2>1, <2>2, DriverLeaves DEF ITypeOK
  <1>24. NeverRaises'
    BY <1>1, <1>7 DEF NeverRaises, Running
  <1> QED BY <1>9, <1>13, <1>14, <1>15, <1>16, <1>17, <1>18, <1>19, <1>20, <1>21, <1>22, <1>23, <1>24
       DEF IntegrationInv, RunningInv
--------------------------------------------------------------------------------
(* A slot is given back.                                                   *)

LEMMA WithoutIs ==
    ASSUME NEW tokens \in Seq(Tokens), Distinct(tokens), NEW n \in DOMAIN tokens,
           NEW t, t = tokens[n]
    PROVE  /\ Without(tokens, t) \in Seq(Tokens) /\ Distinct(Without(tokens, t))
           /\ \A i \in DOMAIN Without(tokens, t) :
                /\ Without(tokens, t)[i] # t
                /\ \E j \in DOMAIN tokens : Without(tokens, t)[i] = tokens[j]
           /\ \A j \in DOMAIN tokens : tokens[j] # t =>
                \E i \in DOMAIN Without(tokens, t) : Without(tokens, t)[i] = tokens[j]
  <1> DEFINE L == Len(tokens)
             a == SubSeq(tokens, 1, n - 1)
             b == SubSeq(tokens, n + 1, L)
             w == a \o b
  <1>1. L \in Nat /\ DOMAIN tokens = 1..L /\ n \in 1..L /\ \A i \in 1..L : tokens[i] \in Tokens
    OBVIOUS
  <1>2. (CHOOSE i \in DOMAIN tokens : tokens[i] = t) = n
    BY DEF Distinct
  <1>3. Without(tokens, t) = w
    BY <1>2 DEF Without
  <1>4. a \in Seq(Tokens) /\ Len(a) = n - 1 /\ \A i \in 1..(n - 1) : a[i] = tokens[i]
    <2>1. \A i \in 1..(n - 1) : tokens[i] \in Tokens
      BY <1>1
    <2> QED BY <1>1, <2>1, SubSeqProperties
  <1>5. b \in Seq(Tokens) /\ Len(b) = L - n /\ \A i \in 1..(L - n) : b[i] = tokens[n + i]
    <2>1. \A i \in (n + 1)..L : tokens[i] \in Tokens
      BY <1>1
    <2> QED BY <1>1, <2>1, SubSeqProperties
  <1> HIDE DEF a, b
  <1>6. w \in Seq(Tokens) /\ Len(w) = L - 1 /\ DOMAIN w = 1..(L - 1)
    <2>1. w \in Seq(Tokens) /\ Len(w) = Len(a) + Len(b)
      <3>1. a \in Seq(Tokens) /\ b \in Seq(Tokens)
        BY <1>4, <1>5
      <3> QED BY <3>1, ConcatProperties
    <2>2. Len(a) + Len(b) = L - 1
      BY <1>1, <1>4, <1>5
    <2> HIDE DEF w, L
    <2> QED BY <2>1, <2>2
  <1>7. \A i \in 1..(L - 1) : w[i] = IF i < n THEN tokens[i] ELSE tokens[i + 1]
    <2> SUFFICES ASSUME NEW i \in 1..(L - 1) PROVE w[i] = IF i < n THEN tokens[i] ELSE tokens[i + 1]
      OBVIOUS
    <2>1. w[i] = IF i <= Len(a) THEN a[i] ELSE b[i - Len(a)]
      BY <1>1, <1>4, <1>5
    <2>2. CASE i < n
      BY <1>1, <1>4, <2>1, <2>2
    <2>3. CASE ~(i < n)
      <3>1. i - (n - 1) \in 1..(L - n) /\ n + (i - (n - 1)) = i + 1
        BY <1>1, <2>3
      <3>2. w[i] = b[i - (n - 1)]
        BY <1>1, <1>4, <2>1, <2>3
      <3> QED BY <1>5, <2>3, <3>1, <3>2
    <2> QED BY <2>2, <2>3
  <1> HIDE DEF w
  <1>8. \A i, j \in 1..L : tokens[i] = tokens[j] => i = j
    BY <1>1 DEF Distinct
  <1>9. Distinct(w)
    <2> SUFFICES ASSUME NEW i \in 1..(L - 1), NEW j \in 1..(L - 1), w[i] = w[j] PROVE i = j
      BY <1>6 DEF Distinct
    <2> PICK x \in 1..L : x = IF i < n THEN i ELSE i + 1
      BY <1>1
    <2> PICK y \in 1..L : y = IF j < n THEN j ELSE j + 1
      BY <1>1
    <2>1. tokens[x] = tokens[y]
      BY <1>7
    <2>2. x = y
      BY <1>8, <2>1
    <2> QED BY <1>1, <2>2
  <1>10. \A i \in 1..(L - 1) : w[i] # t /\ \E j \in DOMAIN tokens : w[i] = tokens[j]
    <2> SUFFICES ASSUME NEW i \in 1..(L - 1)
                 PROVE  w[i] # t /\ \E j \in DOMAIN tokens : w[i] = tokens[j]
      OBVIOUS
    <2> PICK x \in 1..L : x = IF i < n THEN i ELSE i + 1
      BY <1>1
    <2>1. w[i] = tokens[x] /\ x # n
      BY <1>1, <1>7
    <2> QED BY <1>1, <1>8, <2>1
  <1>11. \A j \in DOMAIN tokens : tokens[j] # t => \E i \in 1..(L - 1) : w[i] = tokens[j]
    <2> SUFFICES ASSUME NEW j \in DOMAIN tokens, tokens[j] # t
                 PROVE  \E i \in 1..(L - 1) : w[i] = tokens[j]
      OBVIOUS
    <2>1. j # n /\ j \in 1..L
      BY <1>1
    <2> PICK i \in 1..(L - 1) : j = IF i < n THEN i ELSE i + 1
      <3>1. CASE j < n
        BY <1>1, <2>1, <3>1
      <3>2. CASE j > n
        <4>1. j - 1 \in 1..(L - 1) /\ ~(j - 1 < n) /\ (j - 1) + 1 = j
          BY <1>1, <2>1, <3>2
        <4> QED BY <4>1
      <3> QED BY <1>1, <2>1, <3>1, <3>2
    <2>2. w[i] = tokens[j]
      BY <1>7
    <2> QED BY <2>2
  <1> QED BY <1>3, <1>6, <1>9, <1>10, <1>11

LEMMA AdvancedIs ==
    ASSUME NEW f, NEW back, NEW b, bases[f] \in Nat, b \in bases[f]..(bases[f] + Window),
           b \notin back, bases[f]..(b - 1) \subseteq back
    PROVE  Advanced(f, back) = b
  <1> DEFINE S == {c \in bases[f]..(bases[f] + Window) : c \notin back}
  <1>1. b \in S /\ b \in Nat
    BY FlowsAndCounts
  <1>2. \A c \in S : b <= c
    <2> SUFFICES ASSUME NEW c \in S, c < b PROVE FALSE
      BY <1>1, FlowsAndCounts
    <2>1. c \in bases[f]..(b - 1)
      BY <1>1, FlowsAndCounts
    <2> QED BY <2>1
  <1>3. \A c \in S : (\A d \in S : c <= d) => c = b
    <2> SUFFICES ASSUME NEW c \in S, \A d \in S : c <= d PROVE c = b
      OBVIOUS
    <2>1. c <= b /\ b <= c /\ c \in Nat
      BY <1>1, <1>2, FlowsAndCounts
    <2> QED BY <1>1, <2>1
  <1> HIDE DEF S
  <1>4. Min(S) = b
    BY <1>1, <1>2, <1>3 DEF Min
  <1> QED BY <1>4 DEF Advanced, S

(* A slot whose release word is the packet's generation was given back.    *)
LEMMA GivenBackByGuest ==
    ASSUME RunningState, NEW t \in Tokens, IsHeld(t), GivenBack(t)
    PROVE  /\ t.flow \in Flows /\ t.serial \in Serials
           /\ t.serial < NextOf(t.flow) /\ Releasable(t.flow, t.serial)
  <1> DEFINE f == t.flow
             s == t.serial
  <1>1. IndInv /\ ITypeOK /\ ReleaseWords
    BY DEF RunningState, RunningInv
  <1>2. f \in Flows /\ s \in Serials /\ s \in Nat /\ phase[f][s] = "CPU_OWNED" /\ t = TokenOf(f, s)
    BY SerialsAreNat DEF IsHeld, Tokens
  <1>3. t.slot = SlotOf(s) /\ SlotOf(s) \in Slots /\ t.generation = generation[f][s]
    BY <1>2, SlotOfSerial DEF TokenOf, Token
  <1>4. generation[f][s] = ExpectedGeneration(f, s) /\ s >= InitialSerial[f]
    BY <1>1, <1>2, GenerationIs
  <1>5. memory.release[f][SlotOf(s)] = ExpectedGeneration(f, s) /\ ExpectedGeneration(f, s) # 0
    BY <1>2, <1>3, <1>4, GenerationTyped DEF GivenBack
  <1>6. PICK n \in 0..(guest_consumed[f] - 1) :
            SlotOf(InitialSerial[f] + n) = SlotOf(s) /\ ExpectedGeneration(f, s) = n \div Window + 1
    BY <1>1, <1>2, <1>3, <1>5 DEF ReleaseWords
  <1> DEFINE u == InitialSerial[f] + n
  <1>7. n \in Nat /\ InitialSerial[f] \in Nat /\ guest_consumed[f] \in Nat /\ n < guest_consumed[f]
    <2>1. InitialSerial[f] \in Nat /\ guest_consumed[f] \in Nat
      BY <1>1, <1>2, NextTyped, FlowsAndCounts
    <2> QED BY <2>1
  <1>8. u \in Nat /\ u >= InitialSerial[f] /\ u - InitialSerial[f] = n
    BY <1>7
  <1>9. ExpectedGeneration(f, u) = ExpectedGeneration(f, s)
    BY <1>6, <1>8 DEF ExpectedGeneration
  <1>10. u = s
    BY <1>2, <1>4, <1>6, <1>8, <1>9, SameSerial
  <1>11. s < NextOf(f)
    BY <1>7, <1>10 DEF NextOf
  <1>12. ~WritesInFlight(f, s)
    <2> SUFFICES ASSUME NEW w \in pending, w.token = TokenOf(f, s) PROVE FALSE
      BY DEF WritesInFlight
    <2>1. w.token.flow = f /\ w.token.serial = s
      BY DEF TokenOf, Token
    <2> QED BY <1>1, <1>2, <2>1, OwnerOf
  <1> QED BY <1>2, <1>11, <1>12 DEF Releasable

LEMMA TailOfUnread ==
    ASSUME RunningState, unread # <<>>
    PROVE  /\ Head(unread) = unread[1] /\ Tail(unread) \in Seq(Tokens) /\ Distinct(Tail(unread))
           /\ Within(Tail(unread), holding)
           /\ \A i \in DOMAIN Tail(unread) : Tail(unread)[i] # Head(unread)
           /\ \E n \in DOMAIN holding : holding[n] = Head(unread)
  <1>1. unread \in Seq(Tokens) /\ Distinct(unread) /\ Within(unread, holding)
    BY DEF RunningState, RunningInv, ITypeOK, HoldingInv
  <1> DEFINE u == Tail(unread)
             L == Len(unread)
  <1>2. /\ L \in Nat /\ L > 0 /\ DOMAIN unread = 1..L /\ Head(unread) = unread[1]
        /\ u \in Seq(Tokens) /\ Len(u) = L - 1 /\ DOMAIN u = 1..(L - 1)
        /\ \A i \in 1..(L - 1) : u[i] = unread[i + 1]
    BY <1>1
  <1> HIDE DEF u, L
  <1>3. \A i \in DOMAIN u : i + 1 \in DOMAIN unread /\ u[i] = unread[i + 1] /\ i \in Nat /\ i >= 1
    BY <1>2
  <1>4. Distinct(u)
    <2> SUFFICES ASSUME NEW i \in DOMAIN u, NEW j \in DOMAIN u, u[i] = u[j] PROVE i = j
      BY DEF Distinct
    <2>1. i + 1 = j + 1
      BY <1>1, <1>3 DEF Distinct
    <2> QED BY <1>3, <2>1
  <1>5. Within(u, holding)
    BY <1>1, <1>3 DEF Within
  <1>6. \A i \in DOMAIN u : u[i] # unread[1]
    <2> SUFFICES ASSUME NEW i \in DOMAIN u, u[i] = unread[1] PROVE FALSE
      OBVIOUS
    <2>1. 1 \in DOMAIN unread
      BY <1>2
    <2>2. i + 1 = 1
      BY <1>1, <1>3, <2>1 DEF Distinct
    <2> QED BY <1>3, <2>2
  <1>7. \E n \in DOMAIN holding : holding[n] = unread[1]
    <2>1. 1 \in DOMAIN unread
      BY <1>2
    <2> QED BY <1>1, <2>1 DEF Within
  <1> QED BY <1>2, <1>4, <1>5, <1>6, <1>7 DEF u

LEMMA ProveKept ==
    ASSUME RunningState, UnchangedByDriver, DriverRelease, ~GivenBack(Head(unread))
    PROVE  IntegrationInv'
  <1>1. /\ Running /\ turn = "release" /\ unread # <<>> /\ unread' = Tail(unread)
        /\ UNCHANGED <<vars, holding, freed, bases, outcome>>
        /\ UNCHANGED <<shared, turn, input, writing, remaining, consumed, withdrawn, flags>>
    BY DEF DriverRelease, InTurn
  <1>2. ITypeOK /\ TurnInvariant /\ HoldingInv
    BY DEF RunningState, RunningInv
  <1>3. Moves
    BY <1>1 DEF Moves, shared, Printed
  <1>4. TurnInvariant'
    BY <1>1, <1>2, ClassLeaves DEF TurnInvariant, flags
  <1>5. HoldingInv'
    <2>1. (\A i \in DOMAIN holding : IsHeld(holding[i]))'
      BY <1>1, <1>2, ClassLeaves DEF HoldingInv, IsHeld, TokenOf
    <2>2. Distinct(holding) /\ Distinct(unread') /\ Within(unread', holding)
      BY <1>1, <1>2, TailOfUnread DEF HoldingInv
    <2> QED BY <1>1, <2>1, <2>2 DEF HoldingInv, Distinct, Within
  <1>6. input' \in Seq(Prints) /\ serial_line' \in Seq(Prints) /\ unread' \in Seq(Tokens)
    BY <1>1, <1>2, TailOfUnread DEF ITypeOK, shared
  <1> QED BY <1>1, <1>2, <1>3, <1>4, <1>5, <1>6, ProveMove DEF ITypeOK

LEMMA ProveTakenBack ==
    ASSUME RunningState, UnchangedByDriver, DriverRelease, GivenBack(Head(unread))
    PROVE  IntegrationInv'
  <1>1. /\ Running /\ turn = "release" /\ unread # <<>> /\ unread' = Tail(unread)
        /\ UNCHANGED <<shared, turn, input, writing, remaining, consumed, withdrawn, flags>>
    BY DEF DriverRelease, InTurn
  <1>2. IndInv /\ ITypeOK /\ TurnInvariant /\ BooksAgree /\ HoldingInv /\ MemoryShown /\ FaultInv
        /\ FreedByGuest
    BY DEF RunningState, RunningInv
  <1>3. UNCHANGED <<memory, status, serial_line>> /\ writing = NoWrite /\ writing' = NoWrite /\ ~pumping
        /\ UNCHANGED <<guest_ready, guest_done, guest_failure, fault_injected, held_progress>>
    BY <1>1, <1>2 DEF shared, TurnInvariant, flags
  <1>4. PICK t : t = Head(unread)
    OBVIOUS
  <1>5. PICK n \in DOMAIN holding : holding[n] = t
    BY <1>1, <1>4, TailOfUnread
  <1>6. holding \in Seq(Tokens) /\ Distinct(holding) /\ t \in Tokens /\ IsHeld(t)
    BY <1>2, <1>5 DEF ITypeOK, HoldingInv
  <1>7. PICK f \in Flows, s \in Serials : f = t.flow /\ s = t.serial
    BY <1>6 DEF Tokens
  <1>8. s < NextOf(f) /\ Releasable(f, s) /\ phase[f][s] = "CPU_OWNED" /\ s \in Nat
    BY <1>4, <1>6, <1>7, GivenBackByGuest, SerialsAreNat DEF IsHeld
  <1>9. PICK back : back = freed[f] \cup {s}
    OBVIOUS
  <1>10. /\ Release(f, s) /\ outcome' = outcome /\ holding' = Without(holding, t)
         /\ bases' = [bases EXCEPT ![f] = Advanced(f, back)]
         /\ freed' = [freed EXCEPT ![f] = back \ (bases[f]..(Advanced(f, back) - 1))]
    BY <1>4, <1>7, <1>8, <1>9 DEF DriverRelease
  <1>11. /\ phase' = [phase EXCEPT ![f][s] = "ABSENT"]
         /\ payload' = [payload EXCEPT ![f][s] = NoPayload]
         /\ generation' = [generation EXCEPT ![f][s] = 0]
         /\ UNCHANGED <<next_issue, next_publish, next_consume, generations, halted, data_writes,
                        pending, host_data, host_descriptor, host_ready, pumping>>
    BY <1>10 DEF Release, host, loop
  <1>12. PICK b \in base[f]..(base[f] + Window) :
            /\ b \notin back /\ base[f]..(b - 1) \subseteq back
            /\ base' = [base EXCEPT ![f] = b]
            /\ released' = [released EXCEPT ![f] = back \ (base[f]..(b - 1))]
    BY <1>2, <1>9, <1>10 DEF Release, AdvanceBase, BooksAgree
  <1>13. TypeOK /\ base \in [Flows -> Nat] /\ released \in [Flows -> SUBSET Serials]
         /\ phase \in [Flows -> [Serials -> Phases]]
         /\ payload \in [Flows -> [Serials -> Payloads \cup {NoPayload}]]
         /\ generation \in [Flows -> [Serials -> Nat]]
    BY <1>2, NowTyped DEF TypeOK
  <1>14. bases' = base' /\ freed' = released'
    <2>1. bases = base /\ freed = released
      BY <1>2 DEF BooksAgree
    <2>2. Advanced(f, back) = b
      BY <1>12, <1>13, <2>1, AdvancedIs
    <2> QED BY <1>10, <1>12, <2>1, <2>2
  <1>15. IndInv'
    BY <1>2, <1>10, StepInv DEF Next
  <1>16. \A g \in Flows, u \in Serials :
            phase'[g][u] = IF g = f /\ u = s THEN "ABSENT" ELSE phase[g][u]
    BY <1>11, <1>13
  <1>17. \A g \in Flows, u \in Serials : ~(g = f /\ u = s) =>
            payload'[g][u] = payload[g][u] /\ generation'[g][u] = generation[g][u]
            /\ TokenOf(g, u)' = TokenOf(g, u)
    <2> SUFFICES ASSUME NEW g \in Flows, NEW u \in Serials, ~(g = f /\ u = s)
                 PROVE  payload'[g][u] = payload[g][u] /\ generation'[g][u] = generation[g][u]
                        /\ TokenOf(g, u)' = TokenOf(g, u)
      OBVIOUS
    <2>1. payload'[g][u] = payload[g][u] /\ generation'[g][u] = generation[g][u]
      BY <1>11, <1>13
    <2> QED BY <2>1 DEF TokenOf
  <1>18. TurnInvariant'
    BY <1>1, <1>2, <1>3, <1>11 DEF TurnInvariant
  <1>19. \A g \in Flows : released'[g] \subseteq released[g] \cup (IF g = f THEN {s} ELSE {})
    BY <1>2, <1>9, <1>12, <1>13 DEF BooksAgree
  <1>20. BooksAgree'
    <2>1. \A g \in Flows : \A u \in remaining[g] :
                u \in Sent(g) /\ phase'[g][u] = "ABSENT" /\ u \notin released'[g]
      <3> SUFFICES ASSUME NEW g \in Flows, NEW u \in remaining[g]
                   PROVE  u \in Sent(g) /\ phase'[g][u] = "ABSENT" /\ u \notin released'[g]
        OBVIOUS
      <3>1. u \in Sent(g) /\ phase[g][u] = "ABSENT" /\ u \notin released[g] /\ u \in Serials
        BY <1>2 DEF BooksAgree, ITypeOK
      <3>2. ~(g = f /\ u = s)
        BY <1>8, <3>1
      <3> QED BY <1>16, <1>19, <3>1, <3>2
    <2>2. \A g \in Flows : \A u \in Serials : phase'[g][u] # "ABSENT" =>
                u \in Sent(g) /\ payload'[g][u] = PayloadOf[g][u]
      BY <1>2, <1>16, <1>17 DEF BooksAgree
    <2>3. \A g \in Flows : ~halted'[g] /\ next_consume'[g] = InitialSerial[g] + consumed'[g]
      BY <1>1, <1>2, <1>11 DEF BooksAgree
    <2> QED BY <1>1, <1>14, <2>1, <2>2, <2>3 DEF BooksAgree
  <1>21. HoldingInv' /\ holding' \in Seq(Tokens) /\ unread' \in Seq(Tokens)
    <2>1. /\ holding' \in Seq(Tokens) /\ Distinct(holding')
          /\ \A i \in DOMAIN holding' : holding'[i] # t /\ \E j \in DOMAIN holding : holding'[i] = holding[j]
          /\ \A j \in DOMAIN holding : holding[j] # t => \E i \in DOMAIN holding' : holding'[i] = holding[j]
      BY <1>5, <1>6, <1>10, WithoutIs
    <2>2. unread' \in Seq(Tokens) /\ Distinct(unread') /\ Within(unread', holding)
          /\ \A i \in DOMAIN unread' : unread'[i] # t
      BY <1>1, <1>4, TailOfUnread
    <2>3. Within(unread', holding')
      <3> SUFFICES ASSUME NEW i \in DOMAIN unread' PROVE \E j \in DOMAIN holding' : unread'[i] = holding'[j]
        BY DEF Within
      <3>1. PICK j \in DOMAIN holding : unread'[i] = holding[j]
        BY <2>2 DEF Within
      <3>2. holding[j] # t
        BY <2>2, <3>1
      <3> QED BY <2>1, <3>1, <3>2
    <2>4. (\A i \in DOMAIN holding : IsHeld(holding[i]))'
      <3> SUFFICES ASSUME NEW i \in DOMAIN holding'
                   PROVE  /\ phase'[holding'[i].flow][holding'[i].serial] = "CPU_OWNED"
                          /\ holding'[i] = Token(holding'[i].flow, holding'[i].serial,
                                    generation'[holding'[i].flow][holding'[i].serial])
        BY DEF IsHeld, TokenOf
      <3>1. PICK j \in DOMAIN holding : holding'[i] = holding[j] /\ holding[j] # t
        BY <2>1
      <3>2. PICK u : u = holding[j]
        OBVIOUS
      <3>3. u \in Tokens /\ phase[u.flow][u.serial] = "CPU_OWNED" /\ u = TokenOf(u.flow, u.serial)
        BY <1>2, <1>6, <3>2 DEF HoldingInv, IsHeld
      <3>4. u.flow \in Flows /\ u.serial \in Serials
        BY <3>3 DEF Tokens
      <3>5. ~(u.flow = f /\ u.serial = s)
        BY <1>6, <1>7, <3>1, <3>2, <3>3 DEF IsHeld
      <3>6. phase'[u.flow][u.serial] = "CPU_OWNED" /\ u = TokenOf(u.flow, u.serial)'
        BY <1>16, <1>17, <3>3, <3>4, <3>5
      <3>7. u = Token(u.flow, u.serial, generation'[u.flow][u.serial])
        BY <3>6 DEF TokenOf
      <3> QED BY <3>1, <3>2, <3>6, <3>7
    <2> QED BY <2>1, <2>2, <2>3, <2>4 DEF HoldingInv, Distinct, Within
  <1>22. MemoryShown'
    BY <1>1, <1>2, <1>3, <1>11, DriverLeaves
       DEF MemoryShown, LineShown, FieldShown, ReadyShown, Writing, AtTarget
  <1>23. mode # "adversarial" => ~(f = 0 /\ s = FirstSerial)
    BY <1>2, <1>8, FlowsAndCounts DEF FaultInv, NextOf, FirstSerial
  <1>24. FaultInv'
    <2>1. TargetHeld \/ TargetComing \/ mode # "adversarial" => ~(f = 0 /\ s = FirstSerial)
      BY <1>8, <1>23 DEF TargetHeld, TargetComing, TargetPhase
    <2>2. ~(f = 0 /\ s = FirstSerial) =>
            TargetPhase' = TargetPhase /\ \A i : TargetWrite(i)' = TargetWrite(i)
      BY <1>16, <1>17, FirstSent, FlowsAndCounts DEF TargetPhase, TargetWrite, FirstSerial
    <2>3. TargetHeld => TargetHeld'
      BY <1>11, <2>1, <2>2 DEF TargetHeld, FirstSerial, LastLine
    <2>4. TargetComing => TargetComing'
      BY <1>1, <1>11, <2>1, <2>2 DEF TargetComing, FirstSerial
    <2>5. \A w : (IsTarget(w) <=> IsTarget(w)') /\ (IsLastLine(w) <=> IsLastLine(w)')
      BY DEF IsTarget, IsLastLine, LastLine, FirstSerial
    <2>6. UNCHANGED <<mode, guest_consumed, at, flow_at>>
      BY DriverLeaves
    <2>7. mode # "adversarial" => TargetPhase' = TargetPhase /\ TargetWrite(0)' = TargetWrite(0)
      BY <2>1, <2>2
    <2>8. mode = "adversarial" => FaultInv'
      BY <1>1, <1>2, <1>3, <2>3, <2>6 DEF FaultInv
    <2>9. mode = "corrupt-payload" => FaultInv'
      BY <1>1, <1>2, <1>3, <1>11, <2>4, <2>6, <2>7 DEF FaultInv
    <2>10. mode = "early-ready" => FaultInv'
      BY <1>1, <1>2, <1>3, <1>11, <2>3, <2>5, <2>6, <2>7 DEF FaultInv
    <2> QED BY <1>2, <2>8, <2>9, <2>10, ModeTyped
  <1>25. FreedByGuest'
    <2>1. \A g \in Flows : ShownTo(g)' = ShownTo(g) /\ NextOf(g)' = NextOf(g)
      BY <1>1, <1>11, DriverLeaves DEF ShownTo
    <2>2. ASSUME NEW g \in Flows
          PROVE  base'[g] <= NextOf(g) /\ \A u \in released'[g] : u < NextOf(g)
      <3>1. base[g] <= NextOf(g) /\ \A u \in released[g] : u < NextOf(g)
        BY <1>2 DEF FreedByGuest
      <3>2. CASE g # f
        BY <1>12, <1>13, <3>1, <3>2
      <3>3. CASE g = f
        <4>1. \A u \in back : u < NextOf(f)
          BY <1>2, <1>8, <1>9, <3>1, <3>3 DEF BooksAgree
        <4>2. NextOf(f) \in Nat /\ base[f] \in Nat /\ b \in Nat
          BY <1>2, <1>12, <1>13, NextTyped, FlowsAndCounts
        <4>3. b <= NextOf(f)
          <5>1. CASE b = base[f]
            BY <3>1, <3>3, <5>1
          <5>2. CASE b > base[f]
            <6>1. b - 1 \in base[f]..(b - 1)
              BY <4>2, <5>2
            <6>2. b - 1 < NextOf(f)
              BY <1>12, <4>1, <6>1
            <6> QED BY <4>2, <6>2
          <5> QED BY <1>12, <4>2, <5>1, <5>2
        <4> QED BY <1>12, <1>13, <3>3, <4>1, <4>3
      <3> QED BY <3>2, <3>3
    <2>3. \A g \in Flows : NextOf(g) <= ShownTo(g)
      BY <1>2 DEF FreedByGuest
    <2> QED BY <2>1, <2>2, <2>3 DEF FreedByGuest
  <1>26. ReleaseWords'
    BY <1>3, DriverLeaves DEF RunningState, RunningInv, ReleaseWords
  <1>27. GuestInv'
    <2>1. Reading => Entitled(flow_at, SerialAt)'
      <3> SUFFICES ASSUME Reading PROVE Entitled(flow_at, SerialAt)'
        OBVIOUS
      <3>1. /\ Entitled(flow_at, SerialAt) /\ flow_at \in Flows /\ SerialAt \in Serials
            /\ SerialAt = NextOf(flow_at)
        BY ReadingState DEF RunningState, RunningInv, GuestInv
      <3>2. ~(flow_at = f /\ SerialAt = s)
        BY <1>8, <3>1
      <3> QED BY <1>1, <1>3, <1>16, <3>1, <3>2, DriverLeaves DEF Entitled, Writing
    <2> QED BY <1>3, <2>1, DriverLeaves DEF RunningState, RunningInv, GuestInv
  <1>28. Printed' = Printed
    BY <1>1, <1>3 DEF Printed
  <1>29. ReportsInTurn'
    BY <1>11, <1>28, SameReports, DriverLeaves DEF RunningState, RunningInv
  <1>30. LinesInv'
    BY <1>3, <1>28, SameLines
  <1>31. ITypeOK'
    <2>1. bases' \in [Flows -> Nat] /\ freed' \in [Flows -> SUBSET Serials]
      BY <1>14, <1>15, NowTyped DEF IndInv, TypeOK
    <2>2. UNCHANGED <<turn, input, serial_line, remaining, consumed, outcome>>
      BY <1>1, <1>3, <1>10
    <2> QED BY <1>2, <1>3, <1>21, <2>1, <2>2, DriverLeaves DEF ITypeOK
  <1>32. NeverRaises'
    BY <1>1, <1>10 DEF NeverRaises, Running
  <1> QED BY <1>15, <1>18, <1>20, <1>21, <1>22, <1>24, <1>25, <1>26, <1>27, <1>29, <1>30, <1>31, <1>32
       DEF IntegrationInv, RunningInv
--------------------------------------------------------------------------------
(* The calls of the class.                                                 *)

(* What is left to show of a call that leaves memory, lines and the CPU's  *)
(* packets alone.                                                          *)
LEMMA ProveCall ==
    ASSUME RunningState, Running, UnchangedByDriver, IndInv',
           UNCHANGED <<shared, input, unread, bases, freed, consumed, holding, flags, outcome>>,
           UNCHANGED <<base, released, next_consume, halted>>,
           \A g \in Flows, u \in Serials : phase[g][u] = "CPU_OWNED" =>
                phase'[g][u] = "CPU_OWNED" /\ generation'[g][u] = generation[g][u],
           \A g \in Flows, u \in Serials : Entitled(g, u) => Entitled(g, u)',
           \A g \in Flows : ShownTo(g)' = ShownTo(g),
           \A g \in Flows : \A u \in remaining'[g] : u \in remaining[g] /\ phase'[g][u] = "ABSENT",
           \A g \in Flows : \A u \in Serials : phase'[g][u] # "ABSENT" =>
                u \in Sent(g) /\ payload'[g][u] = PayloadOf[g][u],
           remaining' \in [Flows -> SUBSET Serials], writing' \in Writes \cup {NoWrite},
           turn' \in {"poll", "lines", "release", "feed", "pump", "withdraw", "write",
                      "complete", "inject", "finish"},
           TurnInvariant', MemoryShown', FaultInv'
    PROVE  IntegrationInv'
  <1>1. /\ IndInv /\ ITypeOK /\ TurnInvariant /\ BooksAgree /\ HoldingInv /\ FreedByGuest
        /\ ReleaseWords /\ GuestInv /\ ReportsInTurn
    BY DEF RunningState, RunningInv
  <1>2. UNCHANGED <<memory, status, serial_line, guest_ready, guest_done, guest_failure,
                    fault_injected, held_progress>>
    BY DEF shared, flags
  <1>3. BooksAgree'
    <2>1. \A g \in Flows : \A u \in remaining'[g] :
                u \in Sent(g) /\ phase'[g][u] = "ABSENT" /\ u \notin released[g]
      BY <1>1 DEF BooksAgree
    <2> QED BY <1>1, <2>1 DEF BooksAgree
  <1>4. HoldingInv'
    <2>1. (\A i \in DOMAIN holding : IsHeld(holding[i]))'
      <3> SUFFICES ASSUME NEW i \in DOMAIN holding PROVE IsHeld(holding[i])'
        OBVIOUS
      <3>1. PICK t : t = holding[i]
        OBVIOUS
      <3>2. t \in Tokens /\ IsHeld(t)
        BY <1>1, <3>1 DEF ITypeOK, HoldingInv
      <3>3. t.flow \in Flows /\ t.serial \in Serials
        BY <3>2 DEF Tokens
      <3> QED BY <3>1, <3>2, <3>3 DEF IsHeld, TokenOf
    <2> QED BY <1>1, <2>1 DEF HoldingInv, Distinct, Within
  <1>5. FreedByGuest'
    BY <1>1, DriverLeaves DEF FreedByGuest
  <1>6. ReleaseWords'
    BY <1>1, <1>2, DriverLeaves DEF ReleaseWords
  <1>7. GuestInv'
    <2>1. Reading => Entitled(flow_at, SerialAt)'
      <3> SUFFICES ASSUME Reading PROVE Entitled(flow_at, SerialAt)'
        OBVIOUS
      <3>1. PICK g \in Flows, u \in Serials : g = flow_at /\ u = SerialAt
        BY ReadingState
      <3>2. Entitled(g, u)'
        BY <1>1, <3>1 DEF GuestInv
      <3> QED BY <3>1, <3>2, DriverLeaves DEF Entitled, Writing
    <2> QED BY <1>1, <1>2, <2>1, DriverLeaves DEF GuestInv
  <1>8. Printed' = Printed
    BY <1>2 DEF Printed
  <1>9. ReportsInTurn'
    BY <1>1, <1>8, SameReports, DriverLeaves
  <1>10. LinesInv'
    BY <1>2, <1>8, SameLines
  <1>11. ITypeOK'
    BY <1>1, <1>2, DriverLeaves DEF ITypeOK
  <1>12. NeverRaises'
    BY DEF NeverRaises, Running
  <1> QED BY <1>3, <1>4, <1>5, <1>6, <1>7, <1>9, <1>10, <1>11, <1>12
       DEF IntegrationInv, RunningInv

(* The last candidate of a window is one of them.                          *)
LEMMA LastCandidate ==
    ASSUME IndInv, BooksAgree, NEW f \in Flows, Candidates(f) # {}
    PROVE  Max(Candidates(f)) \in Candidates(f)
  <1> DEFINE C == Candidates(f)
             top == bases[f] + Window
  <1>1. bases[f] \in Nat /\ Window \in Nat
    BY NowTyped, FlowsAndCounts DEF BooksAgree
  <1>2. \A s \in C : s \in Nat /\ s \in Sent(f) /\ s < top /\ bases[f] <= s
    BY SentTyped DEF Candidates, BooksAgree
  <1> DEFINE D == {d \in Nat : \E s \in C : d = top - s}
  <1>3. D \in SUBSET Nat /\ D # {}
    <2>1. PICK s \in C : TRUE
      OBVIOUS
    <2>2. s \in Nat /\ s < top
      BY <1>2
    <2>3. top - s \in Nat
      BY <1>1, <2>2
    <2>4. top - s \in D
      BY <2>1, <2>3
    <2> QED BY <2>4
  <1>4. PICK d \in D : \A e \in D : d <= e
    BY <1>3, LeastExists
  <1>5. PICK m \in C : d = top - m
    BY <1>4
  <1>6. \A s \in C : m >= s
    <2> SUFFICES ASSUME NEW s \in C PROVE m >= s
      OBVIOUS
    <2>1. s \in Nat /\ s < top /\ m \in Nat
      BY <1>2
    <2>2. top - s \in D
      BY <1>1, <2>1
    <2>3. top - m <= top - s
      BY <1>4, <1>5, <2>2
    <2> QED BY <1>1, <2>1, <2>3
  <1> HIDE DEF C
  <1>7. Max(C) \in C
    BY <1>5, <1>6 DEF Max
  <1> QED BY <1>7 DEF C

(* The next packet of a window is one that the class takes in.             *)
LEMMA CandidateIsTaken ==
    ASSUME RunningState, NEW f \in Flows, NEW s \in Candidates(f)
    PROVE  /\ s \in Serials /\ s \in Sent(f) /\ phase[f][s] = "ABSENT"
           /\ Admissible(f, s) /\ ~SlotOwned(f, s)
  <1>1. IndInv /\ BooksAgree
    BY DEF RunningState, RunningInv
  <1>2. /\ s \in Sent(f) /\ phase[f][s] = "ABSENT" /\ s \notin released[f] /\ ~halted[f]
        /\ base[f] <= s /\ s < base[f] + Window
    BY <1>1 DEF BooksAgree, Candidates
  <1>3. s \in Serials /\ s \in Nat /\ base[f] \in Nat /\ Window \in Nat
    BY <1>1, <1>2, SentTyped, NowTyped, FlowsAndCounts
  <1>4. ~(s < base[f]) /\ ~(s >= base[f] + Window)
    BY <1>2, <1>3
  <1>5. Admissible(f, s)
    BY <1>2, <1>3, <1>4 DEF Admissible, Late, OutsideWindow, Present
  <1>6. ~SlotOwned(f, s)
    BY <1>1, <1>3, <1>5, InvNoFault DEF NoInternalFault
  <1> QED BY <1>2, <1>3, <1>5, <1>6

LEMMA ProveFeed ==
    ASSUME RunningState, UnchangedByDriver, DriverFeed
    PROVE  IntegrationInv'
  <1>1. /\ Running /\ turn = "feed"
        /\ UNCHANGED <<shared, turn, input, unread, writing, bases, freed, consumed,
                   holding, withdrawn, flags>>
    BY DEF DriverFeed, InTurn
  <1>2. IndInv /\ ITypeOK /\ TurnInvariant /\ BooksAgree /\ MemoryShown /\ FaultInv
    BY DEF RunningState, RunningInv
  <1>3. UNCHANGED <<memory, status, serial_line>> /\ writing = NoWrite /\ writing' = NoWrite /\ ~pumping
        /\ UNCHANGED <<guest_ready, guest_done, guest_failure, fault_injected, held_progress>>
    BY <1>1, <1>2 DEF shared, TurnInvariant, flags
  <1>4. PICK f \in Flows :
            /\ Candidates(f) # {}
            /\ LET s == Max(Candidates(f))
               IN  IF Admissible(f, s) /\ ~SlotOwned(f, s)
                   THEN /\ \E e \in Epochs, q \in Sequences :
                            /\ WireSerial(e, q) = s
                            /\ Receive(f, e, q, PayloadOf[f][s])
                        /\ remaining' = [remaining EXCEPT ![f] = @ \ {s}]
                        /\ UNCHANGED outcome
                   ELSE outcome' = "raised" /\ UNCHANGED <<vars, remaining>>
    BY DEF DriverFeed
  <1>5. PICK s \in Candidates(f) : s = Max(Candidates(f))
    BY <1>2, <1>4, LastCandidate
  <1>6. /\ s \in Serials /\ s \in Sent(f) /\ phase[f][s] = "ABSENT"
        /\ Admissible(f, s) /\ ~SlotOwned(f, s) /\ SlotOf(s) \in Slots
    BY CandidateIsTaken, SlotOfSerial
  <1>7. outcome' = outcome /\ remaining' = [remaining EXCEPT ![f] = @ \ {s}]
    BY <1>4, <1>5, <1>6
  <1>8. PICK e \in Epochs, q \in Sequences :
            WireSerial(e, q) = s /\ Receive(f, e, q, PayloadOf[f][s])
    BY <1>4, <1>5, <1>6
  <1>9. PICK g \in Nat : /\ phase' = [phase EXCEPT ![f][s] = "WAIT_SEQ"]
                         /\ payload' = [payload EXCEPT ![f][s] = PayloadOf[f][s]]
                         /\ generation' = [generation EXCEPT ![f][s] = g]
    <2>1. generations[f][SlotOf(s)] + 1 \in Nat
      BY <1>2, <1>6 DEF IndInv, TypeOK
    <2> QED BY <1>8, <2>1 DEF Receive, NextGeneration
  <1>10. UNCHANGED <<base, next_issue, next_publish, next_consume, released, halted, data_writes,
                     pending, host_data, host_descriptor, host_ready, pumping>>
    BY <1>8 DEF Receive, cursors, host, loop
  <1>11. PayloadOf[f][s] \in Payloads
    BY <1>6, SentTyped
  <1>12. IndInv'
    BY <1>2, <1>8, <1>11, StepInv DEF Next
  <1>13. TypeOK /\ phase \in [Flows -> [Serials -> Phases]]
         /\ payload \in [Flows -> [Serials -> Payloads \cup {NoPayload}]]
         /\ generation \in [Flows -> [Serials -> Nat]] /\ remaining \in [Flows -> SUBSET Serials]
    BY <1>2, NowTyped DEF TypeOK, ITypeOK
  <1>14. \A h \in Flows, u \in Serials :
            /\ phase'[h][u] = IF h = f /\ u = s THEN "WAIT_SEQ" ELSE phase[h][u]
            /\ payload'[h][u] = IF h = f /\ u = s THEN PayloadOf[f][s] ELSE payload[h][u]
            /\ generation'[h][u] = IF h = f /\ u = s THEN g ELSE generation[h][u]
    BY <1>9, <1>13
  <1>15. \A h \in Flows, u \in Serials : phase[h][u] = "CPU_OWNED" =>
            phase'[h][u] = "CPU_OWNED" /\ generation'[h][u] = generation[h][u]
    BY <1>6, <1>14
  <1>16. \A h \in Flows, u \in Serials : Entitled(h, u) => Entitled(h, u)'
    BY <1>1, <1>3, <1>6, <1>14, DriverLeaves DEF Entitled, Writing, Published
  <1>17. \A h \in Flows : ShownTo(h)' = ShownTo(h)
    BY <1>1, <1>10 DEF ShownTo
  <1>18. \A h \in Flows : \A u \in remaining'[h] : u \in remaining[h] /\ phase'[h][u] = "ABSENT"
    <2> SUFFICES ASSUME NEW h \in Flows, NEW u \in remaining'[h]
                 PROVE  u \in remaining[h] /\ phase'[h][u] = "ABSENT"
      OBVIOUS
    <2>1. u \in remaining[h] /\ ~(h = f /\ u = s)
      BY <1>7, <1>13
    <2>2. u \in Serials /\ phase[h][u] = "ABSENT"
      BY <1>2, <1>13, <2>1 DEF BooksAgree
    <2> QED BY <1>14, <2>1, <2>2
  <1>19. \A h \in Flows : \A u \in Serials : phase'[h][u] # "ABSENT" =>
                u \in Sent(h) /\ payload'[h][u] = PayloadOf[h][u]
    BY <1>2, <1>6, <1>14 DEF BooksAgree
  <1>20. remaining' \in [Flows -> SUBSET Serials]
    BY <1>7, <1>13
  <1>21. TurnInvariant'
    BY <1>1, <1>2, <1>3, <1>10 DEF TurnInvariant
  <1>22. MemoryShown'
    BY <1>1, <1>2, <1>3, <1>10, DriverLeaves
       DEF MemoryShown, LineShown, FieldShown, ReadyShown, Writing, AtTarget
  <1>23. FaultInv'
    <2>1. /\ TargetPhase' = (IF f = 0 /\ s = FirstSerial THEN "WAIT_SEQ" ELSE TargetPhase)
          /\ f = 0 /\ s = FirstSerial => TargetPhase = "ABSENT"
      BY <1>6, <1>14, FirstSent, FlowsAndCounts DEF TargetPhase, FirstSerial
    <2>2. ~(f = 0 /\ s = FirstSerial) => \A i : TargetWrite(i)' = TargetWrite(i)
      BY <1>14, FirstSent, FlowsAndCounts DEF TargetWrite, FirstSerial, TokenOf
    <2>3. TargetHeld => TargetHeld'
      BY <1>10, <2>1, <2>2 DEF TargetHeld, FirstSerial, LastLine
    <2>4. TargetComing => TargetComing'
      BY <1>1, <1>10, <2>1, <2>2 DEF TargetComing, FirstSerial
    <2>5. \A w : (IsTarget(w) <=> IsTarget(w)') /\ (IsLastLine(w) <=> IsLastLine(w)')
      BY DEF IsTarget, IsLastLine, LastLine, FirstSerial
    <2>6. UNCHANGED <<mode, guest_consumed, at, flow_at>>
      BY DriverLeaves
    <2>7. mode = "adversarial" => FaultInv'
      BY <1>1, <1>2, <1>3, <2>3, <2>6 DEF FaultInv
    <2>8. mode = "corrupt-payload" => FaultInv'
      <3>1. CASE fault_injected
        <4>1. mode = "corrupt-payload" => TargetPhase' = TargetPhase /\ TargetWrite(0)' = TargetWrite(0)
          BY <1>2, <2>1, <2>2, <3>1 DEF FaultInv
        <4> QED BY <1>1, <1>2, <1>3, <1>10, <2>6, <3>1, <4>1 DEF FaultInv
      <3>2. CASE ~fault_injected
        BY <1>1, <1>2, <1>3, <1>10, <2>4, <2>6, <3>2 DEF FaultInv
      <3> QED BY <3>1, <3>2
    <2>9. mode = "early-ready" => FaultInv'
      <3>1. mode = "early-ready" /\ fault_injected => TargetPhase' = TargetPhase
        BY <1>2, <2>1 DEF FaultInv
      <3>2. host_data'[0][SlotOf(FirstSerial)'][LastLine'] = host_data[0][SlotOf(FirstSerial)][LastLine]
        BY <1>10 DEF SlotOf, FirstSerial, LastLine
      <3> QED BY <1>1, <1>2, <1>3, <1>10, <2>3, <2>5, <2>6, <3>1, <3>2 DEF FaultInv
    <2> QED BY <1>2, <2>6, <2>7, <2>8, <2>9, ModeTyped
  <1> QED BY <1>1, <1>2, <1>3, <1>7, <1>10, <1>12, <1>15, <1>16, <1>17, <1>18, <1>19, <1>20, <1>21,
             <1>22, <1>23, ProveCall DEF ITypeOK

LEMMA ProveLoop ==
    ASSUME RunningState, UnchangedByDriver, InTurn("pump"), turn' = turn, IndInv',
           UNCHANGED <<shared, input, unread, writing, books, flags, outcome>>,
           UNCHANGED <<cursors, released, generations, halted, packets, pending, host>>
    PROVE  IntegrationInv'
  <1>1. Running /\ turn = "pump"
    BY DEF InTurn
  <1>2. IndInv /\ ITypeOK /\ TurnInvariant /\ BooksAgree /\ MemoryShown /\ FaultInv
    BY DEF RunningState, RunningInv
  <1>3. UNCHANGED <<base, next_issue, next_publish, next_consume, released, phase, payload,
                    generation, data_writes, pending, host_data, host_descriptor, host_ready, halted,
                    memory, guest_ready, guest_done, fault_injected, held_progress,
                    remaining, bases, freed, consumed, holding>>
    BY DEF cursors, packets, host, books, flags, shared
  <1>4. TurnInvariant'
    BY <1>1, <1>2, <1>3, DriverLeaves DEF TurnInvariant
  <1>5. MemoryShown'
    BY <1>2, <1>3, DriverLeaves
       DEF MemoryShown, LineShown, FieldShown, ReadyShown, Writing, AtTarget
  <1>6. FaultInv'
    BY <1>2, <1>3, DriverLeaves DEF FaultInv, TargetHeld, TargetComing, TargetPhase, TargetWrite,
       IsTarget, IsLastLine, TokenOf
  <1>7. \A g \in Flows, u \in Serials : Entitled(g, u) => Entitled(g, u)'
    BY <1>3, DriverLeaves DEF Entitled, Writing
  <1>8. \A g \in Flows : ShownTo(g)' = ShownTo(g)
    BY <1>3 DEF ShownTo
  <1>9. \A g \in Flows : \A u \in remaining'[g] : u \in remaining[g] /\ phase'[g][u] = "ABSENT"
    BY <1>2, <1>3 DEF BooksAgree
  <1>10. \A g \in Flows : \A u \in Serials : phase'[g][u] # "ABSENT" =>
                u \in Sent(g) /\ payload'[g][u] = PayloadOf[g][u]
    BY <1>2, <1>3 DEF BooksAgree
  <1>11. remaining' \in [Flows -> SUBSET Serials] /\ writing' \in Writes \cup {NoWrite}
    BY <1>2, <1>3 DEF ITypeOK
  <1> QED BY <1>1, <1>3, <1>4, <1>5, <1>6, <1>7, <1>8, <1>9, <1>10, <1>11, ProveCall

(* The writes of a packet that is issued.                                  *)
LEMMA TargetWritesIssued ==
    /\ TargetWrite(0) \in DataWrites(TokenOf(0, FirstSerial), PayloadOf[0][FirstSerial])
    /\ TargetWrite(LastLine) \in DataWrites(TokenOf(0, FirstSerial), PayloadOf[0][FirstSerial])
  BY TargetLines DEF TargetWrite, DataWrites

LEMMA ProveIssue ==
    ASSUME RunningState, UnchangedByDriver, InTurn("pump"), turn' = turn, IndInv',
           UNCHANGED <<shared, input, unread, writing, books, flags, outcome>>,
           NEW k \in 0..(NumFlows - 1), PumpIssue(k)
    PROVE  IntegrationInv'
  <1>1. Running /\ turn = "pump"
    BY DEF InTurn
  <1>2. IndInv /\ ITypeOK /\ TurnInvariant /\ BooksAgree /\ MemoryShown /\ FaultInv
    BY DEF RunningState, RunningInv
  <1>3. /\ UNCHANGED <<memory, guest_ready, guest_done, fault_injected, held_progress,
                       remaining, bases, freed, consumed, holding>>
        /\ writing = NoWrite /\ writing' = NoWrite /\ turn' = "pump"
    BY <1>1, <1>2 DEF books, flags, shared, TurnInvariant
  <1>4. k \in Nat
    BY FlowsAndCounts
  <1>5. PICK f \in Flows : f = FlowAt(k)
    BY <1>2, <1>4, FlowAtTyped DEF IndInv
  <1>6. HeadWaits(f) /\ TypeOK /\ PacketInWindow
    BY <1>2, <1>5 DEF PumpIssue, Issuable, IndInv
  <1>7. PICK s \in Serials : s = next_issue[f]
    BY <1>6, HeadTyped
  <1>8. PICK token \in Tokens : token = TokenOf(f, s)
    BY <1>6, <1>7, HeadTyped
  <1>9. phase[f][s] = "WAIT_SEQ" /\ payload[f][s] = PayloadOf[f][s] /\ payload[f][s] \in Payloads
    BY <1>2, <1>6, <1>7, HeadTyped DEF HeadWaits, BooksAgree
  <1>10. PICK writes \in SUBSET Writes : writes = DataWrites(token, PayloadOf[f][s])
    BY <1>6, <1>7, <1>8, <1>9, HeadTyped
  <1>11. /\ phase' = [phase EXCEPT ![f][s] = "PUSHING"]
         /\ data_writes' = [data_writes EXCEPT ![f][s] = writes]
         /\ pending' = pending \cup writes
         /\ UNCHANGED <<base, next_publish, next_consume, released, generations,
                       halted, payload, generation, host_data, host_descriptor, host_ready>>
    BY <1>5, <1>7, <1>8, <1>9, <1>10 DEF PumpIssue, host
  <1>12. \A h \in Flows, u \in Serials :
            /\ phase'[h][u] = IF h = f /\ u = s THEN "PUSHING" ELSE phase[h][u]
            /\ data_writes'[h][u] = IF h = f /\ u = s THEN writes ELSE data_writes[h][u]
    BY <1>6, <1>11 DEF TypeOK
  <1>13. \A h \in Flows, u \in Serials : phase[h][u] = "CPU_OWNED" =>
            phase'[h][u] = "CPU_OWNED" /\ generation'[h][u] = generation[h][u]
    BY <1>9, <1>11, <1>12
  <1>14. \A h \in Flows, u \in Serials : Entitled(h, u) => Entitled(h, u)'
    BY <1>3, <1>9, <1>12, DriverLeaves DEF Entitled, Writing, Published
  <1>15. \A h \in Flows : ShownTo(h)' = ShownTo(h)
    BY <1>3, <1>11 DEF ShownTo
  <1>16. \A h \in Flows : \A u \in remaining'[h] : u \in remaining[h] /\ phase'[h][u] = "ABSENT"
    <2> SUFFICES ASSUME NEW h \in Flows, NEW u \in remaining[h]
                 PROVE  phase'[h][u] = "ABSENT"
      BY <1>3
    <2>1. u \in Serials /\ phase[h][u] = "ABSENT"
      BY <1>2 DEF BooksAgree, ITypeOK
    <2> QED BY <1>9, <1>12, <2>1
  <1>17. \A h \in Flows : \A u \in Serials : phase'[h][u] # "ABSENT" =>
                u \in Sent(h) /\ payload'[h][u] = PayloadOf[h][u]
    BY <1>2, <1>9, <1>11, <1>12 DEF BooksAgree
  <1>18. remaining' \in [Flows -> SUBSET Serials] /\ writing' \in Writes \cup {NoWrite}
    BY <1>2, <1>3 DEF ITypeOK
  <1>19. TurnInvariant'
    BY <1>1, <1>2, <1>3 DEF TurnInvariant
  <1>20. MemoryShown'
    BY <1>2, <1>3, <1>11, DriverLeaves
       DEF MemoryShown, LineShown, FieldShown, ReadyShown, Writing, AtTarget
  <1>21. FaultInv'
    <2>1. /\ TargetPhase' = (IF f = 0 /\ s = FirstSerial THEN "PUSHING" ELSE TargetPhase)
          /\ f = 0 /\ s = FirstSerial => TargetPhase = "WAIT_SEQ"
      BY <1>9, <1>12, FirstSent, FlowsAndCounts DEF TargetPhase, FirstSerial
    <2>2. \A i : TargetWrite(i)' = TargetWrite(i)
      BY <1>11 DEF TargetWrite, FirstSerial, TokenOf
    <2>3. f = 0 /\ s = FirstSerial =>
            TargetWrite(0) \in data_writes'[0][FirstSerial] /\ TargetWrite(LastLine) \in data_writes'[0][FirstSerial]
      BY <1>8, <1>10, <1>12, TargetWritesIssued
    <2>4. ~(f = 0 /\ s = FirstSerial) => data_writes'[0][FirstSerial] = data_writes[0][FirstSerial]
      BY <1>12, FirstSent, FlowsAndCounts
    <2>5. TargetHeld => TargetHeld'
      BY <1>11, <2>1, <2>2, <2>3, <2>4 DEF TargetHeld, FirstSerial, LastLine
    <2>6. f = 0 /\ s = FirstSerial => TargetWrite(0) # NoWrite
      BY <1>8, <1>10, TargetWritesIssued, IntegrationAssumption
    <2>7. TargetComing => TargetComing'
      BY <1>3, <1>11, <2>1, <2>2, <2>3, <2>4, <2>6 DEF TargetComing, FirstSerial
    <2>8. \A w : (IsTarget(w) <=> IsTarget(w)') /\ (IsLastLine(w) <=> IsLastLine(w)')
      BY DEF IsTarget, IsLastLine, LastLine, FirstSerial
    <2>9. UNCHANGED <<mode, guest_consumed, at, flow_at>>
      BY DriverLeaves
    <2>10. ~(f = 0 /\ s = FirstSerial) => \A w \in pending' : IsTarget(w) => w \in pending
      <3> SUFFICES ASSUME ~(f = 0 /\ s = FirstSerial), NEW w \in writes, IsTarget(w) PROVE FALSE
        BY <1>11
      <3>1. w.token = token /\ token.flow = f /\ token.serial = s
        BY <1>8, <1>10, DataWritesAre DEF TokenOf, Token
      <3> QED BY <3>1 DEF IsTarget
    <2>11. mode = "adversarial" => FaultInv'
      BY <1>3, <1>2, <2>5, <2>9 DEF FaultInv
    <2>12. mode = "corrupt-payload" => FaultInv'
      <3>1. CASE fault_injected
        <4>1. mode = "corrupt-payload" => ~(f = 0 /\ s = FirstSerial)
          BY <1>2, <2>1, <3>1 DEF FaultInv
        <4>2. mode = "corrupt-payload" => TargetPhase' = TargetPhase /\ TargetPhase \notin {"ABSENT", "WAIT_SEQ"}
          BY <1>2, <2>1, <3>1, <4>1 DEF FaultInv
        <4>3. mode = "corrupt-payload" /\ TargetWrite(0) \in pending' => writing = TargetWrite(0)
          <5>1. IsTarget(TargetWrite(0))
            BY DEF IsTarget, TargetWrite, PayloadWrite, TokenOf, Token
          <5> QED BY <1>2, <2>10, <3>1, <4>1, <5>1 DEF FaultInv
        <4> QED BY <1>3, <1>2, <2>2, <2>9, <3>1, <4>2, <4>3 DEF FaultInv
      <3>2. CASE ~fault_injected
        BY <1>3, <1>2, <2>7, <2>9, <3>2 DEF FaultInv
      <3> QED BY <3>1, <3>2
    <2>13. mode = "early-ready" => FaultInv'
      <3>1. mode = "early-ready" /\ fault_injected => ~(f = 0 /\ s = FirstSerial) /\ TargetPhase' = TargetPhase
        BY <1>2, <2>1 DEF FaultInv
      <3>2. host_data'[0][SlotOf(FirstSerial)'][LastLine'] = host_data[0][SlotOf(FirstSerial)][LastLine]
        BY <1>11 DEF SlotOf, FirstSerial, LastLine
      <3>3. mode = "early-ready" /\ fault_injected => \A w \in pending' : IsTarget(w) => IsLastLine(w)
        BY <1>2, <2>10, <3>1 DEF FaultInv
      <3> QED BY <1>3, <1>2, <2>5, <2>8, <2>9, <3>1, <3>2, <3>3 DEF FaultInv
    <2> QED BY <1>2, <2>11, <2>12, <2>13, ModeTyped
  <1> QED BY <1>1, <1>3, <1>11, <1>13, <1>14, <1>15, <1>16, <1>17, <1>18, <1>19,
             <1>20, <1>21, ProveCall

LEMMA ProvePump ==
    ASSUME RunningState, UnchangedByDriver, DriverPump
    PROVE  IntegrationInv'
  <1>1. InTurn("pump") /\ UNCHANGED <<shared, input, unread, writing, books, flags, outcome>>
    BY DEF DriverPump
  <1>2. CASE Pump /\ UNCHANGED turn
    <2>1. IndInv'
      BY <1>2, StepInv DEF RunningState, Next
    <2>2. CASE PumpCall \/ PumpPass
      <3>1. UNCHANGED <<cursors, released, generations, halted, packets, pending, host>>
        BY <2>2 DEF PumpCall, PumpPass
      <3> QED BY <1>1, <1>2, <2>1, <3>1, ProveLoop
    <2>3. CASE \E k \in 0..(NumFlows - 1) : PumpIssue(k)
      BY <1>1, <1>2, <2>1, <2>3, ProveIssue
    <2> QED BY <1>2, <2>2, <2>3 DEF Pump
  <1>3. CASE ~pumping /\ turn' = (IF post_push THEN "withdraw" ELSE "write") /\ UNCHANGED vars
    BY <1>1, <1>3, ProvePumped
  <1> QED BY <1>2, <1>3 DEF DriverPump
--------------------------------------------------------------------------------
(* A write takes effect in memory.                                         *)

LEMMA StoredIs ==
    ASSUME ITypeOK, NEW w \in Writes
    PROVE  /\ Stored(w) \in Memories /\ Stored(w).release = memory.release
           /\ \A f \in Flows, k \in Slots :
                /\ \A i \in HostLines : Stored(w).line[f][k][i] =
                    IF w.kind = "payload" /\ w.token.flow = f /\ w.token.slot = k /\ w.offset = i
                    THEN (IF IsCorrupted(w) THEN Corrupt ELSE w.data) ELSE memory.line[f][k][i]
                /\ \A d \in Fields : Stored(w).field[f][k][d] =
                    IF w.kind = "descriptor" /\ w.token.flow = f /\ w.token.slot = k /\ w.field = d
                    THEN w.value ELSE memory.field[f][k][d]
                /\ Stored(w).ready[f][k] =
                    IF w.kind = "ready" /\ w.token.flow = f /\ w.token.slot = k
                    THEN w.token.generation ELSE memory.ready[f][k]
                /\ ~(w.token.flow = f /\ w.token.slot = k) =>
                    /\ Stored(w).line[f][k] = memory.line[f][k]
                    /\ Stored(w).field[f][k] = memory.field[f][k]
                    /\ Stored(w).ready[f][k] = memory.ready[f][k]
  <1> DEFINE a == w.token.flow
             b == w.token.slot
  <1>1. /\ a \in Flows /\ b \in Slots /\ w.token.generation \in Nat
        /\ w.kind \in {"payload", "descriptor", "ready"}
        /\ w.kind = "payload" => w.offset \in HostLines /\ w.data \in LineValues
        /\ w.kind = "descriptor" => w.field \in Fields /\ w.value \in Int
    BY WriteShape DEF Tokens
  <1>2. /\ memory \in Memories
        /\ memory.line \in [Flows -> [Slots -> [HostLines -> LineValues \cup {Stale, Corrupt}]]]
        /\ memory.field \in [Flows -> [Slots -> [Fields -> Int]]]
        /\ memory.ready \in [Flows -> [Slots -> Nat]]
    BY TypedMemory DEF ITypeOK
  <1> HIDE DEF a, b
  <1>3. CASE w.kind = "payload"
    <2>1. PICK v \in LineValues \cup {Stale, Corrupt} : v = IF IsCorrupted(w) THEN Corrupt ELSE w.data
      BY <1>1, <1>3
    <2>2. PICK new : new = [memory.line EXCEPT ![a][b][w.offset] = v]
      OBVIOUS
    <2>3. /\ new \in [Flows -> [Slots -> [HostLines -> LineValues \cup {Stale, Corrupt}]]]
          /\ \A f \in Flows, k \in Slots :
                /\ \A i \in HostLines : new[f][k][i] =
                    IF a = f /\ b = k /\ w.offset = i THEN v ELSE memory.line[f][k][i]
                /\ ~(a = f /\ b = k) => new[f][k] = memory.line[f][k]
      BY <1>1, <1>2, <1>3, <2>2
    <2>4. Stored(w) = [memory EXCEPT !.line = new]
      BY <1>3, <2>1, <2>2 DEF Stored, a, b
    <2>5. /\ Stored(w) \in Memories /\ Stored(w).line = new /\ Stored(w).field = memory.field
          /\ Stored(w).ready = memory.ready /\ Stored(w).release = memory.release
      BY <1>2, <2>3, <2>4 DEF Memories
    <2> QED BY <1>3, <2>1, <2>3, <2>5 DEF a, b
  <1>4. CASE w.kind = "descriptor"
    <2>1. PICK new : new = [memory.field EXCEPT ![a][b][w.field] = w.value]
      OBVIOUS
    <2>2. /\ new \in [Flows -> [Slots -> [Fields -> Int]]]
          /\ \A f \in Flows, k \in Slots :
                /\ \A d \in Fields : new[f][k][d] =
                    IF a = f /\ b = k /\ w.field = d THEN w.value ELSE memory.field[f][k][d]
                /\ ~(a = f /\ b = k) => new[f][k] = memory.field[f][k]
      BY <1>1, <1>2, <1>4, <2>1
    <2>3. Stored(w) = [memory EXCEPT !.field = new]
      BY <1>4, <2>1 DEF Stored, a, b
    <2>4. /\ Stored(w) \in Memories /\ Stored(w).field = new /\ Stored(w).line = memory.line
          /\ Stored(w).ready = memory.ready /\ Stored(w).release = memory.release
      BY <1>2, <2>2, <2>3 DEF Memories
    <2> QED BY <1>4, <2>2, <2>4 DEF a, b
  <1>5. CASE w.kind = "ready"
    <2>1. PICK new : new = [memory.ready EXCEPT ![a][b] = w.token.generation]
      OBVIOUS
    <2>2. /\ new \in [Flows -> [Slots -> Nat]]
          /\ \A f \in Flows, k \in Slots :
                new[f][k] = IF a = f /\ b = k THEN w.token.generation ELSE memory.ready[f][k]
      BY <1>1, <1>2, <2>1
    <2>3. Stored(w) = [memory EXCEPT !.ready = new]
      BY <1>5, <2>1 DEF Stored, a, b
    <2>4. /\ Stored(w) \in Memories /\ Stored(w).ready = new /\ Stored(w).line = memory.line
          /\ Stored(w).field = memory.field /\ Stored(w).release = memory.release
      BY <1>2, <2>2, <2>3 DEF Memories
    <2> QED BY <1>5, <2>2, <2>4 DEF a, b
  <1> QED BY <1>1, <1>3, <1>4, <1>5

(* A pending write of the target is known by its kind and line.            *)
LEMMA TargetWriteIs ==
    ASSUME RunningState, NEW w \in pending, IsTarget(w), w.kind = "payload"
    PROVE  /\ w = TargetWrite(w.offset) /\ TargetPhase = "PUSHING"
           /\ w \in data_writes[0][FirstSerial]
           /\ w.token.slot = SlotOf(FirstSerial)
           /\ w.offset \in LineNumbers(Length[PayloadOf[0][FirstSerial]])
  <1>1. IndInv /\ BooksAgree
    BY DEF RunningState, RunningInv
  <1>2. w.token.flow = 0 /\ w.token.serial = FirstSerial
    BY DEF IsTarget
  <1>3. /\ w.token = TokenOf(0, FirstSerial) /\ TargetPhase = "PUSHING"
        /\ w \in data_writes[0][FirstSerial] /\ w.token.slot = SlotOf(FirstSerial)
        /\ w \in DataWrites(w.token, payload[0][FirstSerial])
    BY <1>1, <1>2, OwnerOf DEF TargetPhase
  <1>4. payload[0][FirstSerial] = PayloadOf[0][FirstSerial]
    BY <1>1, <1>3, FirstSent, FlowsAndCounts DEF BooksAgree, TargetPhase
  <1>5. \E i \in LineNumbers(Length[PayloadOf[0][FirstSerial]]) :
            w = PayloadWrite(w.token, PayloadOf[0][FirstSerial], i) /\ w.offset = i
    BY <1>3, <1>4, DataWritesAre
  <1> QED BY <1>3, <1>5 DEF TargetWrite

(* The slot that the guest reads is not written.                           *)
LEMMA NotUnderReader ==
    ASSUME RunningState, writing = NoWrite, Reading, NEW w \in Eligible
    PROVE  ~(w.token.flow = flow_at /\ w.token.slot = SlotAt)
  <1>1. IndInv /\ ITypeOK /\ TurnInvariant /\ FaultInv
    BY DEF RunningState, RunningInv
  <1>2. flow_at \in Flows /\ SerialAt \in Serials /\ SerialAt = NextOf(flow_at) /\ SlotAt = SlotOf(SerialAt)
    BY ReadingState DEF SlotAt
  <1>3. Entitled(flow_at, SerialAt)
    BY DEF RunningState, RunningInv, GuestInv
  <1>4. w \in pending /\ ~HeldBack(w)
    BY DEF Eligible
  <1> SUFFICES ASSUME w.token.flow = flow_at, w.token.slot = SlotAt PROVE FALSE
    OBVIOUS
  <1>5. w.kind = "ready" /\ phase[flow_at][SerialAt] # "ABSENT"
    BY <1>1, <1>2, <1>3, <1>4, EntitledState DEF HeldBack
  <1>6. w.token.serial = SerialAt
    BY <1>1, <1>2, <1>4, <1>5, WriteOfSlot
  <1>7. phase[flow_at][SerialAt] = "COMMITTING"
    BY <1>1, <1>4, <1>5, <1>6, OwnerOf
  <1>8. ~Writing("ready", flow_at, SlotOf(SerialAt))
    BY DEF Writing
  <1>9. mode = "early-ready" /\ fault_injected /\ flow_at = 0 /\ SerialAt = FirstSerial
    BY <1>3, <1>7, <1>8 DEF Entitled, Published
  <1> QED BY <1>1, <1>7, <1>9 DEF FaultInv, TargetPhase

(* Where memory stands when no write is under way: what is corrupted is in *)
(* no pending write, nor is the marker that was set too early.             *)
LEMMA FaultyWrites ==
    ASSUME RunningState, writing = NoWrite, NEW w \in pending
    PROVE  /\ w \in Writes /\ w # NoWrite
           /\ w.kind = "payload" /\ AtTarget(w.token.flow, w.token.slot) /\ w.offset = 0 =>
                ~(mode = "corrupt-payload" /\ fault_injected)
           /\ w.kind = "ready" /\ AtTarget(w.token.flow, w.token.slot) =>
                ~(mode = "early-ready" /\ fault_injected)
           /\ IsCorrupted(w) => w = TargetWrite(0) /\ AtTarget(w.token.flow, w.token.slot)
  <1>1. IndInv /\ FaultInv
    BY DEF RunningState, RunningInv
  <1>2. w \in Writes /\ w # NoWrite
    BY <1>1, OwnerOf, IntegrationAssumption
  <1>3. w.kind = "payload" /\ AtTarget(w.token.flow, w.token.slot) /\ w.offset = 0 =>
                ~(mode = "corrupt-payload" /\ fault_injected)
    <2> SUFFICES ASSUME w.kind = "payload", AtTarget(w.token.flow, w.token.slot), w.offset = 0,
                        mode = "corrupt-payload", fault_injected
                 PROVE  FALSE
      OBVIOUS
    <2>1. phase[0][FirstSerial] # "ABSENT" /\ TargetWrite(0) \notin pending
      BY <1>1, NowTyped, IntegrationAssumption DEF FaultInv, TargetPhase, TypeOK
    <2>2. w.token.flow = 0 /\ w.token.serial = FirstSerial
      BY <1>1, <2>1, FirstSent, WriteOfSlot DEF AtTarget
    <2> QED BY <2>1, <2>2, TargetWriteIs DEF IsTarget
  <1>4. w.kind = "ready" /\ AtTarget(w.token.flow, w.token.slot) =>
                ~(mode = "early-ready" /\ fault_injected)
    <2> SUFFICES ASSUME w.kind = "ready", AtTarget(w.token.flow, w.token.slot),
                        mode = "early-ready", fault_injected
                 PROVE  FALSE
      OBVIOUS
    <2>1. phase[0][FirstSerial] = "PUSHING"
      BY <1>1 DEF FaultInv, TargetPhase
    <2>2. w.token.flow = 0 /\ w.token.serial = FirstSerial
      BY <1>1, <2>1, FirstSent, WriteOfSlot DEF AtTarget
    <2> QED BY <1>1, <2>1, <2>2, OwnerOf
  <1>5. IsCorrupted(w) => w = TargetWrite(0) /\ AtTarget(w.token.flow, w.token.slot)
    BY TargetWriteIs DEF IsCorrupted, IsTarget, AtTarget
  <1> QED BY <1>2, <1>3, <1>4, <1>5

LEMMA ProveWrite ==
    ASSUME RunningState, UnchangedByDriver, DriverWrite
    PROVE  IntegrationInv'
  <1>1. /\ Running /\ turn = "write" /\ turn' = "complete"
        /\ UNCHANGED <<vars, status, serial_line, input, unread, books, guest_ready, guest_done,
                   guest_failure, held_progress, outcome>>
    BY DEF DriverWrite, InTurn
  <1>2. PICK w \in Eligible :
            memory' = Stored(w) /\ fault_injected' = (fault_injected \/ IsCorrupted(w)) /\ writing' = w
    BY DEF DriverWrite
  <1>3. IndInv /\ ITypeOK /\ TurnInvariant /\ BooksAgree /\ HoldingInv /\ MemoryShown /\ FaultInv
        /\ FreedByGuest /\ ReleaseWords /\ GuestInv /\ ReportsInTurn /\ LinesInv
    BY DEF RunningState, RunningInv
  <1>4. UNCHANGED <<remaining, bases, freed, consumed, holding, withdrawn>>
    BY <1>1 DEF books
  <1>5. UNCHANGED <<base, next_issue, next_publish, next_consume, released, generations,
                       phase, payload, generation, data_writes, pending, host_data,
                       host_descriptor, host_ready, halted, pumping>>
    BY <1>1, ClassLeaves
  <1>6. w \in pending /\ ~HeldBack(w) /\ writing = NoWrite /\ guest_ready /\ input = <<>>
    BY <1>1, <1>2, <1>3 DEF Eligible, TurnInvariant
  <1>7. w \in Writes /\ w # NoWrite
    BY <1>6, FaultyWrites
  <1>8. /\ memory' \in Memories /\ memory'.release = memory.release
        /\ \A f \in Flows, k \in Slots :
            /\ \A i \in HostLines : memory'.line[f][k][i] =
                IF w.kind = "payload" /\ w.token.flow = f /\ w.token.slot = k /\ w.offset = i
                THEN (IF IsCorrupted(w) THEN Corrupt ELSE w.data) ELSE memory.line[f][k][i]
            /\ \A d \in Fields : memory'.field[f][k][d] =
                IF w.kind = "descriptor" /\ w.token.flow = f /\ w.token.slot = k /\ w.field = d
                THEN w.value ELSE memory.field[f][k][d]
            /\ memory'.ready[f][k] =
                IF w.kind = "ready" /\ w.token.flow = f /\ w.token.slot = k
                THEN w.token.generation ELSE memory.ready[f][k]
            /\ ~(w.token.flow = f /\ w.token.slot = k) =>
                /\ memory'.line[f][k] = memory.line[f][k]
                /\ memory'.field[f][k] = memory.field[f][k]
                /\ memory'.ready[f][k] = memory.ready[f][k]
    BY <1>2, <1>3, <1>7, StoredIs
  <1>9. UNCHANGED <<mode, post_push, at, flow_at, copy, guest_consumed>>
    BY DriverLeaves
  <1>10. IndInv'
    BY <1>1, <1>3, StepInv
  <1>11. TurnInvariant'
    <2>1. ~HeldBack(w)'
      BY <1>4, <1>6, <1>9 DEF HeldBack, IsTarget, IsLastLine, IsLengthField, LastLine, FirstSerial
    <2>2. ~HeldBack(writing)'
      BY <1>2, <1>4, <1>6, <1>9 DEF HeldBack, IsTarget, IsLastLine, IsLengthField, LastLine, FirstSerial
    <2> QED BY <1>1, <1>2, <1>3, <1>5, <1>6, <1>7, <2>2 DEF TurnInvariant
  <1>12. BooksAgree'
    BY <1>3, <1>4, <1>5 DEF BooksAgree
  <1>13. HoldingInv'
    BY <1>1, <1>3, <1>4, <1>5 DEF HoldingInv, IsHeld, TokenOf, Distinct, Within
  <1>14. MemoryShown'
    <2> SUFFICES ASSUME NEW f \in Flows, NEW k \in Slots
                 PROVE  /\ \A i \in HostLines : memory'.line[f][k][i] = LineShown(f, k, i)'
                        /\ \A d \in Fields : memory'.field[f][k][d] = FieldShown(f, k, d)'
                        /\ memory'.ready[f][k] = ReadyShown(f, k)'
      BY DEF MemoryShown
    <2>1. AtTarget(f, k)' <=> AtTarget(f, k)
      BY DEF AtTarget, FirstSerial
    <2>2. ASSUME NEW i \in HostLines PROVE memory'.line[f][k][i] = LineShown(f, k, i)'
      <3>1. memory.line[f][k][i] = IF mode = "corrupt-payload" /\ fault_injected /\ AtTarget(f, k) /\ i = 0
                                   THEN Corrupt ELSE host_data[f][k][i]
        BY <1>3, <1>6 DEF MemoryShown, LineShown, Writing
      <3>2. LineShown(f, k, i)' =
                IF mode = "corrupt-payload" /\ (fault_injected \/ IsCorrupted(w)) /\ AtTarget(f, k) /\ i = 0
                THEN Corrupt
                ELSE IF w.kind = "payload" /\ w.token.flow = f /\ w.token.slot = k /\ w.offset = i
                THEN w.data ELSE host_data[f][k][i]
        BY <1>2, <1>5, <1>7, <1>9, <2>1 DEF LineShown, Writing
      <3>3. memory'.line[f][k][i] =
                IF w.kind = "payload" /\ w.token.flow = f /\ w.token.slot = k /\ w.offset = i
                THEN (IF IsCorrupted(w) THEN Corrupt ELSE w.data) ELSE memory.line[f][k][i]
        BY <1>8
      <3>4. CASE w.kind = "payload" /\ w.token.flow = f /\ w.token.slot = k /\ w.offset = i
        <4>1. CASE IsCorrupted(w)
          BY <1>6, <3>2, <3>3, <3>4, <4>1, FaultyWrites DEF IsCorrupted
        <4>2. CASE ~IsCorrupted(w)
          BY <1>6, <3>2, <3>3, <3>4, <4>2, FaultyWrites
        <4> QED BY <4>1, <4>2
      <3>5. CASE ~(w.kind = "payload" /\ w.token.flow = f /\ w.token.slot = k /\ w.offset = i)
        <4>1. IsCorrupted(w) => ~(AtTarget(f, k) /\ i = 0)
          BY <1>6, <3>5, FaultyWrites DEF IsCorrupted, AtTarget
        <4> QED BY <3>1, <3>2, <3>3, <3>5, <4>1
      <3> QED BY <3>4, <3>5
    <2>3. ASSUME NEW d \in Fields PROVE memory'.field[f][k][d] = FieldShown(f, k, d)'
      BY <1>2, <1>3, <1>5, <1>6, <1>7, <1>8 DEF MemoryShown, FieldShown, Writing
    <2>4. memory'.ready[f][k] = ReadyShown(f, k)'
      <3>1. memory.ready[f][k] = IF mode = "early-ready" /\ fault_injected /\ AtTarget(f, k)
                                 THEN 1 ELSE host_ready[f][k]
        BY <1>3, <1>6 DEF MemoryShown, ReadyShown, Writing
      <3>2. ReadyShown(f, k)' =
                IF mode = "early-ready" /\ (fault_injected \/ IsCorrupted(w)) /\ AtTarget(f, k) THEN 1
                ELSE IF w.kind = "ready" /\ w.token.flow = f /\ w.token.slot = k
                THEN w.token.generation ELSE host_ready[f][k]
        BY <1>2, <1>5, <1>7, <1>9, <2>1 DEF ReadyShown, Writing
      <3>3. memory'.ready[f][k] = IF w.kind = "ready" /\ w.token.flow = f /\ w.token.slot = k
                                  THEN w.token.generation ELSE memory.ready[f][k]
        BY <1>8
      <3>4. mode = "early-ready" => ~IsCorrupted(w)
        BY DEF IsCorrupted
      <3>5. w.kind = "ready" /\ w.token.flow = f /\ w.token.slot = k =>
                ~(mode = "early-ready" /\ fault_injected /\ AtTarget(f, k))
        BY <1>6, FaultyWrites
      <3> QED BY <3>1, <3>2, <3>3, <3>4, <3>5
    <2> QED BY <2>2, <2>3, <2>4
  <1>15. FaultInv'
    <2>1. (TargetHeld' <=> TargetHeld) /\ TargetPhase' = TargetPhase /\ TargetWrite(0)' = TargetWrite(0)
      BY <1>5 DEF TargetHeld, TargetPhase, TargetWrite, TokenOf, FirstSerial, LastLine
    <2>2. \A v : (IsTarget(v) <=> IsTarget(v)') /\ (IsLastLine(v) <=> IsLastLine(v)')
      BY DEF IsTarget, IsLastLine, LastLine, FirstSerial
    <2>3. mode # "corrupt-payload" => fault_injected' = fault_injected
      BY <1>2, <1>3 DEF IsCorrupted, ITypeOK
    <2>4. mode = "adversarial" => FaultInv'
      BY <1>1, <1>3, <1>4, <1>9, <2>1, <2>3 DEF FaultInv
    <2>5. mode = "corrupt-payload" => FaultInv'
      <3> SUFFICES ASSUME mode = "corrupt-payload" PROVE FaultInv'
        OBVIOUS
      <3>1. CASE fault_injected
        <4>1. TargetWrite(0) \notin pending
          BY <1>3, <1>6, <3>1, FaultyWrites DEF FaultInv
        <4> QED BY <1>2, <1>3, <1>5, <1>9, <2>1, <3>1, <4>1 DEF FaultInv
      <3>2. CASE ~fault_injected /\ IsCorrupted(w)
        <4>1. w = TargetWrite(0) /\ TargetPhase = "PUSHING"
          BY <1>6, <3>2, TargetWriteIs DEF IsCorrupted
        <4> QED BY <1>2, <1>3, <1>5, <1>9, <2>1, <3>2, <4>1 DEF FaultInv
      <3>3. CASE ~fault_injected /\ ~IsCorrupted(w)
        <4>1. w # TargetWrite(0)
          BY <1>9, <3>3 DEF IsCorrupted, TargetWrite, PayloadWrite, TokenOf, Token, IsTarget
        <4>2. TargetComing
          BY <1>3, <3>3 DEF FaultInv
        <4>3. TargetComing'
          BY <1>2, <1>5, <2>1, <4>1, <4>2 DEF TargetComing, FirstSerial
        <4> QED BY <1>2, <1>3, <1>9, <3>3, <4>3 DEF FaultInv
      <3> QED BY <3>1, <3>2, <3>3
    <2>6. mode = "early-ready" => FaultInv'
      <3>1. host_data'[0][SlotOf(FirstSerial)'][LastLine'] = host_data[0][SlotOf(FirstSerial)][LastLine]
        BY <1>5 DEF SlotOf, FirstSerial, LastLine
      <3> QED BY <1>3, <1>5, <1>9, <2>1, <2>2, <2>3, <3>1 DEF FaultInv
    <2> QED BY <1>3, <1>9, <2>4, <2>5, <2>6, ModeTyped
  <1>16. FreedByGuest'
    <2>1. \A g \in Flows : NextOf(g) <= ShownTo(g)'
      <3> SUFFICES ASSUME NEW g \in Flows PROVE NextOf(g) <= ShownTo(g)'
        OBVIOUS
      <3>1. NextOf(g) <= next_publish[g] /\ NextOf(g) \in Nat /\ next_publish[g] \in Nat
        BY <1>3, <1>6, NextTyped, NowTyped DEF FreedByGuest, ShownTo
      <3>2. ShownTo(g)' = next_publish[g] \/ ShownTo(g)' = next_publish[g] + 1
        BY <1>5, <3>1 DEF ShownTo
      <3> QED BY <3>1, <3>2
    <2> QED BY <1>3, <1>5, <2>1, DriverLeaves DEF FreedByGuest
  <1>17. ReleaseWords'
    BY <1>3, <1>8, <1>9 DEF ReleaseWords
  <1>18. GuestInv'
    <2>1. Reading => Entitled(flow_at, SerialAt)'
      <3>1. Reading => Entitled(flow_at, SerialAt)
        BY <1>3 DEF GuestInv
      <3> QED BY <1>2, <1>5, <1>6, <3>1, DriverLeaves DEF Entitled, Writing
    <2>2. Reading => /\ memory'.line[flow_at][SlotAt] = memory.line[flow_at][SlotAt]
                     /\ memory'.field[flow_at][SlotAt] = memory.field[flow_at][SlotAt]
      BY <1>6, <1>8, ReadingState, NotUnderReader
    <2> QED BY <1>3, <1>9, <2>1, <2>2, DriverLeaves DEF GuestInv
  <1>19. Printed' = Printed
    BY <1>1 DEF Printed
  <1>20. ReportsInTurn'
    BY <1>3, <1>5, <1>19, SameReports, DriverLeaves
  <1>21. LinesInv'
    BY <1>1, <1>2, <1>3, <1>6, <1>19, DriverLeaves DEF LinesInv
  <1>22. ITypeOK'
    <2>1. fault_injected' \in BOOLEAN
      BY <1>2 DEF IsCorrupted
    <2> QED BY <1>1, <1>2, <1>3, <1>4, <1>7, <1>8, <2>1, DriverLeaves DEF ITypeOK
  <1>23. NeverRaises'
    BY <1>1 DEF NeverRaises, Running
  <1> QED BY <1>10, <1>11, <1>12, <1>13, <1>14, <1>15, <1>16, <1>17, <1>18, <1>20, <1>21, <1>22, <1>23
       DEF IntegrationInv, RunningInv
--------------------------------------------------------------------------------
(* The class hears of the write.                                           *)

LEMMA CompleteEffect ==
    ASSUME IndInv, NEW w \in pending, Complete(w)
    PROVE  /\ UNCHANGED <<base, next_issue, next_consume, released, halted, payload, generation, pumping>>
           /\ ~pumping
           /\ \A v \in pending' : v.kind = "ready" \/ (v \in pending /\ v # w)
           /\ \A g \in Flows, t \in Serials : \A v \in data_writes[g][t] :
                v # w => v \in data_writes'[g][t]
           /\ w.kind = "ready" => phase'[w.token.flow][w.token.serial] = "READY"
           /\ \A g \in Flows : next_publish'[g] =
                next_publish[g] + (IF w.kind = "ready" /\ w.token.flow = g THEN 1 ELSE 0)
           /\ \A g \in Flows, k \in Slots :
                /\ \A i \in HostLines : host_data'[g][k][i] =
                    IF w.kind = "payload" /\ w.token.flow = g /\ w.token.slot = k /\ w.offset = i
                    THEN w.data ELSE host_data[g][k][i]
                /\ \A d \in Fields : host_descriptor'[g][k][d] =
                    IF w.kind = "descriptor" /\ w.token.flow = g /\ w.token.slot = k /\ w.field = d
                    THEN w.value ELSE host_descriptor[g][k][d]
                /\ host_ready'[g][k] =
                    IF w.kind = "ready" /\ w.token.flow = g /\ w.token.slot = k
                    THEN w.token.generation ELSE host_ready[g][k]
  <1> DEFINE f == w.token.flow
             s == w.token.serial
             k == w.token.slot
  <1>1. /\ TypeOK /\ f \in Flows /\ s \in Serials /\ k \in Slots /\ w \in Writes
        /\ w.kind \in {"payload", "descriptor", "ready"}
        /\ w.kind = "payload" => w.offset \in HostLines /\ w.data \in LineValues
        /\ w.kind = "descriptor" => w.field \in Fields /\ w.value \in Int
    BY OwnerOf, WriteShape DEF IndInv
  <1>2. /\ phase \in [Flows -> [Serials -> Phases]]
        /\ next_publish \in [Flows -> Nat]
        /\ data_writes \in [Flows -> [Serials -> SUBSET Writes]]
        /\ host_data \in [Flows -> [Slots -> [HostLines -> LineValues \cup {Stale}]]]
        /\ host_descriptor \in [Flows -> [Slots -> [Fields -> Int]]]
        /\ host_ready \in [Flows -> [Slots -> Nat]]
    BY NowTyped DEF TypeOK
  <1>3. CASE CompleteReady(w)
    <2> DEFINE phases == [phase EXCEPT ![f][s] = "READY"]
    <2>1. /\ ~pumping /\ w.kind = "ready"
          /\ host_ready' = [host_ready EXCEPT ![f][k] = w.token.generation]
          /\ next_publish' = [next_publish EXCEPT ![f] = @ + 1]
          /\ TryCommit(f, phases, SerialToPublish(f), pending \ {w})
          /\ UNCHANGED <<base, next_issue, next_consume, released, halted, payload, generation,
                         data_writes, host_data, host_descriptor, pumping>>
      BY <1>3 DEF CompleteReady, loop
    <2>2. s = next_publish[f] /\ s \in Nat
      BY <1>1, <2>1, OwnerOf, SerialsAreNat
    <2>3. phases \in [Flows -> [Serials -> Phases]] /\ phases[f][s] = "READY"
      <3> HIDE DEF f, s
      <3> QED BY <1>1, <1>2 DEF Phases
    <2>4. phase'[f][s] = "READY"
      <3>1. SerialToPublish(f) # s
        BY <2>2 DEF SerialToPublish
      <3> HIDE DEF phases, f, s
      <3> QED BY <1>1, <2>1, <2>3, <3>1, TryCommitEffect
    <2>5. \A v \in pending' : v.kind = "ready" \/ (v \in pending /\ v # w)
      BY <2>1 DEF TryCommit, ReadyWrite
    <2>6. \A g \in Flows : next_publish'[g] =
                next_publish[g] + (IF w.kind = "ready" /\ w.token.flow = g THEN 1 ELSE 0)
      <3>1. \A g \in Flows : next_publish'[g] = IF f = g THEN next_publish[g] + 1 ELSE next_publish[g]
        <4> HIDE DEF f
        <4> QED BY <1>1, <1>2, <2>1
      <3>2. \A g \in Flows : next_publish[g] + 0 = next_publish[g]
        BY <1>2
      <3> QED BY <2>1, <3>1, <3>2
    <2>7. \A g \in Flows, j \in Slots : host_ready'[g][j] =
                IF f = g /\ k = j THEN w.token.generation ELSE host_ready[g][j]
      <3> HIDE DEF f, k
      <3> QED BY <1>1, <1>2, <2>1
    <2> QED BY <2>1, <2>4, <2>5, <2>6, <2>7
  <1>4. CASE CompleteData(w)
    <2> DEFINE rest == data_writes[f][s] \ {w}
    <2>1. /\ ~pumping /\ w.kind # "ready" /\ StoreData(f, k, w)
          /\ data_writes' = [data_writes EXCEPT ![f][s] = rest]
          /\ TryCommit(f, [phase EXCEPT ![f][s] = PhaseAfterData(rest)], next_publish[f], pending \ {w})
          /\ UNCHANGED <<base, next_issue, next_consume, next_publish, released, halted, payload,
                         generation, host_ready, pumping>>
      BY <1>4 DEF CompleteData, loop, cursors
    <2>2. \A v \in pending' : v.kind = "ready" \/ (v \in pending /\ v # w)
      BY <2>1 DEF TryCommit, ReadyWrite
    <2>3. \A g \in Flows, t \in Serials : \A v \in data_writes[g][t] :
                v # w => v \in data_writes'[g][t]
      <3>1. \A g \in Flows, t \in Serials :
                data_writes'[g][t] = IF g = f /\ t = s THEN rest ELSE data_writes[g][t]
        <4> HIDE DEF f, s, rest
        <4> QED BY <1>1, <1>2, <2>1
      <3> QED BY <3>1
    <2>4. \A g \in Flows, j \in Slots :
            /\ \A i \in HostLines : host_data'[g][j][i] =
                IF w.kind = "payload" /\ f = g /\ k = j /\ w.offset = i
                THEN w.data ELSE host_data[g][j][i]
            /\ \A d \in Fields : host_descriptor'[g][j][d] =
                IF w.kind = "descriptor" /\ f = g /\ k = j /\ w.field = d
                THEN w.value ELSE host_descriptor[g][j][d]
      <3> HIDE DEF f, k
      <3>1. CASE w.kind = "payload"
        <4>1. host_data' = [host_data EXCEPT ![f][k][w.offset] = w.data]
              /\ host_descriptor' = host_descriptor
          BY <2>1, <3>1 DEF StoreData
        <4> QED BY <1>1, <1>2, <3>1, <4>1
      <3>2. CASE w.kind = "descriptor"
        <4>1. host_descriptor' = [host_descriptor EXCEPT ![f][k][w.field] = w.value]
              /\ host_data' = host_data
          BY <2>1, <3>2 DEF StoreData
        <4> QED BY <1>1, <1>2, <3>2, <4>1
      <3> QED BY <1>1, <2>1, <3>1, <3>2
    <2>5. \A g \in Flows : next_publish[g] + 0 = next_publish[g]
      BY <1>2
    <2> QED BY <2>1, <2>2, <2>3, <2>4, <2>5
  <1> QED BY <1>3, <1>4 DEF Complete

(* The target's flow is where it started, and its slot is its own.         *)
LEMMA TargetOwnsSlot ==
    ASSUME IndInv, TargetHeld, NEW w \in pending, AtTarget(w.token.flow, w.token.slot)
    PROVE  IsTarget(w)
  <1> DEFINE s == w.token.serial
  <1>1. w.token.flow = 0 /\ SlotOf(s) = SlotOf(FirstSerial) /\ s \in Serials /\ s \in Nat
        /\ phase[0][s] # "ABSENT"
    BY OwnerOf, SerialsAreNat DEF AtTarget
  <1>2. base[0] = FirstSerial /\ FirstSerial \in Nat /\ Window \in Nat
    BY NowTyped, FlowsAndCounts, FirstSent DEF TargetHeld
  <1>3. base[0] <= s /\ s < base[0] + Window
    BY <1>1, FlowsAndCounts DEF IndInv, PacketInWindow
  <1>4. s - FirstSerial < Window /\ FirstSerial - s < Window
    BY <1>1, <1>2, <1>3, FlowsAndCounts
  <1>5. s = FirstSerial
    BY <1>1, <1>2, <1>4, SlotsInWindowDiffer
  <1> QED BY <1>1, <1>5 DEF IsTarget

LEMMA ProveComplete ==
    ASSUME RunningState, UnchangedByDriver, DriverComplete
    PROVE  IntegrationInv'
  <1>1. /\ Running /\ turn = "complete" /\ turn' = "inject" /\ writing' = NoWrite
        /\ UNCHANGED <<shared, input, unread, books, flags>>
    BY DEF DriverComplete, InTurn
  <1>2. IndInv /\ ITypeOK /\ TurnInvariant /\ BooksAgree /\ MemoryShown /\ FaultInv
    BY DEF RunningState, RunningInv
  <1>3. UNCHANGED <<memory, guest_ready, guest_done, fault_injected, held_progress,
                    remaining, bases, freed, consumed, holding>>
    BY <1>1 DEF books, flags, shared
  <1>4. PICK w \in pending : w = writing /\ ~HeldBack(w) /\ writing # NoWrite
    BY <1>1, <1>2 DEF TurnInvariant
  <1>5. Completable(w)
    BY <1>2, InvNoFault DEF NoInternalFault, Completable
  <1>6. Complete(w) /\ outcome' = outcome
    BY <1>4, <1>5 DEF DriverComplete
  <1>7. IndInv'
    BY <1>2, <1>6, StepInv DEF Next
  <1>8. /\ UNCHANGED <<base, next_issue, next_consume, released, halted, payload, generation, pumping>>
        /\ \A v \in pending' : v.kind = "ready" \/ (v \in pending /\ v # w)
        /\ \A g \in Flows, t \in Serials : \A v \in data_writes[g][t] :
             v # w => v \in data_writes'[g][t]
        /\ w.kind = "ready" => phase'[w.token.flow][w.token.serial] = "READY"
        /\ \A g \in Flows : next_publish'[g] =
             next_publish[g] + (IF w.kind = "ready" /\ w.token.flow = g THEN 1 ELSE 0)
        /\ \A g \in Flows, k \in Slots :
             /\ \A i \in HostLines : host_data'[g][k][i] =
                 IF w.kind = "payload" /\ w.token.flow = g /\ w.token.slot = k /\ w.offset = i
                 THEN w.data ELSE host_data[g][k][i]
             /\ \A d \in Fields : host_descriptor'[g][k][d] =
                 IF w.kind = "descriptor" /\ w.token.flow = g /\ w.token.slot = k /\ w.field = d
                 THEN w.value ELSE host_descriptor[g][k][d]
             /\ host_ready'[g][k] =
                 IF w.kind = "ready" /\ w.token.flow = g /\ w.token.slot = k
                 THEN w.token.generation ELSE host_ready[g][k]
    BY <1>2, <1>6, CompleteEffect
  <1>9. \A g \in Flows, t \in Serials :
            \/ phase'[g][t] = phase[g][t]
            \/ phase[g][t] \in {"PUSHING", "PREPARED", "COMMITTING"}
               /\ phase'[g][t] \in {"PUSHING", "PREPARED", "COMMITTING", "READY"}
    BY <1>2, <1>6, CompleteMoves DEF Moving
  <1>10. /\ w \in Writes /\ w.token.flow \in Flows /\ w.token.serial \in Serials
         /\ w.token.slot = SlotOf(w.token.serial)
    BY <1>2, OwnerOf
  <1>11. UNCHANGED <<mode, post_push, at, flow_at, copy, guest_consumed>>
    BY DriverLeaves
  <1>12. \A g \in Flows, u \in Serials : phase[g][u] = "CPU_OWNED" =>
            phase'[g][u] = "CPU_OWNED" /\ generation'[g][u] = generation[g][u]
    BY <1>8, <1>9
  <1>13. \A g \in Flows, u \in Serials : Entitled(g, u) => Entitled(g, u)'
    <2> SUFFICES ASSUME NEW g \in Flows, NEW u \in Serials, Entitled(g, u)
                 PROVE  Entitled(g, u)'
      OBVIOUS
    <2>1. CASE phase[g][u] \in Published
      BY <1>9, <2>1 DEF Entitled, Published
    <2>2. CASE Writing("ready", g, SlotOf(u)) /\ writing.token.serial = u
      <3>1. phase'[g][u] = "READY"
        BY <1>4, <1>8, <2>2 DEF Writing
      <3> QED BY <3>1 DEF Entitled, Published
    <2>3. CASE mode = "early-ready" /\ fault_injected /\ g = 0 /\ u = FirstSerial
      <3>1. FirstSerial' = FirstSerial
        BY DEF FirstSerial
      <3> QED BY <1>3, <1>11, <2>3, <3>1 DEF Entitled
    <2> QED BY <2>1, <2>2, <2>3 DEF Entitled
  <1>14. \A g \in Flows : ShownTo(g)' = ShownTo(g)
    <2> SUFFICES ASSUME NEW g \in Flows PROVE ShownTo(g)' = ShownTo(g)
      OBVIOUS
    <2>1. next_publish[g] \in Nat
      BY <1>2, NowTyped
    <2>2. ShownTo(g)' = next_publish'[g]
      BY <1>1, <1>2, <1>7, <1>8, <2>1 DEF ShownTo
    <2> QED BY <1>4, <1>8, <2>2 DEF ShownTo
  <1>15. \A g \in Flows : \A u \in remaining'[g] : u \in remaining[g] /\ phase'[g][u] = "ABSENT"
    <2> SUFFICES ASSUME NEW g \in Flows, NEW u \in remaining[g] PROVE phase'[g][u] = "ABSENT"
      BY <1>3
    <2>1. u \in Serials /\ phase[g][u] = "ABSENT"
      BY <1>2 DEF BooksAgree, ITypeOK
    <2> QED BY <1>9, <2>1
  <1>16. \A g \in Flows : \A u \in Serials : phase'[g][u] # "ABSENT" =>
                u \in Sent(g) /\ payload'[g][u] = PayloadOf[g][u]
    BY <1>2, <1>8, <1>9 DEF BooksAgree
  <1>17. remaining' \in [Flows -> SUBSET Serials]
    BY <1>2, <1>3 DEF ITypeOK
  <1>18. TurnInvariant'
    BY <1>1, <1>2, <1>3, <1>8 DEF TurnInvariant
  <1>19. MemoryShown'
    <2> SUFFICES ASSUME NEW f \in Flows, NEW k \in Slots
                 PROVE  /\ \A i \in HostLines : memory'.line[f][k][i] = LineShown(f, k, i)'
                        /\ \A d \in Fields : memory'.field[f][k][d] = FieldShown(f, k, d)'
                        /\ memory'.ready[f][k] = ReadyShown(f, k)'
      BY DEF MemoryShown
    <2>1. AtTarget(f, k)' <=> AtTarget(f, k)
      BY DEF AtTarget, FirstSerial
    <2>2. ASSUME NEW i \in HostLines PROVE memory'.line[f][k][i] = LineShown(f, k, i)'
      <3>1. memory.line[f][k][i] = LineShown(f, k, i)
        BY <1>2 DEF MemoryShown
      <3> QED BY <1>1, <1>3, <1>4, <1>8, <1>11, <2>1, <3>1 DEF LineShown, Writing
    <2>3. ASSUME NEW d \in Fields PROVE memory'.field[f][k][d] = FieldShown(f, k, d)'
      <3>1. memory.field[f][k][d] = FieldShown(f, k, d)
        BY <1>2 DEF MemoryShown
      <3>2. w.kind = "descriptor" => w.value # UnsetField
        <4> SUFFICES ASSUME w.kind = "descriptor" PROVE w.value # UnsetField
          OBVIOUS
        <4>1. /\ w \in DataWrites(w.token, payload[w.token.flow][w.token.serial])
              /\ w.token \in Tokens /\ phase[w.token.flow][w.token.serial] = "PUSHING"
          BY <1>2, OwnerOf
        <4>2. payload[w.token.flow][w.token.serial] \in Payloads
          BY <1>2, <1>10, <4>1 DEF IndInv, PacketInWindow
        <4>3. PICK p \in Payloads : p = payload[w.token.flow][w.token.serial]
          BY <4>2
        <4>4. \E e \in Fields : w.value = Descriptor(w.token, Length[p])[e]
          BY <4>1, <4>3, DataWritesAre
        <4>5. Length[p] \in Nat
          BY WorldAssumption, ConfigAssumption
        <4>6. w.value \in Nat
          BY <4>1, <4>4, <4>5, DescriptorIsNat
        <4> QED BY <4>6 DEF UnsetField
      <3> QED BY <1>1, <1>3, <1>4, <1>8, <1>11, <3>1, <3>2 DEF FieldShown, Writing
    <2>4. memory'.ready[f][k] = ReadyShown(f, k)'
      <3>1. memory.ready[f][k] = ReadyShown(f, k)
        BY <1>2 DEF MemoryShown
      <3> QED BY <1>1, <1>3, <1>4, <1>8, <1>11, <2>1, <3>1 DEF ReadyShown, Writing
    <2> QED BY <2>2, <2>3, <2>4
  <1>20. FaultInv'
    <2>1. \A i : TargetWrite(i)' = TargetWrite(i)
      BY <1>8 DEF TargetWrite, FirstSerial, TokenOf
    <2>2. \A v : (IsTarget(v) <=> IsTarget(v)') /\ (IsLastLine(v) <=> IsLastLine(v)')
      BY DEF IsTarget, IsLastLine, LastLine, FirstSerial
    <2>3. \/ TargetPhase' = TargetPhase
          \/ TargetPhase \in {"PUSHING", "PREPARED", "COMMITTING"}
             /\ TargetPhase' \in {"PUSHING", "PREPARED", "COMMITTING", "READY"}
      BY <1>9, FirstSent, FlowsAndCounts DEF TargetPhase, FirstSerial
    <2>4. \A i : TargetWrite(i) \in data_writes[0][FirstSerial] /\ w # TargetWrite(i) =>
            TargetWrite(i) \in data_writes'[0][FirstSerial] /\ TargetPhase' = "PUSHING"
      <3> SUFFICES ASSUME NEW i, TargetWrite(i) \in data_writes[0][FirstSerial], w # TargetWrite(i)
                   PROVE  TargetWrite(i) \in data_writes'[0][FirstSerial] /\ TargetPhase' = "PUSHING"
        OBVIOUS
      <3>1. TargetWrite(i) \in data_writes'[0][FirstSerial]
        BY <1>8, FirstSent, FlowsAndCounts
      <3> QED BY <1>7, <3>1, FirstSent, FlowsAndCounts DEF IndInv, DataWritesPending, TargetPhase, FirstSerial
    <2>5. IsLastLine(TargetWrite(LastLine)) /\ IsTarget(TargetWrite(0))
          /\ TargetWrite(0).kind = "payload"
      BY DEF IsLastLine, IsTarget, TargetWrite, PayloadWrite, TokenOf, Token
    <2>6. TargetHeld /\ ~IsLastLine(w) => TargetHeld'
      <3> SUFFICES ASSUME TargetHeld, ~IsLastLine(w) PROVE TargetHeld'
        OBVIOUS
      <3>1. TargetPhase' = TargetPhase
            /\ (TargetPhase = "PUSHING" => TargetWrite(LastLine) \in data_writes'[0][FirstSerial])
        BY <2>3, <2>4, <2>5 DEF TargetHeld
      <3>2. ~(w.kind = "ready" /\ w.token.flow = 0)
        BY <1>2, OwnerOf DEF TargetHeld, TargetPhase
      <3>3. next_publish'[0] = next_publish[0]
        <4>1. next_publish[0] \in Nat
          BY <1>2, NowTyped, FlowsAndCounts
        <4> QED BY <1>8, <3>2, <4>1, FlowsAndCounts
      <3> QED BY <2>1, <3>1, <3>3 DEF TargetHeld, FirstSerial, LastLine
    <2>7. mode = "adversarial" => FaultInv'
      <3>1. mode = "adversarial" /\ consumed[1] = 0 => ~IsLastLine(w)
        BY <1>4 DEF HeldBack
      <3> QED BY <1>2, <1>3, <1>11, <2>6, <3>1 DEF FaultInv
    <2>8. mode = "corrupt-payload" => FaultInv'
      <3> SUFFICES ASSUME mode = "corrupt-payload" PROVE FaultInv'
        OBVIOUS
      <3>1. CASE fault_injected
        <4>1. TargetWrite(0) \notin pending'
          BY <1>2, <1>4, <1>8, <2>5, <3>1 DEF FaultInv
        <4> QED BY <1>2, <1>3, <1>11, <2>1, <2>3, <3>1, <4>1 DEF FaultInv
      <3>2. CASE ~fault_injected
        <4>1. TargetComing
          BY <1>2, <3>2 DEF FaultInv
        <4>2. TargetWrite(0) \in data_writes[0][FirstSerial] => TargetWrite(0) # NoWrite
          <5>1. data_writes[0][FirstSerial] \subseteq Writes
            BY <1>2, NowTyped, FirstSent, FlowsAndCounts DEF TypeOK
          <5> QED BY <5>1, IntegrationAssumption
        <4>3. TargetComing'
          BY <1>1, <1>4, <2>1, <2>3, <2>4, <4>1, <4>2 DEF TargetComing, FirstSerial
        <4> QED BY <1>3, <1>2, <1>11, <3>2, <4>3 DEF FaultInv
      <3> QED BY <3>1, <3>2
    <2>9. mode = "early-ready" => FaultInv'
      <3> SUFFICES ASSUME mode = "early-ready" PROVE FaultInv'
        OBVIOUS
      <3>1. ~IsLastLine(w) /\ TargetHeld
        BY <1>2, <1>4 DEF HeldBack, FaultInv
      <3>2. TargetHeld'
        BY <2>6, <3>1
      <3>3. host_data'[0][SlotOf(FirstSerial)][LastLine] = Stale
        <4>1. host_data[0][SlotOf(FirstSerial)][LastLine] = Stale
          BY <1>2 DEF FaultInv
        <4>2. ~(w.kind = "payload" /\ w.token.flow = 0 /\ w.token.slot = SlotOf(FirstSerial) /\ w.offset = LastLine)
          BY <1>2, <3>1, TargetOwnsSlot DEF AtTarget, IsLastLine
        <4>3. LastLine \in HostLines
          BY TargetLines
        <4> QED BY <1>8, <4>1, <4>2, <4>3, FirstSent, FlowsAndCounts
      <3>4. SlotOf(FirstSerial)' = SlotOf(FirstSerial) /\ LastLine' = LastLine
        BY DEF SlotOf, FirstSerial, LastLine
      <3>5. ASSUME fault_injected
            PROVE  TargetPhase' = "PUSHING" /\ \A v \in pending' : IsTarget(v) => IsLastLine(v)
        <4>1. TargetPhase = "PUSHING" /\ \A v \in pending : IsTarget(v) => IsLastLine(v)
          BY <1>2, <3>5 DEF FaultInv
        <4>2. TargetPhase' = "PUSHING"
          BY <2>4, <2>5, <3>1, <4>1 DEF TargetHeld
        <4>3. ASSUME NEW v \in pending', IsTarget(v), v.kind = "ready" PROVE FALSE
          <5>1. phase'[v.token.flow][v.token.serial] = "COMMITTING"
            BY <1>7, <4>3 DEF IndInv, WritesOwned
          <5> QED BY <4>2, <4>3, <5>1 DEF IsTarget, TargetPhase, FirstSerial
        <4> QED BY <1>8, <4>1, <4>2, <4>3
      <3> QED BY <1>2, <1>3, <1>11, <2>2, <3>2, <3>3, <3>4, <3>5 DEF FaultInv
    <2> QED BY <1>2, <2>7, <2>8, <2>9, ModeTyped
  <1> QED BY <1>1, <1>3, <1>6, <1>7, <1>8, <1>12, <1>13, <1>14, <1>15, <1>16, <1>17, <1>18, <1>19,
             <1>20, ProveCall
--------------------------------------------------------------------------------
(* The marker that is set too early.                                       *)

LEMMA EarlyMarker ==
    ASSUME ITypeOK, NEW g \in Nat, NEW k \in Slots
    PROVE  /\ [memory EXCEPT !.ready[0][k] = g] \in Memories
           /\ [memory EXCEPT !.ready[0][k] = g].line = memory.line
           /\ [memory EXCEPT !.ready[0][k] = g].field = memory.field
           /\ [memory EXCEPT !.ready[0][k] = g].release = memory.release
           /\ \A f \in Flows, j \in Slots : [memory EXCEPT !.ready[0][k] = g].ready[f][j] =
                IF f = 0 /\ j = k THEN g ELSE memory.ready[f][j]
  <1>1. memory \in Memories /\ memory.ready \in [Flows -> [Slots -> Nat]]
    BY TypedMemory DEF ITypeOK
  <1>2. PICK new : new = [memory.ready EXCEPT ![0][k] = g]
    OBVIOUS
  <1>3. /\ new \in [Flows -> [Slots -> Nat]]
        /\ \A f \in Flows, j \in Slots :
              new[f][j] = IF f = 0 /\ j = k THEN g ELSE memory.ready[f][j]
    BY <1>1, <1>2, FlowsAndCounts
  <1>4. [memory EXCEPT !.ready[0][k] = g] = [memory EXCEPT !.ready = new]
    BY <1>2
  <1> QED BY <1>1, <1>3, <1>4 DEF Memories

LEMMA ProveInject ==
    ASSUME RunningState, UnchangedByDriver, DriverInject
    PROVE  IntegrationInv'
  <1>1. /\ Running /\ turn = "inject" /\ turn' = (IF guest_done THEN "finish" ELSE "poll")
        /\ UNCHANGED <<vars, status, serial_line, input, unread, writing, books, guest_ready,
                   guest_done, guest_failure, held_progress, outcome>>
    BY DEF DriverInject, InTurn
  <1>2. IndInv /\ ITypeOK /\ TurnInvariant /\ BooksAgree /\ HoldingInv /\ MemoryShown /\ FaultInv
        /\ FreedByGuest /\ ReleaseWords /\ GuestInv /\ ReportsInTurn /\ LinesInv
    BY DEF RunningState, RunningInv
  <1>3. guest_ready /\ writing = NoWrite /\ ~pumping /\ input = <<>>
        /\ (turn' = "finish" \/ turn' = "poll") /\ (turn' = "finish" => guest_done)
    BY <1>1, <1>2 DEF TurnInvariant
  <1>4. CASE UNCHANGED <<memory, fault_injected>>
    BY <1>1, <1>3, <1>4, ProveTurn DEF books, flags
  <1>5. CASE /\ mode = "early-ready" /\ ~fault_injected
             /\ Waiting # {} /\ \A w \in Waiting : IsLastLine(w)
             /\ memory' = [memory EXCEPT !.ready[0][SlotOf(FirstSerial)] = generation[0][FirstSerial]]
             /\ fault_injected' = TRUE
    <2>1. UNCHANGED <<base, next_issue, next_publish, next_consume, released, generations,
                       phase, payload, generation, data_writes, pending, host_data,
                       host_descriptor, host_ready, halted, pumping>>
      BY <1>1, ClassLeaves
    <2>2. UNCHANGED <<mode, post_push, at, flow_at, copy, guest_consumed>>
      BY DriverLeaves
    <2>3. UNCHANGED <<remaining, bases, freed, consumed, holding, withdrawn>>
      BY <1>1 DEF books
    <2>4. TargetPhase = "PUSHING"
      <3>1. PICK w \in pending : IsTarget(w) /\ IsLastLine(w)
        BY <1>5 DEF Waiting
      <3> QED BY <3>1, TargetWriteIs DEF IsLastLine
    <2>5. generation[0][FirstSerial] = 1
      <3>1. generation[0][FirstSerial] = ExpectedGeneration(0, FirstSerial)
        BY <1>2, <2>4, GenerationIs, FirstSent, FlowsAndCounts DEF TargetPhase
      <3>2. FirstSerial - InitialSerial[0] = 0
        BY FirstSent, FlowsAndCounts
      <3>3. 0 \div Window = 0
        BY FlowsAndCounts, Z3
      <3> QED BY <3>1, <3>2, <3>3 DEF ExpectedGeneration
    <2>6. /\ memory' \in Memories /\ memory'.line = memory.line /\ memory'.field = memory.field
          /\ memory'.release = memory.release
          /\ \A f \in Flows, k \in Slots : memory'.ready[f][k] =
                IF AtTarget(f, k) THEN 1 ELSE memory.ready[f][k]
      <3>1. SlotOf(FirstSerial) \in Slots /\ memory' = [memory EXCEPT !.ready[0][SlotOf(FirstSerial)] = 1]
        BY <1>5, <2>5, FirstSent
      <3> QED BY <1>2, <3>1, EarlyMarker DEF AtTarget
    <2>7. IndInv'
      BY <1>1, <1>2, StepInv
    <2>8. TurnInvariant'
      BY <1>1, <1>2, <1>3, <2>1 DEF TurnInvariant
    <2>9. BooksAgree'
      BY <1>2, <2>1, <2>3 DEF BooksAgree
    <2>10. HoldingInv'
      BY <1>1, <1>2, <2>1, <2>3 DEF HoldingInv, IsHeld, TokenOf, Distinct, Within
    <2>11. MemoryShown'
      <3> SUFFICES ASSUME NEW f \in Flows, NEW k \in Slots
                   PROVE  /\ \A i \in HostLines : memory'.line[f][k][i] = LineShown(f, k, i)'
                          /\ \A d \in Fields : memory'.field[f][k][d] = FieldShown(f, k, d)'
                          /\ memory'.ready[f][k] = ReadyShown(f, k)'
        BY DEF MemoryShown
      <3>1. AtTarget(f, k)' <=> AtTarget(f, k)
        BY DEF AtTarget, FirstSerial
      <3>2. \A i \in HostLines : LineShown(f, k, i)' = LineShown(f, k, i)
        BY <1>1, <1>5, <2>1, <2>2 DEF LineShown, Writing
      <3>3. \A d \in Fields : FieldShown(f, k, d)' = FieldShown(f, k, d)
        BY <1>1, <2>1 DEF FieldShown, Writing
      <3>4. ReadyShown(f, k)' = IF AtTarget(f, k) THEN 1 ELSE ReadyShown(f, k)
        BY <1>1, <1>5, <2>1, <2>2, <3>1 DEF ReadyShown, Writing
      <3> QED BY <1>2, <2>6, <3>2, <3>3, <3>4 DEF MemoryShown
    <2>12. FaultInv'
      <3>1. (TargetHeld' <=> TargetHeld) /\ TargetPhase' = TargetPhase
        BY <2>1 DEF TargetHeld, TargetPhase, TargetWrite, TokenOf, FirstSerial, LastLine
      <3>2. \A v : (IsTarget(v) <=> IsTarget(v)') /\ (IsLastLine(v) <=> IsLastLine(v)')
        BY DEF IsTarget, IsLastLine, LastLine, FirstSerial
      <3>3. host_data'[0][SlotOf(FirstSerial)'][LastLine'] = host_data[0][SlotOf(FirstSerial)][LastLine]
        BY <2>1 DEF SlotOf, FirstSerial, LastLine
      <3>4. \A v \in pending : IsTarget(v) => IsLastLine(v)
        BY <1>5 DEF Waiting
      <3> QED BY <1>2, <1>5, <2>1, <2>2, <2>4, <3>1, <3>2, <3>3, <3>4 DEF FaultInv
    <2>13. FreedByGuest'
      BY <1>1, <1>2, <2>1, DriverLeaves DEF FreedByGuest, ShownTo
    <2>14. ReleaseWords'
      BY <1>2, <2>2, <2>6 DEF ReleaseWords
    <2>15. GuestInv'
      <3>1. Reading => Entitled(flow_at, SerialAt)'
        BY <1>1, <1>2, <1>5, <2>1, <2>2, DriverLeaves DEF GuestInv, Entitled, Writing
      <3> QED BY <1>2, <2>2, <2>6, <3>1, DriverLeaves DEF GuestInv
    <2>16. Printed' = Printed
      BY <1>1 DEF Printed
    <2>17. ReportsInTurn'
      BY <1>2, <2>1, <2>16, SameReports, DriverLeaves
    <2>18. LinesInv'
      BY <1>1, <1>2, <1>3, <1>5, <2>16, DriverLeaves DEF LinesInv
    <2>19. ITypeOK'
      BY <1>1, <1>2, <1>3, <1>5, <2>3, <2>6, DriverLeaves DEF ITypeOK
    <2>20. NeverRaises'
      BY <1>1 DEF NeverRaises, Running
    <2> QED BY <2>7, <2>8, <2>9, <2>10, <2>11, <2>12, <2>13, <2>14, <2>15, <2>17, <2>18, <2>19, <2>20
         DEF IntegrationInv, RunningInv
  <1> QED BY <1>4, <1>5 DEF DriverInject

LEMMA ProveRelease ==
    ASSUME RunningState, UnchangedByDriver, DriverRelease
    PROVE  IntegrationInv'
  BY ProveKept, ProveTakenBack

LEMMA ProveDriver ==
    ASSUME RunningState, Driver
    PROVE  IntegrationInv'
  BY ProveDriverPoll, ProveReady, ProvePacket, ProveDriverDone, ProveFail, ProveJudge, ProveOn,
     ProveRelease, ProveReleased, ProveFeed, ProveFed, ProvePump, ProveWithdraw, ProveWrite,
     ProveComplete, ProveIdle, ProveInject, ProveFinish
     DEF Driver
--------------------------------------------------------------------------------
(* The first states.                                                       *)

LEMMA EmptyCopyTyped == EmptyCopy \in Copies
  <1>1. <<>> \in FieldCopies
    <2>1. <<>> \in [{} -> Int]
      OBVIOUS
    <2>2. {} \in SUBSET Fields
      OBVIOUS
    <2> QED BY <2>1, <2>2 DEF FieldCopies
  <1>2. <<>> \in LineCopies
    <2>1. <<>> \in [{} -> LineValues \cup {Stale, Corrupt}]
      OBVIOUS
    <2>2. {} \in SUBSET HostLines
      OBVIOUS
    <2> QED BY <2>1, <2>2 DEF LineCopies
  <1> QED BY <1>1, <1>2 DEF EmptyCopy, Copies

LEMMA InitTypes == IInit => ITypeOK
  <1> SUFFICES ASSUME IInit PROVE ITypeOK
    OBVIOUS
  <1>1. Init
    BY DEF IInit
  <1>2. memory \in Memories
    <2>1. host_data = [f \in Flows |-> [k \in Slots |-> [i \in HostLines |-> Stale]]]
      BY <1>1 DEF Init
    <2>2. host_data \in [Flows -> [Slots -> [HostLines -> LineValues \cup {Stale, Corrupt}]]]
      BY <2>1
    <2>3. memory = [line |-> host_data,
                 field |-> [f \in Flows |-> [k \in Slots |-> [d \in Fields |-> 0]]],
                 ready |-> [f \in Flows |-> [k \in Slots |-> 0]],
                 release |-> [f \in Flows |-> [k \in Slots |-> 0]]]
      BY DEF IInit
    <2> QED BY <2>2, <2>3 DEF Memories
  <1>3. mode \in Modes /\ post_push \in BOOLEAN /\ (post_push => mode = "adversarial")
    BY IntegrationAssumption DEF IInit
  <1>4. remaining \in [Flows -> SUBSET Serials]
    <2>1. \A f \in Flows : Sent(f) \subseteq Serials
      BY SentTyped
    <2>2. remaining = [f \in Flows |-> Sent(f)]
      BY DEF IInit
    <2> QED BY <2>1, <2>2
  <1>5. copy \in Copies
    BY EmptyCopyTyped DEF IInit
  <1>6. serial_line \in Seq(Prints) /\ input \in Seq(Prints) /\ unread \in Seq(Tokens) /\ holding \in Seq(Tokens)
    BY DEF IInit
  <1>7. /\ bases \in [Flows -> Nat] /\ freed \in [Flows -> SUBSET Serials]
        /\ consumed \in [Flows -> Nat] /\ guest_consumed \in [Flows -> 0..Count]
    BY FlowsAndCounts DEF IInit
  <1> QED BY <1>2, <1>3, <1>4, <1>5, <1>6, <1>7, FlowsAndCounts DEF IInit, ITypeOK, Statuses, Places

LEMMA InitIntegration == IInit => IntegrationInv
  <1> SUFFICES ASSUME IInit PROVE IntegrationInv
    OBVIOUS
  <1>1. IndInv /\ ITypeOK
    BY InitInv, InitTypes DEF IInit
  <1>2. /\ base = InitialSerial /\ next_publish = InitialSerial /\ next_consume = InitialSerial
        /\ released = [f \in Flows |-> {}] /\ halted = [f \in Flows |-> FALSE]
        /\ phase = [f \in Flows |-> [s \in Serials |-> "ABSENT"]]
        /\ pending = {} /\ ~pumping
        /\ host_data = [f \in Flows |-> [k \in Slots |-> [i \in HostLines |-> Stale]]]
        /\ host_descriptor = [f \in Flows |-> [k \in Slots |-> [d \in Fields |-> UnsetField]]]
        /\ host_ready = [f \in Flows |-> [k \in Slots |-> 0]]
    BY DEF IInit, Init, NotReady
  <1>3. /\ memory.line = host_data
        /\ memory.field = [f \in Flows |-> [k \in Slots |-> [d \in Fields |-> 0]]]
        /\ memory.ready = [f \in Flows |-> [k \in Slots |-> 0]]
        /\ memory.release = [f \in Flows |-> [k \in Slots |-> 0]]
    BY DEF IInit
  <1>4. /\ status = 0 /\ serial_line = <<>> /\ turn = "poll" /\ input = <<>> /\ unread = <<>>
        /\ writing = NoWrite /\ remaining = [f \in Flows |-> Sent(f)] /\ bases = InitialSerial
        /\ freed = [f \in Flows |-> {}] /\ consumed = [f \in Flows |-> 0] /\ holding = <<>>
        /\ guest_ready = FALSE /\ guest_done = FALSE /\ guest_failure = <<>>
        /\ fault_injected = FALSE /\ outcome = "running"
        /\ at = "start" /\ flow_at = 0 /\ copy = EmptyCopy
        /\ guest_consumed = [f \in Flows |-> 0]
    BY DEF IInit
  <1>5. TurnInvariant
    BY <1>2, <1>4 DEF TurnInvariant
  <1>6. \A f \in Flows : InitialSerial[f] \in Nat /\ InitialSerial[f] + 0 = InitialSerial[f]
    BY FlowsAndCounts
  <1>7. BooksAgree
    <2>1. \A f \in Flows : \A s \in Sent(f) : s \in Serials
      BY SentTyped
    <2> QED BY <1>2, <1>4, <1>6, <2>1 DEF BooksAgree
  <1>8. HoldingInv
    BY <1>4 DEF HoldingInv, Distinct, Within
  <1>9. MemoryShown
    BY <1>2, <1>3, <1>4 DEF MemoryShown, LineShown, FieldShown, ReadyShown, Writing
  <1>10. FaultInv
    <2>1. TargetPhase = "ABSENT"
      BY <1>2, FirstSent, FlowsAndCounts DEF TargetPhase
    <2>2. TargetHeld
      BY <1>2, <2>1, FirstSent DEF TargetHeld
    <2>3. host_data[0][SlotOf(FirstSerial)][LastLine] = Stale
      BY <1>2, TargetLines, FirstSent, FlowsAndCounts
    <2> QED BY <1>4, <2>1, <2>2, <2>3, FlowsAndCounts DEF FaultInv, TargetComing
  <1>11. FreedByGuest
    BY <1>2, <1>4, <1>6 DEF FreedByGuest, NextOf, ShownTo
  <1>12. ReleaseWords
    BY <1>3 DEF ReleaseWords
  <1>13. GuestInv
    BY <1>4 DEF GuestInv, Reading
  <1>14. Printed = <<>>
    BY <1>4 DEF Printed
  <1>15. ReportsInTurn
    <2>1. \A f \in Flows : ReportedTo(f) = next_consume[f] /\ next_consume[f] \in Nat
      BY <1>2, <1>4, <1>6 DEF ReportedTo, NextOf
    <2>2. \A f \in Flows : next_consume[f]..(ReportedTo(f) - 1) = {} /\ next_consume[f] <= ReportedTo(f)
      BY <2>1
    <2>3. <<>> \in [DOMAIN Printed -> Serials] /\ DOMAIN Printed = {}
      BY <1>14
    <2>4. Numbers(Printed, <<>>)
      BY <2>2, <2>3 DEF Numbers
    <2> QED BY <2>2, <2>3, <2>4 DEF ReportsInTurn
  <1>16. LinesInv
    <2>1. BeforeReady
      BY <1>3, <1>4, <1>14 DEF BeforeReady
    <2> QED BY <1>4, <1>14, <2>1 DEF LinesInv
  <1> QED BY <1>1, <1>4, <1>5, <1>7, <1>8, <1>9, <1>10, <1>11, <1>12, <1>13, <1>15, <1>16
       DEF IntegrationInv, RunningInv, NeverRaises
--------------------------------------------------------------------------------
(* The argument.                                                           *)

LEMMA IntegrationStays ==
    ASSUME RunningState, Running, UNCHANGED ivars
    PROVE  IntegrationInv'
  <1>1. /\ UNCHANGED <<vars, mode, post_push, memory, status, serial_line, turn, input, unread,
                       writing, books, flags, outcome, guest>>
        /\ UNCHANGED <<remaining, bases, freed, consumed, holding, guest_ready, guest_done>>
    BY DEF ivars, shared, driver, books, flags
  <1>2. ITypeOK /\ TurnInvariant /\ HoldingInv
    BY DEF RunningState, RunningInv
  <1>3. UnchangedByDriver
    BY <1>1 DEF UnchangedByDriver
  <1>4. Moves
    BY <1>1, <1>3 DEF Moves, Printed
  <1>5. TurnInvariant'
    BY <1>1, <1>2, <1>3, ClassLeaves, DriverLeaves
       DEF TurnInvariant, HeldBack, IsTarget, IsLastLine, IsLengthField, LastLine, FirstSerial
  <1>6. HoldingInv'
    BY <1>1, <1>2, ClassLeaves DEF HoldingInv, IsHeld, TokenOf, Distinct, Within
  <1> QED BY <1>1, <1>2, <1>4, <1>5, <1>6, ProveMove DEF ITypeOK

(* Once a run has ended nothing happens any more.                          *)
LEMMA IntegrationEnded ==
    ASSUME IntegrationInv, ~Running, [INext]_ivars
    PROVE  IntegrationInv' /\ UNCHANGED ivars
  <1>1. UNCHANGED ivars
    <2>1. ~Guest
      BY DEF Guest
    <2>2. ~Driver
      BY DEF Driver, DriverPoll, DriverReady, DriverPacket, DriverDone, DriverFail, DriverJudge,
         DriverOn, DriverRelease, DriverReleased, DriverFeed, DriverFed, DriverPump, DriverWithdraw,
         DriverWrite, DriverComplete, DriverIdle, DriverInject, DriverFinish, ReadLine, InTurn
    <2> QED BY <2>1, <2>2 DEF INext, Ended
  <1>2. UNCHANGED <<vars, mode, post_push, memory, status, serial_line, turn, input, unread,
                    writing, remaining, bases, freed, consumed, holding, guest_ready, guest_done,
                    guest_failure, fault_injected, held_progress, outcome, at, flow_at, copy,
                    guest_consumed>>
    BY <1>1 DEF ivars, shared, driver, books, flags, guest
  <1>3. IndInv'
    BY <1>2, StepInv DEF IntegrationInv
  <1>4. ITypeOK'
    BY <1>2, SamePrints DEF IntegrationInv, ITypeOK
  <1> QED BY <1>1, <1>2, <1>3, <1>4 DEF IntegrationInv, NeverRaises, Running

LEMMA IntegrationStep == IntegrationInv /\ [INext]_ivars => IntegrationInv'
  <1> SUFFICES ASSUME IntegrationInv, [INext]_ivars PROVE IntegrationInv'
    OBVIOUS
  <1>1. CASE Running
    <2>1. RunningState /\ NeverRaises
      BY <1>1 DEF IntegrationInv, RunningState
    <2>2. CASE Guest
      BY <1>1, <2>1, <2>2, ProveGuest
    <2>3. CASE Driver
      BY <2>1, <2>3, ProveDriver
    <2>4. CASE UNCHANGED ivars
      BY <1>1, <2>1, <2>4, IntegrationStays
    <2> QED BY <1>1, <2>2, <2>3, <2>4 DEF INext, Ended
  <1>2. CASE ~Running
    BY <1>2, IntegrationEnded
  <1> QED BY <1>1, <1>2

THEOREM IntegrationInvariance == ISpec => []IntegrationInv
  <1>1. IInit => IntegrationInv
    BY InitIntegration
  <1>2. IntegrationInv /\ [INext]_ivars => IntegrationInv'
    BY IntegrationStep
  <1> QED BY <1>1, <1>2, PTL DEF ISpec

(* No check of the driver, the class or the guest's judge fails.           *)
THEOREM DriverNeverRaises == ISpec => []NeverRaises
  <1>1. IntegrationInv => NeverRaises
    BY DEF IntegrationInv
  <1> QED BY <1>1, IntegrationInvariance, PTL

(* A step of the driver leaves the slot that the guest reads.              *)
LEMMA DriverLeavesReader ==
    ASSUME RunningState, Driver, Reading
    PROVE  /\ memory'.line[flow_at][SlotAt] = memory.line[flow_at][SlotAt]
           /\ memory'.field[flow_at][SlotAt] = memory.field[flow_at][SlotAt]
           /\ memory'.ready[flow_at][SlotAt] = memory.ready[flow_at][SlotAt]
  <1>1. ITypeOK /\ TurnInvariant /\ FaultInv /\ GuestInv
    BY DEF RunningState, RunningInv
  <1>2. flow_at \in Flows /\ SlotAt \in Slots
    BY ReadingState
  <1>3. CASE DriverWithdraw
    <2>1. turn = "withdraw"
      BY <1>3 DEF DriverWithdraw, InTurn
    <2>2. CASE Unwithdrawn = {}
      BY <1>3, <2>2 DEF DriverWithdraw
    <2>3. CASE Unwithdrawn # {}
      <3>1. PICK t \in Unwithdrawn :
                memory' = [memory EXCEPT !.line[t.flow][t.slot] =
                    [i \in HostLines |-> IF i \in LineNumbers(Length[PayloadOf[t.flow][t.serial]])
                                         THEN Lines(PayloadOf[t.flow][t.serial])[i] ELSE @[i]]]
        BY <1>3, <2>3 DEF DriverWithdraw
      <3> QED BY <2>1, <3>1, WithdrawnIsThere
    <2> QED BY <2>2, <2>3
  <1>4. CASE DriverWrite
    <2>1. PICK w \in Eligible : memory' = Stored(w)
      BY <1>4 DEF DriverWrite
    <2>2. turn = "write"
      BY <1>4 DEF DriverWrite, InTurn
    <2>3. writing = NoWrite
      BY <1>1, <2>2 DEF TurnInvariant
    <2>4. w \in Writes
      BY <2>3, FaultyWrites DEF Eligible
    <2> QED BY <1>1, <1>2, <2>1, <2>3, <2>4, NotUnderReader, StoredIs
  <1>5. CASE DriverInject
    <2>1. CASE UNCHANGED memory
      BY <2>1
    <2>2. CASE /\ mode = "early-ready" /\ ~fault_injected
               /\ memory' = [memory EXCEPT !.ready[0][SlotOf(FirstSerial)] = generation[0][FirstSerial]]
      <3>1. flow_at # 0
        BY <1>1, <2>2, ReadingState
      <3>2. generation[0][FirstSerial] \in Nat
        BY NowTyped, FirstSent, FlowsAndCounts DEF RunningState, TypeOK
      <3> QED BY <1>1, <1>2, <2>2, <3>1, <3>2, EarlyMarker, FirstSent
    <2> QED BY <1>5, <2>1, <2>2 DEF DriverInject
  <1>6. CASE ~DriverWithdraw /\ ~DriverWrite /\ ~DriverInject
    <2>1. memory' = memory
      BY <1>6 DEF Driver, shared, DriverPoll, DriverReady, DriverPacket, DriverDone, DriverFail,
         DriverJudge, DriverOn, DriverRelease, DriverReleased, DriverFeed, DriverFed, DriverPump,
         DriverComplete, DriverIdle, DriverFinish
    <2> QED BY <2>1
  <1> QED BY <1>3, <1>4, <1>5, <1>6

(* From the match of the marker until the guest gives the packet back, its *)
(* lines, its descriptor and its marker stay as they are.                  *)
THEOREM GuestReadsAlone == ISpec => GuestAlone
  <1> DEFINE Alone == (at \in {"descriptor", "payload", "release"} /\ at' # "poll") =>
                        /\ memory'.line[flow_at][SlotAt] = memory.line[flow_at][SlotAt]
                        /\ memory'.field[flow_at][SlotAt] = memory.field[flow_at][SlotAt]
                        /\ memory'.ready[flow_at][SlotAt] = memory.ready[flow_at][SlotAt]
  <1>1. IntegrationInv /\ [INext]_ivars => [Alone]_ivars
    <2> SUFFICES ASSUME IntegrationInv, INext, Reading, at' # "poll", ivars' # ivars PROVE Alone
      BY DEF Reading
    <2>1. CASE ~Running
      BY <2>1, IntegrationEnded
    <2>2. CASE Running
      <3>1. RunningState /\ NeverRaises
        BY <2>2 DEF IntegrationInv, RunningState
      <3>2. CASE Guest
        <4>1. GuestFrame
          BY <3>1, <3>2, GuestSteps
        <4> QED BY <4>1, GuestLeaves
      <3>3. CASE Driver
        BY <3>1, <3>3, DriverLeavesReader
      <3> QED BY <2>2, <3>2, <3>3 DEF INext, Ended
    <2> QED BY <2>1, <2>2
  <1>2. ISpec => [][Alone]_ivars
    BY <1>1, IntegrationInvariance, PTL DEF ISpec
  <1> QED BY <1>2 DEF GuestAlone
================================================================================
