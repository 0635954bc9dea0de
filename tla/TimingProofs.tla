------------------------------ MODULE TimingProofs ------------------------------
(***************************************************************************)
(* Proofs about Timing, for any number of flows and packets, any lengths,  *)
(* arrivals, limits and speeds.  First what the link, the CPU's clock and  *)
(* the sums of lines do, then, part by part of the invariant, what each    *)
(* handler does to it, and last the theorems.                              *)
(***************************************************************************)
EXTENDS TimingInvariants, CommonProofs, FiniteSetTheorems, SequenceTheorems

--------------------------------------------------------------------------------
(* Times on the link.                                                      *)

LEMMA Sizes ==
    /\ NumFlows \in Nat /\ NumFlows > 0 /\ Count \in Nat /\ Count > 0
    /\ SerializationPs \in Nat /\ SerializationPs > 0 /\ LinkLatency \in Nat /\ CpuBase \in Nat
    /\ LlcHit \in Nat /\ HostMiss \in Nat /\ NicMiss \in Nat /\ MaxTime \in Nat
    /\ PsPerNs \in Nat /\ PsPerNs > 0
    /\ LinesOf \in [Packets -> Nat] /\ \A p \in Packets : LinesOf[p] \in Nat /\ LinesOf[p] > 0
  BY TimingAssumption

LEMMA Division ==
    ASSUME NEW x \in Int, NEW n \in Nat, n > 0
    PROVE  /\ x \div n \in Int /\ x % n \in 0..(n - 1)
           /\ x = n * (x \div n) + (x % n)
  OBVIOUS

LEMMA DivisionMonotone ==
    ASSUME NEW x \in Int, NEW y \in Int, NEW n \in Nat, n > 0, x <= y
    PROVE  x \div n <= y \div n
  <1>1. PICK q \in Int, r \in 0..(n - 1) : q = x \div n /\ r = x % n /\ x = n * q + r
    BY Division
  <1>2. PICK u \in Int, v \in 0..(n - 1) : u = y \div n /\ v = y % n /\ y = n * u + v
    BY Division
  <1>3. q <= u
    <2> SUFFICES ASSUME q >= u + 1 PROVE FALSE
      OBVIOUS
    <2>1. n * q >= n * (u + 1)
      OBVIOUS
    <2>2. n * (u + 1) = n * u + n
      OBVIOUS
    <2> QED BY <1>1, <1>2, <2>1, <2>2
  <1> QED BY <1>1, <1>2, <1>3

LEMMA CeilMonotone ==
    ASSUME NEW x \in Int, NEW y \in Int, x <= y
    PROVE  ns_ceil(x) \in Int /\ ns_ceil(x) <= ns_ceil(y)
  <1>1. x + PsPerNs - 1 \in Int /\ y + PsPerNs - 1 \in Int /\ x + PsPerNs - 1 <= y + PsPerNs - 1
    BY Sizes
  <1>2. (x + PsPerNs - 1) \div PsPerNs \in Int
    BY <1>1, Sizes, Division
  <1> QED BY <1>1, <1>2, Sizes, DivisionMonotone DEF ns_ceil

LEMMA CeilAbove ==
    ASSUME NEW t \in Nat, NEW x \in Int, t * PsPerNs <= x
    PROVE  ns_ceil(x) \in Nat /\ t <= ns_ceil(x)
  <1> DEFINE y == t * PsPerNs
  <1>1. PICK n \in Nat : n = PsPerNs /\ n > 0
    BY Sizes
  <1>2. y \in Int /\ y <= x
    BY <1>1
  <1>3. ns_ceil(y) = t
    <2>1. PICK q \in Int, r \in 0..(n - 1) :
            q = (y + n - 1) \div n /\ y + n - 1 = n * q + r
      BY <1>1, <1>2, Division
    <2>2. n * t + (n - 1) = n * q + r
      BY <1>1, <2>1
    <2>3. q = t
      <3>1. q <= t
        <4> SUFFICES ASSUME q >= t + 1 PROVE FALSE
          OBVIOUS
        <4>1. n * q >= n * (t + 1) /\ n * (t + 1) = n * t + n
          BY <1>1
        <4> QED BY <2>2, <4>1
      <3>2. q >= t
        <4> SUFFICES ASSUME t >= q + 1 PROVE FALSE
          OBVIOUS
        <4>1. n * t >= n * (q + 1) /\ n * (q + 1) = n * q + n
          BY <1>1
        <4> QED BY <2>2, <4>1
      <3> QED BY <3>1, <3>2
    <2> QED BY <1>1, <2>1, <2>3 DEF ns_ceil
  <1> HIDE DEF y
  <1>4. ns_ceil(y) <= ns_ceil(x) /\ ns_ceil(x) \in Int
    BY <1>2, CeilMonotone
  <1> QED BY <1>3, <1>4

LineSet == [kind : OfPacket, what : Packets] \cup [kind : {"payload_visible"}, what : Packets \X Nat]

LEMMA LinkTimes ==
    ASSUME TypeInv, NEW t \in Nat, NEW lines \in Seq(LineSet)
    PROVE  LET new == OnLink(t, lines)
           IN  /\ new \in Seq(Events) /\ Len(new) = Len(lines) /\ Timed(new) /\ Sorted(new)
               /\ \A k \in DOMAIN lines :
                    /\ new[k].time \in Nat /\ t <= new[k].time
                    /\ new[k].kind = lines[k].kind /\ new[k].what = lines[k].what
               /\ AvailableAfter(t, lines) \in Nat
  <1> DEFINE start == LinkStart(t)
             delay == LinkLatency * PsPerNs
             at(k) == start + k * SerializationPs + delay
             new == OnLink(t, lines)
             N == Len(lines)
  <1>1. t * PsPerNs \in Nat /\ delay \in Nat
    BY Sizes
  <1>2. start \in Nat /\ t * PsPerNs <= start
    BY <1>1 DEF LinkStart, Later, TypeInv
  <1> HIDE DEF start, delay
  <1>3. N \in Nat /\ DOMAIN lines = 1..N /\ \A k \in 1..N : lines[k] \in LineSet
    OBVIOUS
  <1>4. \A k \in Nat : k * SerializationPs \in Nat
    BY Sizes
  <1>5. \A k \in 1..N : at(k) \in Int /\ t * PsPerNs <= at(k)
    <2> TAKE k \in 1..N
    <2>1. k * SerializationPs \in Nat
      BY <1>3, <1>4
    <2> QED BY <1>1, <1>2, <2>1
  <1>6. \A k, l \in 1..N : k < l => at(k) <= at(l)
    <2> SUFFICES ASSUME NEW k \in 1..N, NEW l \in 1..N, k < l PROVE at(k) <= at(l)
      OBVIOUS
    <2>1. PICK s \in Nat : s = SerializationPs
      BY Sizes
    <2>2. k * s <= l * s /\ k * s \in Nat /\ l * s \in Nat
      BY <1>3, <2>1
    <2> QED BY <1>1, <1>2, <2>1, <2>2
  <1>7. new = [k \in 1..N |-> Event(ns_ceil(at(k)), lines[k].kind, lines[k].what)]
    BY <1>3 DEF OnLink, start, delay
  <1>8. AvailableAfter(t, lines) \in Nat
    <2>1. PICK n \in Nat : n = N
      BY <1>3
    <2>2. n * SerializationPs \in Nat
      BY <1>4
    <2> QED BY <1>2, <2>1, <2>2 DEF AvailableAfter, TypeInv, start
  <1> HIDE DEF at, N, new
  <1>9. \A k \in 1..N : ns_ceil(at(k)) \in Nat /\ t <= ns_ceil(at(k))
    BY <1>5, CeilAbove
  <1>10. \A k \in 1..N : /\ new[k].time = ns_ceil(at(k))
                        /\ new[k].kind = lines[k].kind /\ new[k].what = lines[k].what
    BY <1>7 DEF Event
  <1>11. \A k \in 1..N : new[k] \in Events
    <2> TAKE k \in 1..N
    <2>1. new[k] = [time |-> ns_ceil(at(k)), kind |-> lines[k].kind, what |-> lines[k].what]
      BY <1>7 DEF Event
    <2>2. lines[k] \in LineSet /\ ns_ceil(at(k)) \in Nat
      BY <1>3, <1>9
    <2> QED BY <2>1, <2>2 DEF LineSet, Events, OfLine
  <1>12. new \in [1..N -> Events]
    BY <1>7, <1>11
  <1>13. new \in Seq(Events) /\ Len(new) = N /\ DOMAIN new = 1..N
    BY <1>3, <1>12
  <1>14. Timed(new)
    BY <1>9, <1>10, <1>13 DEF Timed
  <1>15. Sorted(new)
    <2> SUFFICES ASSUME NEW k \in 1..N, NEW l \in 1..N, k < l
                 PROVE  new[k].time <= new[l].time
      BY <1>13 DEF Sorted
    <2> QED BY <1>5, <1>6, <1>10, CeilMonotone
  <1> QED BY <1>3, <1>8, <1>9, <1>10, <1>13, <1>14, <1>15 DEF new, N

--------------------------------------------------------------------------------
(* What the handlers schedule.                                             *)

Clocks == [cursor : Nat, link : Nat]

LEMMA AccessTyped ==
    ASSUME NEW hit, NEW clock \in Clocks
    PROVE  AfterAccess(hit, clock) \in Clocks
           /\ clock.cursor <= AfterAccess(hit, clock).cursor
  <1> DEFINE start == Later(clock.cursor * PsPerNs, clock.link)
             delay == LinkLatency * PsPerNs
             finish == start + SerializationPs + delay
             missed == [cursor |-> ns_ceil(finish) + NicMiss, link |-> start + SerializationPs]
  <1>1. clock.cursor \in Nat /\ clock.link \in Nat
    BY DEF Clocks
  <1>2. delay \in Nat /\ clock.cursor * PsPerNs \in Nat
    BY <1>1, Sizes
  <1>3. start \in Nat /\ clock.cursor * PsPerNs <= start
    BY <1>1, <1>2 DEF Later
  <1> HIDE DEF start, delay
  <1>4. finish \in Int /\ clock.cursor * PsPerNs <= finish /\ start + SerializationPs \in Nat
    BY <1>2, <1>3, Sizes
  <1> HIDE DEF finish
  <1>5. ns_ceil(finish) \in Nat /\ clock.cursor <= ns_ceil(finish)
    BY <1>1, <1>4, CeilAbove
  <1>6. missed \in Clocks /\ clock.cursor <= missed.cursor
    BY <1>1, <1>4, <1>5, Sizes DEF Clocks
  <1>7. \A n \in Nat : /\ [clock EXCEPT !.cursor = @ + n] \in Clocks
                       /\ clock.cursor <= [clock EXCEPT !.cursor = @ + n].cursor
    BY DEF Clocks
  <1>8. \/ AfterAccess(hit, clock) = [clock EXCEPT !.cursor = @ + LlcHit]
        \/ AfterAccess(hit, clock) = [clock EXCEPT !.cursor = @ + HostMiss]
        \/ AfterAccess(hit, clock) = missed
    BY DEF AfterAccess, start, delay, finish
  <1> QED BY <1>6, <1>7, <1>8, Sizes

LEMMA ReadsTyped ==
    ASSUME NEW p \in Packets
    PROVE  Reads(p) \in Nat
BY Sizes DEF Reads

ClocksTo(c, hits, p, n) ==
    /\ c \in [0..n -> Clocks]
    /\ c[0] = [cursor |-> At + CpuBase, link |-> link_available_ps]
    /\ \A i \in 0..(n - 1) : c[i + 1] = AfterAccess(hits[i + 1], c[i])

LEMMA ClocksOfLength ==
    ASSUME TypeInv, At \in Nat, NEW hits \in HitPatterns, NEW p \in Packets
    PROVE  \E c : ClocksTo(c, hits, p, Reads(p))
  <1> DEFINE N == Reads(p)
             S == {n \in Nat : n <= N /\ ~\E c : ClocksTo(c, hits, p, n)}
             first == [cursor |-> At + CpuBase, link |-> link_available_ps]
  <1>1. N \in Nat
    BY ReadsTyped
  <1> SUFFICES ASSUME S # {} PROVE FALSE
    BY <1>1
  <1>2. PICK m \in S : \A y \in S : m <= y
    BY LeastExists
  <1>3. m \in Nat /\ m <= N /\ ~\E c : ClocksTo(c, hits, p, m)
    OBVIOUS
  <1>4. first \in Clocks
    BY Sizes DEF Clocks, TypeInv
  <1>5. m # 0
    <2> DEFINE c == [i \in 0..0 |-> first]
    <2>1. ClocksTo(c, hits, p, 0)
      BY <1>4 DEF ClocksTo
    <2> QED BY <1>3, <2>1
  <1>6. m - 1 \in Nat /\ ~(m <= m - 1) /\ m - 1 <= N
    BY <1>1, <1>3, <1>5
  <1>7. PICK d : ClocksTo(d, hits, p, m - 1)
    BY <1>2, <1>6
  <1>8. d \in [0..(m - 1) -> Clocks] /\ d[0] = first /\ m - 1 \in 0..(m - 1)
    BY <1>6, <1>7 DEF ClocksTo
  <1>9. AfterAccess(hits[m], d[m - 1]) \in Clocks
    BY <1>8, AccessTyped
  <1> DEFINE c == [i \in 0..m |-> IF i = m THEN AfterAccess(hits[m], d[m - 1]) ELSE d[i]]
  <1> HIDE DEF first, N
  <1>10. ClocksTo(c, hits, p, m)
    <2>1. c \in [0..m -> Clocks]
      BY <1>3, <1>6, <1>8, <1>9
    <2>2. c[0] = first
      BY <1>3, <1>5, <1>8
    <2>3. ASSUME NEW i \in 0..(m - 1) PROVE c[i + 1] = AfterAccess(hits[i + 1], c[i])
      <3>1. i \in 0..m /\ i + 1 \in 0..m /\ i # m
        BY <1>3, <1>6
      <3>2. CASE i = m - 1
        <4>1. i + 1 = m
          BY <1>3, <3>2
        <4> QED BY <3>1, <3>2, <4>1
      <3>3. CASE i # m - 1
        <4>1. i \in 0..((m - 1) - 1) /\ i + 1 # m
          BY <1>3, <1>6, <3>1, <3>3
        <4>2. d[i + 1] = AfterAccess(hits[i + 1], d[i])
          BY <1>7, <4>1 DEF ClocksTo
        <4> QED BY <3>1, <4>1, <4>2
      <3> QED BY <3>2, <3>3
    <2> HIDE DEF c
    <2> QED BY <2>1, <2>2, <2>3 DEF ClocksTo, first
  <1> QED BY <1>3, <1>10

(* The reads of a packet take time, and never give it back.                *)
LEMMA ClockTyped ==
    ASSUME TypeInv, At \in Nat, NEW hits \in HitPatterns, NEW p \in Packets
    PROVE  AfterReads(hits, p) \in Clocks /\ At <= AfterReads(hits, p).cursor
  <1> DEFINE N == Reads(p)
             first == [cursor |-> At + CpuBase, link |-> link_available_ps]
             F(c) == [n \in 0..N |-> IF n = 0 THEN first ELSE AfterAccess(hits[n], c[n - 1])]
             clock == CHOOSE c : c = F(c)
  <1>1. N \in Nat
    BY ReadsTyped
  <1>2. PICK d : ClocksTo(d, hits, p, N)
    BY ClocksOfLength
  <1>3. d = F(d)
    <2>1. d \in [0..N -> Clocks] /\ d[0] = first
      BY <1>2 DEF ClocksTo
    <2>2. ASSUME NEW n \in 0..N, n # 0 PROVE d[n] = AfterAccess(hits[n], d[n - 1])
      <3>1. n - 1 \in 0..(N - 1) /\ (n - 1) + 1 = n
        BY <1>1, <2>2
      <3> QED BY <1>2, <3>1 DEF ClocksTo
    <2> HIDE DEF N, first
    <2>3. \A n \in 0..N : d[n] = IF n = 0 THEN first ELSE AfterAccess(hits[n], d[n - 1])
      BY <2>1, <2>2
    <2> QED BY <2>1, <2>3
  <1>4. clock = F(clock)
    BY <1>3
  <1>5. AfterReads(hits, p) = clock[N]
    BY DEF AfterReads
  <1>6. /\ clock[0] = first
        /\ \A n \in 0..N : n # 0 => clock[n] = AfterAccess(hits[n], clock[n - 1])
    <2> HIDE DEF first
    <2> DEFINE C == clock
    <2>1. C = [n \in 0..N |-> IF n = 0 THEN first ELSE AfterAccess(hits[n], C[n - 1])]
      BY <1>4
    <2> HIDE DEF C, N
    <2>2. C[0] = first /\ \A n \in 0..N : n # 0 => C[n] = AfterAccess(hits[n], C[n - 1])
      BY <1>1, <2>1
    <2> QED BY <2>2 DEF C
  <1> HIDE DEF clock, N
  <1> DEFINE S == {n \in Nat : n <= N /\ ~(clock[n] \in Clocks /\ At <= clock[n].cursor)}
  <1>7. S = {}
    <2> SUFFICES ASSUME S # {} PROVE FALSE
      OBVIOUS
    <2>1. PICK m \in S : \A y \in S : m <= y
      BY LeastExists
    <2>2. m \in Nat /\ m <= N /\ ~(clock[m] \in Clocks /\ At <= clock[m].cursor)
      OBVIOUS
    <2>3. first \in Clocks /\ At <= first.cursor
      BY Sizes DEF Clocks, TypeInv
    <2>4. m # 0
      BY <1>6, <2>2, <2>3
    <2>5. m - 1 \in Nat /\ m - 1 <= N /\ ~(m <= m - 1) /\ m \in 0..N /\ 1 <= m
      BY <1>1, <2>2, <2>4
    <2>6. clock[m - 1] \in Clocks /\ At <= clock[m - 1].cursor
      BY <2>1, <2>5
    <2>7. clock[m] = AfterAccess(hits[m], clock[m - 1])
      BY <1>6, <2>4, <2>5
    <2>9. clock[m] \in Clocks /\ clock[m - 1].cursor <= clock[m].cursor
      BY <2>6, <2>7, AccessTyped
    <2>10. clock[m].cursor \in Nat /\ clock[m - 1].cursor \in Nat
      BY <2>6, <2>9 DEF Clocks
    <2> QED BY <2>2, <2>6, <2>9, <2>10
  <1> QED BY <1>1, <1>5, <1>7

--------------------------------------------------------------------------------
LEMMA EventParts ==
    ASSUME NEW e \in Events
    PROVE  /\ e.time \in Nat /\ e.kind \in OfPacket \cup OfLine \cup OfGate
           /\ e.kind \in OfPacket => e.what \in Packets
           /\ e.kind \in OfLine => e.what \in Packets \X Nat
           /\ e.kind \in OfGate => e.what \in BOOLEAN
  BY DEF Events, OfPacket, OfLine, OfGate

LEMMA RestTyped ==
    ASSUME TypeInv, events # <<>>
    PROVE  /\ Rest \in Seq(Events) /\ 1 \in DOMAIN events /\ Head(events) = events[1]
           /\ Head(events) \in Events /\ At \in Nat
           /\ \A i \in DOMAIN Rest : i + 1 \in DOMAIN events /\ Rest[i] = events[i + 1] /\ i \in Nat
           /\ \A i \in DOMAIN events : i # 1 => i - 1 \in DOMAIN Rest /\ Rest[i - 1] = events[i] /\ i \in Nat
           /\ QueueInv => Timed(Rest) /\ Sorted(Rest)
  <1>1. events \in Seq(Events) /\ Len(events) \in Nat /\ Len(events) # 0 /\ DOMAIN events = 1..Len(events)
    BY DEF TypeInv
  <1>2. Rest \in Seq(Events) /\ Len(Rest) = Len(events) - 1 /\ DOMAIN Rest = 1..(Len(events) - 1)
        /\ \A i \in 1..(Len(events) - 1) : Rest[i] = events[i + 1]
    BY <1>1 DEF Rest
  <1>3. \A i \in DOMAIN Rest : i + 1 \in DOMAIN events /\ Rest[i] = events[i + 1] /\ i \in Nat
    BY <1>1, <1>2
  <1>4. \A i \in DOMAIN events : i # 1 => i - 1 \in DOMAIN Rest /\ Rest[i - 1] = events[i] /\ i \in Nat
    BY <1>1, <1>2
  <1>5. 1 \in DOMAIN events /\ Head(events) = events[1] /\ Head(events) \in Events
    BY <1>1
  <1>6. At \in Nat
    BY <1>5, EventParts DEF At
  <1>7. Timed(Rest)
    BY <1>2, EventParts DEF Timed
  <1>8. ASSUME QueueInv PROVE Sorted(Rest)
    <2> SUFFICES ASSUME NEW i \in DOMAIN Rest, NEW j \in DOMAIN Rest, i < j
                 PROVE  Rest[i].time <= Rest[j].time
      BY DEF Sorted
    <2>1. i + 1 < j + 1
      BY <1>3
    <2> QED BY <1>3, <1>8, <2>1 DEF QueueInv
  <1> QED BY <1>2, <1>3, <1>4, <1>5, <1>6, <1>7, <1>8

LEMMA EventsTyped ==
    ASSUME TypeInv
    PROVE  /\ events \in Seq(Events) /\ DOMAIN events = 1..Len(events) /\ Len(events) \in Nat
           /\ \A i \in DOMAIN events : events[i] \in Events
           /\ Timed(events) /\ (QueueInv => Sorted(events))
  <1>1. /\ events \in Seq(Events) /\ DOMAIN events = 1..Len(events) /\ Len(events) \in Nat
        /\ \A i \in DOMAIN events : events[i] \in Events
    BY DEF TypeInv
  <1>2. Timed(events)
    BY <1>1, EventParts DEF Timed
  <1> QED BY <1>1, <1>2 DEF QueueInv, Sorted

(* The queue after a handler that schedules new, from time t on.           *)
Sends(t, old, new) ==
    /\ old \in Seq(Events) /\ new \in Seq(Events) /\ events' \in Seq(Events) /\ Sorted(events')
    /\ \A k \in DOMAIN new : t <= new[k].time
    /\ Len(events') = Len(old) + Len(new)
    /\ \E a, b : Merged(events', old, new, a, b)

LEMMA SendsAll ==
    ASSUME TypeInv, QueueInv, NEW old, old = events \/ (old = Rest /\ events # <<>>),
           NEW new \in Seq(Events), NEW t, \A k \in DOMAIN new : t <= new[k].time,
           events' = ScheduleAll(old, new)
    PROVE  Sends(t, old, new)
  <1>1. old \in Seq(Events) /\ Timed(old) /\ Sorted(old)
    BY EventsTyped, RestTyped
  <1>2. Timed(new)
    <2>1. \A k \in DOMAIN new : new[k] \in Events
      OBVIOUS
    <2> QED BY <2>1, EventParts DEF Timed
  <1> QED BY <1>1, <1>2, ScheduleMerges DEF Sends

LEMMA SendsNone ==
    ASSUME TypeInv, QueueInv, NEW old, old = events \/ (old = Rest /\ events # <<>>), NEW t,
           events' = old
    PROVE  Sends(t, old, <<>>)
  <1>1. old \in Seq(Events) /\ Timed(old) /\ Sorted(old)
    BY EventsTyped, RestTyped
  <1> DEFINE a == [i \in DOMAIN old |-> i]
  <1>2. Merged(old, old, <<>>, a, <<>>)
    BY <1>1 DEF Merged
  <1>3. <<>> \in Seq(Events) /\ DOMAIN <<>> = {} /\ Len(<<>>) = 0 /\ Len(old) \in Nat
    BY <1>1
  <1> HIDE DEF a
  <1> QED BY <1>1, <1>2, <1>3 DEF Sends

LEMMA PublishTyped ==
    ASSUME NEW stages, NEW c
    PROVE  /\ PublishLines(stages, c) \in Seq(LineSet)
           /\ \/ PublishLines(stages, c) = <<>> /\ ~Publishable(stages, c)
              \/ PublishLines(stages, c) = Metadata(c) /\ Publishable(stages, c) /\ c \in Packets
  <1>1. c \in Packets => Metadata(c) \in Seq(LineSet)
    BY DEF Metadata, Line, LineSet, OfPacket
  <1>2. <<>> \in Seq(LineSet)
    OBVIOUS
  <1> QED BY <1>1, <1>2 DEF PublishLines, Publishable

LEMMA PayloadTyped ==
    ASSUME NEW p \in Packets
    PROVE  /\ PayloadEvents(p) \in Seq(LineSet) /\ DOMAIN PayloadEvents(p) = 1..LinesOf[p]
           /\ Len(PayloadEvents(p)) = LinesOf[p]
           /\ \A k \in 1..LinesOf[p] : /\ PayloadEvents(p)[k].kind = "payload_visible"
                                       /\ PayloadEvents(p)[k].what = <<p, k - 1>>
                                       /\ k - 1 \in 0..(LinesOf[p] - 1)
  <1>1. PICK n \in Nat : n = LinesOf[p]
    BY Sizes
  <1>2. \A k \in 1..n : Line("payload_visible", <<p, k - 1>>) \in LineSet
    BY DEF Line, LineSet
  <1>3. PayloadEvents(p) = [k \in 1..n |-> Line("payload_visible", <<p, k - 1>>)]
    BY <1>1 DEF PayloadEvents
  <1>4. PayloadEvents(p) \in [1..n -> LineSet]
    BY <1>2, <1>3
  <1>5. PayloadEvents(p) \in Seq(LineSet) /\ DOMAIN PayloadEvents(p) = 1..n /\ Len(PayloadEvents(p)) = n
    BY <1>4
  <1> QED BY <1>1, <1>3, <1>5 DEF Line

IssueLines(p) ==
    IF policy.push_payload THEN PayloadEvents(p)
    ELSE PublishLines([stage EXCEPT ![p] = "complete"], ToPublish(p))

LEMMA IssueSends ==
    ASSUME TypeInv, QueueInv, NEW p \in Packets, stage[p] = "arrived", Issue(p)
    PROVE  /\ IssueLines(p) \in Seq(LineSet)
           /\ Sends(now, events, OnLink(now, IssueLines(p)))
           /\ link_available_ps' \in Nat
  <1>1. IssueLines(p) \in Seq(LineSet)
    BY PayloadTyped, PublishTyped DEF IssueLines
  <1>2. now \in Nat
    BY DEF TypeInv
  <1>3. /\ events' = ScheduleAll(events, OnLink(now, IssueLines(p)))
        /\ link_available_ps' = AvailableAfter(now, IssueLines(p))
    BY DEF Issue, IssueLines
  <1>4. /\ OnLink(now, IssueLines(p)) \in Seq(Events)
        /\ \A k \in DOMAIN IssueLines(p) : now <= OnLink(now, IssueLines(p))[k].time
        /\ link_available_ps' \in Nat
    BY <1>1, <1>2, <1>3, LinkTimes
  <1>5. DOMAIN OnLink(now, IssueLines(p)) = DOMAIN IssueLines(p)
    BY DEF OnLink
  <1>6. Sends(now, events, OnLink(now, IssueLines(p)))
    BY <1>3, <1>4, <1>5, SendsAll
  <1> QED BY <1>1, <1>4, <1>6

LEMMA TakeTyped ==
    ASSUME TypeInv, QueueInv, NEW kind, Take(kind)
    PROVE  /\ events # <<>> /\ now' = At /\ now <= At /\ now' \in Nat /\ At \in Nat
           /\ 1 \in DOMAIN events /\ events[1].kind = kind /\ events[1].what = Taken
           /\ events[1].time = At
           /\ kind \in OfPacket => Taken \in Packets
           /\ kind \in OfLine => Taken \in Packets \X Nat
           /\ kind \in OfGate => Taken \in BOOLEAN
           /\ \A i \in DOMAIN events : At <= events[i].time
  <1>1. events # <<>> /\ now' = At /\ Head(events).kind = kind
    BY DEF Take, At
  <1>2. /\ 1 \in DOMAIN events /\ Head(events) = events[1] /\ events[1] \in Events /\ At \in Nat
    BY <1>1, RestTyped
  <1>3. now <= At
    BY <1>2 DEF QueueInv, At
  <1>4. \A i \in DOMAIN events : At <= events[i].time
    <2> TAKE i \in DOMAIN events
    <2>1. i \in Nat /\ (i = 1 \/ 1 < i)
      BY EventsTyped
    <2>2. CASE i = 1
      BY <1>2, <2>2 DEF At
    <2>3. CASE 1 < i
      BY <1>2, <2>3 DEF QueueInv, At
    <2> QED BY <2>1, <2>2, <2>3
  <1> QED BY <1>1, <1>2, <1>3, <1>4, EventParts DEF At, Taken

LEMMA TakeSends ==
    ASSUME TypeInv, QueueInv, NEW kind, Take(kind), events' = Rest
    PROVE  Sends(now', Rest, <<>>)
  BY TakeTyped, SendsNone

LEMMA LinesSend ==
    ASSUME TypeInv, QueueInv, NEW kind, Take(kind), NEW lines \in Seq(LineSet),
           events' = ScheduleAll(Rest, OnLink(At, lines)),
           link_available_ps' = AvailableAfter(At, lines)
    PROVE  Sends(now', Rest, OnLink(At, lines)) /\ link_available_ps' \in Nat
  <1>1. At \in Nat /\ now' = At /\ events # <<>>
    BY TakeTyped
  <1>2. /\ OnLink(At, lines) \in Seq(Events)
        /\ \A k \in DOMAIN lines : At <= OnLink(At, lines)[k].time
        /\ link_available_ps' \in Nat
    BY <1>1, LinkTimes
  <1>3. DOMAIN OnLink(At, lines) = DOMAIN lines
    BY DEF OnLink
  <1> QED BY <1>1, <1>2, <1>3, SendsAll

LeftOf(p) == pending_payload_lines[p] - 1

CompletedBy(p) == IF LeftOf(p) = 0 THEN [stage EXCEPT ![p] = "complete"] ELSE stage

CompletionLines(p) ==
    IF LeftOf(p) = 0 THEN PublishLines(CompletedBy(p), ToPublish(p)) ELSE <<>>

LEMMA ConfigParts ==
    ASSUME TypeInv
    PROVE  /\ config.push_credit \in Nat /\ config.nic_buffer \in Nat
           /\ config.cpu_reorder_buffer \in Nat /\ config.control_latency \in Nat
           /\ config.global_credit # NoLimit => config.global_credit \in Nat
           /\ config.sample_interval # NoLimit => config.sample_interval \in Nat
           /\ config.withdraw # NoLimit => config.withdraw \in Nat
           /\ config.background # NoLimit => config.background \in Nat
  BY ConfigAssumption DEF TypeInv

LEMMA WithdrawTyped ==
    ASSUME TypeInv, At \in Nat, NEW line \in Packets \X Nat
    PROVE  /\ WithdrawLater(line) \in Seq(Events)
           /\ \/ WithdrawLater(line) = <<>>
              \/ WithdrawLater(line) = <<Event(At + config.withdraw, "withdraw", line)>>
           /\ \A k \in DOMAIN WithdrawLater(line) :
                /\ At <= WithdrawLater(line)[k].time /\ WithdrawLater(line)[k].kind = "withdraw"
  <1>1. CASE WithdrawLater(line) = <<>>
    BY <1>1
  <1>2. CASE policy.family = "ncp" /\ config.withdraw # NoLimit
    <2> DEFINE e == Event(At + config.withdraw, "withdraw", line)
    <2>1. WithdrawLater(line) = <<e>>
      BY <1>2 DEF WithdrawLater
    <2>2. config.withdraw \in Nat
      BY <1>2, ConfigParts
    <2>3. e \in Events /\ e.time = At + config.withdraw /\ e.kind = "withdraw"
      BY <2>2 DEF Event, Events, OfLine
    <2> HIDE DEF e
    <2>4. <<e>> \in Seq(Events) /\ DOMAIN <<e>> = {1} /\ <<e>>[1] = e
      BY <2>3
    <2> QED BY <2>1, <2>2, <2>3, <2>4 DEF e
  <1> QED BY <1>1, <1>2 DEF WithdrawLater

LEMMA PayloadSends ==
    ASSUME TypeInv, QueueInv, PayloadVisible
    PROVE  LET p == Taken[1]
               w == WithdrawLater(Taken)
               o == OnLink(At, CompletionLines(p))
           IN  /\ CompletionLines(p) \in Seq(LineSet)
               /\ w \in Seq(Events) /\ o \in Seq(Events)
               /\ Sends(now', Rest, w \o o)
               /\ link_available_ps' \in Nat
  <1> DEFINE p == Taken[1]
             w == WithdrawLater(Taken)
             L == CompletionLines(p)
             o == OnLink(At, L)
  <1>1. Take("payload_visible")
    BY DEF PayloadVisible
  <1>2. At \in Nat /\ now' = At /\ events # <<>> /\ Taken \in Packets \X Nat
    BY <1>1, TakeTyped DEF OfLine
  <1>3. L \in Seq(LineSet)
    BY PublishTyped DEF CompletionLines
  <1>4. events' = ScheduleAll(Rest, w \o o) /\ link_available_ps' = AvailableAfter(At, L)
    BY DEF PayloadVisible, CompletionLines, CompletedBy, LeftOf
  <1>5. /\ o \in Seq(Events) /\ link_available_ps' \in Nat
        /\ \A k \in DOMAIN L : At <= o[k].time
    BY <1>2, <1>3, <1>4, LinkTimes
  <1>6. DOMAIN o = DOMAIN L
    BY DEF OnLink
  <1>7. w \in Seq(Events) /\ \A k \in DOMAIN w : At <= w[k].time
    BY <1>2, WithdrawTyped
  <1> HIDE DEF w, o, L, p
  <1>8. w \o o \in Seq(Events) /\ \A k \in DOMAIN (w \o o) : At <= (w \o o)[k].time
    <2>1. w \o o \in Seq(Events)
      BY <1>5, <1>7
    <2>2. ASSUME NEW k \in DOMAIN (w \o o) PROVE At <= (w \o o)[k].time
      <3>1. CASE k \in DOMAIN w
        BY <1>5, <1>7, <3>1
      <3>2. CASE k \notin DOMAIN w
        <4>1. k - Len(w) \in DOMAIN o /\ (w \o o)[k] = o[k - Len(w)]
          BY <1>5, <1>7, <3>2
        <4> QED BY <1>5, <1>6, <4>1
      <3> QED BY <3>1, <3>2
    <2> QED BY <2>1, <2>2
  <1>9. Sends(At, Rest, w \o o)
    BY <1>2, <1>4, <1>8, SendsAll
  <1> QED BY <1>2, <1>3, <1>5, <1>7, <1>9 DEF w, o, L, p

ReadyLines(p) ==
    IF ~policy.cpu_reorder THEN PublishLines([stage EXCEPT ![p] = "ready"], SuccessorOf(p)) ELSE <<>>

OutOfTurn(p) == ~policy.cpu_reorder /\ SerialOf(p) # next_publish[FlowOf(p)]

LEMMA ReadySends ==
    ASSUME TypeInv, QueueInv, ReadyVisible
    PROVE  /\ ReadyLines(Taken) \in Seq(LineSet)
           /\ Sends(now', Rest, IF OutOfTurn(Taken) THEN <<>> ELSE OnLink(At, ReadyLines(Taken)))
           /\ link_available_ps' \in Nat
  <1>1. Take("ready_visible")
    BY DEF ReadyVisible
  <1>2. ReadyLines(Taken) \in Seq(LineSet)
    BY PublishTyped DEF ReadyLines
  <1>3. CASE OutOfTurn(Taken)
    <2>1. events' = Rest /\ link_available_ps' = link_available_ps
      BY <1>3 DEF ReadyVisible, OutOfTurn
    <2> QED BY <1>1, <1>2, <1>3, <2>1, TakeSends DEF TypeInv
  <1>4. CASE ~OutOfTurn(Taken)
    <2>1. /\ events' = ScheduleAll(Rest, OnLink(At, ReadyLines(Taken)))
          /\ link_available_ps' = AvailableAfter(At, ReadyLines(Taken))
      BY <1>4 DEF ReadyVisible, OutOfTurn, ReadyLines
    <2>2. Sends(now', Rest, OnLink(At, ReadyLines(Taken))) /\ link_available_ps' \in Nat
      BY <1>1, <1>2, <2>1, LinesSend
    <2> QED BY <1>2, <1>4, <2>2
  <1> QED BY <1>3, <1>4

(* A single event, or none.                                                *)
LEMMA OneEvent ==
    ASSUME NEW e \in Events
    PROVE  <<e>> \in Seq(Events) /\ DOMAIN <<e>> = {1} /\ <<e>>[1] = e /\ Len(<<e>>) = 1
  OBVIOUS

LEMMA TryCpuSends ==
    ASSUME TypeInv, QueueInv, NEW p \in Packets,
           events' = Schedule(events, Event(now, "cpu_consume", p))
    PROVE  Sends(now, events, <<Event(now, "cpu_consume", p)>>)
  <1>1. now \in Nat
    BY DEF TypeInv
  <1>2. Event(now, "cpu_consume", p) \in Events /\ Event(now, "cpu_consume", p).time = now
    BY <1>1 DEF Event, Events, OfPacket
  <1>3. /\ <<Event(now, "cpu_consume", p)>> \in Seq(Events)
        /\ \A k \in DOMAIN <<Event(now, "cpu_consume", p)>> :
             now <= <<Event(now, "cpu_consume", p)>>[k].time
    BY <1>1, <1>2, OneEvent
  <1> QED BY <1>3, SendsAll DEF Schedule

FailedConsume(p) ==
    (~policy.cpu_reorder /\ SerialOf(p) # next_consume[FlowOf(p)]) \/ ~PacketInMemory(p)

LEMMA ConsumeSends ==
    ASSUME TypeInv, QueueInv, CpuConsume
    PROVE  /\ link_available_ps' \in Nat
           /\ IF FailedConsume(Taken) THEN Sends(now', Rest, <<>>) /\ times' = times
              ELSE \E n \in Nat :
                     /\ At <= n
                     /\ times' = [times EXCEPT ![Taken].consume = At, ![Taken].processed = n]
                     /\ Sends(now', Rest, <<Event(n, "release", Taken)>>)
  <1>1. Take("cpu_consume")
    BY DEF CpuConsume
  <1>2. /\ At \in Nat /\ now' = At /\ events # <<>> /\ Taken \in Packets
    BY <1>1, TakeTyped DEF OfPacket
  <1>3. CASE FailedConsume(Taken)
    <2>1. events' = Rest /\ link_available_ps' = link_available_ps /\ times' = times
      BY <1>3 DEF CpuConsume, FailedConsume
    <2> QED BY <1>1, <1>3, <2>1, TakeSends DEF TypeInv
  <1>4. CASE ~FailedConsume(Taken)
    <2>1. PICK hits \in HitPatterns :
            LET clock == AfterReads(hits, Taken)
            IN  /\ times' = [times EXCEPT ![Taken].consume = At, ![Taken].processed = clock.cursor]
                /\ link_available_ps' = clock.link
                /\ events' = Schedule(Rest, Event(clock.cursor, "release", Taken))
      BY <1>4 DEF CpuConsume, FailedConsume
    <2>2. PICK clock \in Clocks :
            /\ At <= clock.cursor
            /\ times' = [times EXCEPT ![Taken].consume = At, ![Taken].processed = clock.cursor]
            /\ link_available_ps' = clock.link
            /\ events' = Schedule(Rest, Event(clock.cursor, "release", Taken))
      BY <1>2, <2>1, ClockTyped
    <2>3. PICK n \in Nat : n = clock.cursor
      BY DEF Clocks
    <2> DEFINE e == Event(n, "release", Taken)
    <2>4. e \in Events /\ e.time = n
      BY <1>2 DEF Event, Events, OfPacket
    <2> HIDE DEF e
    <2>5. <<e>> \in Seq(Events) /\ \A k \in DOMAIN <<e>> : At <= <<e>>[k].time
      BY <2>2, <2>3, <2>4, OneEvent
    <2>6. events' = ScheduleAll(Rest, <<e>>)
      BY <2>2, <2>3 DEF Schedule, e
    <2>7. Sends(At, Rest, <<e>>)
      BY <1>2, <2>5, <2>6, SendsAll
    <2>8. link_available_ps' \in Nat
      BY <2>2 DEF Clocks
    <2> QED BY <1>2, <1>4, <2>2, <2>3, <2>7, <2>8 DEF e
  <1> QED BY <1>3, <1>4

LEMMA AgainTyped ==
    ASSUME At \in Nat, NEW kind \in OfGate, NEW interval \in Nat
    PROVE  /\ Again(kind, interval) \in Seq(Events)
           /\ \A k \in DOMAIN Again(kind, interval) :
                At <= Again(kind, interval)[k].time /\ Again(kind, interval)[k].kind = kind
  <1> DEFINE e == Event(At + interval, kind, FALSE)
  <1>1. e \in Events /\ At <= e.time /\ e.kind = kind
    <2>1. e = [time |-> At + interval, kind |-> kind, what |-> FALSE]
      BY DEF Event
    <2>2. At + interval \in Nat /\ At <= At + interval
      OBVIOUS
    <2> DEFINE later == At + interval
    <2> HIDE DEF e, later
    <2>3. [time |-> later, kind |-> kind, what |-> FALSE] \in [time : Nat, kind : OfGate, what : BOOLEAN]
      BY <2>2, Zenon DEF later
    <2>4. e.time = At + interval /\ e.kind = kind
      BY <2>1
    <2>5. e \in Events
      BY <2>1, <2>3 DEF Events, later
    <2> QED BY <2>2, <2>4, <2>5
  <1>2. Again(kind, interval) = <<e>> \/ Again(kind, interval) = <<>>
    BY DEF Again
  <1> HIDE DEF e
  <1>3. <<>> \in Seq(Events) /\ DOMAIN <<>> = {}
    OBVIOUS
  <1> QED BY <1>1, <1>2, <1>3, OneEvent

(* A queue without what the handler takes of it, and the time it is.       *)
LeftBy(old) ==
    \/ old = events /\ now' = now
    \/ old = Rest /\ events # <<>> /\ now' = At /\ Take(Head(events).kind)

OffGate(new) == \A k \in DOMAIN new : new[k].kind \notin OfGate

LEMMA LinesOffGate ==
    ASSUME NEW t, NEW lines \in Seq(LineSet)
    PROVE  OffGate(OnLink(t, lines))
  <1>1. DOMAIN OnLink(t, lines) = DOMAIN lines
        /\ \A k \in DOMAIN lines : OnLink(t, lines)[k].kind = lines[k].kind
    BY DEF OnLink, Event
  <1>2. \A k \in DOMAIN lines : lines[k] \in LineSet
    OBVIOUS
  <1>3. \A l \in LineSet : l.kind \notin OfGate
    BY DEF LineSet, OfPacket, OfGate
  <1> QED BY <1>1, <1>2, <1>3 DEF OffGate

LEMMA NoneOffGate == OffGate(<<>>)
  BY DEF OffGate

LEMMA CallTyped ==
    ASSUME TypeInv, calls # <<>>
    PROVE  Head(calls) \in CallSet /\ Head(calls).packet \in Packets /\ Tail(calls) \in Seq(CallSet)
  <1>1. Head(calls) \in CallSet /\ Tail(calls) \in Seq(CallSet)
    BY DEF TypeInv
  <1> QED BY <1>1 DEF CallSet

LEMMA IssueQueue ==
    ASSUME TypeInv, QueueInv, NEW p \in Packets, Issue(p), now' = now
    PROVE  link_available_ps' \in Nat
           /\ \E old, new : Sends(now', old, new) /\ LeftBy(old) /\ OffGate(new)
  <1>1. CASE stage[p] = "arrived"
    <2>1. /\ IssueLines(p) \in Seq(LineSet)
          /\ Sends(now, events, OnLink(now, IssueLines(p))) /\ link_available_ps' \in Nat
      BY <1>1, IssueSends
    <2> QED BY <2>1, LinesOffGate DEF LeftBy
  <1>2. CASE stage[p] # "arrived"
    <2>1. events' = events /\ link_available_ps' = link_available_ps
      BY <1>2 DEF Issue
    <2>2. Sends(now, events, <<>>)
      BY <2>1, SendsNone
    <2> QED BY <2>1, <2>2, NoneOffGate DEF LeftBy, TypeInv
  <1> QED BY <1>1, <1>2

LEMMA TakeQueue ==
    ASSUME TypeInv, QueueInv, NEW kind, Take(kind), NEW new, Sends(now', Rest, new), OffGate(new)
    PROVE  \E old, n : Sends(now', old, n) /\ LeftBy(old) /\ OffGate(n)
  BY TakeTyped DEF LeftBy, Take

(* The queue after any step but those of the gate's sampling.              *)
LEMMA StepQueue ==
    ASSUME TypeInv, QueueInv, Next, ~Background, ~GateSample
    PROVE  link_available_ps' \in Nat
           /\ \E old, new : Sends(now', old, new) /\ LeftBy(old) /\ OffGate(new)
  <1> DEFINE Goal == link_available_ps' \in Nat
                     /\ \E old, new : Sends(now', old, new) /\ LeftBy(old) /\ OffGate(new)
  <1> HIDE DEF Goal
  <1>1. ASSUME events' = events, now' = now, link_available_ps' = link_available_ps PROVE Goal
    BY <1>1, SendsNone, NoneOffGate DEF LeftBy, Goal, TypeInv
  <1>2. ASSUME NEW kind, Take(kind), events' = Rest, link_available_ps' = link_available_ps
        PROVE  Goal
    BY <1>2, TakeSends, TakeQueue, NoneOffGate DEF Goal, TypeInv
  <1>3. ASSUME Arrival PROVE Goal
    BY <1>2, <1>3 DEF Arrival
  <1>4. ASSUME IssueAtOnce PROVE Goal
    <2>1. Head(calls).packet \in Packets /\ Issue(Head(calls).packet) /\ now' = now
      BY <1>4, CallTyped DEF IssueAtOnce, InCall, UnchangedByIssue
    <2> QED BY <2>1, IssueQueue DEF Goal
  <1>5. ASSUME TryIssue PROVE Goal
    <2>1. now' = now
      BY <1>5 DEF TryIssue
    <2>2. \/ events' = events /\ link_available_ps' = link_available_ps
          \/ \E f \in Flows : Issuable(f) /\ Issue(NextPacket(f))
      BY <1>5, CallTyped DEF TryIssue, InCall, Considered, FlowOf, Packets
    <2>3. ASSUME NEW f \in Flows, Issuable(f), Issue(NextPacket(f)) PROVE Goal
      BY <2>1, <2>3, IssueQueue DEF Issuable, Goal
    <2> QED BY <1>1, <2>1, <2>2, <2>3
  <1>6. ASSUME PayloadVisible PROVE Goal
    <2> DEFINE w == WithdrawLater(Taken)
               o == OnLink(At, CompletionLines(Taken[1]))
    <2>1. /\ CompletionLines(Taken[1]) \in Seq(LineSet) /\ w \in Seq(Events) /\ o \in Seq(Events)
          /\ Sends(now', Rest, w \o o) /\ link_available_ps' \in Nat
      BY <1>6, PayloadSends
    <2>2. Take("payload_visible") /\ At \in Nat /\ Taken \in Packets \X Nat
      BY <1>6, TakeTyped DEF PayloadVisible, OfLine
    <2>3. OffGate(o) /\ OffGate(w)
      BY <2>1, <2>2, LinesOffGate, WithdrawTyped DEF OffGate, OfGate
    <2> HIDE DEF w, o
    <2>4. OffGate(w \o o)
      <3> SUFFICES ASSUME NEW k \in DOMAIN (w \o o) PROVE (w \o o)[k].kind \notin OfGate
        BY DEF OffGate
      <3>1. CASE k \in DOMAIN w
        <4>1. (w \o o)[k] = w[k]
          BY <2>1, <3>1
        <4> QED BY <2>3, <3>1, <4>1 DEF OffGate
      <3>2. CASE k \notin DOMAIN w
        <4>1. k - Len(w) \in DOMAIN o /\ (w \o o)[k] = o[k - Len(w)]
          BY <2>1, <3>2
        <4> QED BY <2>3, <4>1 DEF OffGate
      <3> QED BY <3>1, <3>2
    <2> QED BY <2>1, <2>2, <2>4, TakeQueue DEF Goal
  <1>7. ASSUME DescriptorVisible PROVE Goal
    BY <1>2, <1>7 DEF DescriptorVisible
  <1>8. ASSUME ReadyVisible PROVE Goal
    <2>1. /\ ReadyLines(Taken) \in Seq(LineSet) /\ link_available_ps' \in Nat
          /\ Sends(now', Rest, IF OutOfTurn(Taken) THEN <<>> ELSE OnLink(At, ReadyLines(Taken)))
      BY <1>8, ReadySends
    <2>2. Take("ready_visible")
      BY <1>8 DEF ReadyVisible
    <2>3. OffGate(IF OutOfTurn(Taken) THEN <<>> ELSE OnLink(At, ReadyLines(Taken)))
      BY <2>1, LinesOffGate, NoneOffGate
    <2> QED BY <2>1, <2>2, <2>3, TakeQueue DEF Goal
  <1>9. ASSUME TryCpu PROVE Goal
    <2>1. now' = now /\ link_available_ps' = link_available_ps
      BY <1>9 DEF TryCpu
    <2>2. \/ events' = events
          \/ \E p \in Packets : events' = Schedule(events, Event(now, "cpu_consume", p))
      BY <1>9 DEF TryCpu, Consumable
    <2>3. ASSUME NEW p \in Packets, events' = Schedule(events, Event(now, "cpu_consume", p))
          PROVE  Goal
      <3>1. Sends(now, events, <<Event(now, "cpu_consume", p)>>)
        BY <2>3, TryCpuSends
      <3>2. OffGate(<<Event(now, "cpu_consume", p)>>)
        BY DEF OffGate, Event, OfGate
      <3> QED BY <2>1, <3>1, <3>2 DEF LeftBy, Goal, TypeInv
    <2> QED BY <1>1, <2>1, <2>2, <2>3
  <1>10. ASSUME CpuConsume PROVE Goal
    <2>1. Take("cpu_consume")
      BY <1>10 DEF CpuConsume
    <2>2. CASE FailedConsume(Taken)
      BY <1>10, <2>1, <2>2, ConsumeSends, TakeQueue, NoneOffGate DEF Goal
    <2>3. CASE ~FailedConsume(Taken)
      <3>1. PICK n \in Nat : Sends(now', Rest, <<Event(n, "release", Taken)>>)
        BY <1>10, <2>3, ConsumeSends
      <3>2. OffGate(<<Event(n, "release", Taken)>>)
        BY DEF OffGate, Event, OfGate
      <3> QED BY <1>10, <2>1, <3>1, <3>2, ConsumeSends, TakeQueue DEF Goal
    <2> QED BY <2>2, <2>3
  <1>11. ASSUME Release PROVE Goal
    BY <1>2, <1>11 DEF Release
  <1>12. ASSUME Withdraw PROVE Goal
    BY <1>2, <1>12 DEF Withdraw
  <1>13. ASSUME GateApply PROVE Goal
    BY <1>2, <1>13 DEF GateApply
  <1>14. ASSUME Finish \/ Fail \/ Ended PROVE Goal
    BY <1>1, <1>14 DEF Finish, Fail, Ended, vars
  <1> QED BY <1>3, <1>4, <1>5, <1>6, <1>7, <1>8, <1>9, <1>10, <1>11, <1>12, <1>13, <1>14
          DEF Next, Goal

LEMMA BackgroundSends ==
    ASSUME TypeInv, QueueInv, Background
    PROVE  /\ Sends(now', Rest, Again("background", config.background)) /\ config.background # NoLimit
           /\ \A k \in DOMAIN Again("background", config.background) :
                Again("background", config.background)[k].kind = "background"
  <1>1. Take("background")
    BY DEF Background
  <1>2. /\ At \in Nat /\ now' = At /\ events # <<>> /\ 1 \in DOMAIN events
        /\ events[1].kind = "background"
    BY <1>1, TakeTyped
  <1>3. config.background \in Nat /\ config.background # NoLimit
    BY <1>2, ConfigParts DEF QueueInv
  <1>4. /\ Again("background", config.background) \in Seq(Events)
        /\ \A k \in DOMAIN Again("background", config.background) :
             /\ At <= Again("background", config.background)[k].time
             /\ Again("background", config.background)[k].kind = "background"
    BY <1>2, <1>3, AgainTyped DEF OfGate
  <1>5. events' = ScheduleAll(Rest, Again("background", config.background))
    BY DEF Background
  <1> QED BY <1>2, <1>3, <1>4, <1>5, SendsAll

ApplyOf(enabled) ==
    IF DiffersFromRequest(enabled)
    THEN <<Event(At + config.control_latency, "gate_apply", enabled)>> ELSE <<>>

SampleSends(enabled) == ApplyOf(enabled) \o Again("gate_sample", config.sample_interval)

(* The first of them is the change of the gate, if there is one.           *)
LEMMA GateSends ==
    ASSUME TypeInv, QueueInv, GateSample
    PROVE  /\ config.sample_interval # NoLimit
           /\ \E enabled \in BOOLEAN :
                /\ gate_requested' = IF DiffersFromRequest(enabled) THEN enabled ELSE gate_requested
                /\ Sends(now', Rest, SampleSends(enabled))
                /\ \A k \in DOMAIN SampleSends(enabled) :
                     IF DiffersFromRequest(enabled) /\ k = 1
                     THEN SampleSends(enabled)[k] = Event(At + config.control_latency, "gate_apply", enabled)
                     ELSE SampleSends(enabled)[k].kind = "gate_sample"
                /\ DiffersFromRequest(enabled) => 1 \in DOMAIN SampleSends(enabled)
  <1> DEFINE again == Again("gate_sample", config.sample_interval)
  <1>1. Take("gate_sample")
    BY DEF GateSample
  <1>2. /\ At \in Nat /\ now' = At /\ events # <<>> /\ 1 \in DOMAIN events
        /\ events[1].kind = "gate_sample"
    BY <1>1, TakeTyped
  <1>3. config.sample_interval \in Nat /\ config.sample_interval # NoLimit
    BY <1>2, ConfigParts DEF QueueInv
  <1>4. /\ again \in Seq(Events)
        /\ \A k \in DOMAIN again : At <= again[k].time /\ again[k].kind = "gate_sample"
    BY <1>2, <1>3, AgainTyped DEF OfGate
  <1>5. PICK enabled \in BOOLEAN :
          /\ gate_requested' = IF DiffersFromRequest(enabled) THEN enabled ELSE gate_requested
          /\ events' = ScheduleAll(Rest, SampleSends(enabled))
    BY DEF GateSample, SampleSends, ApplyOf
  <1> HIDE DEF again
  <1> DEFINE e == Event(At + config.control_latency, "gate_apply", enabled)
  <1>6. e \in Events /\ At <= e.time /\ e.kind = "gate_apply"
    <2>1. At + config.control_latency \in Nat /\ At <= At + config.control_latency
      BY <1>2, ConfigParts
    <2>2. e = [time |-> At + config.control_latency, kind |-> "gate_apply", what |-> enabled]
      BY DEF Event
    <2> DEFINE later == At + config.control_latency
    <2> HIDE DEF e, later
    <2>3. [time |-> later, kind |-> "gate_apply", what |-> enabled]
            \in [time : Nat, kind : OfGate, what : BOOLEAN]
      BY <2>1, Zenon DEF later, OfGate
    <2>4. e \in Events
      BY <2>2, <2>3 DEF Events, later
    <2>5. e.time = At + config.control_latency /\ e.kind = "gate_apply"
      BY <2>2
    <2> QED BY <2>1, <2>4, <2>5
  <1> HIDE DEF e
  <1> DEFINE new == SampleSends(enabled)
  <1>7. CASE DiffersFromRequest(enabled)
    <2>1. new = <<e>> \o again
      BY <1>7 DEF SampleSends, ApplyOf, again, e
    <2> HIDE DEF new
    <2>2. /\ new \in Seq(Events) /\ 1 \in DOMAIN new /\ new[1] = e
          /\ \A k \in DOMAIN new : k # 1 => k - 1 \in DOMAIN again /\ new[k] = again[k - 1]
      BY <1>4, <1>6, <2>1, OneEvent
    <2>3. \A k \in DOMAIN new : At <= new[k].time /\ (k # 1 => new[k].kind = "gate_sample")
      BY <1>4, <1>6, <2>2
    <2>4. Sends(now', Rest, new)
      BY <1>2, <1>5, <2>2, <2>3, SendsAll DEF new
    <2> QED BY <1>3, <1>5, <1>7, <2>2, <2>3, <2>4 DEF new, e
  <1>8. CASE ~DiffersFromRequest(enabled)
    <2>1. new = again
      BY <1>4, <1>8 DEF SampleSends, ApplyOf, again
    <2> HIDE DEF new
    <2>2. new \in Seq(Events) /\ \A k \in DOMAIN new : At <= new[k].time /\ new[k].kind = "gate_sample"
      BY <1>4, <2>1
    <2>3. Sends(now', Rest, new)
      BY <1>2, <1>5, <2>2, SendsAll DEF new
    <2> QED BY <1>3, <1>5, <1>8, <2>2, <2>3 DEF new
  <1> QED BY <1>7, <1>8

LEMMA InputsKept ==
    ASSUME Next
    PROVE  policy' = policy /\ config' = config /\ arrival_ns' = arrival_ns
  BY DEF Next, Arrival, IssueAtOnce, UnchangedByIssue, TryIssue, PayloadVisible, DescriptorVisible,
         ReadyVisible, TryCpu, CpuConsume, Release, Withdraw, Background, GateSample, GateApply,
         Finish, Fail, Ended, vars, inputs

(* Where an event of the new queue comes from.                             *)
LEMMA SentFrom ==
    ASSUME NEW t, NEW old, NEW new, Sends(t, old, new), NEW n \in DOMAIN events'
    PROVE  \/ \E i \in DOMAIN old : events'[n] = old[i]
           \/ \E j \in DOMAIN new : events'[n] = new[j]
  <1>1. PICK q : q = events'
    OBVIOUS
  <1>2. PICK a, b : Merged(q, old, new, a, b)
    BY <1>1 DEF Sends
  <1>3. n \in DOMAIN q
    BY <1>1
  <1>4. \/ \E i \in DOMAIN old : q[n] = old[i]
        \/ \E j \in DOMAIN new : q[n] = new[j]
    BY <1>2, <1>3 DEF Merged
  <1> QED BY <1>1, <1>4

LEMMA OldEvents ==
    ASSUME TypeInv, QueueInv, NEW old, LeftBy(old), NEW i \in DOMAIN old
    PROVE  /\ \E k \in DOMAIN events : old[i] = events[k]
           /\ now' <= old[i].time /\ now' \in Nat /\ now <= now'
           /\ old[i] \in Events
  <1>1. CASE old = events /\ now' = now
    BY <1>1, EventsTyped DEF QueueInv, TypeInv
  <1>2. CASE old = Rest /\ events # <<>> /\ now' = At
    <2>1. /\ Rest[i] = events[i + 1] /\ i + 1 \in DOMAIN events /\ 1 \in DOMAIN events
          /\ Head(events) = events[1] /\ At \in Nat /\ i \in Nat
      BY <1>2, RestTyped
    <2>2. events[1].time <= events[i + 1].time /\ now <= events[1].time
      <3>1. i \in DOMAIN Rest /\ i # 0 /\ 1 < i + 1
        BY <1>2, <2>1, RestTyped
      <3> QED BY <2>1, <3>1 DEF QueueInv
    <2> QED BY <1>2, <2>1, <2>2, EventsTyped DEF At
  <1> QED BY <1>1, <1>2 DEF LeftBy

LEMMA QueueFrom ==
    ASSUME TypeInv, QueueInv, config' = config, NEW old, NEW new, Sends(now', old, new), LeftBy(old),
           \A k \in DOMAIN new :
              /\ new[k].kind = "background" => config.background # NoLimit
              /\ new[k].kind = "gate_sample" => config.sample_interval # NoLimit
    PROVE  QueueInv'
  <1>1. /\ events' \in Seq(Events)
        /\ \A i, j \in DOMAIN events' : i < j => events'[i].time <= events'[j].time
    BY DEF Sends, Sorted
  <1>2. ASSUME NEW n \in DOMAIN events'
        PROVE  /\ now' <= events'[n].time
               /\ events'[n].kind = "background" => config.background # NoLimit
               /\ events'[n].kind = "gate_sample" => config.sample_interval # NoLimit
    <2>1. CASE \E i \in DOMAIN old : events'[n] = old[i]
      BY <2>1, OldEvents DEF QueueInv
    <2>2. CASE \E j \in DOMAIN new : events'[n] = new[j]
      BY <2>2 DEF Sends
    <2> QED BY <2>1, <2>2, SentFrom
  <1> QED BY <1>1, <1>2 DEF QueueInv

LEMMA QueueNext ==
    ASSUME TypeInv, QueueInv, Next
    PROVE  QueueInv'
  <1>1. CASE Background
    <2>1. LeftBy(Rest)
      BY <1>1, TakeTyped DEF Background, LeftBy, Take
    <2> QED BY <1>1, <2>1, BackgroundSends, QueueFrom, InputsKept
  <1>2. CASE GateSample
    <2>1. LeftBy(Rest)
      BY <1>2, TakeTyped DEF GateSample, LeftBy, Take
    <2>2. PICK enabled \in BOOLEAN :
            /\ Sends(now', Rest, SampleSends(enabled))
            /\ \A k \in DOMAIN SampleSends(enabled) :
                 IF DiffersFromRequest(enabled) /\ k = 1
                 THEN SampleSends(enabled)[k] = Event(At + config.control_latency, "gate_apply", enabled)
                 ELSE SampleSends(enabled)[k].kind = "gate_sample"
      BY <1>2, GateSends
    <2>3. \A k \in DOMAIN SampleSends(enabled) :
            /\ SampleSends(enabled)[k].kind = "background" => config.background # NoLimit
            /\ SampleSends(enabled)[k].kind = "gate_sample" => config.sample_interval # NoLimit
      BY <1>2, <2>2, GateSends DEF Event
    <2> QED BY <2>1, <2>2, <2>3, QueueFrom, InputsKept
  <1>3. CASE ~Background /\ ~GateSample
    <2>1. PICK old, new : Sends(now', old, new) /\ LeftBy(old) /\ OffGate(new)
      BY <1>3, StepQueue
    <2>2. \A k \in DOMAIN new : new[k].kind # "background" /\ new[k].kind # "gate_sample"
      BY <2>1 DEF OffGate, OfGate
    <2> QED BY <2>1, <2>2, QueueFrom, InputsKept
  <1> QED BY <1>1, <1>2, <1>3

--------------------------------------------------------------------------------
(* The gate.  The flags are numbered by a function, and a change is in     *)
(* force, or on its way.                                                   *)

Alternates(F, v, last) ==
    \A i \in F :
        /\ \A j \in F : (i < j /\ \A k \in F : k <= i \/ j <= k) => v[i] # v[j]
        /\ (\A j \in F : j <= i) => v[i] = last

Renumbered(F, G, m) ==
    /\ m \in [F -> G] /\ \A n \in G : \E i \in F : m[i] = n
    /\ \A i, j \in F : i < j => m[i] < m[j]

LEMMA AlternateMoves ==
    ASSUME NEW F \in SUBSET Int, NEW G \in SUBSET Int, NEW m, Renumbered(F, G, m),
           NEW v, NEW w, NEW last, \A i \in F : w[m[i]] = v[i],
           Alternates(F, v, last)
    PROVE  Alternates(G, w, last)
  <1>1. /\ \A n \in G : \E i \in F : m[i] = n
        /\ \A i \in F : m[i] \in G
        /\ \A i, j \in F : i <= j <=> m[i] <= m[j]
    <2>1. /\ m \in [F -> G] /\ \A n \in G : \E i \in F : m[i] = n
          /\ \A i, j \in F : i < j => m[i] < m[j]
      BY DEF Renumbered
    <2>2. ASSUME NEW i \in F, NEW j \in F PROVE i <= j <=> m[i] <= m[j]
      <3>1. i \in Int /\ j \in Int /\ m[i] \in Int /\ m[j] \in Int
        BY <2>1
      <3>2. i < j \/ i = j \/ j < i
        BY <3>1
      <3> QED BY <2>1, <3>1, <3>2
    <2> QED BY <2>1, <2>2
  <1>2. \A i, j \in F : i < j <=> m[i] < m[j]
    <2> TAKE i, j \in F
    <2>1. i \in Int /\ j \in Int /\ m[i] \in Int /\ m[j] \in Int
      BY <1>1
    <2> QED BY <1>1, <2>1
  <1>3. ASSUME NEW x \in G, NEW y \in G, x < y, \A z \in G : z <= x \/ y <= z PROVE w[x] # w[y]
    <2>1. PICK i \in F : m[i] = x
      BY <1>1
    <2>2. PICK j \in F : m[j] = y
      BY <1>1
    <2>3. i < j
      BY <1>2, <1>3, <2>1, <2>2
    <2>4. \A k \in F : k <= i \/ j <= k
      BY <1>1, <1>3, <2>1, <2>2
    <2>5. v[i] # v[j]
      BY <2>3, <2>4 DEF Alternates
    <2> QED BY <2>1, <2>2, <2>5
  <1>4. ASSUME NEW x \in G, \A y \in G : y <= x PROVE w[x] = last
    <2>1. PICK i \in F : m[i] = x
      BY <1>1
    <2>2. \A j \in F : j <= i
      BY <1>1, <1>4, <2>1
    <2>3. v[i] = last
      BY <2>2 DEF Alternates
    <2> QED BY <2>1, <2>3
  <1> QED BY <1>3, <1>4 DEF Alternates

(* One more change, after all others, and not what was asked for before.   *)
LEMMA AlternateAdds ==
    ASSUME NEW F \in SUBSET Int, NEW v, NEW last, Alternates(F, v, last),
           NEW n \in Int, \A i \in F : i < n, NEW w, \A i \in F : w[i] = v[i], w[n] # last
    PROVE  Alternates(F \cup {n}, w, w[n])
  <1> DEFINE G == F \cup {n}
  <1>1. ASSUME NEW i \in G, NEW j \in G, i < j, \A k \in G : k <= i \/ j <= k PROVE w[i] # w[j]
    <2>1. i \in F
      BY <1>1
    <2>2. CASE j \in F
      BY <1>1, <2>1, <2>2 DEF Alternates
    <2>3. CASE j = n
      <3>1. \A k \in F : k <= i
        BY <1>1, <2>3
      <3>2. v[i] = last
        BY <2>1, <3>1 DEF Alternates
      <3> QED BY <2>1, <2>3, <3>2
    <2> QED BY <2>2, <2>3
  <1>2. ASSUME NEW i \in G, \A j \in G : j <= i PROVE w[i] = w[n]
    BY <1>2
  <1> QED BY <1>1, <1>2 DEF Alternates

(* The first change has come.                                              *)
LEMMA AlternateDrops ==
    ASSUME NEW F \in SUBSET Int, NEW v, NEW last, Alternates(F, v, last),
           NEW n \in F, \A i \in F : n <= i, NEW next \in F, next # n
    PROVE  Alternates(F \ {n}, v, last)
  <1> DEFINE G == F \ {n}
  <1>1. ASSUME NEW i \in G, NEW j \in G, i < j, \A k \in G : k <= i \/ j <= k PROVE v[i] # v[j]
    <2>1. \A k \in F : k <= i \/ j <= k
      BY <1>1
    <2> QED BY <1>1, <2>1 DEF Alternates
  <1>2. ASSUME NEW i \in G, \A j \in G : j <= i PROVE v[i] = last
    <2>1. \A j \in F : j <= i
      BY <1>2
    <2> QED BY <1>2, <2>1 DEF Alternates
  <1> QED BY <1>1, <1>2 DEF Alternates

Changes(q) == {0} \cup {i \in DOMAIN q : q[i].kind = "gate_apply"}

FlagIn(q, enabled, i) == IF i = 0 THEN enabled ELSE q[i].what

Valued(q, enabled) == [i \in Changes(q) |-> FlagIn(q, enabled, i)]

LEMMA GateAlternates ==
    GateChangesAlternate <=> Alternates(Changes(events), Valued(events, gate_push_enabled), gate_requested)
  <1>1. Flags = Changes(events)
    BY DEF Flags, Changes
  <1>2. \A i \in Flags : Flag(i) = Valued(events, gate_push_enabled)[i]
    BY <1>1 DEF Flag, Valued, FlagIn
  <1> QED BY <1>1, <1>2 DEF GateChangesAlternate, Alternates

LEMMA FlagsMerged ==
    ASSUME NEW r \in Seq(Events), NEW old \in Seq(Events), NEW new, NEW a, NEW b,
           Merged(r, old, new, a, b), NEW enabled, NEW last,
           Alternates(Changes(old), Valued(old, enabled), last)
    PROVE  \E G \in SUBSET Changes(r) :
             /\ Alternates(G, Valued(r, enabled), last)
             /\ \A n \in Changes(r) \ G : \E j \in DOMAIN new : b[j] = n /\ new[j].kind = "gate_apply"
             /\ \A n \in G : n = 0 \/ \E i \in DOMAIN old : a[i] = n /\ old[i].kind = "gate_apply"
  <1> DEFINE F == Changes(old)
             m == [i \in F |-> IF i = 0 THEN 0 ELSE a[i]]
             G == {n \in Changes(r) : \E i \in F : m[i] = n}
  <1>1. /\ F \in SUBSET Int /\ Changes(r) \in SUBSET Int
        /\ \A i \in F : i = 0 \/ (i \in DOMAIN old /\ old[i].kind = "gate_apply" /\ 0 < i)
        /\ DOMAIN old \subseteq Int /\ 0 \notin DOMAIN old
        /\ DOMAIN r \subseteq Int /\ \A n \in DOMAIN r : n > 0
    BY DEF Changes
  <1>2. /\ \A i \in DOMAIN old : a[i] \in DOMAIN r /\ r[a[i]] = old[i]
        /\ \A i, k \in DOMAIN old : i < k => a[i] < a[k]
        /\ \A n \in DOMAIN r : (\E i \in DOMAIN old : a[i] = n) \/ (\E j \in DOMAIN new : b[j] = n)
        /\ \A j \in DOMAIN new : r[b[j]] = new[j]
    BY DEF Merged
  <1>3. \A i \in F : m[i] \in Changes(r)
    BY <1>1, <1>2 DEF Changes
  <1>4. Renumbered(F, G, m)
    <2>1. m \in [F -> G]
      BY <1>3
    <2>2. ASSUME NEW i \in F, NEW j \in F, i < j PROVE m[i] < m[j]
      <3>1. j # 0 /\ j \in DOMAIN old
        BY <1>1, <2>2
      <3>2. m[j] = a[j] /\ a[j] \in DOMAIN r /\ a[j] > 0
        BY <1>1, <1>2, <3>1
      <3>3. CASE i = 0
        BY <3>2, <3>3
      <3>4. CASE i # 0
        <4>1. i \in DOMAIN old /\ m[i] = a[i]
          BY <1>1, <3>4
        <4> QED BY <1>2, <2>2, <3>1, <3>2, <4>1
      <3> QED BY <3>3, <3>4
    <2> QED BY <2>1, <2>2 DEF Renumbered
  <1>5. \A i \in F : Valued(r, enabled)[m[i]] = Valued(old, enabled)[i]
    <2> TAKE i \in F
    <2>1. CASE i = 0
      BY <1>3, <2>1 DEF Valued, FlagIn
    <2>2. CASE i # 0
      <3>1. i \in DOMAIN old /\ m[i] = a[i] /\ a[i] \in DOMAIN r /\ a[i] # 0
        BY <1>1, <1>2, <2>2
      <3> QED BY <1>2, <1>3, <2>2, <3>1 DEF Valued, FlagIn
    <2> QED BY <2>1, <2>2
  <1>6. ASSUME NEW n \in Changes(r) \ G
        PROVE  \E j \in DOMAIN new : b[j] = n /\ new[j].kind = "gate_apply"
    <2>1. n # 0
      BY <1>1 DEF Changes
    <2>2. n \in DOMAIN r /\ r[n].kind = "gate_apply"
      BY <2>1 DEF Changes
    <2>3. ~\E i \in DOMAIN old : a[i] = n
      <3> SUFFICES ASSUME NEW i \in DOMAIN old, a[i] = n PROVE FALSE
        OBVIOUS
      <3>1. i \in F /\ i # 0
        BY <1>1, <1>2, <2>2 DEF Changes
      <3> QED BY <3>1
    <2> QED BY <1>2, <2>2, <2>3
  <1>7. ASSUME NEW n \in G PROVE n = 0 \/ \E i \in DOMAIN old : a[i] = n /\ old[i].kind = "gate_apply"
    BY <1>1, <1>7
  <1>8. G \in SUBSET Int
    BY <1>1
  <1> HIDE DEF m, G, F
  <1>9. Alternates(G, Valued(r, enabled), last)
    BY <1>1, <1>4, <1>5, <1>8, AlternateMoves DEF F
  <1>10. G \in SUBSET Changes(r)
    BY DEF G
  <1> QED BY <1>6, <1>7, <1>9, <1>10

LEMMA FlagsKept ==
    ASSUME NEW r \in Seq(Events), NEW old \in Seq(Events), NEW new, NEW a, NEW b,
           Merged(r, old, new, a, b), NEW enabled, NEW last,
           Alternates(Changes(old), Valued(old, enabled), last),
           \A j \in DOMAIN new : new[j].kind # "gate_apply"
    PROVE  Alternates(Changes(r), Valued(r, enabled), last)
  <1>1. PICK G \in SUBSET Changes(r) :
             /\ Alternates(G, Valued(r, enabled), last)
             /\ \A n \in Changes(r) \ G : \E j \in DOMAIN new : b[j] = n /\ new[j].kind = "gate_apply"
    BY FlagsMerged
  <1>2. G = Changes(r)
    BY <1>1
  <1> QED BY <1>1, <1>2

LEMMA FlagsAdded ==
    ASSUME NEW r \in Seq(Events), NEW old \in Seq(Events), NEW new, NEW a, NEW b,
           Merged(r, old, new, a, b), NEW enabled, NEW last,
           Alternates(Changes(old), Valued(old, enabled), last),
           NEW x \in DOMAIN new, new[x].kind = "gate_apply",
           \A j \in DOMAIN new : new[j].kind = "gate_apply" => j = x,
           \A i \in DOMAIN old : old[i].kind = "gate_apply" => old[i].time <= new[x].time,
           new[x].what # last
    PROVE  Alternates(Changes(r), Valued(r, enabled), new[x].what)
  <1>1. PICK G \in SUBSET Changes(r) :
             /\ Alternates(G, Valued(r, enabled), last)
             /\ \A n \in Changes(r) \ G : \E j \in DOMAIN new : b[j] = n /\ new[j].kind = "gate_apply"
             /\ \A n \in G : n = 0 \/ \E i \in DOMAIN old : a[i] = n /\ old[i].kind = "gate_apply"
    BY FlagsMerged
  <1>2. /\ b[x] \in DOMAIN r /\ r[b[x]] = new[x]
        /\ \A i \in DOMAIN old : old[i].time <= new[x].time => a[i] < b[x]
    BY DEF Merged
  <1>3. b[x] \in Int /\ b[x] > 0 /\ b[x] \in Changes(r) /\ Changes(r) \in SUBSET Int
    BY <1>2 DEF Changes
  <1>4. \A n \in G : n < b[x]
    BY <1>1, <1>2, <1>3
  <1>5. b[x] \notin G
    BY <1>3, <1>4
  <1>6. Changes(r) = G \cup {b[x]}
    BY <1>1, <1>3
  <1>7. Valued(r, enabled)[b[x]] = new[x].what
    BY <1>2, <1>3 DEF Valued, FlagIn
  <1> DEFINE w == Valued(r, enabled)
  <1> HIDE DEF w
  <1>8. w[b[x]] = new[x].what /\ G \in SUBSET Int /\ \A i \in G : w[i] = w[i]
    BY <1>1, <1>3, <1>7 DEF w
  <1>9. Alternates(G, w, last)
    BY <1>1 DEF w
  <1>10. Alternates(G \cup {b[x]}, w, w[b[x]])
    BY <1>3, <1>4, <1>8, <1>9, AlternateAdds
  <1> QED BY <1>6, <1>8, <1>10 DEF w

LEMMA FlagsOfRest ==
    ASSUME TypeInv, events # <<>>, GateChangesAlternate
    PROVE  IF Head(events).kind = "gate_apply"
           THEN Alternates(Changes(Rest), Valued(Rest, Taken), gate_requested)
           ELSE Alternates(Changes(Rest), Valued(Rest, gate_push_enabled), gate_requested)
  <1> DEFINE E == Changes(events)
             v == Valued(events, gate_push_enabled)
             G == Changes(Rest)
             w(enabled) == Valued(Rest, enabled)
  <1>1. Alternates(E, v, gate_requested)
    BY GateAlternates
  <1>2. /\ 1 \in DOMAIN events /\ Head(events) = events[1]
        /\ \A i \in DOMAIN Rest : i + 1 \in DOMAIN events /\ Rest[i] = events[i + 1] /\ i \in Nat
        /\ \A i \in DOMAIN events : i # 1 => i - 1 \in DOMAIN Rest /\ Rest[i - 1] = events[i] /\ i \in Nat
        /\ DOMAIN events \subseteq Nat /\ 0 \notin DOMAIN events /\ 0 \notin DOMAIN Rest
        /\ DOMAIN Rest \subseteq Nat
    BY RestTyped, EventsTyped
  <1>3. /\ E \in SUBSET Int /\ G \in SUBSET Int /\ 0 \in E /\ 0 \in G
        /\ \A i \in E : 0 <= i /\ (i # 0 => i \in DOMAIN events /\ events[i].kind = "gate_apply")
        /\ \A i \in G : 0 <= i /\ (i # 0 => i \in DOMAIN Rest /\ Rest[i].kind = "gate_apply")
        /\ \A i \in DOMAIN events : events[i].kind = "gate_apply" => i \in E
        /\ \A i \in DOMAIN Rest : Rest[i].kind = "gate_apply" => i \in G
    BY <1>2 DEF Changes
  <1>4. /\ \A i \in E : v[i] = IF i = 0 THEN gate_push_enabled ELSE events[i].what
        /\ \A enabled : \A i \in G : w(enabled)[i] = IF i = 0 THEN enabled ELSE Rest[i].what
    BY DEF Valued, FlagIn
  <1> HIDE DEF E, G, v, w
  <1>5. CASE Head(events).kind # "gate_apply"
    <2> DEFINE m == [i \in E |-> IF i = 0 THEN 0 ELSE i - 1]
    <2>1. 1 \notin E
      BY <1>2, <1>3, <1>5
    <2>2. \A i \in E : m[i] \in G /\ (m[i] = 0 <=> i = 0)
      BY <1>2, <1>3, <2>1
    <2>3. \A n \in G : \E i \in E : m[i] = n
      <3> TAKE n \in G
      <3>1. CASE n = 0
        BY <1>3, <3>1
      <3>2. CASE n # 0
        <4>1. n + 1 \in E /\ m[n + 1] = n
          BY <1>2, <1>3, <3>2
        <4> QED BY <4>1
      <3> QED BY <3>1, <3>2
    <2>4. Renumbered(E, G, m)
      <3>1. \A i, j \in E : i < j => m[i] < m[j]
        BY <1>3, <2>1
      <3> QED BY <2>2, <2>3, <3>1 DEF Renumbered
    <2>5. \A i \in E : w(gate_push_enabled)[m[i]] = v[i]
      <3> TAKE i \in E
      <3>1. CASE i = 0
        BY <1>3, <1>4, <2>2, <3>1
      <3>2. CASE i # 0
        <4>1. m[i] = i - 1 /\ m[i] \in G /\ m[i] # 0
          BY <2>2, <3>2
        <4>2. i \in DOMAIN events /\ i # 1
          BY <1>3, <2>1, <3>2
        <4>3. Rest[i - 1] = events[i]
          BY <1>2, <4>2
        <4>4. v[i] = events[i].what
          BY <1>4, <3>2
        <4>5. i - 1 \in G /\ i - 1 # 0
          BY <4>1
        <4>6. w(gate_push_enabled)[i - 1] = Rest[i - 1].what
          BY <1>4, <4>5
        <4> QED BY <4>1, <4>3, <4>4, <4>6
      <3> QED BY <3>1, <3>2
    <2> HIDE DEF m
    <2>6. Alternates(G, w(gate_push_enabled), gate_requested)
      BY <1>1, <1>3, <2>4, <2>5, AlternateMoves
    <2> QED BY <1>5, <2>6 DEF G, w
  <1>6. CASE Head(events).kind = "gate_apply"
    <2>1. 1 \in E
      BY <1>2, <1>3, <1>6
    <2> DEFINE F == E \ {0}
    <2>2. Alternates(F, v, gate_requested)
      BY <1>1, <1>3, <2>1, AlternateDrops
    <2> DEFINE m == [i \in F |-> i - 1]
    <2>3. \A i \in F : i \in DOMAIN events /\ events[i].kind = "gate_apply" /\ i \in Nat /\ i >= 1
      BY <1>2, <1>3
    <2>4. \A i \in F : m[i] \in G
      <3> TAKE i \in F
      <3>1. CASE i = 1
        BY <1>3, <3>1
      <3>2. CASE i # 1
        BY <1>2, <1>3, <2>3, <3>2
      <3> QED BY <3>1, <3>2
    <2>5. \A n \in G : \E i \in F : m[i] = n
      <3> TAKE n \in G
      <3>1. CASE n = 0
        BY <2>1, <3>1
      <3>2. CASE n # 0
        <4>1. n + 1 \in F /\ m[n + 1] = n
          BY <1>2, <1>3, <3>2
        <4> QED BY <4>1
      <3> QED BY <3>1, <3>2
    <2>6. Renumbered(F, G, m)
      <3>1. \A i, j \in F : i < j => m[i] < m[j]
        BY <2>3
      <3> QED BY <2>4, <2>5, <3>1 DEF Renumbered
    <2>7. \A i \in F : w(Taken)[m[i]] = v[i]
      <3> TAKE i \in F
      <3>1. CASE i = 1
        BY <1>2, <1>3, <1>4, <3>1, <2>1 DEF Taken
      <3>2. CASE i # 1
        <4>1. m[i] = i - 1 /\ m[i] \in G /\ m[i] # 0 /\ i # 0 /\ i \in E
          BY <2>3, <2>4, <3>2
        <4>2. Rest[i - 1] = events[i]
          BY <1>2, <2>3, <3>2
        <4>4. v[i] = events[i].what
          BY <1>4, <4>1
        <4>5. i - 1 \in G /\ i - 1 # 0
          BY <4>1
        <4>6. w(Taken)[i - 1] = Rest[i - 1].what
          BY <1>4, <4>5
        <4> QED BY <4>1, <4>2, <4>4, <4>6
      <3> QED BY <3>1, <3>2
    <2>8. F \in SUBSET Int
      BY <1>3
    <2> HIDE DEF m, F
    <2>9. Alternates(G, w(Taken), gate_requested)
      BY <1>3, <2>2, <2>6, <2>7, <2>8, AlternateMoves
    <2> QED BY <1>6, <2>9 DEF G, w
  <1> QED BY <1>5, <1>6

LEMMA GatePrimed ==
    ASSUME NEW q, q = events', NEW enabled, enabled = gate_push_enabled',
           NEW last, last = gate_requested', Alternates(Changes(q), Valued(q, enabled), last)
    PROVE  GateChangesAlternate'
  <1>1. Flags' = Changes(q)
    BY DEF Flags, Changes
  <1>2. \A i \in Changes(q) : (i = 0 => Valued(q, enabled)[i] = enabled)
                           /\ (i # 0 => Valued(q, enabled)[i] = q[i].what)
    BY DEF Valued, FlagIn
  <1> DEFINE F == Changes(q)
             v == Valued(q, enabled)
  <1> HIDE DEF F, v
  <1>3. \A i \in F :
          /\ \A j \in F : (i < j /\ \A k \in F : k <= i \/ j <= k) => v[i] # v[j]
          /\ (\A j \in F : j <= i) => v[i] = last
    BY DEF Alternates, F, v
  <1>4. \A i \in F : v[i] = IF i = 0 THEN gate_push_enabled' ELSE events'[i].what
    BY <1>2 DEF F, v
  <1>5. Flags' = F
    BY <1>1 DEF F
  <1>6. \A i : Flag(i)' = IF i = 0 THEN gate_push_enabled' ELSE events'[i].what
    BY DEF Flag
  <1>7. \A i \in F :
          /\ \A j \in F : (i < j /\ \A k \in F : k <= i \/ j <= k) => Flag(i)' # Flag(j)'
          /\ (\A j \in F : j <= i) => Flag(i)' = gate_requested'
    BY <1>3, <1>4, <1>6
  <1> QED BY <1>5, <1>7 DEF GateChangesAlternate

LEMMA GateTimes ==
    ASSUME TypeInv, QueueInv, GateInv, config' = config,
           NEW old, NEW new, Sends(now', old, new), LeftBy(old),
           \A k \in DOMAIN new :
             new[k].kind = "gate_apply" => new[k].time <= now' + config.control_latency
    PROVE  /\ \A i \in DOMAIN events' :
                events'[i].kind = "gate_apply" => events'[i].time <= now' + config'.control_latency
           /\ \A i \in DOMAIN old :
                old[i].kind = "gate_apply" => old[i].time <= now' + config.control_latency
  <1>1. config.control_latency \in Nat /\ now \in Nat
    BY ConfigParts DEF TypeInv
  <1>2. \A i \in DOMAIN old :
          old[i].kind = "gate_apply" => old[i].time <= now' + config.control_latency
    <2> TAKE i \in DOMAIN old
    <2>1. PICK k \in DOMAIN events : old[i] = events[k]
      BY OldEvents
    <2>2. now <= now' /\ now' \in Nat /\ old[i].time \in Nat
      BY OldEvents, EventParts
    <2>3. events[k].kind = "gate_apply" => events[k].time <= now + config.control_latency
      BY DEF GateInv
    <2> QED BY <1>1, <2>1, <2>2, <2>3
  <1> QED BY <1>2, SentFrom

LEMMA GateNext ==
    ASSUME TypeInv, QueueInv, GateInv, Next
    PROVE  GateInv'
  <1>0. config' = config
    BY InputsKept
  <1>1. PICK q : q = events'
    OBVIOUS
  <1>2. CASE GateSample
    <2>1. LeftBy(Rest) /\ Take("gate_sample") /\ At \in Nat /\ now' = At
      BY <1>2, TakeTyped DEF GateSample, LeftBy, Take
    <2>2. PICK enabled \in BOOLEAN :
            /\ gate_requested' = IF DiffersFromRequest(enabled) THEN enabled ELSE gate_requested
            /\ Sends(now', Rest, SampleSends(enabled))
            /\ \A k \in DOMAIN SampleSends(enabled) :
                 IF DiffersFromRequest(enabled) /\ k = 1
                 THEN SampleSends(enabled)[k] = Event(At + config.control_latency, "gate_apply", enabled)
                 ELSE SampleSends(enabled)[k].kind = "gate_sample"
            /\ DiffersFromRequest(enabled) => 1 \in DOMAIN SampleSends(enabled)
      BY <1>2, GateSends
    <2> DEFINE new == SampleSends(enabled)
    <2> HIDE DEF new
    <2>3. \A k \in DOMAIN new : new[k].kind = "gate_apply" =>
            /\ DiffersFromRequest(enabled) /\ k = 1
            /\ new[k].time = At + config.control_latency /\ new[k].what = enabled
      BY <2>2 DEF new, Event
    <2>4. \A k \in DOMAIN new :
            new[k].kind = "gate_apply" => new[k].time <= now' + config.control_latency
      BY <2>1, <2>3, ConfigParts
    <2>5. Sends(now', Rest, new)
      BY <2>2 DEF new
    <2>6. /\ \A i \in DOMAIN events' :
               events'[i].kind = "gate_apply" => events'[i].time <= now' + config'.control_latency
          /\ \A i \in DOMAIN Rest :
               Rest[i].kind = "gate_apply" => Rest[i].time <= now' + config.control_latency
      BY <1>0, <2>1, <2>4, <2>5, GateTimes
    <2>7. PICK a, b : Merged(q, Rest, new, a, b)
      BY <1>1, <2>5 DEF Sends
    <2>8. q \in Seq(Events) /\ Rest \in Seq(Events)
      BY <1>1, <2>5 DEF Sends
    <2>9. Alternates(Changes(Rest), Valued(Rest, gate_push_enabled), gate_requested)
      BY <2>1, FlagsOfRest DEF GateInv, Take
    <2>10. gate_push_enabled' = gate_push_enabled
      BY <1>2 DEF GateSample, gate
    <2>11. Alternates(Changes(q), Valued(q, gate_push_enabled), gate_requested')
      <3>1. CASE DiffersFromRequest(enabled)
        <4>1. 1 \in DOMAIN new /\ new[1].kind = "gate_apply" /\ new[1].what = enabled
              /\ new[1].time = At + config.control_latency
          BY <2>2, <3>1 DEF new, Event
        <4>2. \A i \in DOMAIN Rest : Rest[i].kind = "gate_apply" => Rest[i].time <= new[1].time
          BY <2>1, <2>6, <4>1
        <4>3. \A j \in DOMAIN new : new[j].kind = "gate_apply" => j = 1
          BY <2>3
        <4>4. new[1].what # gate_requested /\ gate_requested' = new[1].what
          BY <2>2, <3>1, <4>1 DEF DiffersFromRequest
        <4>5. Alternates(Changes(q), Valued(q, gate_push_enabled), new[1].what)
          BY <2>7, <2>8, <2>9, <4>1, <4>2, <4>3, <4>4, FlagsAdded
        <4> QED BY <4>4, <4>5
      <3>2. CASE ~DiffersFromRequest(enabled)
        <4>1. \A j \in DOMAIN new : new[j].kind # "gate_apply"
          BY <2>3, <3>2
        <4>2. gate_requested' = gate_requested
          BY <2>2, <3>2
        <4> QED BY <2>7, <2>8, <2>9, <4>1, <4>2, FlagsKept
      <3> QED BY <3>1, <3>2
    <2>12. PICK last : last = gate_requested'
      OBVIOUS
    <2>13. GateChangesAlternate'
      BY <1>1, <2>10, <2>11, <2>12, GatePrimed
    <2> QED BY <2>6, <2>13 DEF GateInv
  <1>3. CASE ~GateSample
    <2>1. PICK old, new : /\ Sends(now', old, new) /\ LeftBy(old)
                          /\ \A k \in DOMAIN new : new[k].kind # "gate_apply"
      <3>1. CASE Background
        <4>1. LeftBy(Rest)
          BY <3>1, TakeTyped DEF Background, LeftBy, Take
        <4> QED BY <3>1, <4>1, BackgroundSends
      <3>2. CASE ~Background
        BY <1>3, <3>2, StepQueue DEF OffGate, OfGate
      <3> QED BY <3>1, <3>2
    <2>2. \A i \in DOMAIN events' :
            events'[i].kind = "gate_apply" => events'[i].time <= now' + config'.control_latency
      BY <1>0, <2>1, GateTimes
    <2>3. PICK a, b : Merged(q, old, new, a, b)
      BY <1>1, <2>1 DEF Sends
    <2>4. q \in Seq(Events) /\ old \in Seq(Events)
      BY <1>1, <2>1 DEF Sends
    <2>5. gate_requested' = gate_requested
      BY <1>3 DEF Next, Arrival, IssueAtOnce, UnchangedByIssue, TryIssue, PayloadVisible,
         DescriptorVisible, ReadyVisible, TryCpu, CpuConsume, Release, Withdraw, Background,
         GateApply, Finish, Fail, Ended, vars, gate
    <2>6. PICK enabled : enabled = gate_push_enabled'
      OBVIOUS
    <2>7. Alternates(Changes(old), Valued(old, enabled), gate_requested)
      <3>1. CASE old = events /\ now' = now /\ ~GateApply
        <4>1. gate_push_enabled' = gate_push_enabled
          BY <1>3, <3>1 DEF Next, Arrival, IssueAtOnce, UnchangedByIssue, TryIssue, PayloadVisible,
             DescriptorVisible, ReadyVisible, TryCpu, CpuConsume, Release, Withdraw, Background,
             Finish, Fail, Ended, vars, gate
        <4> QED BY <2>6, <3>1, <4>1, GateAlternates DEF GateInv
      <3>2. CASE old = Rest /\ events # <<>> /\ Take(Head(events).kind) /\ ~GateApply
        <4>1. gate_push_enabled' = gate_push_enabled
          BY <1>3, <3>2 DEF Next, Arrival, IssueAtOnce, UnchangedByIssue, TryIssue, PayloadVisible,
             DescriptorVisible, ReadyVisible, TryCpu, CpuConsume, Release, Withdraw, Background,
             Finish, Fail, Ended, vars, gate
        <4>2. Head(events).kind # "gate_apply"
          <5>1. ~(IssueAtOnce \/ TryIssue \/ TryCpu \/ Finish \/ Fail \/ Ended)
            <6>1. /\ Running /\ calls = <<>> /\ Unfinished /\ events # <<>>
                  /\ Head(events).time <= MaxTime
              BY <3>2 DEF Take, Between
            <6>2. Head(events).time \in Nat
              BY <3>2, RestTyped, EventParts
            <6>3. ~(Head(events).time > MaxTime)
              BY <6>1, <6>2, Sizes
            <6> QED BY <6>1, <6>3 DEF IssueAtOnce, TryIssue, TryCpu, Finish, Fail, Ended, InCall, Running
          <5> QED BY <1>3, <3>2, <5>1 DEF Next, Arrival, PayloadVisible, DescriptorVisible,
                 ReadyVisible, CpuConsume, Release, Withdraw, Background, Take
        <4> QED BY <2>6, <3>2, <4>1, <4>2, FlagsOfRest DEF GateInv
      <3>3. CASE GateApply /\ old = Rest /\ events # <<>>
        <4>1. Head(events).kind = "gate_apply" /\ enabled = Taken
          BY <2>6, <3>3 DEF GateApply, Take
        <4> QED BY <3>3, <4>1, FlagsOfRest DEF GateInv
      <3>4. CASE GateApply /\ old = events /\ now' = now
        <4>1. events' = Rest /\ Take("gate_apply")
          BY <3>4 DEF GateApply
        <4>2. Len(events') = Len(events) + Len(new) /\ Len(events) \in Nat /\ Len(new) \in Nat
          BY <2>1, <3>4, EventsTyped DEF Sends
        <4>3. Len(Rest) = Len(events) - 1
          BY <4>1, EventsTyped, RestTyped DEF Rest, Take
        <4> QED BY <4>1, <4>2, <4>3
      <3> QED BY <2>1, <3>1, <3>2, <3>3, <3>4 DEF LeftBy
    <2>8. Alternates(Changes(q), Valued(q, enabled), gate_requested)
      BY <2>1, <2>3, <2>4, <2>7, FlagsKept
    <2>9. PICK last : last = gate_requested'
      OBVIOUS
    <2>10. GateChangesAlternate'
      BY <1>1, <2>5, <2>6, <2>8, <2>9, GatePrimed
    <2> QED BY <2>2, <2>10 DEF GateInv
  <1> QED BY <1>2, <1>3

--------------------------------------------------------------------------------
(* The lines of some packets together.                                     *)

LEMMA PacketParts ==
    ASSUME NEW p \in Packets
    PROVE  /\ FlowOf(p) \in Flows /\ FlowOf(p) \in Nat /\ FlowOf(p) < NumFlows
           /\ SerialOf(p) \in Nat /\ SerialOf(p) < Count
           /\ p = <<FlowOf(p), SerialOf(p)>>
  BY Sizes DEF Packets, Flows, FlowOf, SerialOf

LEMMA PacketOf ==
    ASSUME NEW f \in Flows, NEW s \in Nat, s < Count
    PROVE  <<f, s>> \in Packets /\ FlowOf(<<f, s>>) = f /\ SerialOf(<<f, s>>) = s
  BY Sizes DEF Packets, Flows, FlowOf, SerialOf

IndexOf(p) == FlowOf(p) * Count + SerialOf(p)

LEMMA PacketIndex ==
    ASSUME NEW p \in Packets
    PROVE  /\ IndexOf(p) \in Nat /\ IndexOf(p) < NumFlows * Count /\ NumFlows * Count \in Nat
           /\ \A k \in Nat : PacketAt(k + 1) = p <=> k = IndexOf(p)
  <1>1. PICK n \in Nat : n = Count /\ n > 0
    BY Sizes
  <1>2. PICK f \in Nat, s \in Nat, m \in Nat :
          f = FlowOf(p) /\ s = SerialOf(p) /\ m = NumFlows /\ f < m /\ s < n /\ p = <<f, s>>
    BY <1>1, Sizes, PacketParts
  <1>3. /\ f * n + s \in Nat /\ f * n + s < m * n /\ m * n \in Nat
    <2>1. (f + 1) * n <= m * n /\ (f + 1) * n = f * n + n
      BY <1>1, <1>2
    <2> QED BY <1>1, <1>2, <2>1
  <1>4. ASSUME NEW k \in Nat PROVE PacketAt(k + 1) = p <=> k = f * n + s
    <2>1. PICK q \in Int, r \in 0..(n - 1) : q = k \div n /\ r = k % n /\ k = n * q + r
      BY <1>1, Division
    <2>2. PacketAt(k + 1) = <<q, r>>
      BY <1>1, <2>1 DEF PacketAt
    <2>3. f = q /\ r = s => k = f * n + s
      BY <1>1, <1>2, <2>1
    <2>4. ASSUME k = f * n + s PROVE q = f
      <3>0. f * n = n * f
        BY <1>1, <1>2
      <3>1. n * q + r = n * f + s
        <4>1. n * q + r = f * n + s
          BY <2>1, <2>4
        <4> QED BY <3>0, <4>1
      <3>2. q <= f
        <4> SUFFICES ASSUME q >= f + 1 PROVE FALSE
          BY <1>2
        <4>1. n * q >= n * (f + 1) /\ n * (f + 1) = n * f + n
          BY <1>1, <1>2
        <4> QED BY <1>2, <2>1, <3>1, <4>1
      <3>3. q >= f
        <4> SUFFICES ASSUME f >= q + 1 PROVE FALSE
          BY <1>2
        <4>1. n * f >= n * (q + 1) /\ n * (q + 1) = n * q + n
          BY <1>1, <1>2
        <4> QED BY <1>2, <2>1, <3>1, <4>1
      <3> QED BY <1>2, <3>2, <3>3
    <2>5. ASSUME k = f * n + s PROVE r = s
      <3>1. q = f
        BY <2>4, <2>5
      <3>2. PICK x \in Int : x = n * q
        BY <1>1, <2>1
      <3>3. f * n = n * f /\ n * f = x
        BY <1>1, <1>2, <3>1, <3>2
      <3>4. x + r = x + s
        BY <2>1, <2>5, <3>2, <3>3
      <3> QED BY <1>2, <2>1, <3>2, <3>4
    <2> QED BY <1>2, <2>2, <2>3, <2>4, <2>5
  <1> QED BY <1>1, <1>2, <1>3, <1>4 DEF IndexOf

WeightIn(ps) == [k \in Nat |-> IF PacketAt(k + 1) \in ps THEN LinesOf[PacketAt(k + 1)] ELSE 0]

LEMMA LinesInTyped ==
    ASSUME NEW ps \in SUBSET Packets
    PROVE  /\ WeightIn(ps) \in [Nat -> Int] /\ LinesIn(ps) \in Int
           /\ LinesIn(ps) = PartialSums(WeightIn(ps))[NumFlows * Count]
  <1>1. WeightIn(ps) \in [Nat -> Int]
    BY Sizes DEF WeightIn
  <1>2. LinesIn(ps) = PartialSums(WeightIn(ps))[NumFlows * Count]
    BY DEF LinesIn, WeightIn
  <1>3. NumFlows * Count \in Nat
    BY Sizes
  <1>4. PartialSums(WeightIn(ps)) \in [Nat -> Int]
    BY <1>1, PartialSumsStep
  <1> QED BY <1>1, <1>2, <1>3, <1>4

LEMMA LinesOfNone == LinesIn({}) = 0
  <1>1. NumFlows * Count \in Nat
    BY Sizes
  <1>2. \A i \in Nat : WeightIn({})[i] = 0
    BY DEF WeightIn
  <1> QED BY <1>1, <1>2, LinesInTyped, SumsOfZero

LEMMA LinesOfOne ==
    ASSUME NEW p \in Packets
    PROVE  LinesIn({p}) = LinesOf[p]
  <1> DEFINE v == WeightIn({})
             w == WeightIn({p})
  <1>1. /\ v \in [Nat -> Int] /\ w \in [Nat -> Int]
        /\ LinesIn({}) = PartialSums(v)[NumFlows * Count]
        /\ LinesIn({p}) = PartialSums(w)[NumFlows * Count]
    BY LinesInTyped
  <1>2. PICK i \in Nat : i = IndexOf(p) /\ i < NumFlows * Count
    BY PacketIndex
  <1>3. PICK n \in Nat : n = NumFlows * Count /\ i < n
    BY <1>2, PacketIndex
  <1>4. \A j \in Nat : v[j] = 0 /\ w[j] = IF j = i THEN LinesOf[p] ELSE 0
    BY <1>2, PacketIndex DEF WeightIn
  <1> HIDE DEF v, w
  <1>5. \A j \in Nat : j # i => v[j] = w[j]
    BY <1>4
  <1>6. PartialSums(w)[n] = PartialSums(v)[n] + (w[i] - v[i])
    BY <1>1, <1>3, <1>5, SumsMove
  <1>7. v[i] = 0 /\ w[i] = LinesOf[p] /\ LinesOf[p] \in Nat
    BY <1>4, Sizes
  <1> QED BY <1>1, <1>3, <1>6, <1>7, LinesOfNone

LEMMA LinesTogether ==
    ASSUME NEW A \in SUBSET Packets, NEW B \in SUBSET Packets, \A p \in A : p \notin B
    PROVE  LinesIn(A \cup B) = LinesIn(A) + LinesIn(B)
  <1> DEFINE u == WeightIn(A \cup B)
             v == WeightIn(A)
             w == WeightIn(B)
  <1>1. /\ v \in [Nat -> Int] /\ w \in [Nat -> Int] /\ u \in [Nat -> Int]
        /\ LinesIn(A) = PartialSums(v)[NumFlows * Count]
        /\ LinesIn(B) = PartialSums(w)[NumFlows * Count]
        /\ LinesIn(A \cup B) = PartialSums(u)[NumFlows * Count]
    BY LinesInTyped
  <1>2. \A i \in Nat : u[i] = v[i] + w[i]
    <2> TAKE i \in Nat
    <2>1. PICK q : q = PacketAt(i + 1)
      OBVIOUS
    <2>2. q \in Packets => LinesOf[q] \in Nat
      BY Sizes
    <2>3. /\ u[i] = (IF q \in A \cup B THEN LinesOf[q] ELSE 0)
          /\ v[i] = (IF q \in A THEN LinesOf[q] ELSE 0)
          /\ w[i] = (IF q \in B THEN LinesOf[q] ELSE 0)
      BY <2>1 DEF WeightIn
    <2>4. q \in A => q \notin B
      OBVIOUS
    <2>5. q \in A \cup B => q \in Packets
      OBVIOUS
    <2> HIDE DEF u, v, w
    <2> QED BY <2>2, <2>3, <2>4, <2>5
  <1>3. NumFlows * Count \in Nat
    BY Sizes
  <1> HIDE DEF u, v, w
  <1> QED BY <1>1, <1>2, <1>3, SumsAdd

LEMMA LinesWith ==
    ASSUME NEW S \in SUBSET Packets, NEW p \in Packets
    PROVE  /\ p \notin S => LinesIn(S \cup {p}) = LinesIn(S) + LinesOf[p]
           /\ p \in S => LinesIn(S \ {p}) = LinesIn(S) - LinesOf[p]
           /\ LinesIn(S) \in Int
  <1>1. ASSUME p \notin S PROVE LinesIn(S \cup {p}) = LinesIn(S) + LinesOf[p]
    BY <1>1, LinesTogether, LinesOfOne
  <1>2. ASSUME p \in S PROVE LinesIn(S \ {p}) = LinesIn(S) - LinesOf[p]
    <2> DEFINE R == S \ {p}
    <2>1. R \in SUBSET Packets /\ {p} \in SUBSET Packets /\ S = R \cup {p} /\ \A q \in R : q \notin {p}
      BY <1>2
    <2> HIDE DEF R
    <2>2. LinesIn(R \cup {p}) = LinesIn(R) + LinesIn({p})
      BY <2>1, LinesTogether
    <2>3. LinesIn(R) \in Int /\ LinesIn({p}) = LinesOf[p] /\ LinesOf[p] \in Nat
      BY <2>1, LinesInTyped, LinesOfOne, Sizes
    <2>4. LinesIn(S) = LinesIn(R) + LinesOf[p]
      <3>1. LinesIn(S) = LinesIn(R \cup {p})
        BY <2>1
      <3> QED BY <2>2, <2>3, <3>1
    <2>5. LinesIn(R) = LinesIn(S) - LinesOf[p]
      BY <2>3, <2>4
    <2> QED BY <2>5 DEF R
  <1> QED BY <1>1, <1>2, LinesInTyped

--------------------------------------------------------------------------------
(* Events and the packets they are about.                                  *)

About(e, p) ==
    (e.kind \in OfPacket /\ e.what = p) \/ (e.kind = "payload_visible" /\ e.what[1] = p)

LEMMA ApartLeft ==
    ASSUME TypeInv, QueueInv, EventsApart, NEW old, LeftBy(old)
    PROVE  Apart(old)
  <1>1. CASE old = events
    BY <1>1 DEF EventsApart
  <1>2. CASE old = Rest /\ events # <<>>
    <2>1. \A i \in DOMAIN Rest : i + 1 \in DOMAIN events /\ Rest[i] = events[i + 1] /\ i \in Nat
      BY <1>2, RestTyped
    <2>2. ASSUME NEW i \in DOMAIN Rest, NEW j \in DOMAIN Rest
          PROVE  /\ Same(Rest[i], Rest[j]) \/ BothCpu(Rest[i], Rest[j]) => i = j
                 /\ Announces(Rest[i], Rest[j]) => i < j
      <3>1. /\ i + 1 \in DOMAIN events /\ Rest[i] = events[i + 1] /\ i \in Nat
            /\ j + 1 \in DOMAIN events /\ Rest[j] = events[j + 1] /\ j \in Nat
        BY <2>1
      <3>2. /\ Same(events[i + 1], events[j + 1]) \/ BothCpu(events[i + 1], events[j + 1]) => i + 1 = j + 1
            /\ Announces(events[i + 1], events[j + 1]) => i + 1 < j + 1
        BY <3>1 DEF EventsApart, Apart
      <3> QED BY <3>1, <3>2
    <2> QED BY <1>2, <2>2 DEF Apart
  <1> QED BY <1>1, <1>2 DEF LeftBy

(* What is scheduled is not queued already.                                *)
Fresh(old, new) ==
    /\ Apart(new)
    /\ \A j, k \in DOMAIN new : Announces(new[j], new[k]) => new[j].time <= new[k].time
    /\ \A i \in DOMAIN old, j \in DOMAIN new :
         /\ ~Same(old[i], new[j]) /\ ~BothCpu(old[i], new[j])
         /\ ~Announces(old[i], new[j]) /\ ~Announces(new[j], old[i])

LEMMA ApartMerged ==
    ASSUME NEW r \in Seq(Events), NEW old \in Seq(Events), NEW new \in Seq(Events), NEW a, NEW b,
           Merged(r, old, new, a, b), Apart(old), Fresh(old, new)
    PROVE  Apart(r)
  <1>1. /\ \A i \in DOMAIN old : r[a[i]] = old[i] /\ a[i] \in DOMAIN r
        /\ \A j \in DOMAIN new : r[b[j]] = new[j] /\ b[j] \in DOMAIN r
        /\ \A n \in DOMAIN r : (\E i \in DOMAIN old : a[i] = n) \/ (\E j \in DOMAIN new : b[j] = n)
        /\ \A i, k \in DOMAIN old : i < k => a[i] < a[k]
        /\ \A j, k \in DOMAIN new :
            j < k => b[j] # b[k] /\ (new[j].time <= new[k].time => b[j] < b[k])
    BY DEF Merged
  <1>2. \A i, j \in DOMAIN old :
          /\ Same(old[i], old[j]) \/ BothCpu(old[i], old[j]) => i = j
          /\ Announces(old[i], old[j]) => i < j
    BY DEF Apart
  <1>3. \A i, j \in DOMAIN new :
          /\ Same(new[i], new[j]) \/ BothCpu(new[i], new[j]) => i = j
          /\ Announces(new[i], new[j]) => i < j /\ new[i].time <= new[j].time
    BY DEF Fresh, Apart
  <1>4. \A i \in DOMAIN old, j \in DOMAIN new :
          /\ ~Same(old[i], new[j]) /\ ~BothCpu(old[i], new[j])
          /\ ~Announces(old[i], new[j]) /\ ~Announces(new[j], old[i])
    BY DEF Fresh
  <1>5. \A d, e : (Same(d, e) => Same(e, d)) /\ (BothCpu(d, e) => BothCpu(e, d))
    BY DEF Same, BothCpu
  <1> SUFFICES ASSUME NEW m \in DOMAIN r, NEW n \in DOMAIN r
               PROVE  /\ Same(r[m], r[n]) \/ BothCpu(r[m], r[n]) => m = n
                      /\ Announces(r[m], r[n]) => m < n
    BY DEF Apart
  <1>6. CASE \E i \in DOMAIN old : a[i] = m
    <2>1. PICK i \in DOMAIN old : a[i] = m
      BY <1>6
    <2>2. CASE \E j \in DOMAIN old : a[j] = n
      <3>1. PICK j \in DOMAIN old : a[j] = n
        BY <2>2
      <3> QED BY <1>1, <1>2, <2>1, <3>1
    <2>3. CASE \E j \in DOMAIN new : b[j] = n
      BY <1>1, <1>4, <2>1, <2>3
    <2> QED BY <1>1, <2>2, <2>3
  <1>7. CASE \E j \in DOMAIN new : b[j] = m
    <2>1. PICK j \in DOMAIN new : b[j] = m
      BY <1>7
    <2>2. CASE \E i \in DOMAIN old : a[i] = n
      BY <1>1, <1>4, <1>5, <2>1, <2>2
    <2>3. CASE \E k \in DOMAIN new : b[k] = n
      <3>1. PICK k \in DOMAIN new : b[k] = n
        BY <2>3
      <3> QED BY <1>1, <1>3, <2>1, <3>1
    <2> QED BY <1>1, <2>2, <2>3
  <1> QED BY <1>1, <1>6, <1>7

LEMMA ApartNext ==
    ASSUME TypeInv, QueueInv, EventsApart, NEW old, NEW new, Sends(now', old, new), LeftBy(old),
           Fresh(old, new)
    PROVE  EventsApart'
  <1>1. PICK q : q = events'
    OBVIOUS
  <1>2. q \in Seq(Events) /\ old \in Seq(Events) /\ new \in Seq(Events) /\ Apart(old)
    BY <1>1, ApartLeft DEF Sends
  <1>3. PICK a, b : Merged(q, old, new, a, b)
    BY <1>1 DEF Sends
  <1>4. Apart(q)
    BY <1>2, <1>3, ApartMerged
  <1>5. \A i, j \in DOMAIN q :
          /\ Same(q[i], q[j]) \/ BothCpu(q[i], q[j]) => i = j
          /\ Announces(q[i], q[j]) => i < j
    BY <1>4 DEF Apart
  <1> QED BY <1>1, <1>5 DEF EventsApart, Apart, Same, BothCpu, Announces

(* Events that stay, and events that come.                                 *)
LEMMA EventStays ==
    ASSUME TypeInv, QueueInv, NEW old, NEW new, Sends(now', old, new), LeftBy(old),
           NEW i \in DOMAIN events, old # events => i # 1
    PROVE  \E n \in DOMAIN events' : events'[n] = events[i]
  <1>1. PICK q : q = events'
    OBVIOUS
  <1>2. PICK a, b : Merged(q, old, new, a, b)
    BY <1>1 DEF Sends
  <1>3. \E k \in DOMAIN old : old[k] = events[i]
    <2>1. CASE old = events
      BY <2>1
    <2>2. CASE old = Rest /\ events # <<>> /\ old # events
      BY <2>2, RestTyped
    <2> QED BY <2>1, <2>2 DEF LeftBy
  <1>4. \E n \in DOMAIN q : q[n] = events[i]
    BY <1>2, <1>3 DEF Merged
  <1> QED BY <1>1, <1>4

LEMMA EventComes ==
    ASSUME NEW old, NEW new, NEW t, Sends(t, old, new), NEW j \in DOMAIN new
    PROVE  \E n \in DOMAIN events' : events'[n] = new[j]
  <1>1. PICK q : q = events'
    OBVIOUS
  <1>2. PICK a, b : Merged(q, old, new, a, b)
    BY <1>1 DEF Sends
  <1>3. \E n \in DOMAIN q : q[n] = new[j]
    BY <1>2 DEF Merged
  <1> QED BY <1>1, <1>3

LEMMA QueuedStays ==
    ASSUME TypeInv, QueueInv, NEW old, NEW new, Sends(now', old, new), LeftBy(old),
           NEW kind, NEW what, IsQueued(kind, what),
           old # events => ~(events[1].kind = kind /\ events[1].what = what)
    PROVE  IsQueued(kind, what)'
  <1>1. PICK i \in DOMAIN events : events[i].kind = kind /\ events[i].what = what
    BY DEF IsQueued
  <1>2. old # events => i # 1
    BY <1>1
  <1>3. \E n \in DOMAIN events' : events'[n] = events[i]
    BY <1>2, EventStays
  <1> QED BY <1>1, <1>3 DEF IsQueued

LEMMA QueuedComes ==
    ASSUME NEW old, NEW new, NEW t, Sends(t, old, new), NEW j \in DOMAIN new,
           NEW kind, NEW what, new[j].kind = kind, new[j].what = what
    PROVE  IsQueued(kind, what)'
  BY EventComes DEF IsQueued

(* A packet that a step does not touch.                                    *)
LEMMA PacketStays ==
    ASSUME TypeInv, QueueInv, NEW old, NEW new, Sends(now', old, new), LeftBy(old),
           policy' = policy, NEW p \in Packets, PacketFits(p),
           stage'[p] = stage[p], visible'[p] = visible[p],
           pending_payload_lines'[p] = pending_payload_lines[p],
           old # events => ~About(events[1], p)
    PROVE  PacketFits(p)'
  <1>1. ASSUME NEW kind \in OfPacket, IsQueued(kind, p) PROVE IsQueued(kind, p)'
    BY <1>1, QueuedStays DEF About
  <1>2. ASSUME NEW k \in Nat, IsQueued("payload_visible", <<p, k>>)
        PROVE  IsQueued("payload_visible", <<p, k>>)'
    <2>1. <<p, k>>[1] = p
      OBVIOUS
    <2> QED BY <1>2, <2>1, QueuedStays DEF About
  <1>3. Awaited(p)' = Awaited(p)
    BY DEF Awaited
  <1>4. \A k \in Awaited(p) : k \in Nat
    BY Sizes DEF Awaited
  <1> QED BY <1>1, <1>2, <1>3, <1>4 DEF PacketFits, OfPacket

LEMMA FitStays ==
    ASSUME NEW e \in Events, EventFits(e), arrival_ns' = arrival_ns,
           NEW p \in Packets, About(e, p), stage'[p] = stage[p], visible'[p] = visible[p]
    PROVE  EventFits(e)'
  BY DEF EventFits, About, OfPacket, Awaited

LEMMA FitOther ==
    ASSUME NEW e \in Events, e.kind \notin OfPacket \cup {"payload_visible"}
    PROVE  EventFits(e)'
  BY DEF EventFits, OfPacket

LEMMA AboutPacket ==
    ASSUME NEW e \in Events
    PROVE  e.kind \in OfPacket \cup {"payload_visible"} => \E p \in Packets : About(e, p)
  <1>1. e.kind \in OfPacket => e.what \in Packets
    BY EventParts
  <1>2. e.kind = "payload_visible" => e.what[1] \in Packets
    BY EventParts DEF OfLine
  <1> QED BY <1>1, <1>2 DEF About

(* Events fit the packets they are about, if those a step touches have no  *)
(* others but such as fit, and what it schedules fits.                     *)
LEMMA FitsNext ==
    ASSUME TypeInv, QueueInv, EventsFit, arrival_ns' = arrival_ns,
           NEW old, NEW new, Sends(now', old, new), LeftBy(old),
           \A i \in DOMAIN old : \A p \in Packets :
             About(old[i], p) => (stage'[p] = stage[p] /\ visible'[p] = visible[p]) \/ EventFits(old[i])',
           \A j \in DOMAIN new : EventFits(new[j])'
    PROVE  EventsFit'
  <1>1. ASSUME NEW n \in DOMAIN events', NEW e, e = events'[n] PROVE EventFits(e)'
    <2>1. CASE \E i \in DOMAIN old : e = old[i]
      <3>1. PICK i \in DOMAIN old : e = old[i]
        BY <2>1
      <3>2. e \in Events /\ EventFits(e)
        BY <3>1, OldEvents DEF EventsFit
      <3>3. CASE e.kind \in OfPacket \cup {"payload_visible"}
        <4>1. PICK p \in Packets : About(e, p)
          BY <3>2, <3>3, AboutPacket
        <4>2. (stage'[p] = stage[p] /\ visible'[p] = visible[p]) \/ EventFits(old[i])'
          BY <3>1, <4>1
        <4>3. CASE stage'[p] = stage[p] /\ visible'[p] = visible[p]
          BY <3>2, <4>1, <4>3, FitStays
        <4>4. CASE EventFits(old[i])'
          BY <3>1, <4>4
        <4> QED BY <4>2, <4>3, <4>4
      <3>4. CASE e.kind \notin OfPacket \cup {"payload_visible"}
        BY <3>2, <3>4, FitOther
      <3> QED BY <3>3, <3>4
    <2>2. CASE \E j \in DOMAIN new : e = new[j]
      BY <2>2
    <2> QED BY <1>1, <2>1, <2>2, SentFrom
  <1>2. \A n \in DOMAIN events' : \A e : e = events'[n] => EventFits(e)'
    BY <1>1
  <1> QED BY <1>2 DEF EventsFit, EventFits, Awaited

LEMMA StagesOfEvents ==
    ASSUME TypeInv, EventsFit, NEW i \in DOMAIN events, NEW p \in Packets, About(events[i], p)
    PROVE  /\ stage[p] \in {"coming", "issued", "publishing", "consuming"}
           /\ stage[p] = "coming" <=> events[i].kind = "arrival"
           /\ stage[p] = "issued" <=> events[i].kind = "payload_visible"
           /\ stage[p] = "publishing" <=> events[i].kind \in {"descriptor_visible", "ready_visible"}
           /\ stage[p] = "consuming" <=> events[i].kind \in {"cpu_consume", "release"}
  <1>1. EventFits(events[i])
    BY DEF EventsFit
  <1>2. PICK e : e = events[i]
    OBVIOUS
  <1> QED BY <1>1, <1>2 DEF EventFits, About, OfPacket

LEMMA NoneAbout ==
    ASSUME TypeInv, QueueInv, EventsFit, NEW old, LeftBy(old), NEW p \in Packets,
           stage[p] \notin {"coming", "issued", "publishing", "consuming"}
    PROVE  \A i \in DOMAIN old : ~About(old[i], p)
  <1> SUFFICES ASSUME NEW i \in DOMAIN old, About(old[i], p) PROVE FALSE
    OBVIOUS
  <1>1. PICK k \in DOMAIN events : old[i] = events[k]
    BY OldEvents
  <1>2. About(events[k], p)
    BY <1>1
  <1> QED BY <1>2, StagesOfEvents

LEMMA RestNone ==
    ASSUME TypeInv, QueueInv, EventsFit, EventsApart,
           NEW kind \in {"arrival", "ready_visible", "cpu_consume", "release"}, Take(kind)
    PROVE  \A i \in DOMAIN Rest : ~About(Rest[i], Taken)
  <1> SUFFICES ASSUME NEW i \in DOMAIN Rest, About(Rest[i], Taken) PROVE FALSE
    OBVIOUS
  <1>1. /\ events # <<>> /\ 1 \in DOMAIN events /\ events[1].kind = kind /\ events[1].what = Taken
        /\ Taken \in Packets
    BY TakeTyped DEF OfPacket
  <1>2. i + 1 \in DOMAIN events /\ Rest[i] = events[i + 1] /\ i \in Nat /\ i # 0
    BY <1>1, RestTyped
  <1>3. PICK n \in DOMAIN events : n = i + 1 /\ n # 1 /\ ~(n < 1) /\ About(events[n], Taken)
    BY <1>2
  <1>4. About(events[1], Taken)
    BY <1>1 DEF About, OfPacket
  <1>5. /\ ~Same(events[1], events[n]) /\ ~BothCpu(events[1], events[n])
        /\ ~Announces(events[n], events[1])
    BY <1>1, <1>3 DEF EventsApart, Apart
  <1>6. /\ stage[Taken] = "coming" <=> kind = "arrival"
        /\ stage[Taken] = "publishing" <=> kind \in {"descriptor_visible", "ready_visible"}
        /\ stage[Taken] = "consuming" <=> kind \in {"cpu_consume", "release"}
    BY <1>1, <1>4, StagesOfEvents
  <1>7. /\ stage[Taken] = "coming" <=> events[n].kind = "arrival"
        /\ stage[Taken] = "publishing" <=> events[n].kind \in {"descriptor_visible", "ready_visible"}
        /\ stage[Taken] = "consuming" <=> events[n].kind \in {"cpu_consume", "release"}
    BY <1>1, <1>3, StagesOfEvents
  <1>8. events[n].kind \in OfPacket => events[n].what = Taken
    BY <1>3 DEF About, OfPacket
  <1> QED BY <1>1, <1>5, <1>6, <1>7, <1>8 DEF Same, BothCpu, Announces, OfPacket

(* A step that touches some packets only: those that have no event left in *)
(* the queue, or none but what it takes from it.                           *)
Touches(T, old) ==
    /\ \A q \in Packets \ T :
         /\ stage'[q] = stage[q] /\ visible'[q] = visible[q]
         /\ pending_payload_lines'[q] = pending_payload_lines[q]
         /\ old # events => ~About(events[1], q)
    /\ \A i \in DOMAIN old : \A p \in T : ~About(old[i], p)

Brings(T, old, new) ==
    /\ \A j \in DOMAIN new : \A q \in Packets : About(new[j], q) => q \in T
    /\ \/ \A i \in DOMAIN old : old[i].kind \notin {"cpu_consume", "release"}
       \/ \A j \in DOMAIN new : new[j].kind \notin {"cpu_consume", "release"}
    /\ Apart(new)
    /\ \A j, k \in DOMAIN new : Announces(new[j], new[k]) => new[j].time <= new[k].time

LEMMA TouchKeeps ==
    ASSUME TypeInv, QueueInv, EventsApart, EventsFit, PacketsFit,
           policy' = policy, arrival_ns' = arrival_ns,
           NEW old, NEW new, Sends(now', old, new), LeftBy(old), NEW T \in SUBSET Packets,
           Touches(T, old), Brings(T, old, new),
           \A j \in DOMAIN new : EventFits(new[j])',
           \A p \in T : PacketFits(p)'
    PROVE  EventsApart' /\ EventsFit' /\ PacketsFit'
  <1>1. Fresh(old, new)
    <2> SUFFICES ASSUME NEW i \in DOMAIN old, NEW j \in DOMAIN new
                 PROVE  /\ ~Same(old[i], new[j]) /\ ~BothCpu(old[i], new[j])
                        /\ ~Announces(old[i], new[j]) /\ ~Announces(new[j], old[i])
      BY DEF Fresh, Brings
    <2>1. old[i] \in Events /\ new[j] \in Events
      BY OldEvents DEF Sends
    <2>2. ~BothCpu(old[i], new[j])
      BY DEF BothCpu, Brings
    <2>3. ASSUME Same(old[i], new[j]) \/ Announces(old[i], new[j]) \/ Announces(new[j], old[i])
          PROVE  FALSE
      <3>1. new[j].kind \in OfPacket \cup {"payload_visible"}
        BY <2>3 DEF Same, Announces, OfPacket
      <3>2. PICK q \in Packets : About(new[j], q)
        BY <2>1, <3>1, AboutPacket
      <3>3. About(old[i], q)
        BY <2>3, <3>2 DEF Same, Announces, About, OfPacket
      <3> QED BY <3>2, <3>3 DEF Brings, Touches
    <2> QED BY <2>2, <2>3
  <1>2. EventsApart'
    BY <1>1, ApartNext
  <1>3. EventsFit'
    <2>1. \A i \in DOMAIN old : \A p \in Packets :
            About(old[i], p) => stage'[p] = stage[p] /\ visible'[p] = visible[p]
      BY DEF Touches
    <2> QED BY <2>1, FitsNext
  <1>4. ASSUME NEW q \in Packets PROVE PacketFits(q)'
    <2>1. CASE q \in T
      BY <2>1
    <2>2. CASE q \notin T
      BY <2>2, PacketStays DEF PacketsFit, Touches
    <2> QED BY <2>1, <2>2
  <1> QED BY <1>2, <1>3, <1>4 DEF PacketsFit

LEMMA CpuKeeps ==
    ASSUME CpuFits, cpu_scheduled' = cpu_scheduled,
           \A p \in Packets : stage'[p] = "consuming" <=> stage[p] = "consuming"
    PROVE  CpuFits'
  BY DEF CpuFits

(* What some steps schedule.                                               *)
LEMMA NothingApart ==
    /\ Apart(<<>>) /\ DOMAIN <<>> = {}
  BY DEF Apart

LEMMA OneApart ==
    ASSUME NEW e, ~Announces(e, e)
    PROVE  Apart(<<e>>)
  BY DEF Apart

LEMMA MetadataOnLink ==
    ASSUME TypeInv, NEW t \in Nat, NEW p \in Packets
    PROVE  LET new == OnLink(t, Metadata(p))
           IN  /\ new \in Seq(Events) /\ DOMAIN new = {1, 2} /\ Len(new) = 2
               /\ new[1].kind = "descriptor_visible" /\ new[1].what = p /\ t <= new[1].time
               /\ new[2].kind = "ready_visible" /\ new[2].what = p /\ t <= new[2].time
               /\ new[1].time <= new[2].time
               /\ Apart(new)
               /\ \A j, k \in DOMAIN new : Announces(new[j], new[k]) => new[j].time <= new[k].time
  <1> DEFINE new == OnLink(t, Metadata(p))
  <1>1. Metadata(p) \in Seq(LineSet)
    BY DEF Metadata, Line, LineSet, OfPacket
  <1>2. /\ DOMAIN Metadata(p) = {1, 2} /\ Len(Metadata(p)) = 2
        /\ Metadata(p)[1].kind = "descriptor_visible" /\ Metadata(p)[1].what = p
        /\ Metadata(p)[2].kind = "ready_visible" /\ Metadata(p)[2].what = p
    BY DEF Metadata, Line
  <1>3. /\ new \in Seq(Events) /\ Len(new) = Len(Metadata(p)) /\ Sorted(new)
        /\ \A k \in DOMAIN Metadata(p) :
             /\ new[k].time \in Nat /\ t <= new[k].time
             /\ new[k].kind = Metadata(p)[k].kind /\ new[k].what = Metadata(p)[k].what
    BY <1>1, LinkTimes
  <1>4. DOMAIN new = {1, 2}
    BY <1>2 DEF OnLink
  <1> HIDE DEF new
  <1>5. new[1].time <= new[2].time
    BY <1>3, <1>4 DEF Sorted
  <1>6. /\ new[1].kind = "descriptor_visible" /\ new[1].what = p /\ t <= new[1].time
        /\ new[2].kind = "ready_visible" /\ new[2].what = p /\ t <= new[2].time
    BY <1>2, <1>3
  <1>7. \A j, k \in DOMAIN new :
          /\ Same(new[j], new[k]) \/ BothCpu(new[j], new[k]) => j = k
          /\ Announces(new[j], new[k]) => j = 1 /\ k = 2
    BY <1>4, <1>6 DEF Same, BothCpu, Announces
  <1>8. Apart(new)
    BY <1>7 DEF Apart
  <1> QED BY <1>2, <1>3, <1>4, <1>5, <1>6, <1>7, <1>8 DEF new

LEMMA PayloadOnLink ==
    ASSUME TypeInv, NEW t \in Nat, NEW p \in Packets
    PROVE  LET new == OnLink(t, PayloadEvents(p))
           IN  /\ new \in Seq(Events) /\ DOMAIN new = 1..LinesOf[p] /\ Len(new) = LinesOf[p]
               /\ \A k \in 1..LinesOf[p] :
                    /\ new[k].kind = "payload_visible" /\ new[k].what = <<p, k - 1>>
                    /\ k - 1 \in 0..(LinesOf[p] - 1)
               /\ Apart(new)
               /\ \A j, k \in DOMAIN new : ~Announces(new[j], new[k])
  <1> DEFINE new == OnLink(t, PayloadEvents(p))
  <1>1. /\ PayloadEvents(p) \in Seq(LineSet) /\ DOMAIN PayloadEvents(p) = 1..LinesOf[p]
        /\ Len(PayloadEvents(p)) = LinesOf[p]
        /\ \A k \in 1..LinesOf[p] : /\ PayloadEvents(p)[k].kind = "payload_visible"
                                    /\ PayloadEvents(p)[k].what = <<p, k - 1>>
                                    /\ k - 1 \in 0..(LinesOf[p] - 1)
    BY PayloadTyped
  <1>2. /\ new \in Seq(Events) /\ Len(new) = LinesOf[p]
        /\ \A k \in 1..LinesOf[p] :
             new[k].kind = PayloadEvents(p)[k].kind /\ new[k].what = PayloadEvents(p)[k].what
    <2>1. PayloadEvents(p) \in Seq(LineSet)
      BY <1>1
    <2>2. /\ new \in Seq(Events) /\ Len(new) = Len(PayloadEvents(p))
          /\ \A k \in DOMAIN PayloadEvents(p) :
               new[k].kind = PayloadEvents(p)[k].kind /\ new[k].what = PayloadEvents(p)[k].what
      BY <2>1, LinkTimes
    <2> HIDE DEF new
    <2> QED BY <1>1, <2>2
  <1>3. DOMAIN new = 1..LinesOf[p]
    BY <1>1 DEF OnLink
  <1> HIDE DEF new
  <1>4. \A k \in 1..LinesOf[p] :
          /\ new[k].kind = "payload_visible" /\ new[k].what = <<p, k - 1>>
          /\ k - 1 \in 0..(LinesOf[p] - 1)
    BY <1>1, <1>2
  <1>5. ASSUME NEW j \in 1..LinesOf[p], NEW k \in 1..LinesOf[p], new[j].what = new[k].what
        PROVE  j = k
    <2>1. <<p, j - 1>> = <<p, k - 1>>
      BY <1>4, <1>5
    <2>2. j - 1 = k - 1 /\ j \in Int /\ k \in Int
      BY <2>1
    <2> QED BY <2>2
  <1>6. \A j, k \in DOMAIN new :
          /\ Same(new[j], new[k]) => j = k
          /\ ~BothCpu(new[j], new[k]) /\ ~Announces(new[j], new[k])
    BY <1>3, <1>4, <1>5 DEF Same, BothCpu, Announces
  <1>7. Apart(new)
    BY <1>6 DEF Apart
  <1> QED BY <1>2, <1>3, <1>4, <1>6, <1>7 DEF new

--------------------------------------------------------------------------------
(* What becomes of a packet whose data is complete.                        *)

LEMMA PolicyParts ==
    ASSUME TypeInv
    PROVE  /\ policy.use_credit => policy.reorder_before_push
           /\ ~policy.push_payload => policy.home = "nic"
           /\ policy.gated => policy.push_payload
           /\ policy.use_credit \in BOOLEAN /\ policy.reorder_before_push \in BOOLEAN
           /\ policy.push_payload \in BOOLEAN /\ policy.cpu_reorder \in BOOLEAN
           /\ policy.gated \in BOOLEAN /\ policy.home \in {"host", "nic"}
  <1>1. policy \in Policies
    BY DEF TypeInv
  <1>2. policy \in [family : {"ddio", "ncp", "demand"}, home : {"host", "nic"},
                    reorder_before_push : BOOLEAN, use_credit : BOOLEAN,
                    push_payload : BOOLEAN, cpu_reorder : BOOLEAN, gated : BOOLEAN]
        /\ (policy.use_credit => policy.reorder_before_push)
        /\ (~policy.push_payload => policy.home = "nic")
        /\ (policy.gated => policy.push_payload)
    BY <1>1, PolicyAssumption
  <1>3. PICK x : x = policy
    OBVIOUS
  <1>4. x \in [family : {"ddio", "ncp", "demand"}, home : {"host", "nic"},
                    reorder_before_push : BOOLEAN, use_credit : BOOLEAN,
                    push_payload : BOOLEAN, cpu_reorder : BOOLEAN, gated : BOOLEAN]
    BY <1>2, <1>3, Zenon
  <1>5. /\ x.use_credit \in BOOLEAN /\ x.reorder_before_push \in BOOLEAN
        /\ x.push_payload \in BOOLEAN /\ x.cpu_reorder \in BOOLEAN
        /\ x.gated \in BOOLEAN /\ x.home \in {"host", "nic"}
    BY <1>4, Zenon
  <1> QED BY <1>2, <1>3, <1>5, Zenon

InTurn(p) == policy.cpu_reorder \/ SerialOf(p) = next_publish[FlowOf(p)]

Completed(p) == IF InTurn(p) THEN "publishing" ELSE "complete"

Announcing(p) == IF InTurn(p) THEN Metadata(p) ELSE <<>>

(* No other packet waits for its turn to be published and has it.          *)
LEMMA Completion ==
    ASSUME TypeInv, FlowsInv, NEW p \in Packets
    PROVE  /\ StagesAfterPublish([stage EXCEPT ![p] = "complete"], ToPublish(p))
                = [stage EXCEPT ![p] = Completed(p)]
           /\ PublishLines([stage EXCEPT ![p] = "complete"], ToPublish(p)) = Announcing(p)
  <1> DEFINE done == [stage EXCEPT ![p] = "complete"]
             c == ToPublish(p)
  <1>1. p = <<FlowOf(p), SerialOf(p)>> /\ FlowOf(p) \in Flows
    BY PacketParts
  <1>2. DOMAIN stage = Packets
    BY DEF TypeInv
  <1>3. InTurn(p) <=> c = p
    BY <1>1 DEF InTurn, ToPublish
  <1>4. ASSUME ~InTurn(p) PROVE ~Publishable(done, c)
    <2>1. c # p /\ ~policy.cpu_reorder /\ c = <<FlowOf(p), next_publish[FlowOf(p)]>>
      BY <1>3, <1>4 DEF InTurn, ToPublish
    <2>2. SUFFICES ASSUME c \in Packets, done[c] = "complete" PROVE FALSE
      BY DEF Publishable
    <2>3. stage[c] = "complete" /\ FlowOf(c) = FlowOf(p) /\ SerialOf(c) = next_publish[FlowOf(p)]
      BY <1>2, <2>1, <2>2 DEF FlowOf, SerialOf
    <2>4. SerialOf(c) # next_publish[FlowOf(c)]
      BY <2>1, <2>2, <2>3 DEF FlowsInv, InFlow
    <2> QED BY <2>3, <2>4
  <1>5. CASE InTurn(p)
    <2>1. Publishable(done, c) /\ c = p
      BY <1>2, <1>3, <1>5 DEF Publishable
    <2>2. [done EXCEPT ![p] = "publishing"] = [stage EXCEPT ![p] = "publishing"]
      OBVIOUS
    <2> QED BY <1>5, <2>1, <2>2 DEF StagesAfterPublish, PublishLines, Completed, Announcing
  <1>6. CASE ~InTurn(p)
    BY <1>4, <1>6 DEF StagesAfterPublish, PublishLines, Completed, Announcing
  <1> QED BY <1>5, <1>6

AnnounceEvents(new, t, p) ==
    /\ new \in Seq(Events) /\ Apart(new)
    /\ \A j, k \in DOMAIN new : Announces(new[j], new[k]) => new[j].time <= new[k].time
    /\ \A j \in DOMAIN new :
         /\ InTurn(p) /\ new[j].kind \in {"descriptor_visible", "ready_visible"}
         /\ new[j].what = p /\ t <= new[j].time
    /\ InTurn(p) =>
         \E j, k \in DOMAIN new : new[j].kind = "descriptor_visible" /\ new[k].kind = "ready_visible"

LEMMA AnnouncingOnLink ==
    ASSUME TypeInv, NEW t \in Nat, NEW p \in Packets
    PROVE  AnnounceEvents(OnLink(t, Announcing(p)), t, p)
  <1> DEFINE new == OnLink(t, Announcing(p))
  <1>1. CASE InTurn(p)
    <2>1. new = OnLink(t, Metadata(p))
      BY <1>1 DEF Announcing
    <2> HIDE DEF new
    <2>2. /\ new \in Seq(Events) /\ DOMAIN new = {1, 2}
          /\ new[1].kind = "descriptor_visible" /\ new[1].what = p /\ t <= new[1].time
          /\ new[2].kind = "ready_visible" /\ new[2].what = p /\ t <= new[2].time
          /\ Apart(new)
          /\ \A j, k \in DOMAIN new : Announces(new[j], new[k]) => new[j].time <= new[k].time
      BY <2>1, MetadataOnLink
    <2>3. \A j \in DOMAIN new :
            new[j].kind \in {"descriptor_visible", "ready_visible"} /\ new[j].what = p /\ t <= new[j].time
      BY <2>2
    <2>4. \E j, k \in DOMAIN new : new[j].kind = "descriptor_visible" /\ new[k].kind = "ready_visible"
      BY <2>2
    <2> QED BY <1>1, <2>2, <2>3, <2>4 DEF new, AnnounceEvents
  <1>2. CASE ~InTurn(p)
    <2>1. new = <<>>
      BY <1>2 DEF Announcing, OnLink
    <2>2. <<>> \in Seq(Events) /\ DOMAIN <<>> = {} /\ Apart(<<>>)
      BY NothingApart
    <2> HIDE DEF new
    <2> QED BY <1>2, <2>1, <2>2 DEF new, AnnounceEvents
  <1> QED BY <1>1, <1>2

LEMMA AwaitedAll ==
    ASSUME NEW p \in Packets, visible[p] = {}
    PROVE  /\ Awaited(p) = 0..(LinesOf[p] - 1) /\ Awaited(p) # {}
           /\ Cardinality(Awaited(p)) = LinesOf[p]
  <1>1. Awaited(p) = 0..(LinesOf[p] - 1)
    BY DEF Awaited
  <1>2. LinesOf[p] \in Nat /\ LinesOf[p] > 0
    BY Sizes
  <1>3. Cardinality(0..(LinesOf[p] - 1)) = LinesOf[p]
    BY <1>2, FS_Interval
  <1>4. 0 \in 0..(LinesOf[p] - 1)
    BY <1>2
  <1> QED BY <1>1, <1>3, <1>4

(* A packet that is published, or waits to be.                             *)
LEMMA CompletedFits ==
    ASSUME NEW p \in Packets, stage'[p] = Completed(p), policy' = policy,
           policy.home = "nic" \/ Awaited(p)' = {},
           NEW new, NEW old, NEW t, Sends(t, old, new),
           \A j \in DOMAIN new : new[j].kind \in {"descriptor_visible", "ready_visible"} => new[j].what = p,
           InTurn(p) =>
             \E j, k \in DOMAIN new : new[j].kind = "descriptor_visible" /\ new[k].kind = "ready_visible"
    PROVE  PacketFits(p)'
  <1>1. InTurn(p) => IsQueued("descriptor_visible", p)' /\ IsQueued("ready_visible", p)'
    BY QueuedComes
  <1> QED BY <1>1 DEF PacketFits, Completed

--------------------------------------------------------------------------------
(* Events and packets, action by action.                                   *)

Desk == EventsApart /\ EventsFit /\ PacketsFit /\ CpuFits

LEMMA IssueShape ==
    ASSUME TypeInv, FlowsInv, NEW p \in Packets, stage[p] = "arrived", Issue(p)
    PROVE  /\ outcome' = outcome
           /\ times' = [times EXCEPT ![p].issue = now]
           /\ IF policy.push_payload
              THEN /\ stage' = [stage EXCEPT ![p] = "issued"]
                   /\ pending_payload_lines' = [pending_payload_lines EXCEPT ![p] = LinesOf[p]]
                   /\ IssueLines(p) = PayloadEvents(p)
              ELSE /\ stage' = [stage EXCEPT ![p] = Completed(p)]
                   /\ pending_payload_lines' = pending_payload_lines
                   /\ IssueLines(p) = Announcing(p)
           /\ IF policy.use_credit
              THEN /\ credit' = [credit EXCEPT ![FlowOf(p)] = @ + LinesOf[p]]
                   /\ global_credit' = global_credit + LinesOf[p]
              ELSE credit' = credit /\ global_credit' = global_credit
  <1>1. /\ outcome' = outcome /\ times' = [times EXCEPT ![p].issue = now]
        /\ IF policy.push_payload
           THEN /\ stage' = [stage EXCEPT ![p] = "issued"]
                /\ pending_payload_lines' = [pending_payload_lines EXCEPT ![p] = LinesOf[p]]
           ELSE /\ stage' = StagesAfterPublish([stage EXCEPT ![p] = "complete"], ToPublish(p))
                /\ pending_payload_lines' = pending_payload_lines
        /\ IF policy.use_credit
           THEN /\ credit' = [credit EXCEPT ![FlowOf(p)] = @ + LinesOf[p]]
                /\ global_credit' = global_credit + LinesOf[p]
           ELSE credit' = credit /\ global_credit' = global_credit
    BY DEF Issue
  <1> QED BY <1>1, Completion DEF IssueLines

LEMMA IssueDesk ==
    ASSUME TypeInv, QueueInv, FlowsInv, Desk, NEW p \in Packets, stage[p] = "arrived", Issue(p),
           policy' = policy, arrival_ns' = arrival_ns, now' = now, visible' = visible,
           cpu_scheduled' = cpu_scheduled
    PROVE  Desk'
  <1>10. PICK new : new = OnLink(now, IssueLines(p))
    OBVIOUS
  <1>0. DOMAIN stage = Packets /\ DOMAIN pending_payload_lines = Packets /\ now \in Nat
        /\ LeftBy(events)
    BY DEF TypeInv, LeftBy
  <1>1. Sends(now', events, new)
    BY <1>10, IssueSends
  <1>2. visible'[p] = {} /\ visible[p] = {}
    BY DEF Desk, PacketsFit, PacketFits
  <1>3. \A i \in DOMAIN events : ~About(events[i], p)
    BY <1>0, NoneAbout DEF Desk
  <1>4. \A q \in Packets \ {p} :
          /\ stage'[q] = stage[q] /\ visible'[q] = visible[q]
          /\ pending_payload_lines'[q] = pending_payload_lines[q]
    BY <1>0, IssueShape
  <1>5. CpuFits'
    <2>1. stage'[p] # "consuming"
      BY <1>0, IssueShape DEF Completed
    <2>2. \A q \in Packets : stage'[q] = "consuming" <=> stage[q] = "consuming"
      BY <1>4, <2>1
    <2> QED BY <2>2, CpuKeeps DEF Desk
  <1>8. CASE policy.push_payload
    <2>1. new = OnLink(now, PayloadEvents(p)) /\ stage'[p] = "issued"
          /\ pending_payload_lines'[p] = LinesOf[p]
      BY <1>0, <1>8, <1>10, IssueShape
    <2>2. /\ DOMAIN new = 1..LinesOf[p] /\ Apart(new)
          /\ \A k \in 1..LinesOf[p] :
               /\ new[k].kind = "payload_visible" /\ new[k].what = <<p, k - 1>>
               /\ k - 1 \in 0..(LinesOf[p] - 1)
          /\ \A j, k \in DOMAIN new : ~Announces(new[j], new[k])
      BY <1>0, <2>1, PayloadOnLink
    <2>3. Awaited(p)' = 0..(LinesOf[p] - 1) /\ Awaited(p)' # {} /\ Cardinality(Awaited(p)') = LinesOf[p]
      <3>1. Awaited(p)' = Awaited(p)
        BY DEF Awaited
      <3> QED BY <1>2, <3>1, AwaitedAll
    <2>4. \A j \in DOMAIN new : EventFits(new[j])'
      <3> TAKE j \in DOMAIN new
      <3>1. PICK e : e = new[j] /\ e.kind = "payload_visible" /\ e.what[1] = p
                     /\ e.what[2] \in Awaited(p)'
        BY <2>2, <2>3
      <3>2. EventFits(e)'
        BY <2>1, <3>1 DEF EventFits
      <3> QED BY <3>1, <3>2
    <2>5. PacketFits(p)'
      <3>1. \A k \in Awaited(p)' : IsQueued("payload_visible", <<p, k>>)'
        <4> TAKE k \in Awaited(p)'
        <4>1. LinesOf[p] \in Nat
          BY Sizes
        <4>2. k + 1 \in 1..LinesOf[p] /\ (k + 1) - 1 = k
          BY <2>3, <4>1
        <4>3. k + 1 \in DOMAIN new /\ new[k + 1].kind = "payload_visible" /\ new[k + 1].what = <<p, k>>
          BY <2>2, <4>2
        <4> QED BY <1>1, <4>3, QueuedComes
      <3> QED BY <2>1, <2>3, <3>1 DEF PacketFits
    <2>6. \A j \in DOMAIN new : \A q \in Packets : About(new[j], q) => q \in {p}
      BY <2>2 DEF About, OfPacket
    <2>7. \A j \in DOMAIN new : new[j].kind \notin {"cpu_consume", "release"}
      BY <2>2
    <2>8. EventsApart' /\ EventsFit' /\ PacketsFit'
      <3> DEFINE T == {p}
      <3>1. T \in SUBSET Packets /\ Touches(T, events)
        BY <1>3, <1>4 DEF Touches
      <3>2. Brings(T, events, new)
        BY <2>2, <2>6, <2>7 DEF Brings
      <3>3. \A q \in T : PacketFits(q)'
        BY <2>5
      <3> HIDE DEF T
      <3> QED BY <1>0, <1>1, <2>4, <3>1, <3>2, <3>3, TouchKeeps DEF Desk
    <2> QED BY <1>5, <2>8 DEF Desk
  <1>9. CASE ~policy.push_payload
    <2>1. new = OnLink(now, Announcing(p)) /\ stage'[p] = Completed(p)
      BY <1>0, <1>9, <1>10, IssueShape
    <2>2. /\ Apart(new)
          /\ \A j, k \in DOMAIN new : Announces(new[j], new[k]) => new[j].time <= new[k].time
          /\ \A j \in DOMAIN new :
               /\ InTurn(p) /\ new[j].kind \in {"descriptor_visible", "ready_visible"}
               /\ new[j].what = p
          /\ InTurn(p) =>
               \E j, k \in DOMAIN new : new[j].kind = "descriptor_visible" /\ new[k].kind = "ready_visible"
      <3>1. AnnounceEvents(OnLink(now, Announcing(p)), now, p)
        BY <1>0, AnnouncingOnLink
      <3>2. AnnounceEvents(new, now, p)
        BY <2>1, <3>1
      <3> QED BY <3>2 DEF AnnounceEvents
    <2>3. policy.home = "nic"
      BY <1>9, PolicyParts
    <2>4. PacketFits(p)'
      BY <1>1, <2>1, <2>2, <2>3, CompletedFits
    <2>5. \A j \in DOMAIN new : EventFits(new[j])'
      <3> TAKE j \in DOMAIN new
      <3>1. PICK e : e = new[j] /\ e.kind \in {"descriptor_visible", "ready_visible"} /\ e.what = p
        BY <2>2
      <3>2. stage'[p] = "publishing"
        BY <2>1, <2>2 DEF Completed
      <3>3. EventFits(e)'
        BY <3>1, <3>2 DEF EventFits
      <3> QED BY <3>1, <3>3
    <2>6. \A j \in DOMAIN new : \A q \in Packets : About(new[j], q) => q \in {p}
      BY <2>2 DEF About, OfPacket
    <2>7. \A j \in DOMAIN new : new[j].kind \notin {"cpu_consume", "release"}
      BY <2>2
    <2>8. EventsApart' /\ EventsFit' /\ PacketsFit'
      <3> DEFINE T == {p}
      <3>1. T \in SUBSET Packets /\ Touches(T, events)
        BY <1>3, <1>4 DEF Touches
      <3>2. Brings(T, events, new)
        BY <2>2, <2>6, <2>7 DEF Brings
      <3>3. \A q \in T : PacketFits(q)'
        BY <2>4
      <3> HIDE DEF T
      <3> QED BY <1>0, <1>1, <2>5, <3>1, <3>2, <3>3, TouchKeeps DEF Desk
    <2> QED BY <1>5, <2>8 DEF Desk
  <1> QED BY <1>8, <1>9

LEMMA Prefixed ==
    ASSUME NEW w \in Seq(Events), NEW o \in Seq(Events), \A k \in DOMAIN w : w[k].kind = "withdraw",
           Apart(o), \A j, k \in DOMAIN o : Announces(o[j], o[k]) => o[j].time <= o[k].time
    PROVE  LET new == w \o o
           IN  /\ \A j \in DOMAIN new : new[j].kind = "withdraw" \/ \E k \in DOMAIN o : new[j] = o[k]
               /\ \A k \in DOMAIN o : \E j \in DOMAIN new : new[j] = o[k]
               /\ Apart(new)
               /\ \A j, k \in DOMAIN new : Announces(new[j], new[k]) => new[j].time <= new[k].time
  <1> DEFINE new == w \o o
             n == Len(w)
  <1>1. n \in Nat /\ DOMAIN w = 1..n /\ new \in Seq(Events)
    OBVIOUS
  <1>2. \A j \in DOMAIN new : j \in Nat /\ (j <= n => j \in DOMAIN w /\ new[j] = w[j])
                              /\ (j > n => j - n \in DOMAIN o /\ new[j] = o[j - n])
    BY <1>1
  <1>3. \A k \in DOMAIN o : n + k \in DOMAIN new /\ new[n + k] = o[k]
    BY <1>1
  <1> HIDE DEF new, n
  <1>4. \A j \in DOMAIN new : j <= n => new[j].kind = "withdraw"
    BY <1>2
  <1>5. \A i, j \in DOMAIN o : /\ Same(o[i], o[j]) \/ BothCpu(o[i], o[j]) => i = j
                               /\ Announces(o[i], o[j]) => i < j /\ o[i].time <= o[j].time
    BY DEF Apart
  <1>6. ASSUME NEW j \in DOMAIN new, NEW k \in DOMAIN new
        PROVE  /\ Same(new[j], new[k]) \/ BothCpu(new[j], new[k]) => j = k
               /\ Announces(new[j], new[k]) => j < k /\ new[j].time <= new[k].time
    <2>1. CASE j <= n \/ k <= n
      <3>1. new[j].kind = "withdraw" \/ new[k].kind = "withdraw"
        BY <1>4, <2>1
      <3> QED BY <3>1 DEF Same, BothCpu, Announces, OfPacket
    <2>2. CASE ~(j <= n) /\ ~(k <= n)
      <3>1. j > n /\ k > n /\ j \in Nat /\ k \in Nat
        BY <1>1, <1>2, <2>2
      <3>2. j - n \in DOMAIN o /\ new[j] = o[j - n] /\ k - n \in DOMAIN o /\ new[k] = o[k - n]
        BY <1>2, <3>1
      <3>3. /\ Same(new[j], new[k]) \/ BothCpu(new[j], new[k]) => j - n = k - n
            /\ Announces(new[j], new[k]) => j - n < k - n /\ new[j].time <= new[k].time
        BY <1>5, <3>2
      <3> QED BY <1>1, <3>1, <3>3
    <2> QED BY <2>1, <2>2
  <1>7. Apart(new)
    BY <1>6 DEF Apart
  <1>8. ASSUME NEW j \in DOMAIN new
        PROVE  new[j].kind = "withdraw" \/ \E k \in DOMAIN o : new[j] = o[k]
    BY <1>1, <1>2, <1>4
  <1> QED BY <1>3, <1>6, <1>7, <1>8 DEF new

LEMMA PayloadShape ==
    ASSUME TypeInv, QueueInv, FlowsInv, Desk, PayloadVisible
    PROVE  \E p \in Packets, k \in Nat :
             /\ Taken = <<p, k>> /\ Taken[1] = p /\ stage[p] = "issued" /\ k \in Awaited(p)
             /\ LeftOf(p) = Cardinality(Awaited(p)')
             /\ Awaited(p)' = Awaited(p) \ {k}
             /\ LeftOf(p) = 0 <=> Awaited(p)' = {}
             /\ visible' = [visible EXCEPT ![p] = @ \cup {PayloadLine(k)}]
             /\ pending_payload_lines' = [pending_payload_lines EXCEPT ![p] = LeftOf(p)]
             /\ IF LeftOf(p) = 0
                THEN /\ stage' = [stage EXCEPT ![p] = Completed(p)]
                     /\ CompletionLines(p) = Announcing(p)
                ELSE stage' = stage /\ CompletionLines(p) = <<>>
  <1>1. Take("payload_visible")
    BY DEF PayloadVisible
  <1>2. /\ Taken \in Packets \X Nat /\ 1 \in DOMAIN events
        /\ events[1].kind = "payload_visible" /\ events[1].what = Taken
    BY <1>1, TakeTyped DEF OfLine
  <1>3. PICK p \in Packets, k \in Nat : Taken = <<p, k>> /\ Taken[1] = p /\ Taken[2] = k
    BY <1>2
  <1>4. stage[p] = "issued" /\ k \in Awaited(p)
    BY <1>2, <1>3 DEF Desk, EventsFit, EventFits
  <1>5. visible' = [visible EXCEPT ![p] = @ \cup {PayloadLine(k)}]
        /\ pending_payload_lines' = [pending_payload_lines EXCEPT ![p] = LeftOf(p)]
    BY <1>3 DEF PayloadVisible, LeftOf
  <1>6. visible'[p] = visible[p] \cup {PayloadLine(k)}
    BY <1>5 DEF TypeInv
  <1>7. Awaited(p)' = Awaited(p) \ {k}
    <2>1. \A j : PayloadLine(j) = PayloadLine(k) <=> j = k
      BY DEF PayloadLine, Line
    <2>2. Awaited(p)' = {j \in 0..(LinesOf[p] - 1) : PayloadLine(j) \notin visible'[p]}
      BY DEF Awaited, PayloadLine, Line
    <2> QED BY <1>6, <2>1, <2>2 DEF Awaited
  <1>8. pending_payload_lines[p] = Cardinality(Awaited(p))
    BY <1>4 DEF Desk, PacketsFit, PacketFits
  <1>9. /\ IsFiniteSet(Awaited(p)) /\ Cardinality(Awaited(p) \ {k}) = Cardinality(Awaited(p)) - 1
        /\ IsFiniteSet(Awaited(p) \ {k})
    <2>1. LinesOf[p] \in Nat
      BY Sizes
    <2>2. IsFiniteSet(0..(LinesOf[p] - 1))
      BY <2>1, FS_Interval
    <2>3. Awaited(p) \in SUBSET (0..(LinesOf[p] - 1))
      BY DEF Awaited
    <2>4. IsFiniteSet(Awaited(p))
      BY <2>2, <2>3, FS_Subset
    <2> QED BY <1>4, <2>4, FS_RemoveElement
  <1>10. LeftOf(p) = Cardinality(Awaited(p)')
    BY <1>7, <1>8, <1>9 DEF LeftOf
  <1>11. LeftOf(p) = 0 <=> Awaited(p)' = {}
    <2>1. IsFiniteSet(Awaited(p)')
      BY <1>7, <1>9
    <2> QED BY <1>10, <2>1, FS_EmptySet
  <1>12. IF LeftOf(p) = 0
         THEN stage' = [stage EXCEPT ![p] = Completed(p)] /\ CompletionLines(p) = Announcing(p)
         ELSE stage' = stage /\ CompletionLines(p) = <<>>
    <2>1. CASE LeftOf(p) = 0
      <3>1. stage' = StagesAfterPublish(CompletedBy(p), ToPublish(p))
        BY <1>3, <2>1 DEF PayloadVisible, LeftOf, CompletedBy
      <3>2. CompletedBy(p) = [stage EXCEPT ![p] = "complete"]
        BY <2>1 DEF CompletedBy
      <3> QED BY <2>1, <3>1, <3>2, Completion DEF CompletionLines
    <2>2. CASE LeftOf(p) # 0
      BY <1>3, <2>2 DEF PayloadVisible, LeftOf, CompletionLines
    <2> QED BY <2>1, <2>2
  <1> QED BY <1>3, <1>4, <1>5, <1>7, <1>10, <1>11, <1>12

LEMMA PayloadDesk ==
    ASSUME TypeInv, QueueInv, FlowsInv, Desk, PayloadVisible
    PROVE  Desk'
  <1>1. Take("payload_visible") /\ policy' = policy /\ arrival_ns' = arrival_ns
        /\ cpu_scheduled' = cpu_scheduled
    BY DEF PayloadVisible, inputs, cpu
  <1>2. /\ At \in Nat /\ now' = At /\ events # <<>> /\ 1 \in DOMAIN events
        /\ events[1].kind = "payload_visible" /\ events[1].what = Taken /\ Taken \in Packets \X Nat
    BY <1>1, TakeTyped DEF OfLine
  <1>3. PICK p \in Packets, k \in Nat :
             /\ Taken = <<p, k>> /\ Taken[1] = p /\ stage[p] = "issued" /\ k \in Awaited(p)
             /\ LeftOf(p) = Cardinality(Awaited(p)')
             /\ Awaited(p)' = Awaited(p) \ {k}
             /\ LeftOf(p) = 0 <=> Awaited(p)' = {}
             /\ visible' = [visible EXCEPT ![p] = @ \cup {PayloadLine(k)}]
             /\ pending_payload_lines' = [pending_payload_lines EXCEPT ![p] = LeftOf(p)]
             /\ IF LeftOf(p) = 0
                THEN /\ stage' = [stage EXCEPT ![p] = Completed(p)]
                     /\ CompletionLines(p) = Announcing(p)
                ELSE stage' = stage /\ CompletionLines(p) = <<>>
    BY PayloadShape
  <1>0. DOMAIN stage = Packets /\ DOMAIN pending_payload_lines = Packets /\ DOMAIN visible = Packets
        /\ LeftBy(Rest)
    BY <1>1, <1>2 DEF TypeInv, LeftBy, Take
  <1>4. PICK w, o : w = WithdrawLater(Taken) /\ o = OnLink(At, CompletionLines(p))
    OBVIOUS
  <1>5. PICK new : new = w \o o
    OBVIOUS
  <1>6. w \in Seq(Events) /\ o \in Seq(Events) /\ Sends(now', Rest, new)
    BY <1>3, <1>4, <1>5, PayloadSends
  <1>7. \A j \in DOMAIN w : w[j].kind = "withdraw"
    BY <1>2, <1>4, WithdrawTyped
  <1>8. /\ Apart(o) /\ \A i, j \in DOMAIN o : Announces(o[i], o[j]) => o[i].time <= o[j].time
        /\ \A j \in DOMAIN o : /\ LeftOf(p) = 0 /\ InTurn(p) /\ o[j].what = p
                               /\ o[j].kind \in {"descriptor_visible", "ready_visible"}
        /\ LeftOf(p) = 0 /\ InTurn(p) =>
             \E i, j \in DOMAIN o : o[i].kind = "descriptor_visible" /\ o[j].kind = "ready_visible"
    <2>1. CASE LeftOf(p) = 0
      <3>1. o = OnLink(At, Announcing(p))
        BY <1>3, <1>4, <2>1
      <3>2. AnnounceEvents(o, At, p)
        BY <1>2, <3>1, AnnouncingOnLink
      <3> QED BY <2>1, <3>2 DEF AnnounceEvents
    <2>2. CASE LeftOf(p) # 0
      <3>1. o = OnLink(At, <<>>)
        BY <1>3, <1>4, <2>2
      <3>2. o = <<>>
        BY <3>1 DEF OnLink
      <3> QED BY <2>2, <3>2, NothingApart
    <2> QED BY <2>1, <2>2
  <1>9. /\ \A j \in DOMAIN new : new[j].kind = "withdraw" \/ \E i \in DOMAIN o : new[j] = o[i]
        /\ \A i \in DOMAIN o : \E j \in DOMAIN new : new[j] = o[i]
        /\ Apart(new)
        /\ \A i, j \in DOMAIN new : Announces(new[i], new[j]) => new[i].time <= new[j].time
    BY <1>5, <1>6, <1>7, <1>8, Prefixed
  <1>10. \A j \in DOMAIN new :
           \/ new[j].kind = "withdraw"
           \/ /\ LeftOf(p) = 0 /\ InTurn(p) /\ new[j].what = p
              /\ new[j].kind \in {"descriptor_visible", "ready_visible"}
    BY <1>8, <1>9
  <1>11. LeftOf(p) = 0 /\ InTurn(p) =>
           \E i, j \in DOMAIN new : new[i].kind = "descriptor_visible" /\ new[j].kind = "ready_visible"
    BY <1>8, <1>9
  (* What is left for p in the queue are other lines of its payload.       *)
  <1>12. ASSUME NEW i \in DOMAIN Rest, About(Rest[i], p)
         PROVE  /\ Rest[i].kind = "payload_visible" /\ Rest[i].what[1] = p
                /\ Rest[i].what[2] \in Awaited(p) \ {k}
    <2>1. i + 1 \in DOMAIN events /\ Rest[i] = events[i + 1] /\ i \in Nat /\ i # 0
      BY <1>2, RestTyped
    <2>2. PICK n \in DOMAIN events : Rest[i] = events[n] /\ n # 1
      BY <2>1
    <2>3. events[n].kind = "payload_visible"
      BY <1>3, <1>12, <2>2, StagesOfEvents DEF Desk
    <2>4. events[n].what[1] = p /\ events[n] \in Events
      BY <1>12, <2>2, <2>3, EventsTyped DEF About, OfPacket
    <2>5. events[n].what \in Packets \X Nat
      BY <2>3, <2>4, EventParts DEF OfLine
    <2>6. events[n].what[2] \in Awaited(p)
      BY <2>3, <2>4 DEF Desk, EventsFit, EventFits
    <2>7. events[n].what[2] # k
      <3> SUFFICES ASSUME events[n].what[2] = k PROVE FALSE
        OBVIOUS
      <3>1. events[n].what = <<p, k>>
        BY <2>4, <2>5
      <3>2. Same(events[n], events[1])
        BY <1>2, <1>3, <2>3, <3>1 DEF Same
      <3> QED BY <1>2, <2>2, <3>2 DEF Desk, EventsApart, Apart
    <2> QED BY <2>2, <2>3, <2>4, <2>6, <2>7
  <1>13. Fresh(Rest, new)
    <2>1. ASSUME NEW i \in DOMAIN Rest, NEW j \in DOMAIN new
          PROVE  /\ ~Same(Rest[i], new[j]) /\ ~BothCpu(Rest[i], new[j])
                 /\ ~Announces(Rest[i], new[j]) /\ ~Announces(new[j], Rest[i])
      <3>1. CASE new[j].kind = "withdraw"
        BY <3>1 DEF Same, BothCpu, Announces, OfPacket
      <3>2. CASE new[j].what = p /\ new[j].kind \in {"descriptor_visible", "ready_visible"}
        <4>1. ASSUME Rest[i].kind \in OfPacket, Rest[i].what = p PROVE FALSE
          BY <1>12, <4>1 DEF About, OfPacket
        <4> QED BY <3>2, <4>1 DEF Same, BothCpu, Announces, OfPacket
      <3> QED BY <1>10, <3>1, <3>2
    <2> QED BY <1>9, <2>1 DEF Fresh
  <1>14. EventsApart'
    BY <1>0, <1>6, <1>13, ApartNext DEF Desk
  <1>15. \A q \in Packets : q # p => stage'[q] = stage[q] /\ visible'[q] = visible[q]
                                     /\ pending_payload_lines'[q] = pending_payload_lines[q]
    BY <1>0, <1>3
  <1>16. stage'[p] = IF LeftOf(p) = 0 THEN Completed(p) ELSE "issued"
    BY <1>0, <1>3
  <1>17. PICK r : r = Rest
    OBVIOUS
  <1>18. Sends(now', r, new) /\ LeftBy(r)
    BY <1>0, <1>6, <1>17
  <1>19. EventsFit'
    <2>1. ASSUME NEW i \in DOMAIN r, NEW q \in Packets, About(r[i], q)
          PROVE  (stage'[q] = stage[q] /\ visible'[q] = visible[q]) \/ EventFits(r[i])'
      <3>1. CASE q # p
        BY <1>15, <3>1
      <3>2. CASE q = p
        <4>1. r[i].kind = "payload_visible" /\ r[i].what[1] = p /\ r[i].what[2] \in Awaited(p)'
          BY <1>3, <1>12, <1>17, <2>1, <3>2
        <4>2. stage'[p] = "issued"
          BY <1>3, <1>16, <4>1
        <4>3. PICK e : e = r[i]
          OBVIOUS
        <4>4. EventFits(e)'
          BY <4>1, <4>2, <4>3 DEF EventFits
        <4> QED BY <4>3, <4>4
      <3> QED BY <3>1, <3>2
    <2>2. ASSUME NEW j \in DOMAIN new PROVE EventFits(new[j])'
      <3>1. PICK e : e = new[j]
        OBVIOUS
      <3>2. e.kind = "withdraw" \/ (stage'[p] = "publishing" /\ e.what = p
                                     /\ e.kind \in {"descriptor_visible", "ready_visible"})
        BY <1>10, <1>16, <3>1 DEF Completed
      <3>3. EventFits(e)'
        BY <3>2 DEF EventFits
      <3> QED BY <3>1, <3>3
    <2>3. EventsFit
      BY DEF Desk
    <2> QED BY <1>1, <1>18, <2>1, <2>2, <2>3, FitsNext
  <1>20. PacketsFit'
    <2> SUFFICES ASSUME NEW q \in Packets PROVE PacketFits(q)'
      BY DEF PacketsFit
    <2>1. CASE q # p
      <3>1. ~About(events[1], q)
        BY <1>2, <1>3, <2>1 DEF About, OfPacket
      <3>2. PacketFits(q)
        BY DEF Desk, PacketsFit
      <3> QED BY <1>1, <1>15, <1>18, <2>1, <3>1, <3>2, PacketStays
    <2>2. CASE q = p /\ LeftOf(p) = 0
      <3>1. stage'[p] = Completed(p) /\ Awaited(p)' = {}
        BY <1>3, <1>16, <2>2
      <3>2. \A j \in DOMAIN new :
              new[j].kind \in {"descriptor_visible", "ready_visible"} => new[j].what = p
        BY <1>10
      <3>3. InTurn(p) => \E i, j \in DOMAIN new :
                           new[i].kind = "descriptor_visible" /\ new[j].kind = "ready_visible"
        BY <1>11, <2>2
      <3>4. PICK t : t = now'
        OBVIOUS
      <3>5. Sends(t, r, new)
        BY <1>18, <3>4
      <3>6. PacketFits(p)'
        BY <1>1, <3>1, <3>2, <3>3, <3>5, CompletedFits
      <3> QED BY <2>2, <3>6
    <2>3. CASE q = p /\ LeftOf(p) # 0
      <3>1. stage'[p] = "issued" /\ Awaited(p)' # {} /\ pending_payload_lines'[p] = Cardinality(Awaited(p)')
        BY <1>0, <1>3, <1>16, <2>3
      <3>2. \A j \in Awaited(p)' : IsQueued("payload_visible", <<p, j>>)'
        <4> TAKE j \in Awaited(p)'
        <4>1. j \in Awaited(p) /\ j # k
          BY <1>3
        <4>2. IsQueued("payload_visible", <<p, j>>)
          BY <1>3, <4>1 DEF Desk, PacketsFit, PacketFits
        <4>3. events[1].what # <<p, j>>
          BY <1>2, <1>3, <4>1
        <4> QED BY <1>18, <4>2, <4>3, QueuedStays
      <3>3. PacketFits(p)'
        BY <3>1, <3>2 DEF PacketFits
      <3> QED BY <2>3, <3>3
    <2> QED BY <2>1, <2>2, <2>3
  <1>21. CpuFits'
    <2>1. stage'[p] # "consuming" /\ stage[p] # "consuming"
      BY <1>3, <1>16 DEF Completed
    <2>2. \A q \in Packets : stage'[q] = "consuming" <=> stage[q] = "consuming"
      BY <1>15, <2>1
    <2> QED BY <1>1, <2>2, CpuKeeps DEF Desk
  <1> QED BY <1>14, <1>19, <1>20, <1>21 DEF Desk

LEMMA HeadAbout ==
    ASSUME TypeInv, QueueInv, NEW kind \in OfPacket, Take(kind), NEW q, q # Taken
    PROVE  ~About(events[1], q)
  BY TakeTyped DEF About, OfPacket

(* A step that only takes or schedules what is about no packet.            *)
LEMMA QuietDesk ==
    ASSUME TypeInv, QueueInv, Desk, policy' = policy, arrival_ns' = arrival_ns,
           stage' = stage, visible' = visible, pending_payload_lines' = pending_payload_lines,
           cpu_scheduled' = cpu_scheduled,
           NEW old, NEW new, Sends(now', old, new), LeftBy(old),
           old # events => events[1].kind \notin OfPacket \cup {"payload_visible"},
           \A j \in DOMAIN new : new[j].kind \notin OfPacket \cup {"payload_visible"}
    PROVE  Desk'
  <1> DEFINE T == {}
  <1>1. Touches(T, old)
    BY DEF Touches, About, OfPacket
  <1>2. Apart(new)
    BY DEF Apart, Same, BothCpu, Announces, OfPacket
  <1>3. Brings(T, old, new)
    BY <1>2 DEF Brings, About, Announces, OfPacket
  <1>4. \A j \in DOMAIN new : EventFits(new[j])'
    BY DEF EventFits, OfPacket
  <1>5. T \in SUBSET Packets /\ \A p \in T : PacketFits(p)'
    OBVIOUS
  <1>6. CpuFits'
    BY CpuKeeps DEF Desk
  <1> HIDE DEF T
  <1>7. EventsApart' /\ EventsFit' /\ PacketsFit'
    BY <1>1, <1>3, <1>4, <1>5, TouchKeeps DEF Desk
  <1> QED BY <1>6, <1>7 DEF Desk

LEMMA ArrivalDesk ==
    ASSUME TypeInv, QueueInv, Desk, Arrival
    PROVE  Desk' /\ stage[Taken] = "coming"
  <1>1. /\ Take("arrival") /\ policy' = policy /\ arrival_ns' = arrival_ns
        /\ cpu_scheduled' = cpu_scheduled /\ visible' = visible
        /\ pending_payload_lines' = pending_payload_lines
        /\ stage' = [stage EXCEPT ![Taken] = "arrived"] /\ events' = Rest
    BY DEF Arrival, inputs, cpu
  <1>2. PICK p \in Packets : p = Taken
    BY <1>1, TakeTyped DEF OfPacket
  <1>3. /\ events # <<>> /\ LeftBy(Rest) /\ 1 \in DOMAIN events
        /\ events[1].kind = "arrival" /\ events[1].what = p
    BY <1>1, <1>2, TakeTyped DEF LeftBy, Take
  <1>4. stage[p] = "coming"
    BY <1>3 DEF Desk, EventsFit, EventFits
  <1>5. Sends(now', Rest, <<>>)
    BY <1>1, TakeSends
  <1> DEFINE T == {p}
  <1>6. DOMAIN stage = Packets
    BY DEF TypeInv
  <1>7. \A q \in Packets : stage'[q] = IF q = p THEN "arrived" ELSE stage[q]
    BY <1>1, <1>2, <1>6
  <1>8. Touches(T, Rest)
    <2>1. \A i \in DOMAIN Rest : ~About(Rest[i], p)
      BY <1>1, <1>2, RestNone DEF Desk
    <2>2. \A q \in Packets \ T : ~About(events[1], q)
      BY <1>1, <1>2, HeadAbout DEF OfPacket
    <2> QED BY <1>1, <1>7, <2>1, <2>2 DEF Touches
  <1>9. Brings(T, Rest, <<>>)
    BY NothingApart DEF Brings
  <1>10. PacketFits(p)'
    <2>1. visible[p] = {}
      BY <1>4 DEF Desk, PacketsFit, PacketFits
    <2> QED BY <1>1, <1>7, <2>1 DEF PacketFits
  <1>11. T \in SUBSET Packets /\ \A q \in T : PacketFits(q)'
    BY <1>10
  <1>12. CpuFits'
    BY <1>1, <1>4, <1>7, CpuKeeps DEF Desk
  <1> HIDE DEF T
  <1>13. EventsApart' /\ EventsFit' /\ PacketsFit'
    BY <1>1, <1>3, <1>5, <1>8, <1>9, <1>11, NothingApart, TouchKeeps DEF Desk
  <1> QED BY <1>2, <1>4, <1>12, <1>13 DEF Desk

LEMMA DescriptorDesk ==
    ASSUME TypeInv, QueueInv, Desk, DescriptorVisible
    PROVE  Desk'
  <1>1. /\ Take("descriptor_visible") /\ policy' = policy /\ arrival_ns' = arrival_ns
        /\ cpu_scheduled' = cpu_scheduled /\ stage' = stage
        /\ pending_payload_lines' = pending_payload_lines
        /\ visible' = [visible EXCEPT ![Taken] = @ \cup {DescriptorLine}] /\ events' = Rest
    BY DEF DescriptorVisible, inputs, cpu
  <1>2. PICK p \in Packets : p = Taken
    BY <1>1, TakeTyped DEF OfPacket
  <1>3. /\ events # <<>> /\ LeftBy(Rest) /\ 1 \in DOMAIN events
        /\ events[1].kind = "descriptor_visible" /\ events[1].what = p
    BY <1>1, <1>2, TakeTyped DEF LeftBy, Take
  <1>4. stage[p] = "publishing"
    BY <1>3 DEF Desk, EventsFit, EventFits
  <1>5. PICK r : r = Rest
    OBVIOUS
  <1>6. Sends(now', r, <<>>) /\ LeftBy(r)
    BY <1>1, <1>3, <1>5, TakeSends
  <1>7. DOMAIN visible = Packets
    BY DEF TypeInv
  <1>8. \A q \in Packets : visible'[q] = IF q = p THEN visible[p] \cup {DescriptorLine} ELSE visible[q]
    BY <1>1, <1>2, <1>7
  <1>9. EventsApart'
    <2>1. Fresh(r, <<>>)
      BY NothingApart DEF Fresh
    <2> QED BY <1>6, <2>1, ApartNext DEF Desk
  <1>10. EventsFit'
    <2>1. ASSUME NEW i \in DOMAIN r, NEW q \in Packets, About(r[i], q)
          PROVE  (stage'[q] = stage[q] /\ visible'[q] = visible[q]) \/ EventFits(r[i])'
      <3>1. CASE q # p
        BY <1>1, <1>8, <3>1
      <3>2. CASE q = p
        <4>1. PICK n \in DOMAIN events : r[i] = events[n]
          BY <1>6, OldEvents
        <4>2. PICK e : e = r[i]
          OBVIOUS
        <4>3. e.kind \in {"descriptor_visible", "ready_visible"} /\ e.what = p
          BY <1>4, <2>1, <3>2, <4>1, <4>2, StagesOfEvents DEF Desk, About, OfPacket
        <4>4. EventFits(e)'
          BY <1>1, <1>4, <4>3 DEF EventFits
        <4> QED BY <4>2, <4>4
      <3> QED BY <3>1, <3>2
    <2> QED BY <1>1, <1>6, <2>1, NothingApart, FitsNext DEF Desk
  <1>11. PacketsFit'
    <2> SUFFICES ASSUME NEW q \in Packets PROVE PacketFits(q)'
      BY DEF PacketsFit
    <2>1. CASE q # p
      <3>1. ~About(events[1], q)
        BY <1>1, <1>2, <2>1, HeadAbout DEF OfPacket
      <3>2. PacketFits(q)
        BY DEF Desk, PacketsFit
      <3> QED BY <1>1, <1>6, <1>8, <2>1, <3>1, <3>2, PacketStays
    <2>2. CASE q = p
      <3>1. /\ policy.home = "nic" \/ Awaited(p) = {}
            /\ IsQueued("ready_visible", p)
        BY <1>4 DEF Desk, PacketsFit, PacketFits
      <3>2. IsQueued("ready_visible", p)'
        BY <1>3, <1>6, <3>1, QueuedStays
      <3>3. Awaited(p)' = Awaited(p)
        <4>1. \A k : PayloadLine(k) # DescriptorLine
          BY DEF PayloadLine, DescriptorLine, Line
        <4>2. Awaited(p)' = {k \in 0..(LinesOf[p] - 1) : PayloadLine(k) \notin visible'[p]}
          BY DEF Awaited, PayloadLine, Line
        <4> QED BY <1>8, <4>1, <4>2 DEF Awaited
      <3>4. DescriptorLine \in visible'[p]
        BY <1>8
      <3>5. PacketFits(p)'
        BY <1>1, <1>4, <3>1, <3>2, <3>3, <3>4 DEF PacketFits, DescriptorLine, Line
      <3> QED BY <2>2, <3>5
    <2> QED BY <2>1, <2>2
  <1>12. CpuFits'
    BY <1>1, CpuKeeps DEF Desk
  <1> QED BY <1>9, <1>10, <1>11, <1>12 DEF Desk

(* The packet after p in its flow, if it waits for its turn.               *)
Follows(p) ==
    /\ ~policy.cpu_reorder
    /\ SuccessorOf(p) \in Packets /\ stage[SuccessorOf(p)] = "complete"

LEMMA ReadyShape ==
    ASSUME TypeInv, QueueInv, FlowsInv, Desk, ReadyVisible, NEW p, p = Taken
    PROVE  /\ p \in Packets /\ stage[p] = "publishing"
           /\ calls' = <<Call("try_cpu", p)>> /\ outcome' = outcome
           /\ times' = [times EXCEPT ![p].ready = At]
           /\ visible' = [visible EXCEPT ![p] = @ \cup {ReadyLine}]
           /\ IF policy.cpu_reorder THEN next_publish' = next_publish
              ELSE /\ SerialOf(p) = next_publish[FlowOf(p)]
                   /\ next_publish' = [next_publish EXCEPT ![FlowOf(p)] = @ + 1]
           /\ SuccessorOf(p) # p
           /\ stage' = [q \in Packets |-> IF q = p THEN "ready"
                                          ELSE IF Follows(p) /\ q = SuccessorOf(p) THEN "publishing"
                                          ELSE stage[q]]
           /\ ReadyLines(p) = IF Follows(p) THEN Metadata(SuccessorOf(p)) ELSE <<>>
           /\ Sends(now', Rest, OnLink(At, ReadyLines(p)))
  <1>1. Take("ready_visible")
    BY DEF ReadyVisible
  <1>2. p \in Packets /\ 1 \in DOMAIN events /\ events[1].kind = "ready_visible" /\ events[1].what = p
    BY <1>1, TakeTyped DEF OfPacket
  <1>3. stage[p] = "publishing"
    BY <1>2 DEF Desk, EventsFit, EventFits
  <1>4. ~policy.cpu_reorder => SerialOf(p) = next_publish[FlowOf(p)]
    BY <1>2, <1>3 DEF FlowsInv, InFlow
  <1>5. ~OutOfTurn(p)
    BY <1>4 DEF OutOfTurn
  <1>6. SuccessorOf(p) # p
    <2>1. SerialOf(p) \in Nat /\ SerialOf(SuccessorOf(p)) = SerialOf(p) + 1
      BY <1>2, PacketParts DEF SuccessorOf, SerialOf
    <2> QED BY <2>1
  <1> DEFINE stages == [stage EXCEPT ![p] = "ready"]
             c == SuccessorOf(p)
  <1>7. /\ visible' = [visible EXCEPT ![p] = @ \cup {ReadyLine}]
        /\ times' = [times EXCEPT ![p].ready = At]
        /\ stage' = IF ~policy.cpu_reorder THEN StagesAfterPublish(stages, c) ELSE stages
        /\ next_publish' = IF ~policy.cpu_reorder THEN [next_publish EXCEPT ![FlowOf(p)] = @ + 1]
                           ELSE next_publish
        /\ calls' = <<Call("try_cpu", p)>> /\ outcome' = outcome
    BY <1>5 DEF ReadyVisible, OutOfTurn
  <1>8. DOMAIN stage = Packets
    BY DEF TypeInv
  <1>9. Publishable(stages, c) <=> c \in Packets /\ stage[c] = "complete"
    BY <1>6, <1>8 DEF Publishable
  <1>10. stage' = [q \in Packets |-> IF q = p THEN "ready"
                                     ELSE IF Follows(p) /\ q = SuccessorOf(p) THEN "publishing"
                                     ELSE stage[q]]
    <2>1. CASE Follows(p)
      <3>1. stage' = [stages EXCEPT ![c] = "publishing"]
        BY <1>7, <1>9, <2>1 DEF StagesAfterPublish, Follows
      <3> QED BY <1>2, <1>6, <1>8, <2>1, <3>1
    <2>2. CASE ~Follows(p)
      <3>1. stage' = stages
        BY <1>7, <1>9, <2>2 DEF StagesAfterPublish, Follows
      <3> QED BY <1>2, <1>8, <2>2, <3>1
    <2> QED BY <2>1, <2>2
  <1>11. ReadyLines(p) = IF Follows(p) THEN Metadata(SuccessorOf(p)) ELSE <<>>
    BY <1>9 DEF ReadyLines, PublishLines, Follows
  <1>12. Sends(now', Rest, OnLink(At, ReadyLines(p)))
    BY <1>5, ReadySends
  <1> QED BY <1>2, <1>3, <1>4, <1>6, <1>7, <1>10, <1>11, <1>12

LEMMA AwaitedKept ==
    ASSUME NEW p \in Packets, NEW line, line \in {DescriptorLine, ReadyLine},
           visible'[p] = visible[p] \cup {line}
    PROVE  Awaited(p)' = Awaited(p)
  <1>1. \A k : PayloadLine(k) # line
    BY DEF PayloadLine, DescriptorLine, ReadyLine, Line
  <1>2. Awaited(p)' = {k \in 0..(LinesOf[p] - 1) : PayloadLine(k) \notin visible'[p]}
    BY DEF Awaited, PayloadLine, Line
  <1> QED BY <1>1, <1>2 DEF Awaited

LEMMA ReadyDesk ==
    ASSUME TypeInv, QueueInv, FlowsInv, Desk, ReadyVisible
    PROVE  Desk'
  <1>1. PICK p : p = Taken
    OBVIOUS
  <1>2. /\ p \in Packets /\ stage[p] = "publishing"
        /\ visible' = [visible EXCEPT ![p] = @ \cup {ReadyLine}]
        /\ SuccessorOf(p) # p
        /\ stage' = [q \in Packets |-> IF q = p THEN "ready"
                                       ELSE IF Follows(p) /\ q = SuccessorOf(p) THEN "publishing"
                                       ELSE stage[q]]
        /\ ReadyLines(p) = IF Follows(p) THEN Metadata(SuccessorOf(p)) ELSE <<>>
        /\ Sends(now', Rest, OnLink(At, ReadyLines(p)))
    BY <1>1, ReadyShape
  <1>3. /\ Take("ready_visible") /\ policy' = policy /\ arrival_ns' = arrival_ns
        /\ pending_payload_lines' = pending_payload_lines /\ cpu_scheduled' = cpu_scheduled
    BY DEF ReadyVisible, inputs, cpu
  <1>4. /\ events # <<>> /\ LeftBy(Rest) /\ 1 \in DOMAIN events /\ At \in Nat
        /\ events[1].kind = "ready_visible" /\ events[1].what = p
    BY <1>1, <1>3, TakeTyped DEF LeftBy, Take
  <1>5. PICK new : new = OnLink(At, ReadyLines(p))
    OBVIOUS
  <1>6. DOMAIN visible = Packets
    BY DEF TypeInv
  <1>7. \A q \in Packets : visible'[q] = IF q = p THEN visible[p] \cup {ReadyLine} ELSE visible[q]
    BY <1>2, <1>6
  <1>8. DescriptorLine \in visible[p] /\ (policy.home = "nic" \/ Awaited(p) = {})
    <2>1. ASSUME IsQueued("descriptor_visible", p) PROVE FALSE
      <3>1. PICK i \in DOMAIN events : events[i].kind = "descriptor_visible" /\ events[i].what = p
        BY <2>1 DEF IsQueued
      <3>2. i < 1
        BY <1>4, <3>1 DEF Desk, EventsApart, Apart, Announces
      <3> QED BY <3>2, EventsTyped
    <2> QED BY <1>2, <2>1 DEF Desk, PacketsFit, PacketFits
  <1>9. PacketFits(p)'
    <2>1. Awaited(p)' = Awaited(p)
      BY <1>2, <1>7, AwaitedKept
    <2>2. {ReadyLine, DescriptorLine} \subseteq visible'[p] /\ stage'[p] = "ready"
      BY <1>2, <1>7, <1>8
    <2> QED BY <1>3, <1>8, <2>1, <2>2 DEF PacketFits, ReadyLine, DescriptorLine, Line
  <1>10. \A i \in DOMAIN Rest : ~About(Rest[i], p)
    BY <1>1, <1>3, RestNone DEF Desk
  <1>11. \A q \in Packets \ {p} : ~About(events[1], q)
    BY <1>1, <1>3, HeadAbout DEF OfPacket
  <1>12. CpuFits'
    <2>1. \A q \in Packets : stage'[q] = "consuming" <=> stage[q] = "consuming"
      BY <1>2 DEF Follows
    <2> QED BY <1>3, <2>1, CpuKeeps DEF Desk
  <1>13. CASE Follows(p)
    <2>1. PICK c \in Packets : c = SuccessorOf(p) /\ stage[c] = "complete" /\ c # p
      BY <1>2, <1>13 DEF Follows
    <2>2. stage'[c] = "publishing" /\ visible'[c] = visible[c] /\ new = OnLink(At, Metadata(c))
      BY <1>2, <1>5, <1>7, <1>13, <2>1
    <2>3. /\ DOMAIN new = {1, 2}
          /\ new[1].kind = "descriptor_visible" /\ new[1].what = c
          /\ new[2].kind = "ready_visible" /\ new[2].what = c
          /\ Apart(new)
          /\ \A j, k \in DOMAIN new : Announces(new[j], new[k]) => new[j].time <= new[k].time
      BY <1>4, <2>2, MetadataOnLink
    <2>4. PacketFits(c)'
      <3>1. IsQueued("descriptor_visible", c)' /\ IsQueued("ready_visible", c)'
        <4>1. PICK t, r : t = now' /\ r = Rest /\ Sends(t, r, new)
          BY <1>2, <1>5
        <4>2. 1 \in DOMAIN new /\ 2 \in DOMAIN new
          BY <2>3
        <4> QED BY <2>3, <4>1, <4>2, QueuedComes
      <3>2. Awaited(c)' = Awaited(c)
        BY <2>2 DEF Awaited
      <3>3. policy.home = "nic" \/ Awaited(c) = {}
        BY <2>1 DEF Desk, PacketsFit, PacketFits
      <3> QED BY <1>3, <2>2, <3>1, <3>2, <3>3 DEF PacketFits
    <2>5. \A j \in DOMAIN new : EventFits(new[j])'
      <3> TAKE j \in DOMAIN new
      <3>1. PICK e : e = new[j] /\ e.kind \in {"descriptor_visible", "ready_visible"} /\ e.what = c
        BY <2>3
      <3>2. EventFits(e)'
        BY <2>2, <3>1 DEF EventFits
      <3> QED BY <3>1, <3>2
    <2> DEFINE T == {p, c}
    <2>6. Touches(T, Rest)
      <3>1. \A q \in Packets \ T : /\ stage'[q] = stage[q] /\ visible'[q] = visible[q]
                                   /\ pending_payload_lines'[q] = pending_payload_lines[q]
        BY <1>2, <1>3, <1>7, <2>1
      <3>2. \A i \in DOMAIN Rest : ~About(Rest[i], c)
        BY <1>4, <2>1, NoneAbout DEF Desk
      <3> QED BY <1>10, <1>11, <3>1, <3>2 DEF Touches
    <2>7. Brings(T, Rest, new)
      <3>1. \A j \in DOMAIN new : \A q \in Packets : About(new[j], q) => q \in T
        BY <2>3 DEF About, OfPacket
      <3>2. \A j \in DOMAIN new : new[j].kind \notin {"cpu_consume", "release"}
        BY <2>3
      <3> QED BY <2>3, <3>1, <3>2 DEF Brings
    <2>8. T \in SUBSET Packets /\ \A q \in T : PacketFits(q)'
      BY <1>2, <1>9, <2>1, <2>4
    <2> HIDE DEF T
    <2>9. Sends(now', Rest, new)
      BY <1>2, <1>5
    <2>10. EventsApart' /\ EventsFit' /\ PacketsFit'
      BY <1>3, <1>4, <2>5, <2>6, <2>7, <2>8, <2>9, TouchKeeps DEF Desk
    <2> QED BY <1>12, <2>10 DEF Desk
  <1>14. CASE ~Follows(p)
    <2>1. new = <<>>
      BY <1>2, <1>5, <1>14 DEF OnLink
    <2> DEFINE T == {p}
    <2>2. Touches(T, Rest)
      <3>1. \A q \in Packets \ T : /\ stage'[q] = stage[q] /\ visible'[q] = visible[q]
                                   /\ pending_payload_lines'[q] = pending_payload_lines[q]
        BY <1>2, <1>3, <1>7, <1>14
      <3> QED BY <1>10, <1>11, <3>1 DEF Touches
    <2>3. Brings(T, Rest, <<>>)
      BY NothingApart DEF Brings
    <2>4. T \in SUBSET Packets /\ \A q \in T : PacketFits(q)'
      BY <1>2, <1>9
    <2> HIDE DEF T
    <2>5. Sends(now', Rest, <<>>)
      BY <1>2, <1>5, <2>1
    <2>6. EventsApart' /\ EventsFit' /\ PacketsFit'
      BY <1>3, <1>4, <2>2, <2>3, <2>4, <2>5, NothingApart, TouchKeeps DEF Desk
    <2> QED BY <1>12, <2>6 DEF Desk
  <1> QED BY <1>13, <1>14

(* What the CPU takes next.                                                *)
TakesUp(p) ==
    /\ ~cpu_scheduled /\ p \in Packets /\ stage[p] = "ready"
    /\ ~policy.cpu_reorder => SerialOf(p) = next_consume[FlowOf(p)]
    /\ stage' = [stage EXCEPT ![p] = "consuming"] /\ cpu_scheduled' = TRUE
    /\ events' = Schedule(events, Event(now, "cpu_consume", p))

LEMMA TryCpuShape ==
    ASSUME TypeInv, Desk, TryCpu
    PROVE  \/ /\ cpu_scheduled \/ Consumable = {}
              /\ stage' = stage /\ cpu_scheduled' = cpu_scheduled /\ events' = events
           \/ \E p \in Packets : TakesUp(p)
  <1>1. CASE cpu_scheduled \/ Consumable = {}
    BY <1>1 DEF TryCpu, cpu
  <1>2. CASE ~(cpu_scheduled \/ Consumable = {})
    <2>1. PICK p \in Consumable :
            /\ stage' = [stage EXCEPT ![p] = "consuming"] /\ cpu_scheduled' = TRUE
            /\ events' = Schedule(events, Event(now, "cpu_consume", p))
      BY <1>2 DEF TryCpu
    <2>2. p \in Packets /\ stage[p] # "consuming"
      BY <1>2, <2>1 DEF Desk, CpuFits, Consumable
    <2>3. stage[p] = "ready" /\ (~policy.cpu_reorder => SerialOf(p) = next_consume[FlowOf(p)])
      BY <2>1, <2>2 DEF Consumable
    <2> QED BY <1>2, <2>1, <2>2, <2>3 DEF TakesUp
  <1> QED BY <1>1, <1>2

LEMMA TryCpuDesk ==
    ASSUME TypeInv, QueueInv, Desk, TryCpu
    PROVE  Desk'
  <1>1. /\ policy' = policy /\ arrival_ns' = arrival_ns /\ now' = now /\ visible' = visible
        /\ pending_payload_lines' = pending_payload_lines /\ LeftBy(events)
    BY DEF TryCpu, inputs, LeftBy
  <1>2. CASE stage' = stage /\ cpu_scheduled' = cpu_scheduled /\ events' = events
    <2>1. Sends(now', events, <<>>)
      BY <1>2, SendsNone
    <2> QED BY <1>1, <1>2, <2>1, NothingApart, QuietDesk
  <1>3. CASE \E p \in Packets : TakesUp(p)
    <2>1. PICK p \in Packets : TakesUp(p)
      BY <1>3
    <2>2. /\ ~cpu_scheduled /\ stage[p] = "ready" /\ cpu_scheduled' = TRUE
          /\ stage' = [stage EXCEPT ![p] = "consuming"]
          /\ events' = Schedule(events, Event(now, "cpu_consume", p))
      BY <2>1 DEF TakesUp
    <2>3. PICK e : e = Event(now, "cpu_consume", p)
      OBVIOUS
    <2>4. e.kind = "cpu_consume" /\ e.what = p
      BY <2>3 DEF Event
    <2>5. Sends(now', events, <<e>>)
      BY <1>1, <2>2, <2>3, TryCpuSends
    <2>6. DOMAIN stage = Packets
      BY DEF TypeInv
    <2>7. \A q \in Packets : stage'[q] = IF q = p THEN "consuming" ELSE stage[q]
      BY <2>2, <2>6
    <2>8. \A q \in Packets : stage[q] # "consuming"
      BY <2>2 DEF Desk, CpuFits
    <2>9. CpuFits'
      BY <2>2, <2>7, <2>8 DEF CpuFits
    <2>10. \A i \in DOMAIN events : events[i].kind \notin {"cpu_consume", "release"}
      <3> SUFFICES ASSUME NEW i \in DOMAIN events, events[i].kind \in {"cpu_consume", "release"}
                   PROVE  FALSE
        OBVIOUS
      <3>1. events[i] \in Events /\ EventFits(events[i])
        BY EventsTyped DEF Desk, EventsFit
      <3>2. events[i].what \in Packets
        BY <3>1, EventParts DEF OfPacket
      <3> QED BY <2>8, <3>1, <3>2 DEF EventFits
    <2> DEFINE T == {p}
    <2>11. Touches(T, events)
      <3>1. \A i \in DOMAIN events : ~About(events[i], p)
        BY <1>1, <2>2, NoneAbout DEF Desk
      <3> QED BY <1>1, <2>7, <3>1 DEF Touches
    <2>12. DOMAIN <<e>> = {1} /\ <<e>>[1] = e
      OBVIOUS
    <2>13. Brings(T, events, <<e>>)
      <3>1. Apart(<<e>>) /\ ~Announces(e, e)
        BY <2>4, OneApart DEF Announces
      <3> QED BY <2>4, <2>10, <2>12, <3>1 DEF Brings, About, OfPacket
    <2>14. EventFits(e)'
      BY <2>4, <2>7 DEF EventFits
    <2>15. \A j \in DOMAIN <<e>> : EventFits(<<e>>[j])'
      BY <2>12, <2>14
    <2>16. PacketFits(p)'
      <3>1. IsQueued("cpu_consume", p)'
        <4>1. PICK t, old, new : t = now' /\ old = events /\ new = <<e>>
          OBVIOUS
        <4>2. Sends(t, old, new) /\ 1 \in DOMAIN new /\ new[1].kind = "cpu_consume" /\ new[1].what = p
          BY <2>4, <2>5, <2>12, <4>1
        <4> QED BY <4>2, QueuedComes
      <3>2. Awaited(p)' = Awaited(p)
        BY <1>1 DEF Awaited
      <3> QED BY <1>1, <2>2, <2>7, <3>1, <3>2 DEF Desk, PacketsFit, PacketFits, ReadyLine, DescriptorLine, Line
    <2>17. T \in SUBSET Packets /\ \A q \in T : PacketFits(q)'
      BY <2>16
    <2> HIDE DEF T
    <2>18. EventsApart' /\ EventsFit' /\ PacketsFit'
      BY <1>1, <2>5, <2>11, <2>13, <2>15, <2>17, TouchKeeps DEF Desk
    <2> QED BY <2>9, <2>18 DEF Desk
  <1> QED BY <1>2, <1>3, TryCpuShape

LEMMA ConsumeShape ==
    ASSUME TypeInv, QueueInv, FlowsInv, Desk, CpuConsume, NEW p, p = Taken
    PROVE  /\ p \in Packets /\ stage[p] = "consuming" /\ ~FailedConsume(p)
           /\ outcome' = outcome
           /\ \E n \in Nat :
                /\ At <= n
                /\ times' = [times EXCEPT ![p].consume = At, ![p].processed = n]
                /\ Sends(now', Rest, <<Event(n, "release", p)>>)
  <1>1. Take("cpu_consume")
    BY DEF CpuConsume
  <1>2. p \in Packets /\ 1 \in DOMAIN events /\ events[1].kind = "cpu_consume" /\ events[1].what = p
    BY <1>1, TakeTyped DEF OfPacket
  <1>3. stage[p] = "consuming"
    BY <1>2 DEF Desk, EventsFit, EventFits
  <1>4. ~policy.cpu_reorder => SerialOf(p) = next_consume[FlowOf(p)]
    BY <1>2, <1>3 DEF FlowsInv, InFlow
  <1>5. PacketInMemory(p)
    <2>1. {ReadyLine, DescriptorLine} \subseteq visible[p] /\ (policy.home = "nic" \/ Awaited(p) = {})
      BY <1>2, <1>3 DEF Desk, PacketsFit, PacketFits
    <2> QED BY <2>1 DEF PacketInMemory, Awaited
  <1>6. ~FailedConsume(p)
    BY <1>4, <1>5 DEF FailedConsume
  <1>7. outcome' = outcome
    BY <1>6 DEF CpuConsume, FailedConsume
  <1> QED BY <1>2, <1>3, <1>6, <1>7, ConsumeSends

LEMMA ConsumeDesk ==
    ASSUME TypeInv, QueueInv, FlowsInv, Desk, CpuConsume
    PROVE  Desk'
  <1>1. PICK p : p = Taken
    OBVIOUS
  <1>2. p \in Packets /\ stage[p] = "consuming"
    BY <1>1, ConsumeShape
  <1>3. PICK n \in Nat : Sends(now', Rest, <<Event(n, "release", p)>>)
    BY <1>1, ConsumeShape
  <1>4. /\ Take("cpu_consume") /\ policy' = policy /\ arrival_ns' = arrival_ns
        /\ pending_payload_lines' = pending_payload_lines /\ cpu_scheduled' = cpu_scheduled
        /\ stage' = stage /\ visible' = visible
    BY DEF CpuConsume, inputs, cpu
  <1>5. LeftBy(Rest) /\ 1 \in DOMAIN events /\ events[1].kind = "cpu_consume" /\ events[1].what = p
    BY <1>1, <1>4, TakeTyped DEF LeftBy, Take
  <1>6. PICK e : e = Event(n, "release", p)
    OBVIOUS
  <1>7. e.kind = "release" /\ e.what = p
    BY <1>6 DEF Event
  <1>8. Sends(now', Rest, <<e>>) /\ DOMAIN <<e>> = {1} /\ <<e>>[1] = e
    BY <1>3, <1>6
  <1> DEFINE T == {p}
  <1>9. Touches(T, Rest)
    <2>1. \A i \in DOMAIN Rest : ~About(Rest[i], p)
      BY <1>1, <1>4, RestNone DEF Desk
    <2>2. \A q \in Packets \ {p} : ~About(events[1], q)
      BY <1>1, <1>4, HeadAbout DEF OfPacket
    <2> QED BY <1>4, <2>1, <2>2 DEF Touches
  <1>10. \A i \in DOMAIN Rest : Rest[i].kind \notin {"cpu_consume", "release"}
    <2> SUFFICES ASSUME NEW i \in DOMAIN Rest, Rest[i].kind \in {"cpu_consume", "release"}
                 PROVE  FALSE
      OBVIOUS
    <2>1. events # <<>>
      BY <1>4 DEF Take
    <2>2. i + 1 \in DOMAIN events /\ Rest[i] = events[i + 1] /\ i \in Nat /\ i # 0
      BY <2>1, RestTyped
    <2>3. PICK m \in DOMAIN events : m # 1 /\ events[m].kind \in {"cpu_consume", "release"}
      BY <2>2
    <2>4. BothCpu(events[1], events[m])
      BY <1>5, <2>3 DEF BothCpu
    <2> QED BY <1>5, <2>3, <2>4 DEF Desk, EventsApart, Apart
  <1>11. Brings(T, Rest, <<e>>)
    <2>1. Apart(<<e>>) /\ ~Announces(e, e)
      BY <1>7, OneApart DEF Announces
    <2> QED BY <1>7, <1>8, <1>10, <2>1 DEF Brings, About, OfPacket
  <1>12. EventFits(e)'
    BY <1>2, <1>4, <1>7 DEF EventFits
  <1>13. \A j \in DOMAIN <<e>> : EventFits(<<e>>[j])'
    BY <1>8, <1>12
  <1>14. PacketFits(p)'
    <2>1. IsQueued("release", p)'
      <3>1. PICK t, old, new : t = now' /\ old = Rest /\ new = <<e>>
        OBVIOUS
      <3>2. Sends(t, old, new) /\ 1 \in DOMAIN new /\ new[1].kind = "release" /\ new[1].what = p
        BY <1>7, <1>8, <3>1
      <3> QED BY <3>2, QueuedComes
    <2>2. Awaited(p)' = Awaited(p)
      BY <1>4 DEF Awaited
    <2> QED BY <1>2, <1>4, <2>1, <2>2 DEF Desk, PacketsFit, PacketFits, ReadyLine, DescriptorLine, Line
  <1>15. T \in SUBSET Packets /\ \A q \in T : PacketFits(q)'
    BY <1>2, <1>14
  <1>16. CpuFits'
    BY <1>4, CpuKeeps DEF Desk
  <1> HIDE DEF T
  <1>17. EventsApart' /\ EventsFit' /\ PacketsFit'
    BY <1>4, <1>5, <1>8, <1>9, <1>11, <1>13, <1>15, TouchKeeps DEF Desk
  <1> QED BY <1>16, <1>17 DEF Desk

(* The packets of a flow from the next to consume up to serial d, and what *)
(* a packet that is done brings along when it is delivered.                *)
UpTo(p, d) ==
    {q \in Packets : /\ FlowOf(q) = FlowOf(p)
                     /\ next_consume[FlowOf(p)] <= SerialOf(q) /\ SerialOf(q) < d}

IsDelivery(p, d) ==
    /\ next_consume[FlowOf(p)] <= d /\ d <= Count
    /\ Delivery(p) \in Seq(Packets) /\ Len(Delivery(p)) = d - next_consume[FlowOf(p)]
    /\ \A k \in DOMAIN Delivery(p) :
         Delivery(p)[k] = <<FlowOf(p), next_consume[FlowOf(p)] + k - 1>>
    /\ UpTo(p, d) = {Delivery(p)[k] : k \in DOMAIN Delivery(p)}
    /\ \A q \in UpTo(p, d) : q = p \/ stage[q] = "buffered"
    /\ IF SerialOf(p) = next_consume[FlowOf(p)] THEN p \in UpTo(p, d) /\ SerialOf(p) < d
       ELSE UpTo(p, d) = {} /\ d = next_consume[FlowOf(p)] /\ policy.cpu_reorder
    /\ \A q \in Packets :
         FlowOf(q) = FlowOf(p) /\ SerialOf(q) = d /\ q # p => stage[q] # "buffered"
    /\ ~policy.cpu_reorder => UpTo(p, d) = {p} /\ d = next_consume[FlowOf(p)] + 1

LEMMA DeliverySequence ==
    ASSUME TypeInv, NEW p \in Packets, NEW d \in Nat, d <= Count, next_consume[FlowOf(p)] <= d,
           Delivery(p) = [k \in 1..(d - next_consume[FlowOf(p)]) |->
                            <<FlowOf(p), next_consume[FlowOf(p)] + k - 1>>]
    PROVE  /\ Delivery(p) \in Seq(Packets) /\ Len(Delivery(p)) = d - next_consume[FlowOf(p)]
           /\ \A k \in DOMAIN Delivery(p) :
                Delivery(p)[k] = <<FlowOf(p), next_consume[FlowOf(p)] + k - 1>>
           /\ UpTo(p, d) = {Delivery(p)[k] : k \in DOMAIN Delivery(p)}
  <1>1. PICK f \in Flows : f = FlowOf(p)
    BY PacketParts
  <1>2. PICK first \in Nat : first = next_consume[f] /\ first <= d
    BY <1>1 DEF TypeInv
  <1>3. PICK n \in Nat : n = d - first
    BY <1>2
  <1>4. Delivery(p) = [k \in 1..n |-> <<f, first + k - 1>>]
    BY <1>1, <1>2, <1>3
  <1>5. Count \in Nat
    BY Sizes
  <1>6. \A k \in 1..n : <<f, first + k - 1>> \in Packets
    <2> TAKE k \in 1..n
    <2>1. first + k - 1 \in Nat /\ first + k - 1 < Count
      BY <1>2, <1>3, <1>5
    <2> QED BY <2>1, PacketOf
  <1>7. Delivery(p) \in [1..n -> Packets]
    BY <1>4, <1>6
  <1>8. Delivery(p) \in Seq(Packets) /\ DOMAIN Delivery(p) = 1..n /\ Len(Delivery(p)) = n
    <2>1. PICK D : D = Delivery(p)
      OBVIOUS
    <2>2. D \in [1..n -> Packets]
      BY <1>7, <2>1
    <2>3. D \in Seq(Packets) /\ DOMAIN D = 1..n /\ Len(D) = n
      BY <2>2
    <2> QED BY <2>1, <2>3
  <1>9. ASSUME NEW q \in UpTo(p, d) PROVE \E k \in 1..n : q = <<f, first + k - 1>>
    <2>1. q \in Packets /\ FlowOf(q) = f /\ first <= SerialOf(q) /\ SerialOf(q) < d
      BY <1>1, <1>2, <1>9 DEF UpTo
    <2>2. SerialOf(q) \in Nat /\ q = <<f, SerialOf(q)>>
      BY <2>1, PacketParts
    <2>3. PICK k \in Nat : k = SerialOf(q) - first + 1
      BY <2>1, <2>2
    <2>4. k \in 1..n /\ first + k - 1 = SerialOf(q)
      BY <1>2, <1>3, <2>1, <2>2, <2>3
    <2> QED BY <2>2, <2>4
  <1>10. ASSUME NEW k \in 1..n PROVE <<f, first + k - 1>> \in UpTo(p, d)
    <2>1. PICK s \in Nat : s = first + k - 1
      BY <1>2
    <2>2. s < d /\ first <= s /\ s < Count
      BY <1>2, <1>3, <1>5, <2>1
    <2>3. <<f, s>> \in Packets /\ FlowOf(<<f, s>>) = f /\ SerialOf(<<f, s>>) = s
      BY <2>2, PacketOf
    <2> QED BY <1>1, <1>2, <2>1, <2>2, <2>3 DEF UpTo
  <1>11. UpTo(p, d) = {Delivery(p)[k] : k \in DOMAIN Delivery(p)}
    <2>1. \A k \in 1..n : Delivery(p)[k] = <<f, first + k - 1>>
      BY <1>4
    <2>2. UpTo(p, d) = {<<f, first + k - 1>> : k \in 1..n}
      BY <1>9, <1>10
    <2> QED BY <1>8, <2>1, <2>2
  <1> QED BY <1>1, <1>2, <1>3, <1>4, <1>8, <1>11

LEMMA DeliveryIs ==
    ASSUME TypeInv, FlowsInv, NEW p \in Packets, stage[p] = "consuming"
    PROVE  \E d \in Nat : IsDelivery(p, d)
  <1>1. PICK f \in Flows, s \in Nat : f = FlowOf(p) /\ s = SerialOf(p) /\ s < Count /\ p = <<f, s>>
    BY PacketParts
  <1>2. PICK first \in Nat : first = next_consume[f] /\ first <= Count
    BY <1>1 DEF TypeInv, FlowsInv
  <1>3. Count \in Nat
    BY Sizes
  <1>4. first <= s
    BY <1>1, <1>2 DEF FlowsInv, InFlow
  <1>5. \A q \in Packets : stage[q] = "buffered" =>
            policy.cpu_reorder /\ SerialOf(q) # next_consume[FlowOf(q)]
    BY DEF FlowsInv, InFlow
  <1>6. CASE ~policy.cpu_reorder
    <2>1. s = first
      BY <1>1, <1>2, <1>6 DEF FlowsInv, InFlow
    <2>2. PICK d \in Nat : d = first + 1
      OBVIOUS
    <2>3. d <= Count /\ first <= d /\ d - first = 1 /\ first + 1 - 1 = s
      BY <1>1, <1>3, <2>1, <2>2
    <2>4. Delivery(p) = [k \in 1..(d - next_consume[FlowOf(p)]) |->
                            <<FlowOf(p), next_consume[FlowOf(p)] + k - 1>>]
      <3>1. Delivery(p) = <<p>>
        BY <1>6 DEF Delivery
      <3>2. [k \in 1..1 |-> <<f, first + k - 1>>] = <<p>>
        <4>1. \A k \in 1..1 : k = 1
          OBVIOUS
        <4>2. <<p>> = [k \in 1..1 |-> p]
          OBVIOUS
        <4>3. \A k \in 1..1 : <<f, first + k - 1>> = p
          BY <1>1, <2>3, <4>1
        <4> QED BY <4>2, <4>3
      <3> QED BY <1>1, <1>2, <2>3, <3>1, <3>2
    <2>5. /\ Delivery(p) \in Seq(Packets) /\ Len(Delivery(p)) = d - next_consume[FlowOf(p)]
          /\ \A k \in DOMAIN Delivery(p) :
               Delivery(p)[k] = <<FlowOf(p), next_consume[FlowOf(p)] + k - 1>>
          /\ UpTo(p, d) = {Delivery(p)[k] : k \in DOMAIN Delivery(p)}
      BY <1>1, <1>2, <2>3, <2>4, DeliverySequence
    <2>6. UpTo(p, d) = {p}
      <3>1. Delivery(p) = <<p>>
        BY <1>6 DEF Delivery
      <3>2. DOMAIN <<p>> = {1} /\ <<p>>[1] = p
        OBVIOUS
      <3> QED BY <2>5, <3>1, <3>2
    <2>7. \A q \in UpTo(p, d) : q = p
      BY <2>6
    <2>8. SerialOf(p) = next_consume[FlowOf(p)] /\ p \in UpTo(p, d) /\ SerialOf(p) < d
      BY <1>1, <1>2, <2>1, <2>2, <2>6
    <2>9. \A q \in Packets : stage[q] # "buffered"
      BY <1>5, <1>6
    <2>10. next_consume[FlowOf(p)] <= d /\ d = next_consume[FlowOf(p)] + 1
      BY <1>1, <1>2, <2>2, <2>3
    <2> QED BY <2>3, <2>5, <2>6, <2>7, <2>8, <2>9, <2>10 DEF IsDelivery
  <1>7. CASE policy.cpu_reorder
    <2> DEFINE S == {x \in Nat : first <= x /\ HeldUp(p, x)}
    <2>1. Count \in S
      <3>1. <<f, Count>> \notin Packets
        BY <1>3 DEF Packets
      <3> QED BY <1>1, <1>2, <1>3, <3>1 DEF HeldUp
    <2>2. S \in SUBSET Nat /\ S # {}
      BY <2>1
    <2>3. PICK d \in S : \A y \in S : d <= y
      <3> HIDE DEF S
      <3> QED BY <2>2, LeastExists
    <2>4. d \in Nat /\ first <= d /\ HeldUp(p, d) /\ d <= Count
      BY <2>1, <2>3
    <2>5. \A r \in first..(d - 1) : ~HeldUp(p, r)
      <3> SUFFICES ASSUME NEW r \in first..(d - 1), HeldUp(p, r) PROVE FALSE
        OBVIOUS
      <3>1. r \in Nat /\ first <= r /\ r < d
        BY <1>2, <2>4
      <3>2. r \in S
        BY <3>1
      <3> QED BY <2>3, <2>4, <3>1, <3>2
    <2>6. DeliverableUpTo(p) = d
      <3> DEFINE Good(x) == HeldUp(p, x) /\ \A r \in first..(x - 1) : ~HeldUp(p, r)
      <3>1. d \in first..Count /\ Good(d)
        BY <1>2, <1>3, <2>4, <2>5
      <3>2. ASSUME NEW x \in first..Count, Good(x) PROVE x = d
        <4>1. x \in Nat /\ first <= x
          BY <1>2, <1>3
        <4>2. x \in S
          BY <3>2, <4>1
        <4>3. d <= x
          BY <2>3, <4>2
        <4>4. d \in first..(x - 1) => FALSE
          BY <2>4, <3>2
        <4> QED BY <1>2, <2>4, <4>1, <4>3, <4>4
      <3>3. DeliverableUpTo(p) = CHOOSE x \in first..Count : Good(x)
        BY <1>1, <1>2 DEF DeliverableUpTo
      <3> HIDE DEF Good
      <3> QED BY <3>1, <3>2, <3>3
    <2>7. Delivery(p) = [k \in 1..(d - next_consume[FlowOf(p)]) |->
                            <<FlowOf(p), next_consume[FlowOf(p)] + k - 1>>]
      BY <1>7, <2>6 DEF Delivery
    <2> HIDE DEF S
    <2>8. /\ Delivery(p) \in Seq(Packets) /\ Len(Delivery(p)) = d - next_consume[FlowOf(p)]
          /\ \A k \in DOMAIN Delivery(p) :
               Delivery(p)[k] = <<FlowOf(p), next_consume[FlowOf(p)] + k - 1>>
          /\ UpTo(p, d) = {Delivery(p)[k] : k \in DOMAIN Delivery(p)}
      BY <1>1, <1>2, <2>4, <2>7, DeliverySequence
    <2>9. \A q \in UpTo(p, d) : q = p \/ stage[q] = "buffered"
      <3> SUFFICES ASSUME NEW q \in UpTo(p, d) PROVE q = p \/ stage[q] = "buffered"
        OBVIOUS
      <3>1. q \in Packets /\ FlowOf(q) = f /\ first <= SerialOf(q) /\ SerialOf(q) < d
        BY <1>1, <1>2 DEF UpTo
      <3>2. SerialOf(q) \in Nat /\ q = <<f, SerialOf(q)>>
        BY <3>1, PacketParts
      <3>3. SerialOf(q) \in first..(d - 1)
        BY <2>4, <3>1, <3>2
      <3>4. ~HeldUp(p, SerialOf(q))
        BY <2>5, <3>3
      <3> QED BY <1>1, <3>2, <3>4 DEF HeldUp
    <2>10. ASSUME s = first PROVE p \in UpTo(p, d) /\ s < d
      <3>1. ~HeldUp(p, s) => s < d
        <4>1. HeldUp(p, s) => TRUE
          OBVIOUS
        <4>2. d # s \/ HeldUp(p, s)
          BY <2>4
        <4> QED BY <1>1, <1>2, <2>4, <2>10, <4>2
      <3>2. ~HeldUp(p, s)
        BY <1>1 DEF HeldUp
      <3> QED BY <1>1, <1>2, <2>10, <3>1, <3>2 DEF UpTo
    <2>11. ASSUME s # first PROVE UpTo(p, d) = {} /\ d = first
      <3>1. first < s /\ first < Count
        BY <1>1, <1>2, <1>3, <1>4, <2>11
      <3>2. PICK q \in Packets : q = <<f, first>> /\ FlowOf(q) = f /\ SerialOf(q) = first
        BY <1>2, <3>1, PacketOf
      <3>3. stage[q] # "buffered"
        BY <1>2, <1>5, <3>2
      <3>4. HeldUp(p, first)
        BY <1>1, <2>11, <3>2, <3>3 DEF HeldUp
      <3>5. first \in S
        BY <3>4 DEF S
      <3>6. d = first
        BY <1>2, <2>3, <2>4, <3>5
      <3>7. \A q2 \in UpTo(p, d) : FALSE
        <4> SUFFICES ASSUME NEW x \in UpTo(p, d) PROVE FALSE
          OBVIOUS
        <4>1. x \in Packets /\ first <= SerialOf(x) /\ SerialOf(x) < d
          BY <1>1, <1>2 DEF UpTo
        <4>2. SerialOf(x) \in Nat
          BY <4>1, PacketParts
        <4> QED BY <1>2, <3>6, <4>1, <4>2
      <3> QED BY <3>6, <3>7
    <2>12. ASSUME NEW q \in Packets, FlowOf(q) = f, SerialOf(q) = d, q # p
           PROVE  stage[q] # "buffered"
      <3>1. q = <<f, d>>
        BY <2>12, PacketParts
      <3>2. d # s
        BY <1>1, <2>12, <3>1
      <3> QED BY <1>1, <2>4, <3>1, <3>2 DEF HeldUp
    <2> QED BY <1>1, <1>2, <1>7, <2>4, <2>8, <2>9, <2>10, <2>11, <2>12 DEF IsDelivery
  <1> QED BY <1>6, <1>7

Held(p) ==
    cpu_reorder_buffer
    + (IF policy.cpu_reorder /\ SerialOf(p) # next_consume[FlowOf(p)] THEN LinesOf[p] ELSE 0)

(* A packet that is done is delivered with those behind it that wait for   *)
(* it, or waits for others itself.                                         *)
Delivers(p, d) ==
    /\ IsDelivery(p, d)
    /\ stage' = [q \in Packets |-> IF q \in UpTo(p, d) THEN "released"
                                   ELSE IF q = p THEN "buffered" ELSE stage[q]]
    /\ cpu_reorder_buffer' = Held(p) - LinesIn({q \in UpTo(p, d) : stage[q] = "buffered"})
    /\ times' = [q \in Packets |-> IF q \in UpTo(p, d) THEN [times[q] EXCEPT !.delivery = At]
                                   ELSE times[q]]
    /\ next_consume' = [next_consume EXCEPT ![FlowOf(p)] = d]
    /\ delivered' = delivered \o Delivery(p)
    /\ calls' = CallsAfterRelease(p)
    /\ outcome' = outcome

LEMMA ReleaseShape ==
    ASSUME TypeInv, QueueInv, FlowsInv, Desk, Release, NEW p, p = Taken
    PROVE  /\ p \in Packets /\ stage[p] = "consuming"
           /\ nic_buffer' = nic_buffer - LinesOf[p]
           /\ IF policy.use_credit
              THEN /\ credit' = [credit EXCEPT ![FlowOf(p)] = @ - LinesOf[p]]
                   /\ global_credit' = global_credit - LinesOf[p]
              ELSE credit' = credit /\ global_credit' = global_credit
           /\ cpu_scheduled' = FALSE
           /\ \/ /\ outcome' = "overflow" /\ stage' = [stage EXCEPT ![p] = "buffered"]
                 /\ cpu_reorder_buffer' = Held(p) /\ times' = times
                 /\ next_consume' = next_consume /\ delivered' = delivered /\ calls' = calls
              \/ \E d \in Nat : Delivers(p, d)
  <1>1. Take("release")
    BY DEF Release
  <1>2. p \in Packets /\ 1 \in DOMAIN events /\ events[1].kind = "release" /\ events[1].what = p
    BY <1>1, TakeTyped DEF OfPacket
  <1>3. stage[p] = "consuming"
    BY <1>2 DEF Desk, EventsFit, EventFits
  <1>4. PICK d \in Nat : IsDelivery(p, d)
    BY <1>2, <1>3, DeliveryIs
  <1>5. UpTo(p, d) = {Delivery(p)[k] : k \in DOMAIN Delivery(p)}
        /\ Len(Delivery(p)) = d - next_consume[FlowOf(p)]
    BY <1>4 DEF IsDelivery
  <1>6. /\ nic_buffer' = nic_buffer - LinesOf[p]
        /\ IF policy.use_credit
           THEN /\ credit' = [credit EXCEPT ![FlowOf(p)] = @ - LinesOf[p]]
                /\ global_credit' = global_credit - LinesOf[p]
           ELSE credit' = credit /\ global_credit' = global_credit
        /\ cpu_scheduled' = FALSE
    BY DEF Release
  <1>7. CASE Held(p) > config.cpu_reorder_buffer
    BY <1>2, <1>3, <1>6, <1>7 DEF Release, Held, Raise
  <1>8. CASE ~(Held(p) > config.cpu_reorder_buffer)
    <2>1. /\ stage' = [q \in Packets |-> IF q \in UpTo(p, d) THEN "released"
                                         ELSE IF q = p THEN "buffered" ELSE stage[q]]
          /\ cpu_reorder_buffer' = Held(p) - LinesIn({q \in UpTo(p, d) : stage[q] = "buffered"})
          /\ times' = [q \in Packets |-> IF q \in UpTo(p, d) THEN [times[q] EXCEPT !.delivery = At]
                                         ELSE times[q]]
          /\ next_consume' = [next_consume EXCEPT ![FlowOf(p)] = @ + Len(Delivery(p))]
          /\ delivered' = delivered \o Delivery(p)
          /\ calls' = CallsAfterRelease(p)
          /\ outcome' = outcome
      BY <1>5, <1>8 DEF Release, Held
    <2>2. next_consume[FlowOf(p)] \in Nat /\ FlowOf(p) \in Flows
      BY <1>2, PacketParts DEF TypeInv
    <2>3. next_consume[FlowOf(p)] + Len(Delivery(p)) = d
      BY <1>5, <2>2
    <2>4. next_consume' = [next_consume EXCEPT ![FlowOf(p)] = d]
      BY <2>1, <2>3
    <2>5. Delivers(p, d)
      BY <1>4, <2>1, <2>4 DEF Delivers
    <2> QED BY <1>2, <1>3, <1>6, <2>5
  <1> QED BY <1>7, <1>8

LEMMA ReleaseDesk ==
    ASSUME TypeInv, QueueInv, FlowsInv, Desk, Release, Running'
    PROVE  Desk'
  <1>1. PICK p : p = Taken
    OBVIOUS
  <1>2. p \in Packets /\ stage[p] = "consuming" /\ cpu_scheduled' = FALSE
    BY <1>1, ReleaseShape
  <1>3. PICK d \in Nat : Delivers(p, d)
    BY <1>1, ReleaseShape DEF Running
  <1>4. /\ Take("release") /\ policy' = policy /\ arrival_ns' = arrival_ns
        /\ pending_payload_lines' = pending_payload_lines /\ visible' = visible
        /\ events' = Rest
    BY DEF Release, inputs
  <1>5. LeftBy(Rest)
    BY <1>4, TakeTyped DEF LeftBy, Take
  <1>6. Sends(now', Rest, <<>>)
    BY <1>4, TakeSends
  <1>7. \A q \in Packets : stage'[q] = IF q \in UpTo(p, d) THEN "released"
                                       ELSE IF q = p THEN "buffered" ELSE stage[q]
    BY <1>3 DEF Delivers
  <1>8. UpTo(p, d) \in SUBSET Packets /\ \A q \in UpTo(p, d) : q = p \/ stage[q] = "buffered"
    BY <1>3 DEF Delivers, IsDelivery, UpTo
  <1> DEFINE T == {p} \cup UpTo(p, d)
  <1>9. Touches(T, Rest)
    <2>1. \A i \in DOMAIN Rest : ~About(Rest[i], p)
      BY <1>1, <1>4, RestNone DEF Desk
    <2>2. ASSUME NEW q \in UpTo(p, d), q # p PROVE \A i \in DOMAIN Rest : ~About(Rest[i], q)
      BY <1>5, <1>8, <2>2, NoneAbout DEF Desk
    <2>3. \A q \in Packets \ {p} : ~About(events[1], q)
      BY <1>1, <1>4, HeadAbout DEF OfPacket
    <2> QED BY <1>4, <1>7, <2>1, <2>2, <2>3 DEF Touches
  <1>10. Brings(T, Rest, <<>>)
    BY NothingApart DEF Brings
  <1>11. ASSUME NEW q \in T PROVE PacketFits(q)'
    <2>1. q \in Packets /\ stage[q] \in {"consuming", "buffered"}
      BY <1>2, <1>8
    <2>2. policy.home = "nic" \/ Awaited(q) = {}
      BY <2>1 DEF Desk, PacketsFit, PacketFits
    <2>3. Awaited(q)' = Awaited(q)
      BY <1>4 DEF Awaited
    <2>4. stage'[q] \in {"released", "buffered"}
      BY <1>7, <2>1
    <2> QED BY <1>4, <2>2, <2>3, <2>4 DEF PacketFits
  <1>12. CpuFits'
    <2>1. \A q \in Packets : stage[q] = "consuming" => q = p
      BY <1>2 DEF Desk, CpuFits
    <2>2. \A q \in Packets : stage'[q] # "consuming"
      BY <1>7, <2>1
    <2> QED BY <1>2, <2>2 DEF CpuFits
  <1>13. T \in SUBSET Packets /\ \A q \in T : PacketFits(q)'
    BY <1>2, <1>8, <1>11
  <1> HIDE DEF T
  <1>14. EventsApart' /\ EventsFit' /\ PacketsFit'
    BY <1>4, <1>5, <1>6, <1>9, <1>10, <1>13, NothingApart, TouchKeeps DEF Desk
  <1> QED BY <1>12, <1>14 DEF Desk

LEMMA IssueCall ==
    ASSUME TypeInv, CallsInv, InCall("issue")
    PROVE  \E p \in Packets :
             /\ calls = <<Call("issue", p)>> /\ Head(calls).packet = p
             /\ Tail(calls) = <<>>
             /\ stage[p] = "arrived" /\ ~policy.reorder_before_push
  <1>1. calls # <<>> /\ Head(calls).name = "issue"
    BY DEF InCall
  <1>2. PICK p \in Packets :
        \/ ~policy.reorder_before_push /\ calls = <<Call("issue", p)>> /\ stage[p] = "arrived"
        \/ policy.reorder_before_push /\ calls = <<Call("try_issue", p)>>
        \/ calls = <<Call("try_issue", p), Call("try_cpu", p)>>
        \/ calls = <<Call("try_cpu", p)>>
    BY <1>1 DEF CallsInv
  <1>3. \A n, m, x : /\ Head(<<Call(n, x)>>) = Call(n, x)
                     /\ Head(<<Call(n, x), m>>) = Call(n, x)
                     /\ Call(n, x).name = n /\ Call(n, x).packet = x
                     /\ Tail(<<Call(n, x)>>) = <<>>
    BY DEF Call
  <1>4. ~policy.reorder_before_push /\ calls = <<Call("issue", p)>> /\ stage[p] = "arrived"
    BY <1>1, <1>2, <1>3
  <1> QED BY <1>3, <1>4

(* What _try_issue finds: nothing that may be issued, or the next of a     *)
(* flow, which has arrived.                                                *)
Issues(p) ==
    /\ policy.reorder_before_push /\ stage[p] = "arrived"
    /\ SerialOf(p) = next_issue[FlowOf(p)] /\ FitsCredit(FlowOf(p))
    /\ FlowOf(p) \in Considered(FlowOf(Head(calls).packet))
    /\ Issue(p)
    /\ next_issue' = [next_issue EXCEPT ![FlowOf(p)] = @ + 1]
    /\ calls' = calls

LEMMA IssuableIs ==
    ASSUME TypeInv, FlowsInv, NEW f \in Flows, policy.reorder_before_push, Issuable(f)
    PROVE  \E p \in Packets : /\ p = NextPacket(f) /\ FlowOf(p) = f /\ SerialOf(p) = next_issue[f]
                              /\ stage[p] = "arrived"
  <1>1. PICK p \in Packets : p = NextPacket(f) /\ stage[p] # "coming"
    BY DEF Issuable
  <1>2. FlowOf(p) = f /\ SerialOf(p) = next_issue[f]
    BY <1>1 DEF NextPacket, FlowOf, SerialOf
  <1>3. next_issue[f] \in Nat
    BY DEF TypeInv
  <1>4. stage[p] \in {"coming", "arrived"}
    BY <1>2, <1>3 DEF FlowsInv, InFlow
  <1> QED BY <1>1, <1>2, <1>4

LEMMA TryIssueShape ==
    ASSUME TypeInv, FlowsInv, TryIssue
    PROVE  /\ calls # <<>> /\ Head(calls).packet \in Packets /\ Head(calls).name = "try_issue"
           /\ Considered(FlowOf(Head(calls).packet)) \subseteq Flows
           /\ \/ /\ policy.reorder_before_push =>
                      \A f \in Considered(FlowOf(Head(calls).packet)) : ~Issuable(f)
                 /\ calls' = Tail(calls)
                 /\ UNCHANGED <<packets, books, events, link_available_ps, line_counts, outcome>>
              \/ \E p \in Packets : Issues(p)
  <1>1. calls # <<>> /\ Head(calls).packet \in Packets /\ Head(calls).name = "try_issue"
    BY CallTyped DEF TryIssue, InCall
  <1>2. Considered(FlowOf(Head(calls).packet)) \subseteq Flows
    BY <1>1, PacketParts DEF Considered
  <1> DEFINE candidates == {f \in Considered(FlowOf(Head(calls).packet)) :
                              policy.reorder_before_push /\ Issuable(f)}
  <1>3. CASE candidates = {}
    <2>1. /\ calls' = Tail(calls)
          /\ UNCHANGED <<packets, books, events, link_available_ps, line_counts, outcome>>
      BY <1>3 DEF TryIssue, Return
    <2>2. policy.reorder_before_push =>
            \A f \in Considered(FlowOf(Head(calls).packet)) : ~Issuable(f)
      BY <1>3
    <2> QED BY <1>1, <1>2, <2>1, <2>2
  <1>4. CASE candidates # {}
    <2>1. PICK f \in candidates :
            /\ Issue(NextPacket(f))
            /\ next_issue' = [next_issue EXCEPT ![f] = @ + 1]
            /\ calls' = calls
      BY <1>4 DEF TryIssue
    <2>2. /\ f \in Considered(FlowOf(Head(calls).packet)) /\ f \in Flows
          /\ policy.reorder_before_push /\ Issuable(f)
      BY <1>2
    <2>3. PICK p \in Packets : /\ p = NextPacket(f) /\ FlowOf(p) = f /\ SerialOf(p) = next_issue[f]
                               /\ stage[p] = "arrived"
      BY <2>2, IssuableIs
    <2>4. FitsCredit(f)
      BY <2>2 DEF Issuable
    <2>5. Issues(p)
      BY <2>1, <2>2, <2>3, <2>4 DEF Issues
    <2> QED BY <1>1, <1>2, <2>5
  <1> QED BY <1>3, <1>4

LEMMA DeskNext ==
    ASSUME TypeInv, QueueInv, FlowsInv, CallsInv, Desk, Next, Running, Running'
    PROVE  Desk'
  <1>1. ASSUME NEW kind \in {"withdraw", "gate_apply", "background", "gate_sample"},
               Take(kind), stage' = stage, visible' = visible,
               policy' = policy, arrival_ns' = arrival_ns,
               pending_payload_lines' = pending_payload_lines, cpu_scheduled' = cpu_scheduled,
               NEW new, Sends(now', Rest, new),
               \A j \in DOMAIN new : new[j].kind \notin OfPacket \cup {"payload_visible"}
        PROVE  Desk'
    <2>1. LeftBy(Rest) /\ events[1].kind \notin OfPacket \cup {"payload_visible"}
      BY <1>1, TakeTyped DEF LeftBy, Take, OfPacket
    <2> QED BY <1>1, <2>1, QuietDesk
  <1>2. CASE Arrival
    BY <1>2, ArrivalDesk
  <1>3. CASE IssueAtOnce
    <2>1. PICK p \in Packets : Head(calls).packet = p /\ stage[p] = "arrived"
      BY <1>3, IssueCall DEF IssueAtOnce
    <2> QED BY <1>3, <2>1, IssueDesk DEF IssueAtOnce, UnchangedByIssue, inputs, cpu
  <1>4. CASE TryIssue
    <2>0. policy' = policy /\ arrival_ns' = arrival_ns /\ now' = now /\ cpu_scheduled' = cpu_scheduled
      BY <1>4 DEF TryIssue, inputs, cpu
    <2>1. CASE UNCHANGED <<packets, books, events, link_available_ps, line_counts, outcome>>
      <3>1. Sends(now', events, <<>>) /\ LeftBy(events)
        BY <2>0, <2>1, SendsNone DEF LeftBy
      <3> QED BY <2>0, <2>1, <3>1, NothingApart, QuietDesk DEF packets
    <2>2. CASE \E p \in Packets : Issues(p)
      <3>1. visible' = visible
        BY <1>4 DEF TryIssue, packets
      <3>2. PICK p \in Packets : stage[p] = "arrived" /\ Issue(p)
        BY <2>2 DEF Issues
      <3> QED BY <2>0, <3>1, <3>2, IssueDesk
    <2> QED BY <1>4, <2>1, <2>2, TryIssueShape
  <1>5. CASE PayloadVisible
    BY <1>5, PayloadDesk
  <1>6. CASE DescriptorVisible
    BY <1>6, DescriptorDesk
  <1>7. CASE ReadyVisible
    BY <1>7, ReadyDesk
  <1>8. CASE TryCpu
    BY <1>8, TryCpuDesk
  <1>9. CASE CpuConsume
    BY <1>9, ConsumeDesk
  <1>10. CASE Release
    BY <1>10, ReleaseDesk
  <1>11. CASE Withdraw
    <2>1. Sends(now', Rest, <<>>)
      BY <1>11, TakeSends DEF Withdraw
    <2> QED BY <1>1, <1>11, <2>1, NothingApart DEF Withdraw, inputs, packets, cpu
  <1>12. CASE Background
    <2>1. PICK new : /\ Sends(now', Rest, new)
                     /\ \A j \in DOMAIN new : new[j].kind \notin OfPacket \cup {"payload_visible"}
      <3>1. PICK new : new = Again("background", config.background)
        OBVIOUS
      <3>2. /\ Sends(now', Rest, new)
            /\ \A j \in DOMAIN new : new[j].kind = "background"
        BY <1>12, <3>1, BackgroundSends
      <3> QED BY <3>2 DEF OfPacket
    <2> QED BY <1>1, <1>12, <2>1 DEF Background, inputs, packets, cpu
  <1>13. CASE GateSample
    <2>1. PICK enabled \in BOOLEAN :
            /\ Sends(now', Rest, SampleSends(enabled))
            /\ \A k \in DOMAIN SampleSends(enabled) :
                 IF DiffersFromRequest(enabled) /\ k = 1
                 THEN SampleSends(enabled)[k] = Event(At + config.control_latency, "gate_apply", enabled)
                 ELSE SampleSends(enabled)[k].kind = "gate_sample"
      BY <1>13, GateSends
    <2>2. PICK new : new = SampleSends(enabled)
      OBVIOUS
    <2>3. \A j \in DOMAIN new : new[j].kind \notin OfPacket \cup {"payload_visible"}
      BY <2>1, <2>2 DEF Event, OfPacket
    <2>4. Sends(now', Rest, new)
      BY <2>1, <2>2
    <2> QED BY <1>1, <1>13, <2>3, <2>4 DEF GateSample, inputs, packets, cpu
  <1>14. CASE GateApply
    <2>1. Sends(now', Rest, <<>>)
      BY <1>14, TakeSends DEF GateApply
    <2> QED BY <1>1, <1>14, <2>1, NothingApart DEF GateApply, inputs, packets, cpu
  <1>15. Finish => FALSE
    BY DEF Finish, Raise, Running
  <1>16. Fail => FALSE
    BY DEF Fail, Raise, Running
  <1>17. Ended => FALSE
    BY DEF Ended
  <1> QED BY <1>2, <1>3, <1>4, <1>5, <1>6, <1>7, <1>8, <1>9, <1>10, <1>11, <1>12, <1>13,
             <1>14, <1>15, <1>16, <1>17 DEF Next

--------------------------------------------------------------------------------
(* Where packets stand in their flows.                                     *)

LEMMA FlowStays ==
    ASSUME NEW p \in Packets, InFlow(p), policy' = policy, stage'[p] = stage[p],
           next_consume'[FlowOf(p)] = next_consume[FlowOf(p)],
           next_publish'[FlowOf(p)] = next_publish[FlowOf(p)],
           next_issue'[FlowOf(p)] = next_issue[FlowOf(p)],
           calls' = calls \/ stage[p] # "arrived" \/ policy.reorder_before_push
    PROVE  InFlow(p)'
  BY DEF InFlow

(* Under a policy that issues at once, only the packet whose turn it is    *)
(* waits for it.                                                           *)
LEMMA NoneArrived ==
    ASSUME TypeInv, FlowsInv, ~policy.reorder_before_push,
           calls = <<>> \/ (calls # <<>> /\ Head(calls).name # "issue")
    PROVE  \A p \in Packets : stage[p] # "arrived"
  <1> SUFFICES ASSUME NEW p \in Packets, stage[p] = "arrived" PROVE FALSE
    OBVIOUS
  <1>1. calls = <<Call("issue", p)>>
    BY DEF FlowsInv, InFlow
  <1>2. Head(calls).name = "issue" /\ calls # <<>>
    BY <1>1 DEF Call
  <1> QED BY <1>2

LEMMA SamePlace ==
    ASSUME NEW p \in Packets, NEW q \in Packets, FlowOf(p) = FlowOf(q), SerialOf(p) = SerialOf(q)
    PROVE  p = q
  BY PacketParts

LEMMA NextTyped ==
    ASSUME TypeInv, NEW p \in Packets
    PROVE  /\ next_consume[FlowOf(p)] \in Nat /\ next_publish[FlowOf(p)] \in Nat
           /\ next_issue[FlowOf(p)] \in Nat
           /\ FlowOf(p) \in Flows /\ SerialOf(p) \in Nat /\ SerialOf(p) < Count /\ Count \in Nat
           /\ DOMAIN next_consume = Flows /\ DOMAIN next_publish = Flows /\ DOMAIN next_issue = Flows
  BY PacketParts, Sizes DEF TypeInv

(* A packet that is issued: it is on its way, or complete.                 *)
LEMMA IssuedInFlow ==
    ASSUME TypeInv, FlowsInv, NEW p \in Packets, stage[p] = "arrived",
           policy' = policy, next_consume' = next_consume, next_publish' = next_publish,
           stage'[p] = "issued" \/ stage'[p] = Completed(p),
           policy.reorder_before_push => ~(next_issue'[FlowOf(p)] <= SerialOf(p))
    PROVE  InFlow(p)'
  <1>1. InFlow(p)
    BY DEF FlowsInv
  <1>3. CASE stage'[p] = "issued"
    BY <1>1, <1>3 DEF InFlow
  <1>4. CASE stage'[p] = Completed(p)
    BY <1>1, <1>4 DEF InFlow, Completed, InTurn
  <1> QED BY <1>3, <1>4

LEMMA FlowsIssue ==
    ASSUME TypeInv, FlowsInv, NEW p \in Packets, stage[p] = "arrived", Issue(p),
           policy' = policy, next_consume' = next_consume, next_publish' = next_publish,
           IF policy.reorder_before_push
           THEN /\ SerialOf(p) = next_issue[FlowOf(p)]
                /\ next_issue' = [next_issue EXCEPT ![FlowOf(p)] = @ + 1]
           ELSE next_issue' = next_issue /\ calls = <<Call("issue", p)>>
    PROVE  FlowsInv'
  <1>0. DOMAIN stage = Packets
    BY DEF TypeInv
  <1>1. \A q \in Packets : q # p => stage'[q] = stage[q]
    BY <1>0, IssueShape
  <1>2. stage'[p] = "issued" \/ stage'[p] = Completed(p)
    BY <1>0, IssueShape
  <1>3. policy.reorder_before_push => ~(next_issue'[FlowOf(p)] <= SerialOf(p))
    BY NextTyped
  <1>4. InFlow(p)'
    BY <1>2, <1>3, IssuedInFlow
  <1>5. ASSUME NEW q \in Packets, q # p PROVE InFlow(q)'
    <2>1. InFlow(q)
      BY DEF FlowsInv
    <2>2. CASE policy.reorder_before_push
      <3>1. CASE FlowOf(q) # FlowOf(p)
        <4>1. next_issue'[FlowOf(q)] = next_issue[FlowOf(q)]
          BY <2>2, <3>1, NextTyped
        <4> QED BY <1>1, <1>5, <2>1, <2>2, <4>1, FlowStays
      <3>2. CASE FlowOf(q) = FlowOf(p)
        <4>1. SerialOf(q) # next_issue[FlowOf(q)]
          BY <1>5, <2>2, <3>2, SamePlace
        <4>2. next_issue'[FlowOf(q)] = next_issue[FlowOf(q)] + 1
          BY <2>2, <3>2, NextTyped
        <4>3. next_issue'[FlowOf(q)] <= SerialOf(q) <=> next_issue[FlowOf(q)] <= SerialOf(q)
          BY <4>1, <4>2, NextTyped
        <4> QED BY <1>1, <1>5, <2>1, <2>2, <4>3 DEF InFlow
      <3> QED BY <3>1, <3>2
    <2>3. CASE ~policy.reorder_before_push
      <3>1. stage[q] # "arrived"
        <4> SUFFICES ASSUME stage[q] = "arrived" PROVE FALSE
          OBVIOUS
        <4>1. <<Call("issue", p)>> = <<Call("issue", q)>>
          BY <2>1, <2>3 DEF InFlow
        <4>2. Call("issue", p) = Call("issue", q)
          BY <4>1
        <4>3. Call("issue", p).packet = p /\ Call("issue", q).packet = q
          BY DEF Call
        <4> QED BY <1>5, <4>2, <4>3
      <3> QED BY <1>1, <1>5, <2>1, <2>3, <3>1, FlowStays
    <2> QED BY <2>2, <2>3
  <1>6. \A f \in Flows : next_consume'[f] <= Count
    BY DEF FlowsInv
  <1> QED BY <1>4, <1>5, <1>6 DEF FlowsInv

LEMMA FlowsReady ==
    ASSUME TypeInv, QueueInv, FlowsInv, Desk, ReadyVisible
    PROVE  FlowsInv'
  <1>1. PICK p : p = Taken
    OBVIOUS
  <1>2. /\ p \in Packets /\ stage[p] = "publishing"
        /\ IF policy.cpu_reorder THEN next_publish' = next_publish
           ELSE /\ SerialOf(p) = next_publish[FlowOf(p)]
                /\ next_publish' = [next_publish EXCEPT ![FlowOf(p)] = @ + 1]
        /\ SuccessorOf(p) # p
        /\ stage' = [q \in Packets |-> IF q = p THEN "ready"
                                       ELSE IF Follows(p) /\ q = SuccessorOf(p) THEN "publishing"
                                       ELSE stage[q]]
    BY <1>1, ReadyShape
  <1>3. /\ policy' = policy /\ next_consume' = next_consume /\ next_issue' = next_issue
        /\ calls = <<>>
    BY DEF ReadyVisible, inputs, books, Take, Between
  <1>4. \A q \in Packets : policy.reorder_before_push \/ stage[q] # "arrived"
    BY <1>3, NoneArrived
  <1>5. ASSUME NEW q \in Packets PROVE InFlow(q)'
    <2>0. InFlow(q) /\ InFlow(p)
      BY <1>2 DEF FlowsInv
    <2>1. CASE policy.cpu_reorder
      <3>1. stage'[q] = IF q = p THEN "ready" ELSE stage[q]
        BY <1>2, <2>1 DEF Follows
      <3>2. CASE q # p
        BY <1>2, <1>3, <1>4, <2>0, <2>1, <3>1, <3>2, FlowStays
      <3>3. CASE q = p
        BY <1>2, <1>3, <2>0, <2>1, <3>1, <3>3 DEF InFlow
      <3> QED BY <3>2, <3>3
    <2>2. CASE ~policy.cpu_reorder /\ FlowOf(q) # FlowOf(p)
      <3>1. q # p /\ q # SuccessorOf(p)
        BY <2>2 DEF SuccessorOf, FlowOf
      <3>2. stage'[q] = stage[q] /\ next_publish'[FlowOf(q)] = next_publish[FlowOf(q)]
        BY <1>2, <2>2, <3>1, NextTyped
      <3> QED BY <1>3, <1>4, <2>0, <3>2, FlowStays
    <2>3. CASE ~policy.cpu_reorder /\ FlowOf(q) = FlowOf(p)
      <3>0. PICK f \in Flows, n \in Nat, s \in Nat :
              /\ f = FlowOf(p) /\ f = FlowOf(q) /\ n = next_publish[f] /\ s = SerialOf(q)
              /\ n = SerialOf(p) /\ next_consume[f] \in Nat /\ next_issue[f] \in Nat
        BY <1>2, <2>3, NextTyped
      <3>1. next_publish'[f] = n + 1
        BY <1>2, <2>3, <3>0, NextTyped
      <3>2. CASE q = p
        <4>1. stage'[q] = "ready"
          BY <1>2, <3>2
        <4>2. s = n /\ s < n + 1
          BY <3>0, <3>2
        <4> QED BY <1>2, <1>3, <2>0, <2>3, <3>0, <3>1, <3>2, <4>1, <4>2 DEF InFlow
      <3>3. CASE q # p /\ s = n + 1
        <4>1. q = SuccessorOf(p)
          BY <3>0, <3>3, PacketParts DEF SuccessorOf
        <4>2. stage[q] \notin {"publishing", "ready", "consuming", "released"}
          BY <2>0, <2>3, <3>0, <3>3 DEF InFlow
        <4>3. stage'[q] = IF stage[q] = "complete" THEN "publishing" ELSE stage[q]
          BY <1>2, <2>3, <3>3, <4>1 DEF Follows
        <4>4. ~(s < n + 1) /\ ~(s < n)
          BY <3>0, <3>3
        <4> QED BY <1>2, <1>3, <1>4, <2>0, <2>3, <3>0, <3>1, <3>3, <4>2, <4>3, <4>4 DEF InFlow
      <3>4. CASE q # p /\ s # n + 1
        <4>1. s # n
          BY <1>2, <3>0, <3>4, SamePlace
        <4>2. q # SuccessorOf(p)
          <5>1. SerialOf(SuccessorOf(p)) = n + 1
            BY <3>0 DEF SuccessorOf, SerialOf
          <5> QED BY <3>0, <3>4, <5>1
        <4>3. stage'[q] = stage[q]
          BY <1>2, <3>4, <4>2
        <4>4. s < n + 1 <=> s < n
          BY <3>0, <4>1
        <4> QED BY <1>3, <1>4, <2>0, <2>3, <3>0, <3>1, <3>4, <4>1, <4>3, <4>4 DEF InFlow
      <3> QED BY <3>2, <3>3, <3>4
    <2> QED BY <2>1, <2>2, <2>3
  <1> QED BY <1>3, <1>5 DEF FlowsInv

LEMMA FlowsRelease ==
    ASSUME TypeInv, QueueInv, FlowsInv, Desk, Release, Running'
    PROVE  FlowsInv'
  <1>1. PICK p : p = Taken
    OBVIOUS
  <1>2. p \in Packets /\ stage[p] = "consuming" /\ \E d \in Nat : Delivers(p, d)
    BY <1>1, ReleaseShape DEF Running
  <1>3. PICK d \in Nat : Delivers(p, d)
    BY <1>2
  <1>4. PICK f \in Flows, first \in Nat : f = FlowOf(p) /\ first = next_consume[f]
    BY <1>2, NextTyped
  <1>5. /\ first <= d /\ d <= Count /\ UpTo(p, d) \in SUBSET Packets
        /\ \A q \in UpTo(p, d) : q = p \/ stage[q] = "buffered"
        /\ IF SerialOf(p) = first THEN p \in UpTo(p, d) /\ SerialOf(p) < d
           ELSE UpTo(p, d) = {} /\ d = first /\ policy.cpu_reorder
        /\ \A q \in Packets : FlowOf(q) = f /\ SerialOf(q) = d /\ q # p => stage[q] # "buffered"
        /\ ~policy.cpu_reorder => UpTo(p, d) = {p} /\ d = first + 1
    BY <1>3, <1>4 DEF Delivers, IsDelivery, UpTo
  <1>6. /\ \A q \in Packets : stage'[q] = IF q \in UpTo(p, d) THEN "released"
                                          ELSE IF q = p THEN "buffered" ELSE stage[q]
        /\ next_consume' = [next_consume EXCEPT ![f] = d]
    BY <1>3, <1>4 DEF Delivers
  <1>7. /\ policy' = policy /\ next_publish' = next_publish /\ next_issue' = next_issue
        /\ calls = <<>>
    BY DEF Release, inputs, Take, Between
  <1>8. \A q \in Packets : policy.reorder_before_push \/ stage[q] # "arrived"
    BY <1>7, NoneArrived
  <1>9. ASSUME NEW q \in Packets PROVE InFlow(q)'
    <2>0. InFlow(q) /\ InFlow(p)
      BY <1>2 DEF FlowsInv
    <2>1. CASE FlowOf(q) # f
      <3>1. q # p /\ q \notin UpTo(p, d)
        BY <1>4, <2>1 DEF UpTo
      <3>2. stage'[q] = stage[q] /\ next_consume'[FlowOf(q)] = next_consume[FlowOf(q)]
        BY <1>6, <2>1, <3>1, NextTyped
      <3> QED BY <1>7, <1>8, <2>0, <3>2, FlowStays
    <2>2. CASE FlowOf(q) = f
      <3>0. PICK s \in Nat : s = SerialOf(q)
        BY NextTyped
      <3>1. next_consume'[f] = d
        BY <1>6, <1>4, NextTyped
      <3>2. q \in UpTo(p, d) <=> first <= s /\ s < d
        BY <1>4, <2>2, <3>0 DEF UpTo
      <3>3. CASE q \in UpTo(p, d)
        <4>1. stage'[q] = "released" /\ stage[q] \in {"consuming", "buffered"}
          BY <1>2, <1>5, <1>6, <3>3
        <4>2. s < d
          BY <3>2, <3>3
        <4>3. ~policy.cpu_reorder => q = p
          BY <1>5, <3>3
        <4>4. stage'[q] \notin {"coming", "arrived"} /\ stage[q] \notin {"coming", "arrived"}
          BY <4>1
        <4> QED BY <1>2, <1>7, <2>0, <2>2, <3>0, <3>1, <4>1, <4>2, <4>3, <4>4 DEF InFlow
      <3>4. CASE q \notin UpTo(p, d) /\ q = p
        <4>1. stage'[q] = "buffered" /\ stage[q] = "consuming"
          BY <1>2, <1>6, <3>4
        <4>2. s # first /\ d = first /\ policy.cpu_reorder
          BY <1>5, <3>0, <3>4
        <4>3. ~(s < first)
          BY <1>4, <2>0, <2>2, <3>0, <4>1 DEF InFlow
        <4> QED BY <1>4, <1>7, <2>0, <2>2, <3>0, <3>1, <4>1, <4>2, <4>3 DEF InFlow
      <3>5. CASE q \notin UpTo(p, d) /\ q # p
        <4>1. stage'[q] = stage[q]
          BY <1>6, <3>5
        <4>2. s < first \/ d <= s
          BY <3>2, <3>5
        <4>3. s < d <=> s < first
          BY <1>5, <4>2
        <4>4. stage[q] = "buffered" => s # d
          BY <1>5, <2>2, <3>0, <3>5
        <4>5. ~policy.cpu_reorder => stage[q] # "consuming"
          BY <1>2, <3>5 DEF Desk, CpuFits
        <4>6. stage[q] = "released" <=> s < d
          BY <1>4, <2>0, <2>2, <3>0, <4>3 DEF InFlow
        <4> QED BY <1>7, <1>8, <2>0, <2>2, <3>0, <3>1, <4>1, <4>4, <4>5, <4>6 DEF InFlow
      <3> QED BY <3>3, <3>4, <3>5
    <2> QED BY <2>1, <2>2
  <1>10. \A g \in Flows : next_consume'[g] <= Count
    <2> TAKE g \in Flows
    <2>1. next_consume[g] <= Count
      BY DEF FlowsInv
    <2>2. DOMAIN next_consume = Flows
      BY DEF TypeInv
    <2> QED BY <1>5, <1>6, <2>1, <2>2
  <1> QED BY <1>9, <1>10 DEF FlowsInv

(* A step that changes the stage of one packet, between stages before its  *)
(* turn to be published.                                                   *)
LEMMA FlowsCompleted ==
    ASSUME TypeInv, FlowsInv, policy' = policy, next_consume' = next_consume,
           next_publish' = next_publish, next_issue' = next_issue,
           calls' = calls \/ \A q \in Packets : policy.reorder_before_push \/ stage[q] # "arrived",
           NEW p \in Packets, stage[p] = "issued", stage'[p] \in {"issued", Completed(p)},
           \A q \in Packets : q # p => stage'[q] = stage[q]
    PROVE  FlowsInv'
  <1>1. \A q \in Packets : q # p => InFlow(q)'
    BY FlowStays DEF FlowsInv
  <1>2. InFlow(p)'
    <2>1. InFlow(p)
      BY DEF FlowsInv
    <2>2. CASE stage'[p] = "issued"
      BY <2>1, <2>2, FlowStays
    <2>3. CASE stage'[p] = Completed(p)
      BY <2>1, <2>3 DEF InFlow, Completed, InTurn
    <2> QED BY <2>2, <2>3
  <1> QED BY <1>1, <1>2 DEF FlowsInv

LEMMA FlowsQuiet ==
    ASSUME TypeInv, FlowsInv, policy' = policy, next_consume' = next_consume,
           next_publish' = next_publish, next_issue' = next_issue, stage' = stage,
           calls' = calls \/ \A q \in Packets : policy.reorder_before_push \/ stage[q] # "arrived"
    PROVE  FlowsInv'
  <1>1. \A q \in Packets : InFlow(q)'
    BY FlowStays DEF FlowsInv
  <1> QED BY <1>1 DEF FlowsInv

LEMMA FlowsArrival ==
    ASSUME TypeInv, QueueInv, FlowsInv, Desk, Arrival, Running'
    PROVE  FlowsInv'
  <1>1. PICK p : p = Taken
    OBVIOUS
  <1>2. p \in Packets /\ stage[p] = "coming"
    BY <1>1, TakeTyped, ArrivalDesk DEF Arrival, OfPacket
  <1>3. /\ policy' = policy /\ next_publish' = next_publish /\ next_issue' = next_issue
        /\ next_consume' = next_consume /\ calls = <<>>
        /\ stage' = [stage EXCEPT ![p] = "arrived"]
        /\ calls' = <<Call(IF policy.reorder_before_push THEN "try_issue" ELSE "issue", p)>>
    BY <1>1 DEF Arrival, inputs, books, Take, Between, Raise, Running
  <1>4. DOMAIN stage = Packets
    BY DEF TypeInv
  <1>5. \A q \in Packets : policy.reorder_before_push \/ stage[q] # "arrived"
    BY <1>3, NoneArrived
  <1>6. InFlow(p)'
    <2>1. InFlow(p)
      BY <1>2 DEF FlowsInv
    <2>2. stage'[p] = "arrived"
      BY <1>2, <1>3, <1>4
    <2> QED BY <1>2, <1>3, <2>1, <2>2 DEF InFlow
  <1>7. \A q \in Packets : q # p => InFlow(q)'
    BY <1>3, <1>4, <1>5, FlowStays DEF FlowsInv
  <1> QED BY <1>3, <1>6, <1>7 DEF FlowsInv

LEMMA FlowsTryCpu ==
    ASSUME TypeInv, FlowsInv, Desk, TryCpu
    PROVE  FlowsInv'
  <1>1. /\ policy' = policy /\ next_publish' = next_publish /\ next_issue' = next_issue
        /\ next_consume' = next_consume /\ calls # <<>> /\ Head(calls).name = "try_cpu"
    BY DEF TryCpu, inputs, books, InCall
  <1>2. \A q \in Packets : policy.reorder_before_push \/ stage[q] # "arrived"
    BY <1>1, NoneArrived
  <1>3. CASE stage' = stage
    BY <1>1, <1>2, <1>3, FlowsQuiet
  <1>4. CASE \E p \in Packets : TakesUp(p)
    <2>1. PICK p \in Packets : TakesUp(p)
      BY <1>4
    <2>2. /\ stage[p] = "ready" /\ stage' = [stage EXCEPT ![p] = "consuming"]
          /\ ~policy.cpu_reorder => SerialOf(p) = next_consume[FlowOf(p)]
      BY <2>1 DEF TakesUp
    <2>3. DOMAIN stage = Packets
      BY DEF TypeInv
    <2>4. \A q \in Packets : q # p => InFlow(q)'
      BY <1>1, <1>2, <2>2, <2>3, FlowStays DEF FlowsInv
    <2>5. InFlow(p)'
      <3>1. InFlow(p)
        BY DEF FlowsInv
      <3>2. stage'[p] = "consuming"
        BY <2>2, <2>3
      <3> QED BY <1>1, <2>2, <3>1, <3>2 DEF InFlow
    <2> QED BY <1>1, <2>4, <2>5 DEF FlowsInv
  <1> QED BY <1>3, <1>4, TryCpuShape

LEMMA FlowsNext ==
    ASSUME TypeInv, QueueInv, FlowsInv, CallsInv, Desk, Next, Running, Running'
    PROVE  FlowsInv'
  <1>1. ASSUME policy' = policy, next_consume' = next_consume, next_publish' = next_publish,
               next_issue' = next_issue, stage' = stage, calls' = calls
        PROVE  FlowsInv'
    BY <1>1, FlowsQuiet
  <1>2. CASE Arrival
    BY <1>2, FlowsArrival
  <1>3. CASE IssueAtOnce
    <2>1. PICK p \in Packets :
            /\ calls = <<Call("issue", p)>> /\ Head(calls).packet = p
            /\ stage[p] = "arrived" /\ ~policy.reorder_before_push
      BY <1>3, IssueCall DEF IssueAtOnce
    <2> QED BY <1>3, <2>1, FlowsIssue DEF IssueAtOnce, UnchangedByIssue, inputs
  <1>4. CASE TryIssue
    <2>0. policy' = policy /\ next_consume' = next_consume /\ next_publish' = next_publish
      BY <1>4 DEF TryIssue, inputs
    <2>1. CASE UNCHANGED <<packets, books, events, link_available_ps, line_counts, outcome>>
      <3>1. calls # <<>> /\ Head(calls).name = "try_issue"
        BY <1>4, TryIssueShape
      <3>2. \A q \in Packets : policy.reorder_before_push \/ stage[q] # "arrived"
        BY <3>1, NoneArrived
      <3> QED BY <2>0, <2>1, <3>2, FlowsQuiet DEF packets, books
    <2>2. CASE \E p \in Packets : Issues(p)
      <3>1. PICK p \in Packets :
              /\ stage[p] = "arrived" /\ Issue(p) /\ policy.reorder_before_push
              /\ SerialOf(p) = next_issue[FlowOf(p)]
              /\ next_issue' = [next_issue EXCEPT ![FlowOf(p)] = @ + 1]
        BY <2>2 DEF Issues
      <3> QED BY <2>0, <3>1, FlowsIssue
    <2> QED BY <1>4, <2>1, <2>2, TryIssueShape
  <1>5. CASE PayloadVisible
    <2>0. /\ policy' = policy /\ next_consume' = next_consume /\ next_publish' = next_publish
          /\ next_issue' = next_issue /\ calls' = calls
      BY <1>5 DEF PayloadVisible, inputs, books
    <2>1. DOMAIN stage = Packets
      BY DEF TypeInv
    <2>2. PICK p \in Packets :
             /\ stage[p] = "issued"
             /\ stage' = [stage EXCEPT ![p] = Completed(p)] \/ stage' = stage
      BY <1>5, PayloadShape
    <2>3. stage'[p] \in {"issued", Completed(p)} /\ \A q \in Packets : q # p => stage'[q] = stage[q]
      BY <2>1, <2>2
    <2> QED BY <2>0, <2>2, <2>3, FlowsCompleted
  <1>6. CASE DescriptorVisible
    BY <1>1, <1>6 DEF DescriptorVisible, inputs, books
  <1>7. CASE ReadyVisible
    BY <1>7, FlowsReady
  <1>8. CASE TryCpu
    BY <1>8, FlowsTryCpu
  <1>9. CASE CpuConsume
    BY <1>1, <1>9 DEF CpuConsume, inputs, books
  <1>10. CASE Release
    BY <1>10, FlowsRelease
  <1>11. CASE Withdraw
    BY <1>1, <1>11 DEF Withdraw, inputs, books, packets
  <1>12. CASE Background
    BY <1>1, <1>12 DEF Background, inputs, books, packets
  <1>13. CASE GateSample
    BY <1>1, <1>13 DEF GateSample, inputs, books, packets
  <1>14. CASE GateApply
    BY <1>1, <1>14 DEF GateApply, inputs, books, packets
  <1>15. Finish => FALSE
    BY DEF Finish, Raise, Running
  <1>16. Fail => FALSE
    BY DEF Fail, Raise, Running
  <1>17. Ended => FALSE
    BY DEF Ended
  <1> QED BY <1>2, <1>3, <1>4, <1>5, <1>6, <1>7, <1>8, <1>9, <1>10, <1>11, <1>12, <1>13,
             <1>14, <1>15, <1>16, <1>17 DEF Next

--------------------------------------------------------------------------------
(* What a handler still calls.                                             *)

LEMMA CallsShape ==
    ASSUME TypeInv, CallsInv, calls # <<>>
    PROVE  \E p \in Packets :
             /\ Head(calls).packet = p
             /\ \/ /\ ~policy.reorder_before_push /\ calls = <<Call("issue", p)>>
                   /\ stage[p] = "arrived" /\ Head(calls).name = "issue" /\ Tail(calls) = <<>>
                \/ /\ policy.reorder_before_push /\ calls = <<Call("try_issue", p)>>
                   /\ Head(calls).name = "try_issue" /\ Tail(calls) = <<>>
                \/ /\ calls = <<Call("try_issue", p), Call("try_cpu", p)>>
                   /\ Head(calls).name = "try_issue" /\ Tail(calls) = <<Call("try_cpu", p)>>
                \/ /\ calls = <<Call("try_cpu", p)>>
                   /\ Head(calls).name = "try_cpu" /\ Tail(calls) = <<>>
  <1>1. \A n, m, x : /\ Head(<<Call(n, x)>>) = Call(n, x)
                     /\ Head(<<Call(n, x), m>>) = Call(n, x)
                     /\ Call(n, x).name = n /\ Call(n, x).packet = x
                     /\ Tail(<<Call(n, x)>>) = <<>> /\ Tail(<<Call(n, x), m>>) = <<m>>
    BY DEF Call
  <1>2. PICK p \in Packets :
        \/ ~policy.reorder_before_push /\ calls = <<Call("issue", p)>> /\ stage[p] = "arrived"
        \/ policy.reorder_before_push /\ calls = <<Call("try_issue", p)>>
        \/ calls = <<Call("try_issue", p), Call("try_cpu", p)>>
        \/ calls = <<Call("try_cpu", p)>>
    BY DEF CallsInv
  <1>3. PICK issue, try_issue, try_cpu :
          issue = Call("issue", p) /\ try_issue = Call("try_issue", p) /\ try_cpu = Call("try_cpu", p)
    OBVIOUS
  <1>4. /\ issue.name = "issue" /\ try_issue.name = "try_issue" /\ try_cpu.name = "try_cpu"
        /\ issue.packet = p /\ try_issue.packet = p /\ try_cpu.packet = p
    BY <1>1, <1>3
  <1>5. /\ Head(<<issue>>) = issue /\ Tail(<<issue>>) = <<>>
        /\ Head(<<try_issue>>) = try_issue /\ Tail(<<try_issue>>) = <<>>
        /\ Head(<<try_cpu>>) = try_cpu /\ Tail(<<try_cpu>>) = <<>>
        /\ Head(<<try_issue, try_cpu>>) = try_issue /\ Tail(<<try_issue, try_cpu>>) = <<try_cpu>>
    OBVIOUS
  <1> QED BY <1>2, <1>3, <1>4, <1>5

LEMMA CallsNext ==
    ASSUME TypeInv, QueueInv, FlowsInv, CallsInv, Desk, Next, Running, Running'
    PROVE  CallsInv'
  <1>1. ASSUME calls' = <<>> PROVE CallsInv'
    BY <1>1 DEF CallsInv
  <1>2. ASSUME NEW kind, Take(kind), calls' = calls PROVE CallsInv'
    BY <1>1, <1>2 DEF Take, Between
  <1>3. CASE Arrival
    <2>1. PICK p : p = Taken
      OBVIOUS
    <2>2. p \in Packets
      BY <1>3, <2>1, TakeTyped DEF Arrival, OfPacket
    <2>3. /\ policy' = policy /\ stage' = [stage EXCEPT ![p] = "arrived"]
          /\ calls' = <<Call(IF policy.reorder_before_push THEN "try_issue" ELSE "issue", p)>>
      BY <1>3, <2>1 DEF Arrival, inputs, Raise, Running
    <2>4. stage'[p] = "arrived"
      BY <2>2, <2>3 DEF TypeInv
    <2> QED BY <2>2, <2>3, <2>4 DEF CallsInv
  <1>4. CASE IssueAtOnce
    BY <1>1, <1>4, IssueCall DEF IssueAtOnce, Return
  <1>5. CASE TryIssue
    <2>1. /\ calls # <<>> /\ Head(calls).name = "try_issue"
          /\ calls' = calls \/ calls' = Tail(calls)
      BY <1>5, TryIssueShape DEF Issues
    <2>2. PICK p \in Packets :
                \/ /\ policy.reorder_before_push /\ calls = <<Call("try_issue", p)>>
                   /\ Tail(calls) = <<>>
                \/ /\ calls = <<Call("try_issue", p), Call("try_cpu", p)>>
                   /\ Tail(calls) = <<Call("try_cpu", p)>>
      BY <2>1, CallsShape
    <2>3. policy' = policy
      BY <1>5 DEF TryIssue, inputs
    <2> QED BY <1>1, <2>1, <2>2, <2>3 DEF CallsInv
  <1>6. CASE PayloadVisible
    BY <1>2, <1>6 DEF PayloadVisible
  <1>7. CASE DescriptorVisible
    BY <1>2, <1>7 DEF DescriptorVisible
  <1>8. CASE ReadyVisible
    <2>1. PICK p : p = Taken
      OBVIOUS
    <2>2. p \in Packets /\ calls' = <<Call("try_cpu", p)>>
      BY <1>8, <2>1, ReadyShape
    <2> QED BY <2>2 DEF CallsInv
  <1>9. CASE TryCpu
    <2>1. calls # <<>> /\ Head(calls).name = "try_cpu" /\ calls' = Tail(calls)
      BY <1>9 DEF TryCpu, InCall, Return
    <2> QED BY <1>1, <2>1, CallsShape
  <1>10. CASE CpuConsume
    BY <1>2, <1>10 DEF CpuConsume
  <1>11. CASE Release
    <2>1. PICK p : p = Taken
      OBVIOUS
    <2>2. p \in Packets /\ calls' = CallsAfterRelease(p)
      BY <1>11, <2>1, ReleaseShape DEF Running, Delivers
    <2> QED BY <2>2 DEF CallsInv, CallsAfterRelease
  <1>12. CASE Withdraw
    BY <1>2, <1>12 DEF Withdraw
  <1>13. CASE Background
    BY <1>2, <1>13 DEF Background
  <1>14. CASE GateSample
    BY <1>2, <1>14 DEF GateSample
  <1>15. CASE GateApply
    BY <1>2, <1>15 DEF GateApply
  <1>16. Finish => FALSE
    BY DEF Finish, Raise, Running
  <1>17. Fail => FALSE
    BY DEF Fail, Raise, Running
  <1>18. Ended => FALSE
    BY DEF Ended
  <1> QED BY <1>3, <1>4, <1>5, <1>6, <1>7, <1>8, <1>9, <1>10, <1>11, <1>12, <1>13,
             <1>14, <1>15, <1>16, <1>17, <1>18 DEF Next

--------------------------------------------------------------------------------
(* Types.                                                                  *)

LEMMA Opened ==
    ASSUME TypeInv
    PROVE  /\ stage \in [Packets -> Stages] /\ pending_payload_lines \in [Packets -> Int]
           /\ visible \in [Packets -> SUBSET [kind : {"payload", "descriptor", "ready"}, what : Nat]]
           /\ times \in [Packets -> AllTimes]
           /\ DOMAIN stage = Packets /\ DOMAIN pending_payload_lines = Packets
           /\ DOMAIN visible = Packets /\ DOMAIN times = Packets
           /\ credit \in [Flows -> Int] /\ global_credit \in Int
           /\ nic_buffer \in Int /\ cpu_reorder_buffer \in Int
  BY DEF TypeInv

(* Updates of what is kept of each packet.                                 *)
LEMMA TimesTyped ==
    ASSUME NEW t \in [Packets -> AllTimes], NEW p \in Packets, NEW n \in Int, NEW m \in Int
    PROVE  /\ [t EXCEPT ![p].issue = n] \in [Packets -> AllTimes]
           /\ [t EXCEPT ![p].ready = n] \in [Packets -> AllTimes]
           /\ [t EXCEPT ![p].consume = n, ![p].processed = m] \in [Packets -> AllTimes]
  <1>1. \A q \in Packets :
          /\ [t[q] EXCEPT !.issue = n] \in AllTimes
          /\ [t[q] EXCEPT !.ready = n] \in AllTimes
          /\ [t[q] EXCEPT !.consume = n] \in AllTimes
          /\ [t[q] EXCEPT !.delivery = n] \in AllTimes
    BY DEF AllTimes
  <1>2. \A x \in AllTimes : [x EXCEPT !.processed = m] \in AllTimes
    BY DEF AllTimes
  <1>3. [t EXCEPT ![p].consume = n, ![p].processed = m]
          = [t EXCEPT ![p] = [[t[p] EXCEPT !.consume = n] EXCEPT !.processed = m]]
    OBVIOUS
  <1> QED BY <1>1, <1>2, <1>3

LEMMA DeliveryTyped ==
    ASSUME NEW t \in [Packets -> AllTimes], NEW n \in Int, NEW S
    PROVE  [q \in Packets |-> IF q \in S THEN [t[q] EXCEPT !.delivery = n] ELSE t[q]]
             \in [Packets -> AllTimes]
  <1>1. \A q \in Packets : [t[q] EXCEPT !.delivery = n] \in AllTimes
    BY DEF AllTimes
  <1> QED BY <1>1

LEMMA VisibleTyped ==
    ASSUME TypeInv, NEW p \in Packets, NEW line,
           line \in {ReadyLine, DescriptorLine} \/ \E k \in Nat : line = PayloadLine(k)
    PROVE  [visible EXCEPT ![p] = @ \cup {line}]
             \in [Packets -> SUBSET [kind : {"payload", "descriptor", "ready"}, what : Nat]]
  <1>1. line \in [kind : {"payload", "descriptor", "ready"}, what : Nat]
    BY DEF ReadyLine, DescriptorLine, PayloadLine, Line
  <1> QED BY <1>1, Opened

LEMMA QueueTyped ==
    ASSUME TypeInv, QueueInv, Next
    PROVE  /\ events' \in Seq(Events) /\ now' \in Nat /\ link_available_ps' \in Nat
           /\ policy' \in Policies /\ config' \in Configs /\ arrival_ns' \in [Packets -> Nat]
  <1>1. policy' \in Policies /\ config' \in Configs /\ arrival_ns' \in [Packets -> Nat]
    BY InputsKept DEF TypeInv
  <1>2. CASE Background
    BY <1>1, <1>2, BackgroundSends, TakeTyped DEF Background, Sends, TypeInv
  <1>3. CASE GateSample
    BY <1>1, <1>3, GateSends, TakeTyped DEF GateSample, Sends, TypeInv
  <1>4. CASE ~Background /\ ~GateSample
    <2>1. PICK old, new : Sends(now', old, new) /\ LeftBy(old)
      BY <1>4, StepQueue
    <2>2. now' \in Nat
      BY <2>1, RestTyped DEF LeftBy, TypeInv
    <2> QED BY <1>1, <1>4, <2>1, <2>2, StepQueue DEF Sends
  <1> QED BY <1>2, <1>3, <1>4

Outcomes == {"running", "passed", "raised", "overflow", "drained", "deadline"}

(* The types of what a step may change besides the queue.                  *)
Typed ==
    /\ calls \in Seq(CallSet)
    /\ stage \in [Packets -> Stages]
    /\ pending_payload_lines \in [Packets -> Int]
    /\ visible \in [Packets -> SUBSET [kind : {"payload", "descriptor", "ready"}, what : Nat]]
    /\ times \in [Packets -> AllTimes]
    /\ next_issue \in [Flows -> Nat] /\ next_publish \in [Flows -> Nat]
    /\ next_consume \in [Flows -> Nat]
    /\ credit \in [Flows -> Int] /\ global_credit \in Int
    /\ issue_round_robin \in Int /\ cpu_round_robin \in Int
    /\ cpu_scheduled \in BOOLEAN
    /\ nic_buffer \in Int /\ cpu_reorder_buffer \in Int
    /\ delivered \in Seq(Packets)
    /\ gate_requested \in BOOLEAN /\ gate_push_enabled \in BOOLEAN
    /\ withdrawals \in [Classes -> Int]
    /\ outcome \in Outcomes

LEMMA TypedNow ==
    ASSUME TypeInv
    PROVE  Typed
  BY DEF TypeInv, Typed, Outcomes

LEMMA IssueTyped ==
    ASSUME TypeInv, FlowsInv, NEW p \in Packets, stage[p] = "arrived", Issue(p)
    PROVE  /\ stage' \in [Packets -> Stages] /\ pending_payload_lines' \in [Packets -> Int]
           /\ times' \in [Packets -> AllTimes]
           /\ credit' \in [Flows -> Int] /\ global_credit' \in Int /\ outcome' = outcome
  <1>1. LinesOf[p] \in Int /\ FlowOf(p) \in Flows /\ now \in Int
    BY Sizes, PacketParts DEF TypeInv
  <1>2. "issued" \in Stages /\ Completed(p) \in Stages
    BY DEF Stages, Completed
  <1>3. times' = [times EXCEPT ![p].issue = now]
    BY IssueShape
  <1>4. times' \in [Packets -> AllTimes]
    BY <1>1, <1>3, Opened, TimesTyped
  <1>5. stage' \in [Packets -> Stages] /\ pending_payload_lines' \in [Packets -> Int]
    BY <1>1, <1>2, Opened, IssueShape
  <1>6. credit' \in [Flows -> Int] /\ global_credit' \in Int
    BY <1>1, Opened, IssueShape
  <1> QED BY <1>4, <1>5, <1>6, IssueShape

LEMMA CallSeqs ==
    ASSUME NEW p \in Packets
    PROVE  /\ <<Call("issue", p)>> \in Seq(CallSet) /\ <<Call("try_issue", p)>> \in Seq(CallSet)
           /\ <<Call("try_cpu", p)>> \in Seq(CallSet) /\ CallsAfterRelease(p) \in Seq(CallSet)
  BY DEF Call, CallSet, CallsAfterRelease

LEMMA TypedIssue ==
    ASSUME TypeInv, FlowsInv, CallsInv, IssueAtOnce \/ TryIssue
    PROVE  Typed'
  <1>0. Typed
    BY TypedNow
  <1>1. CASE IssueAtOnce
    <2>1. PICK p \in Packets : Head(calls).packet = p /\ stage[p] = "arrived"
      BY <1>1, IssueCall DEF IssueAtOnce
    <2>2. Issue(p)
      BY <1>1, <2>1 DEF IssueAtOnce
    <2>3. calls' \in Seq(CallSet)
      BY <1>1, CallTyped DEF IssueAtOnce, InCall, Return
    <2> QED BY <1>0, <1>1, <2>1, <2>2, <2>3, IssueTyped
            DEF IssueAtOnce, UnchangedByIssue, Typed, cpu, buffers, gate
  <1>2. CASE TryIssue
    <2>1. CASE UNCHANGED <<packets, books, events, link_available_ps, line_counts, outcome>>
      <3>1. calls' = calls \/ (calls # <<>> /\ calls' = Tail(calls))
        BY <1>2, TryIssueShape DEF Issues
      <3>2. calls' \in Seq(CallSet)
        BY <3>1, CallTyped DEF TypeInv
      <3> QED BY <1>0, <1>2, <2>1, <3>2 DEF TryIssue, Typed, packets, books, cpu, buffers, gate
    <2>2. CASE \E p \in Packets : Issues(p)
      <3>1. PICK p \in Packets : Issues(p)
        BY <2>2
      <3>2. /\ stage[p] = "arrived" /\ Issue(p) /\ calls' = calls
            /\ next_issue' = [next_issue EXCEPT ![FlowOf(p)] = @ + 1]
        BY <3>1 DEF Issues
      <3>3. next_issue' \in [Flows -> Nat]
        <4>1. next_issue \in [Flows -> Nat]
          BY DEF TypeInv
        <4>2. FlowOf(p) \in Flows /\ next_issue[FlowOf(p)] \in Nat
          BY NextTyped
        <4> QED BY <3>2, <4>1, <4>2
      <3>4. issue_round_robin' \in Int
        <4>1. Considered(FlowOf(Head(calls).packet)) \subseteq Flows
          BY <1>2, TryIssueShape
        <4>2. issue_round_robin' = issue_round_robin \/ \E f \in Flows : issue_round_robin' = (f + 1) % NumFlows
          BY <1>2, <4>1 DEF TryIssue, books
        <4>3. NumFlows \in Nat /\ NumFlows > 0 /\ Flows \subseteq Nat
          BY Sizes DEF Flows
        <4>4. \A f \in Flows : (f + 1) % NumFlows \in Int
          BY <4>3
        <4> QED BY <4>2, <4>4 DEF TypeInv
      <3>5. visible' = visible
        BY <1>2 DEF TryIssue, packets
      <3> QED BY <1>0, <1>2, <3>2, <3>3, <3>4, <3>5, IssueTyped
              DEF TryIssue, Typed, cpu, buffers, gate
    <2> QED BY <1>2, <2>1, <2>2, TryIssueShape
  <1> QED BY <1>1, <1>2

LEMMA TypedLines ==
    ASSUME TypeInv, QueueInv, FlowsInv, Desk, PayloadVisible \/ DescriptorVisible \/ ReadyVisible
    PROVE  Typed'
  <1>0. Typed
    BY TypedNow
  <1>1. CASE PayloadVisible
    <2>1. PICK p \in Packets, k \in Nat :
             /\ Taken = <<p, k>>
             /\ visible' = [visible EXCEPT ![p] = @ \cup {PayloadLine(k)}]
             /\ pending_payload_lines' = [pending_payload_lines EXCEPT ![p] = LeftOf(p)]
             /\ stage' = [stage EXCEPT ![p] = Completed(p)] \/ stage' = stage
      BY <1>1, PayloadShape
    <2>2. stage' \in [Packets -> Stages]
      <3>1. Completed(p) \in Stages
        BY DEF Stages, Completed
      <3> QED BY <2>1, <3>1, Opened
    <2>3. pending_payload_lines' \in [Packets -> Int]
      <3>1. LeftOf(p) \in Int
        BY Opened DEF LeftOf
      <3> QED BY <2>1, <3>1, Opened
    <2>4. visible' \in [Packets -> SUBSET [kind : {"payload", "descriptor", "ready"}, what : Nat]]
      BY <2>1, VisibleTyped
    <2>5. withdrawals' \in [Classes -> Int]
      <3>1. At \in Nat /\ Taken \in Packets \X Nat
        BY <1>1, TakeTyped DEF PayloadVisible, OfLine
      <3>2. WithdrawLater(Taken) \in Seq(Events)
        BY <3>1, WithdrawTyped
      <3>3. PICK n \in Int : n = Len(WithdrawLater(Taken))
        BY <3>2
      <3>4. withdrawals' = [withdrawals EXCEPT !.scheduled = @ + n]
        BY <1>1, <3>3 DEF PayloadVisible
      <3>5. withdrawals \in [Classes -> Int] /\ "scheduled" \in Classes
        BY DEF TypeInv, Classes
      <3> QED BY <3>4, <3>5
    <2> QED BY <1>0, <1>1, <2>2, <2>3, <2>4, <2>5 DEF PayloadVisible, Typed, books, cpu, buffers, gate
  <1>2. CASE DescriptorVisible
    <2>1. Taken \in Packets
      BY <1>2, TakeTyped DEF DescriptorVisible, OfPacket
    <2>2. visible' \in [Packets -> SUBSET [kind : {"payload", "descriptor", "ready"}, what : Nat]]
      BY <1>2, <2>1, VisibleTyped DEF DescriptorVisible
    <2> QED BY <1>0, <1>2, <2>2 DEF DescriptorVisible, Typed, books, cpu, buffers, gate
  <1>3. CASE ReadyVisible
    <2>1. PICK p : p = Taken
      OBVIOUS
    <2>2. /\ p \in Packets
          /\ calls' = <<Call("try_cpu", p)>> /\ outcome' = outcome
          /\ times' = [times EXCEPT ![p].ready = At]
          /\ visible' = [visible EXCEPT ![p] = @ \cup {ReadyLine}]
          /\ next_publish' = [next_publish EXCEPT ![FlowOf(p)] = @ + 1] \/ next_publish' = next_publish
          /\ stage' = [q \in Packets |-> IF q = p THEN "ready"
                                          ELSE IF Follows(p) /\ q = SuccessorOf(p) THEN "publishing"
                                          ELSE stage[q]]
      BY <1>3, <2>1, ReadyShape
    <2>3. At \in Int
      BY <1>3, TakeTyped DEF ReadyVisible
    <2>4. times' \in [Packets -> AllTimes]
      BY <2>2, <2>3, Opened, TimesTyped
    <2>5. visible' \in [Packets -> SUBSET [kind : {"payload", "descriptor", "ready"}, what : Nat]]
      BY <2>2, VisibleTyped
    <2>6. stage' \in [Packets -> Stages]
      <3>1. "ready" \in Stages /\ "publishing" \in Stages
        BY DEF Stages
      <3> QED BY <2>2, <3>1, Opened
    <2>7. next_publish' \in [Flows -> Nat]
      <3>1. next_publish \in [Flows -> Nat]
        BY DEF TypeInv
      <3>2. FlowOf(p) \in Flows /\ next_publish[FlowOf(p)] \in Nat
        BY <2>2, NextTyped
      <3> QED BY <2>2, <3>1, <3>2
    <2>8. calls' \in Seq(CallSet)
      BY <2>2, CallSeqs
    <2> QED BY <1>0, <1>3, <2>2, <2>4, <2>5, <2>6, <2>7, <2>8
            DEF ReadyVisible, Typed, books, cpu, buffers, gate
  <1> QED BY <1>1, <1>2, <1>3

LEMMA TypedCpu ==
    ASSUME TypeInv, QueueInv, FlowsInv, Desk, TryCpu \/ CpuConsume
    PROVE  Typed'
  <1>0. Typed
    BY TypedNow
  <1>1. CASE TryCpu
    <2>1. stage' \in [Packets -> Stages] /\ cpu_scheduled' \in BOOLEAN
      <3>1. "consuming" \in Stages /\ cpu_scheduled \in BOOLEAN
        BY DEF Stages, TypeInv
      <3>2. \/ stage' = stage /\ cpu_scheduled' = cpu_scheduled
            \/ \E p \in Packets : stage' = [stage EXCEPT ![p] = "consuming"] /\ cpu_scheduled' = TRUE
        BY <1>1, TryCpuShape DEF TakesUp
      <3>3. CASE stage' = stage /\ cpu_scheduled' = cpu_scheduled
        BY <3>1, <3>3, Opened, Zenon
      <3>4. CASE \E p \in Packets : stage' = [stage EXCEPT ![p] = "consuming"] /\ cpu_scheduled' = TRUE
        BY <3>1, <3>4, Opened
      <3> QED BY <3>2, <3>3, <3>4
    <2>2. cpu_round_robin' \in Int
      <3>1. \/ cpu_round_robin' = cpu_round_robin
            \/ \E p \in Packets : cpu_round_robin' = (FlowOf(p) + 1) % NumFlows
        BY <1>1 DEF TryCpu, cpu, Consumable
      <3>2. \A p \in Packets : (FlowOf(p) + 1) % NumFlows \in Int
        BY Sizes, PacketParts
      <3> QED BY <3>1, <3>2 DEF TypeInv
    <2>3. calls' \in Seq(CallSet)
      BY <1>1, CallTyped DEF TryCpu, InCall, Return
    <2> QED BY <1>0, <1>1, <2>1, <2>2, <2>3 DEF TryCpu, Typed, books, buffers, gate
  <1>2. CASE CpuConsume
    <2>1. PICK p : p = Taken
      OBVIOUS
    <2>2. p \in Packets /\ outcome' = outcome
          /\ \E n \in Nat : times' = [times EXCEPT ![p].consume = At, ![p].processed = n]
      BY <1>2, <2>1, ConsumeShape
    <2>3. At \in Int
      BY <1>2, TakeTyped DEF CpuConsume
    <2>4. times' \in [Packets -> AllTimes]
      <3>1. PICK n \in Nat : times' = [times EXCEPT ![p].consume = At, ![p].processed = n]
        BY <2>2
      <3>2. PICK m \in Int : m = At
        BY <2>3
      <3>3. p \in Packets /\ times \in [Packets -> AllTimes] /\ n \in Int
        BY <2>2, Opened
      <3>4. [times EXCEPT ![p].consume = m, ![p].processed = n] \in [Packets -> AllTimes]
        BY <3>3, TimesTyped
      <3> QED BY <3>1, <3>2, <3>4
    <2> QED BY <1>0, <1>2, <2>2, <2>4 DEF CpuConsume, Typed, books, cpu, buffers, gate
  <1> QED BY <1>1, <1>2

LEMMA TypedRelease ==
    ASSUME TypeInv, QueueInv, FlowsInv, Desk, Release
    PROVE  Typed'
  <1>0. Typed
    BY TypedNow
  <1>1. PICK p : p = Taken
    OBVIOUS
  <1>2. /\ p \in Packets
        /\ nic_buffer' = nic_buffer - LinesOf[p]
        /\ \/ /\ credit' = [credit EXCEPT ![FlowOf(p)] = @ - LinesOf[p]]
              /\ global_credit' = global_credit - LinesOf[p]
           \/ credit' = credit /\ global_credit' = global_credit
        /\ cpu_scheduled' = FALSE
        /\ \/ /\ outcome' = "overflow" /\ stage' = [stage EXCEPT ![p] = "buffered"]
              /\ cpu_reorder_buffer' = Held(p) /\ times' = times
              /\ next_consume' = next_consume /\ delivered' = delivered /\ calls' = calls
           \/ \E d \in Nat : Delivers(p, d)
    BY <1>1, ReleaseShape
  <1>3. LinesOf[p] \in Int /\ FlowOf(p) \in Flows /\ At \in Int
    BY <1>2, Sizes, PacketParts, TakeTyped DEF Release
  <1>4. /\ nic_buffer' \in Int /\ credit' \in [Flows -> Int] /\ global_credit' \in Int
        /\ cpu_scheduled' \in BOOLEAN
    <2>0. /\ nic_buffer' = nic_buffer - LinesOf[p] /\ cpu_scheduled' = FALSE
          /\ global_credit' = global_credit - LinesOf[p] \/ global_credit' = global_credit
      BY <1>2
    <2>1. nic_buffer' \in Int /\ global_credit' \in Int
      BY <1>3, <2>0, Opened
    <2>4. cpu_scheduled' \in BOOLEAN
      BY <2>0, Zenon
    <2>2. credit[FlowOf(p)] - LinesOf[p] \in Int
      BY <1>3, Opened
    <2>3. credit' \in [Flows -> Int]
      BY <1>2, <2>2, Opened
    <2> QED BY <2>1, <2>3, <2>4
  <1>5. Held(p) \in Int
    BY <1>3, Opened DEF Held
  <1>6. "buffered" \in Stages /\ "released" \in Stages
    BY DEF Stages
  <1>7. /\ cpu_reorder_buffer' \in Int /\ stage' \in [Packets -> Stages]
        /\ times' \in [Packets -> AllTimes] /\ next_consume' \in [Flows -> Nat]
        /\ delivered' \in Seq(Packets) /\ calls' \in Seq(CallSet) /\ outcome' \in Outcomes
    <2>1. CASE \E d \in Nat : Delivers(p, d)
      <3>1. PICK d \in Nat : Delivers(p, d)
        BY <2>1
      <3>2. /\ stage' = [q \in Packets |-> IF q \in UpTo(p, d) THEN "released"
                                           ELSE IF q = p THEN "buffered" ELSE stage[q]]
            /\ cpu_reorder_buffer' = Held(p) - LinesIn({q \in UpTo(p, d) : stage[q] = "buffered"})
            /\ times' = [q \in Packets |-> IF q \in UpTo(p, d) THEN [times[q] EXCEPT !.delivery = At]
                                           ELSE times[q]]
            /\ next_consume' = [next_consume EXCEPT ![FlowOf(p)] = d]
            /\ delivered' = delivered \o Delivery(p) /\ Delivery(p) \in Seq(Packets)
            /\ calls' = CallsAfterRelease(p)
            /\ outcome' = outcome
        BY <3>1 DEF Delivers, IsDelivery
      <3>3. stage' \in [Packets -> Stages]
        BY <1>6, <3>2, Opened
      <3>4. times' \in [Packets -> AllTimes]
        <4>1. PICK U, m : m \in Int /\ m = At /\ U = UpTo(p, d)
          BY <1>3
        <4>2. [q \in Packets |-> IF q \in U THEN [times[q] EXCEPT !.delivery = m] ELSE times[q]]
                \in [Packets -> AllTimes]
          <5>1. p \in Packets /\ times \in [Packets -> AllTimes] /\ m \in Int
            BY <1>2, <4>1, Opened
          <5> QED BY <5>1, DeliveryTyped
        <4> QED BY <3>2, <4>1, <4>2
      <3>5. next_consume' \in [Flows -> Nat]
        <4>1. next_consume \in [Flows -> Nat]
          BY DEF TypeInv
        <4> QED BY <1>3, <3>2, <4>1
      <3>6. delivered' \in Seq(Packets)
        <4>1. delivered \in Seq(Packets)
          BY DEF TypeInv
        <4> QED BY <3>2, <4>1
      <3>7. cpu_reorder_buffer' \in Int
        <4>1. {q \in UpTo(p, d) : stage[q] = "buffered"} \in SUBSET Packets
          BY DEF UpTo
        <4>2. LinesIn({q \in UpTo(p, d) : stage[q] = "buffered"}) \in Int
          BY <4>1, LinesInTyped
        <4> QED BY <1>5, <3>2, <4>2
      <3> QED BY <1>0, <1>2, <3>2, <3>3, <3>4, <3>5, <3>6, <3>7, CallSeqs DEF Typed
    <2>2. CASE /\ outcome' = "overflow" /\ stage' = [stage EXCEPT ![p] = "buffered"]
               /\ cpu_reorder_buffer' = Held(p) /\ times' = times
               /\ next_consume' = next_consume /\ delivered' = delivered /\ calls' = calls
      BY <1>0, <1>2, <1>5, <1>6, <2>2, Opened DEF Typed, Outcomes
    <2> QED BY <1>2, <2>1, <2>2
  <1> QED BY <1>0, <1>4, <1>7 DEF Release, Typed, gate

LEMMA TypedGate ==
    ASSUME TypeInv, QueueInv, GateSample \/ GateApply
    PROVE  Typed'
  <1>0. Typed
    BY TypedNow
  <1>1. gate_requested' \in BOOLEAN /\ gate_push_enabled' \in BOOLEAN
    <2>1. CASE GateSample
      <3>1. gate_push_enabled' = gate_push_enabled
        BY <2>1 DEF GateSample
      <3>2. \E enabled \in BOOLEAN : gate_requested' = IF DiffersFromRequest(enabled) THEN enabled ELSE gate_requested
        BY <2>1 DEF GateSample
      <3>3. gate_requested \in BOOLEAN /\ gate_push_enabled \in BOOLEAN
        BY DEF TypeInv
      <3> HIDE DEF DiffersFromRequest
      <3>4. gate_requested' \in BOOLEAN
        BY <3>2, <3>3
      <3> QED BY <3>1, <3>3, <3>4, Zenon
    <2>2. CASE GateApply
      <3>1. gate_requested' = gate_requested /\ gate_push_enabled' = Taken
        BY <2>2 DEF GateApply
      <3>2. Taken \in BOOLEAN
        BY <2>2, TakeTyped DEF GateApply, OfGate
      <3>3. gate_requested \in BOOLEAN
        BY DEF TypeInv
      <3> QED BY <3>1, <3>2, <3>3, Zenon
    <2> QED BY <2>1, <2>2
  <1>2. /\ calls' = calls /\ UNCHANGED packets /\ UNCHANGED books /\ UNCHANGED cpu /\ UNCHANGED buffers
        /\ next_publish' = next_publish /\ next_consume' = next_consume /\ delivered' = delivered
        /\ withdrawals' = withdrawals /\ outcome' = outcome
    BY DEF GateSample, GateApply
  <1>3. Typed' <=> /\ gate_requested' \in BOOLEAN /\ gate_push_enabled' \in BOOLEAN
    BY <1>0, <1>2, Zenon DEF Typed, packets, books, cpu, buffers
  <1> QED BY <1>1, <1>3

LEMMA TypedRest ==
    ASSUME TypeInv, QueueInv, Arrival \/ Withdraw \/ Background \/ Finish \/ Fail \/ Ended
    PROVE  Typed'
  <1>0. Typed
    BY TypedNow
  <1>1. CASE Arrival
    <2>1. PICK p : p = Taken
      OBVIOUS
    <2>2. p \in Packets
      BY <1>1, <2>1, TakeTyped DEF Arrival, OfPacket
    <2>3. stage' = [stage EXCEPT ![p] = "arrived"] /\ nic_buffer' = nic_buffer + LinesOf[p]
          /\ \/ outcome' = "overflow" /\ calls' = calls
             \/ /\ outcome' = outcome
                /\ calls' = <<Call("try_issue", p)>> \/ calls' = <<Call("issue", p)>>
      BY <1>1, <2>1 DEF Arrival, Raise
    <2>4. stage' \in [Packets -> Stages] /\ nic_buffer' \in Int
      <3>1. "arrived" \in Stages /\ LinesOf[p] \in Int
        BY <2>2, Sizes DEF Stages
      <3> QED BY <2>2, <2>3, <3>1, Opened
    <2>5. calls' \in Seq(CallSet) /\ outcome' \in Outcomes
      BY <1>0, <2>2, <2>3, CallSeqs DEF Typed, Outcomes
    <2> QED BY <1>0, <1>1, <2>4, <2>5 DEF Arrival, Typed, books, cpu, gate
  <1>2. CASE Withdraw
    <2>1. PICK c : c = Class(Taken[1])
      OBVIOUS
    <2>2. c \in Classes /\ withdrawals' = [withdrawals EXCEPT ![c] = @ + 1]
      BY <1>2, <2>1 DEF Class, Classes, Withdraw
    <2>3. withdrawals' \in [Classes -> Int]
      BY <1>0, <2>2 DEF Typed
    <2> QED BY <1>0, <1>2, <2>3 DEF Withdraw, Typed, packets, books, cpu, buffers, gate
  <1>3. CASE Background
    BY <1>0, <1>3 DEF Background, Typed, packets, books, cpu, buffers, gate
  <1>4. CASE Finish \/ Fail
    <2>1. outcome' \in Outcomes
      BY <1>4 DEF Finish, Fail, Raise, Outcomes
    <2> QED BY <1>0, <1>4, <2>1 DEF Finish, Fail, Typed, packets, books, cpu, buffers, gate
  <1>5. CASE Ended
    BY <1>0, <1>5 DEF Ended, vars, Typed, packets, books, cpu, buffers, gate
  <1> QED BY <1>1, <1>2, <1>3, <1>4, <1>5

(* The counts of lines.                                                    *)
LEMMA CountsTyped ==
    ASSUME TypeInv, NEW n \in Int, NEW m \in Int
    PROVE  /\ line_counts' = [line_counts EXCEPT !.pushed = @ + n, !.produced = @ + m]
                => line_counts' \in [Counted -> Int]
           /\ line_counts' = [line_counts EXCEPT !.produced = @ + n, !.gated = @ + m]
                => line_counts' \in [Counted -> Int]
           /\ line_counts' = [line_counts EXCEPT !.produced = @ + n]
                => line_counts' \in [Counted -> Int]
           /\ line_counts' = [line_counts EXCEPT !.demanded = @ + n]
                => line_counts' \in [Counted -> Int]
  <1>1. line_counts \in [Counted -> Int]
    BY DEF TypeInv
  <1>2. /\ line_counts.demanded \in Int /\ line_counts.pushed \in Int
        /\ line_counts.produced \in Int /\ line_counts.gated \in Int
    BY <1>1 DEF Counted
  <1>3. PICK a, b, c, d, e :
           /\ a = line_counts.pushed + n /\ b = line_counts.produced + m
           /\ c = line_counts.produced + n /\ d = line_counts.gated + m
           /\ e = line_counts.demanded + n
    OBVIOUS
  <1>5. a \in Int /\ b \in Int /\ c \in Int /\ d \in Int /\ e \in Int
    BY <1>2, <1>3
  <1>4. /\ [line_counts EXCEPT !.pushed = a, !.produced = b] \in [Counted -> Int]
        /\ [line_counts EXCEPT !.produced = c, !.gated = d] \in [Counted -> Int]
        /\ [line_counts EXCEPT !.produced = c] \in [Counted -> Int]
        /\ [line_counts EXCEPT !.demanded = e] \in [Counted -> Int]
    BY <1>1, <1>5 DEF Counted
  <1> QED BY <1>3, <1>4

LEMMA AnnouncingLength ==
    ASSUME NEW p \in Packets
    PROVE  Len(Announcing(p)) = IF InTurn(p) THEN 2 ELSE 0
  BY DEF Announcing, Metadata

LEMMA IssueTallies ==
    ASSUME TypeInv, FlowsInv, NEW p \in Packets, stage[p] = "arrived", Issue(p)
    PROVE  line_counts' =
             IF policy.push_payload
             THEN [line_counts EXCEPT !.pushed = @ + LinesOf[p], !.produced = @ + LinesOf[p]]
             ELSE [line_counts EXCEPT !.pushed = @ + 0,
                                      !.produced = @ + (IF InTurn(p) THEN 2 ELSE 0)]
  <1>1. line_counts' =
          [line_counts EXCEPT !.pushed = @ + (IF policy.push_payload THEN LinesOf[p] ELSE 0),
                              !.produced = @ + Len(IssueLines(p))]
    BY DEF Issue, IssueLines
  <1>2. CASE policy.push_payload
    <2>1. Len(IssueLines(p)) = LinesOf[p]
      BY <1>2, PayloadTyped DEF IssueLines
    <2> QED BY <1>1, <1>2, <2>1
  <1>3. CASE ~policy.push_payload
    <2>1. Len(IssueLines(p)) = IF InTurn(p) THEN 2 ELSE 0
      BY <1>3, IssueShape, AnnouncingLength
    <2> QED BY <1>1, <1>3, <2>1
  <1> QED BY <1>2, <1>3

LEMMA PayloadTallies ==
    ASSUME TypeInv, QueueInv, FlowsInv, Desk, PayloadVisible, NEW p \in Packets, Taken[1] = p
    PROVE  /\ line_counts' =
                [line_counts EXCEPT !.produced = @ + (IF LeftOf(p) = 0 /\ InTurn(p) THEN 2 ELSE 0),
                                    !.gated = @ + (IF policy.gated THEN 1 ELSE 0)]
           /\ last_visible_ns' = [last_visible_ns EXCEPT ![p] = At]
  <1>1. line_counts' = [line_counts EXCEPT !.produced = @ + Len(CompletionLines(p)),
                                           !.gated = @ + (IF policy.gated THEN 1 ELSE 0)]
    BY DEF PayloadVisible, CompletionLines, CompletedBy, LeftOf
  <1>2. CompletionLines(p) = IF LeftOf(p) = 0 THEN Announcing(p) ELSE <<>>
    BY PayloadShape
  <1>3. Len(CompletionLines(p)) = IF LeftOf(p) = 0 /\ InTurn(p) THEN 2 ELSE 0
    BY <1>2, AnnouncingLength
  <1> QED BY <1>1, <1>3 DEF PayloadVisible

LEMMA ReadyTallies ==
    ASSUME TypeInv, QueueInv, FlowsInv, Desk, ReadyVisible, NEW p \in Packets, Taken = p
    PROVE  line_counts' = [line_counts EXCEPT !.produced = @ + (IF Follows(p) THEN 2 ELSE 0)]
  <1>1. ~OutOfTurn(p)
    BY ReadyShape DEF OutOfTurn
  <1>2. line_counts' = [line_counts EXCEPT !.produced = @ + Len(ReadyLines(p))]
    BY <1>1 DEF ReadyVisible, OutOfTurn, ReadyLines
  <1>3. Len(ReadyLines(p)) = IF Follows(p) THEN 2 ELSE 0
    BY ReadyShape DEF Metadata
  <1> QED BY <1>2, <1>3

LEMMA ConsumeTallies ==
    ASSUME TypeInv, QueueInv, FlowsInv, Desk, CpuConsume, NEW p \in Packets, Taken = p
    PROVE  line_counts' = [line_counts EXCEPT !.demanded = @ + LinesOf[p]]
  <1>1. ~FailedConsume(p)
    BY ConsumeShape
  <1> QED BY <1>1 DEF CpuConsume, FailedConsume

(* Steps that leave the counts as they are.                                *)
LEMMA TalliesKept ==
    ASSUME \/ Arrival \/ DescriptorVisible \/ TryCpu \/ Release \/ Withdraw \/ Background
           \/ GateSample \/ GateApply \/ Finish \/ Fail \/ Ended
    PROVE  line_counts' = line_counts /\ last_visible_ns' = last_visible_ns
  BY DEF Arrival, DescriptorVisible, TryCpu, Release, Withdraw, Background,
         GateSample, GateApply, Finish, Fail, Ended, vars, tallies

LEMMA TalliesTyped ==
    ASSUME TypeInv, QueueInv, FlowsInv, CallsInv, Desk, Next
    PROVE  line_counts' \in [Counted -> Int] /\ last_visible_ns' \in [Packets -> Int]
  <1>0. line_counts \in [Counted -> Int] /\ last_visible_ns \in [Packets -> Int]
    BY DEF TypeInv
  <1>1. ASSUME NEW p \in Packets, stage[p] = "arrived", Issue(p)
        PROVE  line_counts' \in [Counted -> Int]
    <2>1. PICK n \in Int, m \in Int : n = LinesOf[p] /\ m = IF InTurn(p) THEN 2 ELSE 0
      BY Sizes
    <2>2. CASE policy.push_payload
      <3>1. line_counts' = [line_counts EXCEPT !.pushed = @ + n, !.produced = @ + n]
        BY <1>1, <2>1, <2>2, IssueTallies
      <3> QED BY <3>1, CountsTyped
    <2>3. CASE ~policy.push_payload
      <3>1. PICK z \in Int : z = 0
        OBVIOUS
      <3>2. line_counts' = [line_counts EXCEPT !.pushed = @ + 0, !.produced = @ + m]
        BY <1>1, <2>1, <2>3, IssueTallies
      <3>3. line_counts' = [line_counts EXCEPT !.pushed = @ + z, !.produced = @ + m]
        BY <3>1, <3>2
      <3> QED BY <3>3, CountsTyped
    <2> QED BY <2>2, <2>3
  <1>2. CASE IssueAtOnce
    <2>1. PICK p \in Packets : Head(calls).packet = p /\ stage[p] = "arrived"
      BY <1>2, IssueCall DEF IssueAtOnce
    <2> QED BY <1>0, <1>1, <1>2, <2>1 DEF IssueAtOnce, UnchangedByIssue
  <1>3. CASE TryIssue
    <2>1. CASE UNCHANGED <<packets, books, events, link_available_ps, line_counts, outcome>>
      BY <1>0, <1>3, <2>1 DEF TryIssue
    <2>2. CASE \E p \in Packets : Issues(p)
      BY <1>0, <1>1, <1>3, <2>2 DEF TryIssue, Issues
    <2> QED BY <1>3, <2>1, <2>2, TryIssueShape
  <1>4. CASE PayloadVisible
    <2>1. At \in Int /\ Taken \in Packets \X Nat
      BY <1>4, TakeTyped DEF PayloadVisible, OfLine
    <2>2. PICK p \in Packets : p = Taken[1]
      BY <2>1
    <2>3. PICK n \in Int, m \in Int : /\ n = IF LeftOf(p) = 0 /\ InTurn(p) THEN 2 ELSE 0
                                      /\ m = IF policy.gated THEN 1 ELSE 0
      OBVIOUS
    <2>4. /\ line_counts' = [line_counts EXCEPT !.produced = @ + n, !.gated = @ + m]
          /\ last_visible_ns' = [last_visible_ns EXCEPT ![p] = At]
      BY <1>4, <2>2, <2>3, PayloadTallies
    <2>5. last_visible_ns' \in [Packets -> Int]
      BY <1>0, <2>1, <2>4
    <2> QED BY <2>4, <2>5, CountsTyped
  <1>5. CASE ReadyVisible
    <2>1. PICK p \in Packets : p = Taken
      BY <1>5, TakeTyped DEF ReadyVisible, OfPacket
    <2>2. PICK n \in Int : n = IF Follows(p) THEN 2 ELSE 0
      OBVIOUS
    <2>3. line_counts' = [line_counts EXCEPT !.produced = @ + n]
      BY <1>5, <2>1, <2>2, ReadyTallies
    <2> QED BY <1>0, <1>5, <2>3, CountsTyped DEF ReadyVisible
  <1>6. CASE CpuConsume
    <2>1. PICK p \in Packets : p = Taken
      BY <1>6, TakeTyped DEF CpuConsume, OfPacket
    <2>2. PICK n \in Int : n = LinesOf[p]
      BY <2>1, Sizes
    <2>3. line_counts' = [line_counts EXCEPT !.demanded = @ + n]
      BY <1>6, <2>1, <2>2, ConsumeTallies
    <2> QED BY <1>0, <1>6, <2>3, CountsTyped DEF CpuConsume
  <1> QED BY <1>0, <1>2, <1>3, <1>4, <1>5, <1>6, TalliesKept DEF Next

LEMMA TypeNext ==
    ASSUME TypeInv, QueueInv, Running => FlowsInv /\ CallsInv /\ Desk, Next
    PROVE  TypeInv'
  <1>1. Typed'
    <2>1. CASE Running
      BY <2>1, TypedIssue, TypedLines, TypedCpu, TypedRelease, TypedGate, TypedRest DEF Next
    <2>2. CASE ~Running
      <3>1. Ended
        BY <2>2 DEF Next, Arrival, IssueAtOnce, TryIssue, PayloadVisible, DescriptorVisible,
           ReadyVisible, TryCpu, CpuConsume, Release, Withdraw, Background, GateSample, GateApply,
           Finish, Fail, Take, Between, InCall
      <3> QED BY <3>1, TypedRest
    <2> QED BY <2>1, <2>2
  <1>2. line_counts' \in [Counted -> Int] /\ last_visible_ns' \in [Packets -> Int]
    <2>1. CASE Running
      BY <2>1, TalliesTyped
    <2>2. CASE ~Running
      <3>1. Ended
        BY <2>2 DEF Next, Arrival, IssueAtOnce, TryIssue, PayloadVisible, DescriptorVisible,
           ReadyVisible, TryCpu, CpuConsume, Release, Withdraw, Background, GateSample, GateApply,
           Finish, Fail, Take, Between, InCall
      <3> QED BY <3>1 DEF Ended, vars, tallies, TypeInv
    <2> QED BY <2>1, <2>2
  <1> QED BY <1>1, <1>2, QueueTyped DEF TypeInv, Typed, Outcomes

--------------------------------------------------------------------------------
(* Credit and buffers.                                                     *)

NicSet == {q \in Packets : InNic(q)}
BufferSet == {q \in Packets : stage[q] = "buffered"}
PushedSet == {q \in Packets : Pushed(q)}
PushedIn(f) == {q \in Packets : Pushed(q) /\ FlowOf(q) = f}

LEMMA CreditSets ==
    CreditInv <=>
        /\ nic_buffer = LinesIn(NicSet) /\ cpu_reorder_buffer = LinesIn(BufferSet)
        /\ IF policy.use_credit
           THEN /\ \A f \in Flows : credit[f] = LinesIn(PushedIn(f))
                /\ global_credit = LinesIn(PushedSet)
                /\ \A f \in Flows : credit[f] <= config.push_credit
                /\ Shared => global_credit <= config.global_credit
           ELSE credit = ZeroForAll /\ global_credit = 0
  BY DEF CreditInv, NicSet, BufferSet, PushedSet, PushedIn

LEMMA CreditFrom ==
    ASSUME policy' = policy, config' = config, NEW N, N = NicSet', nic_buffer' = LinesIn(N),
           NEW B, B = BufferSet', cpu_reorder_buffer' = LinesIn(B),
           IF policy.use_credit
           THEN /\ \A f \in Flows : credit'[f] <= config.push_credit
                /\ \A f \in Flows : \E P : P = PushedIn(f)' /\ credit'[f] = LinesIn(P)
                /\ \E P : P = PushedSet' /\ global_credit' = LinesIn(P)
                /\ Shared => global_credit' <= config.global_credit
           ELSE credit' = ZeroForAll /\ global_credit' = 0
    PROVE  CreditInv'
  <1>1. Shared' <=> Shared
    BY DEF Shared
  <1> QED BY <1>1 DEF CreditInv, NicSet, BufferSet, PushedSet, PushedIn

LEMMA CreditKept ==
    ASSUME TypeInv, CreditInv, policy' = policy, config' = config,
           nic_buffer' = nic_buffer, cpu_reorder_buffer' = cpu_reorder_buffer,
           credit' = credit, global_credit' = global_credit,
           \A q \in Packets : /\ stage'[q] = "buffered" <=> stage[q] = "buffered"
                              /\ InNic(q)' <=> InNic(q)
                              /\ Pushed(q)' <=> Pushed(q)
    PROVE  CreditInv'
  <1>1. /\ nic_buffer = LinesIn(NicSet) /\ cpu_reorder_buffer = LinesIn(BufferSet)
        /\ IF policy.use_credit
           THEN /\ \A f \in Flows : credit[f] = LinesIn(PushedIn(f))
                /\ global_credit = LinesIn(PushedSet)
                /\ \A f \in Flows : credit[f] <= config.push_credit
                /\ Shared => global_credit <= config.global_credit
           ELSE credit = ZeroForAll /\ global_credit = 0
    BY CreditSets
  <1>2. /\ NicSet' = NicSet /\ BufferSet' = BufferSet /\ PushedSet' = PushedSet
        /\ \A f \in Flows : PushedIn(f)' = PushedIn(f)
    BY DEF NicSet, BufferSet, PushedSet, PushedIn
  <1> QED BY <1>1, <1>2, CreditFrom

LEMMA SetsTyped ==
    /\ NicSet \in SUBSET Packets /\ BufferSet \in SUBSET Packets /\ PushedSet \in SUBSET Packets
    /\ \A f : PushedIn(f) \in SUBSET Packets
  BY DEF NicSet, BufferSet, PushedSet, PushedIn

LEMMA CreditArrival ==
    ASSUME TypeInv, QueueInv, CreditInv, Desk, Arrival
    PROVE  CreditInv'
  <1>1. PICK p : p = Taken
    OBVIOUS
  <1>2. p \in Packets /\ stage[p] = "coming"
    BY <1>1, TakeTyped, ArrivalDesk DEF Arrival, OfPacket
  <1>3. /\ policy' = policy /\ config' = config /\ cpu_reorder_buffer' = cpu_reorder_buffer
        /\ credit' = credit /\ global_credit' = global_credit
        /\ stage' = [stage EXCEPT ![p] = "arrived"] /\ nic_buffer' = nic_buffer + LinesOf[p]
    BY <1>1 DEF Arrival, inputs, books
  <1>4. \A q \in Packets : stage'[q] = IF q = p THEN "arrived" ELSE stage[q]
    BY <1>2, <1>3, Opened
  <1>5. /\ nic_buffer = LinesIn(NicSet) /\ cpu_reorder_buffer = LinesIn(BufferSet)
        /\ IF policy.use_credit
           THEN /\ \A f \in Flows : credit[f] = LinesIn(PushedIn(f))
                /\ global_credit = LinesIn(PushedSet)
                /\ \A f \in Flows : credit[f] <= config.push_credit
                /\ Shared => global_credit <= config.global_credit
           ELSE credit = ZeroForAll /\ global_credit = 0
    BY CreditSets
  <1>6. /\ BufferSet' = BufferSet /\ PushedSet' = PushedSet
        /\ \A f \in Flows : PushedIn(f)' = PushedIn(f)
    BY <1>2, <1>4 DEF BufferSet, PushedSet, PushedIn, Pushed, InNic
  <1>7. NicSet' = NicSet \cup {p} /\ p \notin NicSet
    BY <1>2, <1>4 DEF NicSet, InNic
  <1>8. nic_buffer' = LinesIn(NicSet \cup {p})
    BY <1>2, <1>3, <1>5, <1>7, SetsTyped, LinesWith
  <1> QED BY <1>3, <1>5, <1>6, <1>7, <1>8, CreditFrom

LEMMA CreditIssue ==
    ASSUME TypeInv, FlowsInv, CreditInv, NEW p \in Packets, stage[p] = "arrived", Issue(p),
           policy' = policy, config' = config, nic_buffer' = nic_buffer,
           cpu_reorder_buffer' = cpu_reorder_buffer,
           policy.use_credit =>
              /\ credit[FlowOf(p)] + LinesOf[p] <= config.push_credit
              /\ Shared => global_credit + LinesOf[p] <= config.global_credit
    PROVE  CreditInv'
  <1>1. \A q \in Packets : q # p => stage'[q] = stage[q]
    BY Opened, IssueShape
  <1>2. stage'[p] \in {"issued", "publishing", "complete"}
    BY Opened, IssueShape DEF Completed
  <1>3. /\ nic_buffer = LinesIn(NicSet) /\ cpu_reorder_buffer = LinesIn(BufferSet)
        /\ IF policy.use_credit
           THEN /\ \A f \in Flows : credit[f] = LinesIn(PushedIn(f))
                /\ global_credit = LinesIn(PushedSet)
                /\ \A f \in Flows : credit[f] <= config.push_credit
                /\ Shared => global_credit <= config.global_credit
           ELSE credit = ZeroForAll /\ global_credit = 0
    BY CreditSets
  <1>4. NicSet' = NicSet /\ BufferSet' = BufferSet
    BY <1>1, <1>2 DEF NicSet, BufferSet, InNic
  <1>5. PushedSet' = PushedSet \cup {p} /\ p \notin PushedSet
    BY <1>1, <1>2 DEF PushedSet, Pushed, InNic
  <1>6. /\ PushedIn(FlowOf(p))' = PushedIn(FlowOf(p)) \cup {p} /\ p \notin PushedIn(FlowOf(p))
        /\ \A f \in Flows : f # FlowOf(p) => PushedIn(f)' = PushedIn(f)
    BY <1>1, <1>2 DEF PushedIn, Pushed, InNic
  <1>7. CASE policy.use_credit
    <2>1. /\ credit' = [credit EXCEPT ![FlowOf(p)] = @ + LinesOf[p]]
          /\ global_credit' = global_credit + LinesOf[p]
      BY <1>7, IssueShape
    <2>2. FlowOf(p) \in Flows /\ DOMAIN credit = Flows
      BY PacketParts DEF TypeInv
    <2>3. global_credit' = LinesIn(PushedSet \cup {p})
      BY <1>3, <1>5, <1>7, <2>1, SetsTyped, LinesWith
    <2>4. \A f \in Flows : \E P : P = PushedIn(f)' /\ credit'[f] = LinesIn(P)
      <3> TAKE f \in Flows
      <3>1. CASE f = FlowOf(p)
        <4>1. credit'[f] = credit[f] + LinesOf[p]
          BY <2>1, <2>2, <3>1
        <4>2. LinesIn(PushedIn(f) \cup {p}) = LinesIn(PushedIn(f)) + LinesOf[p]
          BY <1>6, <3>1, SetsTyped, LinesWith
        <4> QED BY <1>3, <1>6, <1>7, <3>1, <4>1, <4>2
      <3>2. CASE f # FlowOf(p)
        BY <1>3, <1>6, <1>7, <2>1, <2>2, <3>2
      <3> QED BY <3>1, <3>2
    <2>5. \A f \in Flows : credit'[f] <= config.push_credit
      BY <1>3, <1>7, <2>1, <2>2
    <2>6. Shared => global_credit' <= config.global_credit
      BY <1>7, <2>1
    <2> QED BY <1>3, <1>4, <1>5, <1>7, <2>3, <2>4, <2>5, <2>6, CreditFrom
  <1>8. CASE ~policy.use_credit
    <2>1. credit' = credit /\ global_credit' = global_credit
      BY <1>8, IssueShape
    <2> QED BY <1>3, <1>4, <1>8, <2>1, CreditFrom
  <1> QED BY <1>7, <1>8

LEMMA CreditRelease ==
    ASSUME TypeInv, QueueInv, FlowsInv, CreditInv, Desk, Release, Running'
    PROVE  CreditInv'
  <1>1. PICK p : p = Taken
    OBVIOUS
  <1>2. /\ p \in Packets /\ stage[p] = "consuming"
        /\ nic_buffer' = nic_buffer - LinesOf[p]
        /\ IF policy.use_credit
           THEN /\ credit' = [credit EXCEPT ![FlowOf(p)] = @ - LinesOf[p]]
                /\ global_credit' = global_credit - LinesOf[p]
           ELSE credit' = credit /\ global_credit' = global_credit
        /\ \E d \in Nat : Delivers(p, d)
    BY <1>1, ReleaseShape DEF Running
  <1>3. PICK d \in Nat : Delivers(p, d)
    BY <1>2
  <1>4. policy' = policy /\ config' = config
    BY DEF Release, inputs
  <1>5. /\ \A q \in Packets : stage'[q] = IF q \in UpTo(p, d) THEN "released"
                                          ELSE IF q = p THEN "buffered" ELSE stage[q]
        /\ cpu_reorder_buffer' = Held(p) - LinesIn({q \in UpTo(p, d) : stage[q] = "buffered"})
        /\ UpTo(p, d) \in SUBSET Packets
        /\ \A q \in UpTo(p, d) : q = p \/ stage[q] = "buffered"
        /\ IF SerialOf(p) = next_consume[FlowOf(p)] THEN p \in UpTo(p, d)
           ELSE UpTo(p, d) = {} /\ policy.cpu_reorder
    BY <1>3 DEF Delivers, IsDelivery, UpTo
  <1>6. /\ nic_buffer = LinesIn(NicSet) /\ cpu_reorder_buffer = LinesIn(BufferSet)
        /\ IF policy.use_credit
           THEN /\ \A f \in Flows : credit[f] = LinesIn(PushedIn(f))
                /\ global_credit = LinesIn(PushedSet)
                /\ \A f \in Flows : credit[f] <= config.push_credit
                /\ Shared => global_credit <= config.global_credit
           ELSE credit = ZeroForAll /\ global_credit = 0
    BY CreditSets
  <1>7. NicSet' = NicSet \ {p} /\ p \in NicSet
    BY <1>2, <1>5 DEF NicSet, InNic
  <1>8. PushedSet' = PushedSet \ {p} /\ p \in PushedSet
    BY <1>2, <1>5 DEF PushedSet, Pushed, InNic
  <1>9. /\ PushedIn(FlowOf(p))' = PushedIn(FlowOf(p)) \ {p} /\ p \in PushedIn(FlowOf(p))
        /\ \A f \in Flows : f # FlowOf(p) => PushedIn(f)' = PushedIn(f)
    BY <1>2, <1>5 DEF PushedIn, Pushed, InNic
  <1>10. nic_buffer' = LinesIn(NicSet \ {p})
    BY <1>2, <1>6, <1>7, SetsTyped, LinesWith
  <1>11. LinesOf[p] \in Nat
    BY <1>2, Sizes
  <1>12. cpu_reorder_buffer' = LinesIn(BufferSet')
    <2> DEFINE D == {q \in UpTo(p, d) : stage[q] = "buffered"}
    <2>1. CASE SerialOf(p) = next_consume[FlowOf(p)]
      <3>1. Held(p) = LinesIn(BufferSet)
        <4>1. Held(p) = cpu_reorder_buffer + 0
          BY <2>1 DEF Held
        <4> QED BY <1>6, <4>1, Opened
      <3>2. PICK B : B = BufferSet'
        OBVIOUS
      <3>3. B \in SUBSET Packets /\ D \in SUBSET Packets /\ \A q \in B : q \notin D
        BY <1>5, <3>2 DEF BufferSet
      <3>4. BufferSet = B \cup D
        <4>1. \A q \in Packets : q \in B <=> stage'[q] = "buffered"
          BY <3>2 DEF BufferSet
        <4>2. \A q \in Packets : stage'[q] = "buffered" <=> stage[q] = "buffered" /\ q \notin UpTo(p, d)
          BY <1>2, <1>5, <2>1
        <4>3. \A q \in Packets : q \in BufferSet <=> q \in B \/ q \in D
          BY <4>1, <4>2 DEF BufferSet
        <4> QED BY <3>3, <4>3, SetsTyped
      <3> HIDE DEF D
      <3>5. LinesIn(BufferSet) = LinesIn(B) + LinesIn(D) /\ LinesIn(B) \in Int /\ LinesIn(D) \in Int
        BY <3>3, <3>4, LinesTogether, LinesInTyped
      <3>6. cpu_reorder_buffer' = Held(p) - LinesIn(D)
        BY <1>5 DEF D
      <3> QED BY <3>1, <3>2, <3>5, <3>6
    <2>2. CASE SerialOf(p) # next_consume[FlowOf(p)]
      <3>1. D = {} /\ policy.cpu_reorder
        BY <1>5, <2>2
      <3>2. cpu_reorder_buffer' = Held(p) - LinesIn(D)
        BY <1>5
      <3> HIDE DEF D
      <3>3. Held(p) = LinesIn(BufferSet) + LinesOf[p]
        BY <1>6, <2>2, <3>1 DEF Held
      <3>4. BufferSet' = BufferSet \cup {p} /\ p \notin BufferSet
        BY <1>2, <1>5, <2>2 DEF BufferSet
      <3>5. LinesIn(BufferSet \cup {p}) = LinesIn(BufferSet) + LinesOf[p] /\ LinesIn(BufferSet) \in Int
        BY <1>2, <3>4, SetsTyped, LinesWith
      <3>6. cpu_reorder_buffer' = LinesIn(BufferSet \cup {p})
        BY <1>11, <3>1, <3>2, <3>3, <3>5, LinesOfNone
      <3> QED BY <3>4, <3>6
    <2> QED BY <2>1, <2>2
  <1>13. CASE policy.use_credit
    <2>1. /\ credit' = [credit EXCEPT ![FlowOf(p)] = @ - LinesOf[p]]
          /\ global_credit' = global_credit - LinesOf[p]
      BY <1>2, <1>13
    <2>2. FlowOf(p) \in Flows /\ credit \in [Flows -> Int] /\ config.push_credit \in Nat
      BY <1>2, PacketParts, ConfigParts DEF TypeInv
    <2>3. global_credit' = LinesIn(PushedSet \ {p})
      BY <1>2, <1>6, <1>8, <1>13, <2>1, SetsTyped, LinesWith
    <2>4. \A f \in Flows : \E P : P = PushedIn(f)' /\ credit'[f] = LinesIn(P)
      <3> TAKE f \in Flows
      <3>1. CASE f = FlowOf(p)
        <4>1. credit'[f] = credit[f] - LinesOf[p]
          BY <2>1, <2>2, <3>1
        <4>2. LinesIn(PushedIn(f) \ {p}) = LinesIn(PushedIn(f)) - LinesOf[p]
          BY <1>2, <1>9, <3>1, SetsTyped, LinesWith
        <4> QED BY <1>6, <1>9, <1>13, <3>1, <4>1, <4>2
      <3>2. CASE f # FlowOf(p)
        BY <1>6, <1>9, <1>13, <2>1, <2>2, <3>2
      <3> QED BY <3>1, <3>2
    <2>5. \A f \in Flows : credit'[f] <= config.push_credit
      BY <1>6, <1>11, <1>13, <2>1, <2>2
    <2>6. Shared => global_credit' <= config.global_credit
      <3>1. Shared => config.global_credit \in Nat
        BY ConfigParts DEF Shared
      <3> QED BY <1>6, <1>11, <1>13, <2>1, <3>1, Opened
    <2> QED BY <1>4, <1>8, <1>7, <1>10, <1>12, <1>13, <2>3, <2>4, <2>5, <2>6, CreditFrom
  <1>14. CASE ~policy.use_credit
    <2>1. credit' = credit /\ global_credit' = global_credit
      BY <1>2, <1>14
    <2> QED BY <1>4, <1>6, <1>7, <1>10, <1>12, <1>14, <2>1, CreditFrom
  <1> QED BY <1>13, <1>14

LEMMA CreditNext ==
    ASSUME TypeInv, QueueInv, FlowsInv, CallsInv, CreditInv, Desk, Next, Running, Running'
    PROVE  CreditInv'
  <1>0. policy' = policy /\ config' = config
    BY InputsKept
  <1>1. ASSUME nic_buffer' = nic_buffer, cpu_reorder_buffer' = cpu_reorder_buffer,
               credit' = credit, global_credit' = global_credit, stage' = stage
        PROVE  CreditInv'
    BY <1>0, <1>1, CreditKept DEF InNic, Pushed
  <1>2. CASE Arrival
    BY <1>2, CreditArrival
  <1>3. CASE IssueAtOnce
    <2>1. PICK p \in Packets :
            /\ calls = <<Call("issue", p)>> /\ Head(calls).packet = p
            /\ stage[p] = "arrived" /\ ~policy.reorder_before_push
      BY <1>3, IssueCall DEF IssueAtOnce
    <2>2. ~policy.use_credit
      BY <2>1, PolicyParts
    <2>3. Issue(p) /\ nic_buffer' = nic_buffer /\ cpu_reorder_buffer' = cpu_reorder_buffer
      BY <1>3, <2>1 DEF IssueAtOnce, UnchangedByIssue, buffers
    <2> QED BY <1>0, <2>1, <2>2, <2>3, CreditIssue
  <1>4. CASE TryIssue
    <2>0. nic_buffer' = nic_buffer /\ cpu_reorder_buffer' = cpu_reorder_buffer
      BY <1>4 DEF TryIssue, buffers
    <2>1. CASE UNCHANGED <<packets, books, events, link_available_ps, line_counts, outcome>>
      BY <1>1, <2>0, <2>1 DEF packets, books
    <2>2. CASE \E p \in Packets : Issues(p)
      <3>1. PICK p \in Packets :
              /\ stage[p] = "arrived" /\ Issue(p)
              /\ SerialOf(p) = next_issue[FlowOf(p)] /\ FitsCredit(FlowOf(p))
        BY <2>2 DEF Issues
      <3>2. NextPacket(FlowOf(p)) = p
        BY <3>1, PacketParts DEF NextPacket
      <3> QED BY <1>0, <2>0, <3>1, <3>2, CreditIssue DEF FitsCredit
    <2> QED BY <1>4, <2>1, <2>2, TryIssueShape
  <1>5. CASE PayloadVisible
    <2>0. /\ nic_buffer' = nic_buffer /\ cpu_reorder_buffer' = cpu_reorder_buffer
          /\ credit' = credit /\ global_credit' = global_credit
      BY <1>5 DEF PayloadVisible, buffers, books
    <2>2. PICK p \in Packets :
             /\ stage[p] = "issued"
             /\ stage' = [stage EXCEPT ![p] = Completed(p)] \/ stage' = stage
      BY <1>5, PayloadShape
    <2>3. /\ \A q \in Packets : q # p => stage'[q] = stage[q]
          /\ stage'[p] \in {"issued", "complete", "publishing"}
      BY <2>2, Opened DEF Completed
    <2> QED BY <1>0, <2>0, <2>2, <2>3, CreditKept DEF InNic, Pushed
  <1>6. CASE DescriptorVisible
    BY <1>1, <1>6 DEF DescriptorVisible, buffers, books
  <1>7. CASE ReadyVisible
    <2>0. /\ nic_buffer' = nic_buffer /\ cpu_reorder_buffer' = cpu_reorder_buffer
          /\ credit' = credit /\ global_credit' = global_credit
      BY <1>7 DEF ReadyVisible, buffers, books
    <2>1. PICK p : p = Taken
      OBVIOUS
    <2>2. /\ p \in Packets /\ stage[p] = "publishing"
          /\ stage' = [q \in Packets |-> IF q = p THEN "ready"
                                         ELSE IF Follows(p) /\ q = SuccessorOf(p) THEN "publishing"
                                         ELSE stage[q]]
      BY <1>7, <2>1, ReadyShape
    <2>3. \A q \in Packets :
            \/ stage'[q] = stage[q]
            \/ stage'[q] \in {"ready", "publishing"} /\ stage[q] \in {"complete", "publishing"}
      BY <2>2 DEF Follows
    <2> QED BY <1>0, <2>0, <2>3, CreditKept DEF InNic, Pushed
  <1>8. CASE TryCpu
    <2>0. /\ nic_buffer' = nic_buffer /\ cpu_reorder_buffer' = cpu_reorder_buffer
          /\ credit' = credit /\ global_credit' = global_credit
      BY <1>8 DEF TryCpu, buffers, books
    <2>1. CASE stage' = stage
      BY <1>1, <2>0, <2>1
    <2>2. CASE \E p \in Packets : TakesUp(p)
      <3>1. PICK p \in Packets : stage[p] = "ready" /\ stage' = [stage EXCEPT ![p] = "consuming"]
        BY <2>2 DEF TakesUp
      <3>2. \A q \in Packets : IF q = p THEN stage'[q] = "consuming" ELSE stage'[q] = stage[q]
        BY <3>1, Opened
      <3> QED BY <1>0, <2>0, <3>1, <3>2, CreditKept DEF InNic, Pushed
    <2> QED BY <1>8, <2>1, <2>2, TryCpuShape
  <1>9. CASE CpuConsume
    BY <1>1, <1>9 DEF CpuConsume, buffers, books
  <1>10. CASE Release
    BY <1>10, CreditRelease
  <1>11. CASE Withdraw
    BY <1>1, <1>11 DEF Withdraw, buffers, books, packets
  <1>12. CASE Background
    BY <1>1, <1>12 DEF Background, buffers, books, packets
  <1>13. CASE GateSample
    BY <1>1, <1>13 DEF GateSample, buffers, books, packets
  <1>14. CASE GateApply
    BY <1>1, <1>14 DEF GateApply, buffers, books, packets
  <1>15. Finish => FALSE
    BY DEF Finish, Raise, Running
  <1>16. Fail => FALSE
    BY DEF Fail, Raise, Running
  <1>17. Ended => FALSE
    BY DEF Ended
  <1> QED BY <1>2, <1>3, <1>4, <1>5, <1>6, <1>7, <1>8, <1>9, <1>10, <1>11, <1>12, <1>13,
             <1>14, <1>15, <1>16, <1>17 DEF Next

--------------------------------------------------------------------------------
(* Withdrawals: those that are queued and those that were taken.           *)

Withdrawals(q) == {i \in DOMAIN q : q[i].kind = "withdraw"}

LEMMA WithdrawalsFinite ==
    ASSUME NEW S, NEW q \in Seq(S)
    PROVE  /\ IsFiniteSet(Withdrawals(q)) /\ Cardinality(Withdrawals(q)) \in Nat
           /\ Withdrawals(q) \in SUBSET (1..Len(q)) /\ Len(q) \in Nat
  <1>1. Withdrawals(q) \in SUBSET (1..Len(q)) /\ Len(q) \in Nat
    BY DEF Withdrawals
  <1>2. IsFiniteSet(1..Len(q))
    BY <1>1, FS_Interval
  <1> QED BY <1>1, <1>2, FS_Subset, FS_CardinalityType

Pairs(m, S, T) ==
    /\ \A i \in S : m[i] \in T
    /\ \A n \in T : \E i \in S : m[i] = n
    /\ \A i, j \in S : m[i] = m[j] => i = j

LEMMA SameSize ==
    ASSUME NEW S, NEW T, NEW m, IsFiniteSet(S), Pairs(m, S, T)
    PROVE  IsFiniteSet(T) /\ Cardinality(T) = Cardinality(S)
  <1> DEFINE f == [i \in S |-> m[i]]
  <1>1. f \in Injection(S, T) /\ f \in Surjection(S, T)
    BY DEF Pairs, Injection, Surjection, IsInjective
  <1>2. ExistsBijection(S, T)
    BY <1>1 DEF ExistsBijection, Bijection
  <1> QED BY <1>2, FS_Bijection

LEMMA WithdrawalsMerged ==
    ASSUME NEW S, NEW r \in Seq(S), NEW old \in Seq(S), NEW new \in Seq(S), NEW a, NEW b,
           Merged(r, old, new, a, b)
    PROVE  Cardinality(Withdrawals(r)) = Cardinality(Withdrawals(old)) + Cardinality(Withdrawals(new))
  <1> DEFINE A == {n \in Withdrawals(r) : \E i \in DOMAIN old : a[i] = n}
             B == {n \in Withdrawals(r) : \E j \in DOMAIN new : b[j] = n}
  <1>1. /\ \A i \in DOMAIN old : a[i] \in DOMAIN r /\ r[a[i]] = old[i]
        /\ \A j \in DOMAIN new : b[j] \in DOMAIN r /\ r[b[j]] = new[j]
        /\ \A n \in DOMAIN r : (\E i \in DOMAIN old : a[i] = n) \/ (\E j \in DOMAIN new : b[j] = n)
        /\ \A i, k \in DOMAIN old : i < k => a[i] < a[k]
        /\ \A i \in DOMAIN old, j \in DOMAIN new : a[i] # b[j]
        /\ \A j, k \in DOMAIN new : j < k => b[j] # b[k]
    BY DEF Merged
  <1>2. /\ \A i \in DOMAIN old : i \in Nat /\ a[i] \in Nat
        /\ \A j \in DOMAIN new : j \in Nat /\ b[j] \in Nat
    BY <1>1
  <1>3. IsFiniteSet(A) /\ Cardinality(A) = Cardinality(Withdrawals(old))
    <2>1. \A i \in Withdrawals(old) : i \in DOMAIN old /\ a[i] \in A
      BY <1>1 DEF Withdrawals
    <2>2. \A n \in A : \E i \in Withdrawals(old) : a[i] = n
      BY <1>1 DEF Withdrawals
    <2>3. \A i, j \in Withdrawals(old) : a[i] = a[j] => i = j
      <3> TAKE i, j \in Withdrawals(old)
      <3>1. i \in Nat /\ j \in Nat /\ a[i] \in Nat /\ a[j] \in Nat
        BY <1>2, <2>1
      <3> QED BY <1>1, <2>1, <3>1
    <2>4. IsFiniteSet(Withdrawals(old))
      BY WithdrawalsFinite
    <2>5. Pairs(a, Withdrawals(old), A)
      BY <2>1, <2>2, <2>3 DEF Pairs
    <2> HIDE DEF A
    <2> QED BY <2>4, <2>5, SameSize
  <1>4. IsFiniteSet(B) /\ Cardinality(B) = Cardinality(Withdrawals(new))
    <2>1. \A i \in Withdrawals(new) : i \in DOMAIN new /\ b[i] \in B
      BY <1>1 DEF Withdrawals
    <2>2. \A n \in B : \E i \in Withdrawals(new) : b[i] = n
      BY <1>1 DEF Withdrawals
    <2>3. \A i, j \in Withdrawals(new) : b[i] = b[j] => i = j
      <3> TAKE i, j \in Withdrawals(new)
      <3>1. i \in Nat /\ j \in Nat
        BY <1>2, <2>1
      <3> QED BY <1>1, <2>1, <3>1
    <2>4. IsFiniteSet(Withdrawals(new))
      BY WithdrawalsFinite
    <2>5. Pairs(b, Withdrawals(new), B)
      BY <2>1, <2>2, <2>3 DEF Pairs
    <2> HIDE DEF B
    <2> QED BY <2>4, <2>5, SameSize
  <1>5. Withdrawals(r) = A \cup B /\ A \cap B = {}
    BY <1>1 DEF Withdrawals
  <1> HIDE DEF A, B
  <1>6. /\ Cardinality(A \cup B) = Cardinality(A) + Cardinality(B) - Cardinality(A \cap B)
        /\ Cardinality(A \cap B) = 0
    BY <1>3, <1>4, <1>5, FS_Union, FS_EmptySet
  <1>7. Cardinality(A) \in Nat /\ Cardinality(B) \in Nat
    BY <1>3, <1>4, FS_CardinalityType
  <1> QED BY <1>3, <1>4, <1>5, <1>6, <1>7

LEMMA WithdrawalsNone ==
    ASSUME NEW q, \A k \in DOMAIN q : q[k].kind # "withdraw"
    PROVE  Cardinality(Withdrawals(q)) = 0
  <1>1. Withdrawals(q) = {}
    BY DEF Withdrawals
  <1> QED BY <1>1, FS_EmptySet

LEMMA WithdrawalsOfRest ==
    ASSUME TypeInv, events # <<>>
    PROVE  Cardinality(Withdrawals(Rest)) =
             Cardinality(Withdrawals(events)) - (IF events[1].kind = "withdraw" THEN 1 ELSE 0)
  <1> DEFINE W == Withdrawals(events) \ {1}
             m == [i \in DOMAIN Rest |-> i + 1]
  <1>1. /\ Rest \in Seq(Events) /\ 1 \in DOMAIN events
        /\ \A i \in DOMAIN Rest : i + 1 \in DOMAIN events /\ Rest[i] = events[i + 1] /\ i \in Nat
        /\ \A i \in DOMAIN events : i # 1 => i - 1 \in DOMAIN Rest /\ Rest[i - 1] = events[i] /\ i \in Nat
    BY RestTyped
  <1>2. \A i \in DOMAIN Rest : i \in 1..Len(Rest) /\ Len(Rest) \in Nat
    BY <1>1
  <1>3. \A i \in Withdrawals(Rest) : m[i] \in W
    BY <1>1, <1>2 DEF Withdrawals
  <1>4. \A n \in W : \E i \in Withdrawals(Rest) : m[i] = n
    <2> TAKE n \in W
    <2>1. n \in DOMAIN events /\ n # 1 /\ events[n].kind = "withdraw"
      BY DEF Withdrawals
    <2>2. n - 1 \in DOMAIN Rest /\ Rest[n - 1] = events[n] /\ n \in Nat
      BY <1>1, <2>1
    <2>3. n - 1 \in Withdrawals(Rest) /\ m[n - 1] = n
      BY <2>1, <2>2 DEF Withdrawals
    <2> QED BY <2>3
  <1>5. \A i, j \in Withdrawals(Rest) : m[i] = m[j] => i = j
    BY <1>1 DEF Withdrawals
  <1> HIDE DEF W, m
  <1>6. Cardinality(W) = Cardinality(Withdrawals(Rest))
    <2>1. IsFiniteSet(Withdrawals(Rest))
      BY <1>1, WithdrawalsFinite
    <2>2. Pairs(m, Withdrawals(Rest), W)
      BY <1>3, <1>4, <1>5 DEF Pairs
    <2> QED BY <2>1, <2>2, SameSize
  <1>7. IsFiniteSet(Withdrawals(events)) /\ Cardinality(Withdrawals(events)) \in Nat
    BY EventsTyped, WithdrawalsFinite
  <1>8. 1 \in Withdrawals(events) <=> events[1].kind = "withdraw"
    BY <1>1 DEF Withdrawals
  <1>9. Cardinality(W) = IF 1 \in Withdrawals(events) THEN Cardinality(Withdrawals(events)) - 1
                         ELSE Cardinality(Withdrawals(events))
    BY <1>7, FS_RemoveElement DEF W
  <1> QED BY <1>6, <1>7, <1>8, <1>9

LEMMA QueuedSent ==
    ASSUME NEW t, NEW old, NEW new, Sends(t, old, new)
    PROVE  /\ StillQueued' = Cardinality(Withdrawals(old)) + Cardinality(Withdrawals(new))
           /\ Cardinality(Withdrawals(old)) \in Nat /\ Cardinality(Withdrawals(new)) \in Nat
  <1>1. PICK r : r = events'
    OBVIOUS
  <1>2. old \in Seq(Events) /\ new \in Seq(Events) /\ r \in Seq(Events)
    BY <1>1 DEF Sends
  <1>3. PICK a, b : Merged(r, old, new, a, b)
    BY <1>1 DEF Sends
  <1>4. StillQueued' = Cardinality(Withdrawals(r))
    BY <1>1 DEF StillQueued, Withdrawals
  <1> QED BY <1>2, <1>3, <1>4, WithdrawalsMerged, WithdrawalsFinite

(* Neither withdrawals nor ends of the CPU's work.                         *)
Plain(new) == \A k \in DOMAIN new : new[k].kind \notin {"withdraw", "release"}

LEMMA LinesPlain ==
    ASSUME NEW t, NEW lines \in Seq(LineSet)
    PROVE  \A k \in DOMAIN OnLink(t, lines) :
             OnLink(t, lines)[k].kind = lines[k].kind /\ OnLink(t, lines)[k].kind # "withdraw"
  <1>1. DOMAIN OnLink(t, lines) = DOMAIN lines
        /\ \A k \in DOMAIN lines : OnLink(t, lines)[k].kind = lines[k].kind
    BY DEF OnLink, Event
  <1>2. \A k \in DOMAIN lines : lines[k] \in LineSet
    OBVIOUS
  <1>3. \A l \in LineSet : l.kind # "withdraw"
    BY DEF LineSet, OfPacket
  <1> QED BY <1>1, <1>2, <1>3

LEMMA AnnouncingPlain ==
    ASSUME TypeInv, NEW t \in Nat, NEW p \in Packets
    PROVE  /\ Plain(OnLink(t, Announcing(p))) /\ Plain(OnLink(t, Metadata(p)))
           /\ Plain(OnLink(t, PayloadEvents(p)))
  <1>1. Plain(OnLink(t, Announcing(p)))
    BY AnnouncingOnLink DEF AnnounceEvents, Plain
  <1>2. Plain(OnLink(t, Metadata(p)))
    BY MetadataOnLink DEF Plain
  <1>3. Plain(OnLink(t, PayloadEvents(p)))
    BY PayloadOnLink DEF Plain
  <1> QED BY <1>1, <1>2, <1>3

LEMMA PlainNone == Plain(<<>>) /\ Cardinality(Withdrawals(<<>>)) = 0
  BY FS_EmptySet DEF Plain, Withdrawals

LEMMA IssuePlain ==
    ASSUME TypeInv, QueueInv, FlowsInv, NEW p \in Packets, stage[p] = "arrived", Issue(p), now' = now
    PROVE  \E new : Sends(now', events, new) /\ Plain(new)
  <1>1. IssueLines(p) \in {PayloadEvents(p), Announcing(p)}
    BY IssueShape
  <1>2. PICK new : new = OnLink(now, IssueLines(p))
    OBVIOUS
  <1>3. Sends(now', events, new)
    BY <1>2, IssueSends
  <1>4. now \in Nat
    BY DEF TypeInv
  <1> QED BY <1>1, <1>2, <1>3, <1>4, AnnouncingPlain

LEMMA TakenPlain ==
    ASSUME TypeInv, QueueInv, NEW kind, Take(kind), NEW new, Sends(now', Rest, new), Plain(new)
    PROVE  \E old, n : Sends(now', old, n) /\ LeftBy(old) /\ Plain(n)
  <1>1. LeftBy(Rest)
    BY TakeTyped DEF LeftBy, Take
  <1> QED BY <1>1

LEMMA PlainStep ==
    ASSUME TypeInv, QueueInv, FlowsInv, CallsInv, Desk, Next, Running, Running',
           ~PayloadVisible, ~CpuConsume
    PROVE  \E old, new : Sends(now', old, new) /\ LeftBy(old) /\ Plain(new)
  <1>1. ASSUME now' = now, NEW new, Sends(now', events, new), Plain(new)
        PROVE  \E old, n : Sends(now', old, n) /\ LeftBy(old) /\ Plain(n)
    BY <1>1 DEF LeftBy
  <1>2. ASSUME NEW kind, Take(kind), events' = Rest
        PROVE  \E old, n : Sends(now', old, n) /\ LeftBy(old) /\ Plain(n)
    <2>1. Sends(now', Rest, <<>>)
      BY <1>2, TakeSends
    <2> QED BY <1>2, <2>1, PlainNone, TakenPlain
  <1>3. CASE IssueAtOnce
    <2>1. PICK p \in Packets : Head(calls).packet = p /\ stage[p] = "arrived"
      BY <1>3, IssueCall DEF IssueAtOnce
    <2>2. Issue(p) /\ now' = now
      BY <1>3, <2>1 DEF IssueAtOnce, UnchangedByIssue
    <2> QED BY <1>1, <2>1, <2>2, IssuePlain
  <1>4. CASE TryIssue
    <2>0. now' = now
      BY <1>4 DEF TryIssue
    <2>1. CASE UNCHANGED <<packets, books, events, link_available_ps, line_counts, outcome>>
      <3>1. Sends(now', events, <<>>)
        BY <2>0, <2>1, SendsNone
      <3> QED BY <1>1, <2>0, <3>1, PlainNone
    <2>2. CASE \E p \in Packets : Issues(p)
      <3>1. PICK p \in Packets : stage[p] = "arrived" /\ Issue(p)
        BY <2>2 DEF Issues
      <3> QED BY <1>1, <2>0, <3>1, IssuePlain
    <2> QED BY <1>4, <2>1, <2>2, TryIssueShape
  <1>5. CASE ReadyVisible
    <2>1. PICK p : p = Taken
      OBVIOUS
    <2>2. /\ p \in Packets /\ Sends(now', Rest, OnLink(At, ReadyLines(p)))
          /\ ReadyLines(p) = IF Follows(p) THEN Metadata(SuccessorOf(p)) ELSE <<>>
      BY <1>5, <2>1, ReadyShape
    <2>3. PICK new : new = OnLink(At, ReadyLines(p))
      OBVIOUS
    <2>4. At \in Nat
      BY <1>5, TakeTyped DEF ReadyVisible
    <2>5. Plain(new)
      <3>1. CASE Follows(p)
        BY <2>2, <2>3, <2>4, <3>1, AnnouncingPlain DEF Follows
      <3>2. CASE ~Follows(p)
        BY <2>2, <2>3, <3>2 DEF OnLink, Plain
      <3> QED BY <3>1, <3>2
    <2>6. Take("ready_visible") /\ Sends(now', Rest, new)
      BY <1>5, <2>2, <2>3 DEF ReadyVisible
    <2> QED BY <2>5, <2>6, TakenPlain
  <1>6. CASE TryCpu
    <2>0. now' = now
      BY <1>6 DEF TryCpu
    <2>1. CASE events' = events
      <3>1. Sends(now', events, <<>>)
        BY <2>0, <2>1, SendsNone
      <3> QED BY <1>1, <2>0, <3>1, PlainNone
    <2>2. CASE \E p \in Packets : TakesUp(p)
      <3>1. PICK p \in Packets : events' = Schedule(events, Event(now, "cpu_consume", p))
        BY <2>2 DEF TakesUp
      <3>2. PICK new : new = <<Event(now, "cpu_consume", p)>>
        OBVIOUS
      <3>3. Sends(now', events, new)
        BY <2>0, <3>1, <3>2, TryCpuSends
      <3>4. Plain(new)
        BY <3>2 DEF Plain, Event
      <3> QED BY <1>1, <2>0, <3>3, <3>4
    <2> QED BY <1>6, <2>1, <2>2, TryCpuShape
  <1>7. CASE Background
    <2>1. PICK new : new = Again("background", config.background)
      OBVIOUS
    <2>2. /\ Sends(now', Rest, new)
          /\ \A j \in DOMAIN new : new[j].kind = "background"
      BY <1>7, <2>1, BackgroundSends
    <2> QED BY <1>7, <2>2, TakenPlain DEF Plain, Background
  <1>8. CASE GateSample
    <2>1. PICK enabled \in BOOLEAN :
            /\ Sends(now', Rest, SampleSends(enabled))
            /\ \A k \in DOMAIN SampleSends(enabled) :
                 IF DiffersFromRequest(enabled) /\ k = 1
                 THEN SampleSends(enabled)[k] = Event(At + config.control_latency, "gate_apply", enabled)
                 ELSE SampleSends(enabled)[k].kind = "gate_sample"
      BY <1>8, GateSends
    <2>2. PICK new : new = SampleSends(enabled)
      OBVIOUS
    <2>3. Plain(new) /\ Sends(now', Rest, new)
      BY <2>1, <2>2 DEF Event, Plain
    <2> QED BY <1>8, <2>3, TakenPlain DEF GateSample
  <1>9. CASE Arrival
    BY <1>2, <1>9 DEF Arrival
  <1>10. CASE DescriptorVisible
    BY <1>2, <1>10 DEF DescriptorVisible
  <1>11. CASE Release
    BY <1>2, <1>11 DEF Release
  <1>12. CASE Withdraw
    BY <1>2, <1>12 DEF Withdraw
  <1>13. CASE GateApply
    BY <1>2, <1>13 DEF GateApply
  <1>14. Finish => FALSE
    BY DEF Finish, Raise, Running
  <1>15. Fail => FALSE
    BY DEF Fail, Raise, Running
  <1>16. Ended => FALSE
    BY DEF Ended
  <1> QED BY <1>3, <1>4, <1>5, <1>6, <1>7, <1>8, <1>9, <1>10, <1>11, <1>12, <1>13, <1>14,
             <1>15, <1>16 DEF Next

LEMMA WithdrawnPlain ==
    ASSUME TypeInv, WithdrawnInv, NEW old, NEW new, NEW t, Sends(t, old, new), LeftBy(old), Plain(new),
           IF old # events /\ events[1].kind = "withdraw"
           THEN \E c \in {"before", "after", "stale"} : withdrawals' = [withdrawals EXCEPT ![c] = @ + 1]
           ELSE withdrawals' = withdrawals
    PROVE  WithdrawnInv'
  <1>1. StillQueued' = Cardinality(Withdrawals(old)) + 0
    BY QueuedSent, WithdrawalsNone DEF Plain
  <1>2. StillQueued = Cardinality(Withdrawals(events)) /\ Cardinality(Withdrawals(events)) \in Nat
    BY EventsTyped, WithdrawalsFinite DEF StillQueued, Withdrawals
  <1>3. withdrawals \in [Classes -> Int] /\ \A c \in Classes : withdrawals[c] \in Int
    BY DEF TypeInv
  <1>4. CASE old = events
    <2>1. StillQueued' = StillQueued /\ withdrawals' = withdrawals
      BY <1>1, <1>2, <1>4
    <2> QED BY <2>1 DEF WithdrawnInv, Withdrawn
  <1>5. CASE old # events /\ events[1].kind # "withdraw"
    <2>1. Cardinality(Withdrawals(old)) = Cardinality(Withdrawals(events)) - 0
      BY <1>5, WithdrawalsOfRest DEF LeftBy
    <2>2. StillQueued' = StillQueued /\ withdrawals' = withdrawals
      BY <1>1, <1>2, <1>5, <2>1
    <2> QED BY <2>2 DEF WithdrawnInv, Withdrawn
  <1>6. CASE old # events /\ events[1].kind = "withdraw"
    <2>1. Cardinality(Withdrawals(old)) = Cardinality(Withdrawals(events)) - 1
      BY <1>6, WithdrawalsOfRest DEF LeftBy
    <2>2. StillQueued' = StillQueued - 1 /\ StillQueued \in Int
      BY <1>1, <1>2, <2>1
    <2>3. PICK c \in {"before", "after", "stale"} : withdrawals' = [withdrawals EXCEPT ![c] = @ + 1]
      BY <1>6
    <2>4. /\ \A d \in Classes : withdrawals'[d] = IF d = c THEN withdrawals[d] + 1 ELSE withdrawals[d]
          /\ c # "scheduled"
      BY <1>3, <2>3
    <2>5. Withdrawn' = Withdrawn + 1 /\ Withdrawn \in Int
      BY <1>3, <2>3, <2>4 DEF Withdrawn, Classes
    <2>6. withdrawals'.scheduled = withdrawals.scheduled
      BY <2>4 DEF Classes
    <2> QED BY <2>2, <2>5, <2>6 DEF WithdrawnInv
  <1> QED BY <1>4, <1>5, <1>6

LEMMA WithdrawTaken ==
    ASSUME TypeInv, Next, events # <<>>, Take("withdraw")
    PROVE  Withdraw
  <1>1. \A kind : Take(kind) => kind = "withdraw"
    BY DEF Take
  <1>2. ~Arrival /\ ~PayloadVisible /\ ~DescriptorVisible /\ ~ReadyVisible /\ ~CpuConsume /\ ~Release
    BY <1>1 DEF Arrival, PayloadVisible, DescriptorVisible, ReadyVisible, CpuConsume, Release
  <1>3. ~Background /\ ~GateSample /\ ~GateApply
    BY <1>1 DEF Background, GateSample, GateApply
  <1>4. calls = <<>> /\ Running /\ Unfinished /\ Head(events).time <= MaxTime /\ Head(events).time \in Int
    BY RestTyped DEF Take, Between, At
  <1>5. ~IssueAtOnce /\ ~TryIssue /\ ~TryCpu
    BY <1>4 DEF IssueAtOnce, TryIssue, TryCpu, InCall
  <1>6. ~Finish /\ ~Ended
    BY <1>4 DEF Finish, Ended
  <1>7. ~Fail
    BY <1>4, Sizes DEF Fail
  <1> QED BY <1>2, <1>3, <1>5, <1>6, <1>7 DEF Next

LEMMA WithdrawalsKept ==
    ASSUME Next, ~Withdraw, ~PayloadVisible
    PROVE  withdrawals' = withdrawals
  <1>1. Arrival \/ DescriptorVisible \/ ReadyVisible => withdrawals' = withdrawals
    BY DEF Arrival, DescriptorVisible, ReadyVisible
  <1>2. IssueAtOnce \/ TryIssue => withdrawals' = withdrawals
    BY DEF IssueAtOnce, TryIssue, UnchangedByIssue
  <1>3. TryCpu \/ CpuConsume \/ Release => withdrawals' = withdrawals
    BY DEF TryCpu, CpuConsume, Release
  <1>4. Background \/ GateSample \/ GateApply => withdrawals' = withdrawals
    BY DEF Background, GateSample, GateApply
  <1>5. Finish \/ Fail \/ Ended => withdrawals' = withdrawals
    BY DEF Finish, Fail, Ended, vars
  <1> QED BY <1>1, <1>2, <1>3, <1>4, <1>5 DEF Next

LEMMA WithdrawnPayload ==
    ASSUME TypeInv, QueueInv, FlowsInv, Desk, WithdrawnInv, PayloadVisible
    PROVE  WithdrawnInv'
  <1>1. PICK w : w = WithdrawLater(Taken)
    OBVIOUS
  <1>2. PICK o : o = OnLink(At, CompletionLines(Taken[1]))
    OBVIOUS
  <1>3. /\ CompletionLines(Taken[1]) \in Seq(LineSet) /\ w \in Seq(Events) /\ o \in Seq(Events)
        /\ Sends(now', Rest, w \o o)
    BY <1>1, <1>2, PayloadSends
  <1>4. Take("payload_visible") /\ withdrawals' = [withdrawals EXCEPT !.scheduled = @ + Len(w)]
    BY <1>1 DEF PayloadVisible
  <1>5. /\ \A k \in DOMAIN w : w[k].kind = "withdraw"
        /\ Taken \in Packets \X Nat /\ At \in Nat /\ events # <<>> /\ events[1].kind = "payload_visible"
    <2>1. Taken \in Packets \X Nat /\ At \in Nat /\ events # <<>> /\ events[1].kind = "payload_visible"
      BY <1>4, TakeTyped DEF OfLine
    <2> QED BY <1>1, <2>1, WithdrawTyped
  <1>6. \A k \in DOMAIN o : o[k].kind # "withdraw"
    BY <1>2, <1>3, LinesPlain
  <1>7. PICK new : new = w \o o
    OBVIOUS
  <1>8. Withdrawals(new) = 1..Len(w) /\ Len(w) \in Nat
    <2>1. new \in Seq(Events) /\ Len(w) \in Nat /\ DOMAIN w = 1..Len(w) /\ DOMAIN new = 1..(Len(w) + Len(o))
      BY <1>3, <1>7
    <2>2. \A k \in DOMAIN new : /\ k <= Len(w) => k \in DOMAIN w /\ new[k] = w[k]
                                /\ k > Len(w) => k - Len(w) \in DOMAIN o /\ new[k] = o[k - Len(w)]
      BY <1>3, <1>7
    <2>3. \A k \in DOMAIN new : new[k].kind = "withdraw" <=> k <= Len(w)
      BY <1>5, <1>6, <2>1, <2>2
    <2>4. \A k : k \in Withdrawals(new) <=> k \in DOMAIN new /\ new[k].kind = "withdraw"
      BY DEF Withdrawals
    <2>5. \A k : k \in 1..Len(w) <=> k \in DOMAIN new /\ new[k].kind = "withdraw"
      <3>1. Len(o) \in Nat
        BY <1>3
      <3> QED BY <2>1, <2>3, <3>1
    <2> QED BY <2>1, <2>4, <2>5
  <1>9. Cardinality(Withdrawals(new)) = Len(w)
    <2>1. PICK n \in Nat : n = Len(w)
      BY <1>8
    <2>2. Cardinality(1..n) = IF 1 > n THEN 0 ELSE n - 1 + 1
      BY FS_Interval
    <2>3. Cardinality(1..n) = n
      BY <2>1, <2>2
    <2> QED BY <1>8, <2>1, <2>3
  <1>10. StillQueued' = Cardinality(Withdrawals(Rest)) + Len(w)
    BY <1>3, <1>7, <1>9, QueuedSent
  <1>11. Cardinality(Withdrawals(Rest)) = Cardinality(Withdrawals(events)) - 0
    BY <1>5, WithdrawalsOfRest
  <1>12. StillQueued = Cardinality(Withdrawals(events)) /\ Cardinality(Withdrawals(events)) \in Nat
    BY EventsTyped, WithdrawalsFinite DEF StillQueued, Withdrawals
  <1>13. withdrawals \in [Classes -> Int] /\ \A c \in Classes : withdrawals[c] \in Int
    BY DEF TypeInv
  <1>14. \A d \in Classes : withdrawals'[d] = IF d = "scheduled" THEN withdrawals[d] + Len(w) ELSE withdrawals[d]
    BY <1>4, <1>13 DEF Classes
  <1>15. Withdrawn' = Withdrawn /\ Withdrawn \in Int /\ withdrawals'.scheduled = withdrawals.scheduled + Len(w)
    BY <1>13, <1>14 DEF Withdrawn, Classes
  <1> QED BY <1>8, <1>10, <1>11, <1>12, <1>15 DEF WithdrawnInv

LEMMA WithdrawnConsume ==
    ASSUME TypeInv, QueueInv, FlowsInv, Desk, WithdrawnInv, CpuConsume
    PROVE  WithdrawnInv'
  <1>1. PICK p : p = Taken
    OBVIOUS
  <1>2. PICK n \in Nat : Sends(now', Rest, <<Event(n, "release", p)>>)
    BY <1>1, ConsumeShape
  <1>3. \A k \in DOMAIN <<Event(n, "release", p)>> : <<Event(n, "release", p)>>[k].kind # "withdraw"
    BY DEF Event
  <1>4. StillQueued' = Cardinality(Withdrawals(Rest)) + 0
    BY <1>2, <1>3, QueuedSent, WithdrawalsNone
  <1>5. events # <<>> /\ events[1].kind = "cpu_consume" /\ withdrawals' = withdrawals
    BY TakeTyped DEF CpuConsume
  <1>6. Cardinality(Withdrawals(Rest)) = Cardinality(Withdrawals(events)) - 0
    BY <1>5, WithdrawalsOfRest
  <1>7. StillQueued = Cardinality(Withdrawals(events)) /\ Cardinality(Withdrawals(events)) \in Nat
    BY EventsTyped, WithdrawalsFinite DEF StillQueued, Withdrawals
  <1> QED BY <1>4, <1>5, <1>6, <1>7 DEF WithdrawnInv, Withdrawn

LEMMA WithdrawnNext ==
    ASSUME TypeInv, QueueInv, FlowsInv, CallsInv, Desk, WithdrawnInv, Next, Running, Running'
    PROVE  WithdrawnInv'
  <1>1. CASE PayloadVisible
    BY <1>1, WithdrawnPayload
  <1>2. CASE CpuConsume
    BY <1>2, WithdrawnConsume
  <1>3. CASE ~PayloadVisible /\ ~CpuConsume
    <2>1. PICK old, new : Sends(now', old, new) /\ LeftBy(old) /\ Plain(new)
      BY <1>3, PlainStep
    <2>2. CASE Withdraw
      <3>1. Class(Taken[1]) \in {"before", "after", "stale"}
        BY DEF Class
      <3>2. \E c \in {"before", "after", "stale"} : withdrawals' = [withdrawals EXCEPT ![c] = @ + 1]
        BY <2>2, <3>1 DEF Withdraw
      <3>3. events # <<>> /\ events[1].kind = "withdraw" /\ events' = Rest
        BY <2>2, TakeTyped DEF Withdraw
      <3>4. Sends(now', Rest, <<>>) /\ LeftBy(Rest)
        BY <2>2, TakeSends, TakeTyped DEF LeftBy, Withdraw, Take
      <3>5. Rest # events
        <4>1. Len(Rest) = Len(events) - 1 /\ Len(events) \in Nat
          BY <3>3, EventsTyped DEF Rest
        <4> QED BY <4>1
      <3> QED BY <3>2, <3>3, <3>4, <3>5, PlainNone, WithdrawnPlain
    <2>3. CASE ~Withdraw
      <3>1. withdrawals' = withdrawals
        BY <1>3, <2>3, WithdrawalsKept
      <3>2. ~(old # events /\ events[1].kind = "withdraw")
        <4>1. SUFFICES ASSUME old # events, events[1].kind = "withdraw" PROVE FALSE
          OBVIOUS
        <4>2. events # <<>> /\ Take(Head(events).kind)
          BY <2>1, <4>1 DEF LeftBy
        <4>3. Head(events) = events[1]
          BY <4>2, RestTyped
        <4> QED BY <2>3, <4>1, <4>2, <4>3, WithdrawTaken
      <3> QED BY <2>1, <3>1, <3>2, WithdrawnPlain
    <2> QED BY <2>2, <2>3
  <1> QED BY <1>1, <1>2, <1>3

--------------------------------------------------------------------------------
(* When what happened.                                                     *)

(* A packet reaches none of the stages that ask more of its times.         *)
NoFurther(p) ==
    /\ stage'[p] # "coming" => stage[p] # "coming"
    /\ stage'[p] \notin {"coming", "arrived"} => stage[p] \notin {"coming", "arrived"}
    /\ stage'[p] \in {"ready", "consuming", "buffered", "released"} =>
        stage[p] \in {"ready", "consuming", "buffered", "released"}
    /\ stage'[p] \in {"buffered", "released"} => stage[p] \in {"buffered", "released"}
    /\ stage'[p] = "released" => stage[p] = "released"

LEMMA TimeParts ==
    ASSUME TypeInv, NEW p \in Packets
    PROVE  /\ times[p].issue \in Int /\ times[p].ready \in Int /\ times[p].consume \in Int
           /\ times[p].processed \in Int /\ times[p].delivery \in Int
           /\ times[p] \in AllTimes /\ arrival_ns[p] \in Nat /\ now \in Nat
  BY DEF TypeInv, AllTimes

LEMMA ReleasesFrom ==
    ASSUME TypeInv, QueueInv, NEW old, NEW new, Sends(now', old, new), LeftBy(old), NEW p,
           NEW i \in DOMAIN events', events'[i].kind = "release", events'[i].what = p
    PROVE  \/ \E k \in DOMAIN events : /\ events[k].kind = "release" /\ events[k].what = p
                                       /\ events[k].time = events'[i].time
           \/ \E j \in DOMAIN new : /\ new[j].kind = "release" /\ new[j].what = p
                                    /\ new[j].time = events'[i].time
  BY SentFrom, OldEvents

LEMMA TimeStays ==
    ASSUME TypeInv, QueueInv, NEW old, NEW new, Sends(now', old, new), LeftBy(old),
           arrival_ns' = arrival_ns, NEW p \in Packets, TimeInv(p), times'[p] = times[p],
           NoFurther(p), \A j \in DOMAIN new : new[j].kind = "release" => new[j].what # p
    PROVE  TimeInv(p)'
  <1>1. now \in Nat /\ now' \in Nat /\ now <= now'
    <2>0. now \in Nat
      BY DEF TypeInv
    <2>1. CASE now' = now
      BY <2>0, <2>1
    <2>2. CASE Take(Head(events).kind)
      BY <2>0, <2>2, TakeTyped
    <2> QED BY <2>1, <2>2 DEF LeftBy
  <1>2. PICK t : t = times[p]
    OBVIOUS
  <1>3. /\ t.issue \in Int /\ t.ready \in Int /\ t.consume \in Int
        /\ t.processed \in Int /\ t.delivery \in Int /\ arrival_ns[p] \in Nat
    BY <1>2, TimeParts
  <1>4. \A i \in DOMAIN events' : events'[i].kind = "release" /\ events'[i].what = p =>
            t.ready <= t.consume /\ t.consume <= t.processed /\ t.processed = events'[i].time
    <2> SUFFICES ASSUME NEW i \in DOMAIN events', events'[i].kind = "release", events'[i].what = p
                 PROVE  t.ready <= t.consume /\ t.consume <= t.processed /\ t.processed = events'[i].time
      OBVIOUS
    <2>1. PICK k \in DOMAIN events : /\ events[k].kind = "release" /\ events[k].what = p
                                     /\ events[k].time = events'[i].time
      BY ReleasesFrom
    <2> QED BY <1>2, <2>1 DEF TimeInv
  <1>5. /\ stage'[p] # "coming" => arrival_ns[p] <= now'
        /\ stage'[p] \notin {"coming", "arrived"} => arrival_ns[p] <= t.issue /\ t.issue <= now'
        /\ stage'[p] \in {"ready", "consuming", "buffered", "released"} =>
             t.issue <= t.ready /\ t.ready <= now'
        /\ stage'[p] \in {"buffered", "released"} =>
             t.ready <= t.consume /\ t.consume <= t.processed /\ t.processed <= now'
        /\ stage'[p] = "released" => t.processed <= t.delivery /\ t.delivery <= now'
    <2>1. /\ stage[p] # "coming" => arrival_ns[p] <= now
          /\ stage[p] \notin {"coming", "arrived"} => arrival_ns[p] <= t.issue /\ t.issue <= now
          /\ stage[p] \in {"ready", "consuming", "buffered", "released"} =>
               t.issue <= t.ready /\ t.ready <= now
          /\ stage[p] \in {"buffered", "released"} =>
               t.ready <= t.consume /\ t.consume <= t.processed /\ t.processed <= now
          /\ stage[p] = "released" => t.processed <= t.delivery /\ t.delivery <= now
      BY <1>2 DEF TimeInv
    <2>2. \A x \in Int : x <= now => x <= now'
      BY <1>1
    <2> QED BY <1>3, <2>1, <2>2 DEF NoFurther
  <1> QED BY <1>2, <1>4, <1>5 DEF TimeInv

LEMMA TimesKept ==
    ASSUME TypeInv, QueueInv, NEW old, NEW new, Sends(now', old, new), LeftBy(old),
           arrival_ns' = arrival_ns, TimesInv, times' = times,
           \A j \in DOMAIN new : new[j].kind # "release",
           \A p \in Packets : NoFurther(p)
    PROVE  TimesInv'
  BY TimeStays DEF TimesInv

LEMMA TimesArrival ==
    ASSUME TypeInv, QueueInv, Desk, TimesInv, Arrival
    PROVE  TimesInv'
  <1>1. PICK p : p = Taken
    OBVIOUS
  <1>2. p \in Packets /\ stage[p] = "coming" /\ now' = At /\ At \in Nat /\ now <= At
        /\ 1 \in DOMAIN events /\ events[1].kind = "arrival" /\ events[1].what = p /\ events[1].time = At
    BY <1>1, TakeTyped, ArrivalDesk DEF Arrival, OfPacket
  <1>3. arrival_ns[p] = now'
    BY <1>2 DEF Desk, EventsFit, EventFits
  <1>4. /\ stage' = [stage EXCEPT ![p] = "arrived"] /\ times' = times /\ arrival_ns' = arrival_ns
        /\ Take("arrival") /\ events' = Rest
    BY <1>1 DEF Arrival, inputs
  <1>5. Sends(now', Rest, <<>>) /\ LeftBy(Rest)
    BY <1>4, TakeSends, TakeTyped DEF LeftBy, Take
  <1>6. \A q \in Packets : stage'[q] = IF q = p THEN "arrived" ELSE stage[q]
    BY <1>2, <1>4, Opened
  <1>7. \A q \in Packets : q # p => TimeInv(q)'
    BY <1>4, <1>5, <1>6, TimeStays DEF TimesInv, NoFurther
  <1>8. TimeInv(p)'
    <2>1. \A i \in DOMAIN events' : events'[i].kind = "release" => events'[i].what # p
      <3>1. \A i \in DOMAIN Rest : ~About(Rest[i], p)
        BY <1>1, <1>4, RestNone DEF Desk
      <3> QED BY <1>4, <3>1 DEF About, OfPacket
    <2>2. arrival_ns'[p] <= now'
      BY <1>2, <1>3, <1>4
    <2>3. stage'[p] = "arrived"
      BY <1>2, <1>6
    <2> QED BY <2>1, <2>2, <2>3 DEF TimeInv
  <1> QED BY <1>7, <1>8 DEF TimesInv

LEMMA TimesIssue ==
    ASSUME TypeInv, QueueInv, FlowsInv, TimesInv, EventsFit, NEW p \in Packets, stage[p] = "arrived",
           Issue(p), now' = now, arrival_ns' = arrival_ns
    PROVE  TimesInv'
  <1>1. PICK new : Sends(now', events, new) /\ Plain(new)
    BY IssuePlain
  <1>2. LeftBy(events)
    BY DEF LeftBy
  <1>3. times' = [times EXCEPT ![p].issue = now]
    BY IssueShape
  <1>4. /\ \A q \in Packets : q # p => stage'[q] = stage[q] /\ times'[q] = times[q]
        /\ times'[p] = [times[p] EXCEPT !.issue = now]
    <2>1. \A q \in Packets : q # p => stage'[q] = stage[q]
      BY Opened, IssueShape
    <2>2. /\ \A q \in Packets : q # p => times'[q] = times[q]
          /\ times'[p] = [times[p] EXCEPT !.issue = now]
      BY <1>3, Opened
    <2> QED BY <2>1, <2>2
  <1>5. stage'[p] \in {"issued", "publishing", "complete"}
    BY Opened, IssueShape DEF Completed
  <1>6. \A q \in Packets : q # p => TimeInv(q)'
    BY <1>1, <1>2, <1>4, TimeStays DEF TimesInv, Plain, NoFurther
  <1>7. TimeInv(p)'
    <2>1. arrival_ns[p] <= now /\ now \in Nat
      BY TimeParts DEF TimesInv, TimeInv
    <2>2. times'[p].issue = now
      BY <1>4, TimeParts DEF AllTimes
    <2>3. \A i \in DOMAIN events' : ~(events'[i].kind = "release" /\ events'[i].what = p)
      <3> SUFFICES ASSUME NEW i \in DOMAIN events', events'[i].kind = "release", events'[i].what = p
                   PROVE  FALSE
        OBVIOUS
      <3>1. PICK k \in DOMAIN events : events[k].kind = "release" /\ events[k].what = p
        BY <1>1, <1>2, ReleasesFrom DEF Plain
      <3> QED BY <3>1 DEF EventsFit, EventFits
    <2> QED BY <1>5, <2>1, <2>2, <2>3 DEF TimeInv
  <1> QED BY <1>6, <1>7 DEF TimesInv

LEMMA TimesReady ==
    ASSUME TypeInv, QueueInv, FlowsInv, Desk, TimesInv, ReadyVisible
    PROVE  TimesInv'
  <1>1. PICK p : p = Taken
    OBVIOUS
  <1>2. /\ p \in Packets /\ stage[p] = "publishing"
        /\ times' = [times EXCEPT ![p].ready = At]
        /\ stage' = [q \in Packets |-> IF q = p THEN "ready"
                                       ELSE IF Follows(p) /\ q = SuccessorOf(p) THEN "publishing"
                                       ELSE stage[q]]
        /\ ReadyLines(p) = IF Follows(p) THEN Metadata(SuccessorOf(p)) ELSE <<>>
        /\ Sends(now', Rest, OnLink(At, ReadyLines(p)))
    BY <1>1, ReadyShape
  <1>3. /\ Take("ready_visible") /\ now' = At /\ At \in Nat /\ now <= At /\ LeftBy(Rest)
        /\ arrival_ns' = arrival_ns
    BY TakeTyped DEF ReadyVisible, LeftBy, Take, inputs
  <1>4. PICK new : new = OnLink(At, ReadyLines(p))
    OBVIOUS
  <1>5. Plain(new) /\ Sends(now', Rest, new)
    <2>1. CASE Follows(p)
      BY <1>2, <1>3, <1>4, <2>1, AnnouncingPlain DEF Follows
    <2>2. CASE ~Follows(p)
      BY <1>2, <1>4, <2>2 DEF OnLink, Plain
    <2> QED BY <1>2, <1>4, <2>1, <2>2
  <1>6. /\ \A q \in Packets : q # p => times'[q] = times[q]
        /\ times'[p] = [times[p] EXCEPT !.ready = At]
    BY <1>2, Opened
  <1>7. /\ stage'[p] = "ready"
        /\ \A q \in Packets : q # p =>
             stage'[q] = stage[q] \/ (stage[q] = "complete" /\ stage'[q] = "publishing")
    BY <1>2 DEF Follows
  <1>8. \A q \in Packets : q # p => TimeInv(q)'
    BY <1>3, <1>5, <1>6, <1>7, TimeStays DEF TimesInv, Plain, NoFurther
  <1>9. TimeInv(p)'
    <2>1. PICK t : t = times[p]
      OBVIOUS
    <2>2. arrival_ns[p] <= now /\ arrival_ns[p] <= t.issue /\ t.issue <= now
      BY <1>2, <2>1 DEF TimesInv, TimeInv
    <2>3. t.issue \in Int /\ arrival_ns[p] \in Nat /\ now \in Nat /\ t \in AllTimes
      BY <1>2, <2>1, TimeParts
    <2>4. times'[p].ready = At /\ times'[p].issue = t.issue
      BY <1>6, <2>1, <2>3 DEF AllTimes
    <2>5. \A i \in DOMAIN events' : ~(events'[i].kind = "release" /\ events'[i].what = p)
      <3> SUFFICES ASSUME NEW i \in DOMAIN events', events'[i].kind = "release", events'[i].what = p
                   PROVE  FALSE
        OBVIOUS
      <3>1. PICK k \in DOMAIN events : events[k].kind = "release" /\ events[k].what = p
        BY <1>3, <1>5, ReleasesFrom DEF Plain
      <3> QED BY <1>2, <3>1 DEF Desk, EventsFit, EventFits
    <2> QED BY <1>3, <1>7, <2>2, <2>3, <2>4, <2>5 DEF TimeInv
  <1> QED BY <1>8, <1>9 DEF TimesInv

LEMMA TwoTimes ==
    ASSUME NEW t \in [Packets -> AllTimes], NEW p \in Packets, NEW n, NEW m,
           NEW T, T = [t EXCEPT ![p].consume = n, ![p].processed = m]
    PROVE  /\ \A q \in Packets : q # p => T[q] = t[q]
           /\ T[p].consume = n /\ T[p].processed = m
           /\ T[p].issue = t[p].issue /\ T[p].ready = t[p].ready
  <1>1. PICK u : u = [t EXCEPT ![p].consume = n]
    OBVIOUS
  <1>2. T = [u EXCEPT ![p].processed = m]
    BY <1>1
  <1>3. DOMAIN u = Packets /\ \A q \in Packets : u[q] = IF q = p THEN [t[p] EXCEPT !.consume = n] ELSE t[q]
    BY <1>1
  <1>4. \A q \in Packets : T[q] = IF q = p THEN [u[p] EXCEPT !.processed = m] ELSE u[q]
    BY <1>2, <1>3
  <1>5. t[p] \in AllTimes
    OBVIOUS
  <1>6. PICK v : v = [t[p] EXCEPT !.consume = n]
    OBVIOUS
  <1>7. v.consume = n /\ v.issue = t[p].issue /\ v.ready = t[p].ready
        /\ DOMAIN v = {"issue", "ready", "consume", "processed", "delivery"}
    BY <1>5, <1>6 DEF AllTimes
  <1>8. T[p] = [v EXCEPT !.processed = m]
    BY <1>3, <1>4, <1>6
  <1>9. /\ T[p].processed = m /\ T[p].consume = v.consume
        /\ T[p].issue = v.issue /\ T[p].ready = v.ready
    BY <1>7, <1>8
  <1> QED BY <1>3, <1>4, <1>7, <1>9

LEMMA TimesConsume ==
    ASSUME TypeInv, QueueInv, FlowsInv, Desk, TimesInv, CpuConsume
    PROVE  TimesInv'
  <1>1. PICK p : p = Taken
    OBVIOUS
  <1>2. p \in Packets /\ stage[p] = "consuming"
    BY <1>1, ConsumeShape
  <1>3. PICK n \in Nat :
          /\ At <= n
          /\ times' = [times EXCEPT ![p].consume = At, ![p].processed = n]
          /\ Sends(now', Rest, <<Event(n, "release", p)>>)
    BY <1>1, ConsumeShape
  <1>4. /\ Take("cpu_consume") /\ now' = At /\ At \in Nat /\ now <= At /\ LeftBy(Rest)
        /\ arrival_ns' = arrival_ns /\ stage' = stage
    BY TakeTyped DEF CpuConsume, LeftBy, Take, inputs
  <1>5. PICK new : new = <<Event(n, "release", p)>>
    OBVIOUS
  <1>6. \A j \in DOMAIN new : new[j].what = p /\ new[j].time = n
    BY <1>5 DEF Event
  <1>7. /\ \A q \in Packets : q # p => times'[q] = times[q]
        /\ times'[p].consume = At /\ times'[p].processed = n
        /\ times'[p].issue = times[p].issue /\ times'[p].ready = times[p].ready
    <2>1. PICK T : T = times'
      OBVIOUS
    <2> QED BY <1>2, <1>3, <2>1, Opened, TwoTimes
  <1>8. Sends(now', Rest, new)
    BY <1>3, <1>5
  <1>9. \A q \in Packets : q # p => TimeInv(q)'
    BY <1>4, <1>6, <1>7, <1>8, TimeStays DEF TimesInv, NoFurther
  <1>10. TimeInv(p)'
    <2>1. PICK t : t = times[p]
      OBVIOUS
    <2>2. /\ arrival_ns[p] <= now /\ arrival_ns[p] <= t.issue /\ t.issue <= now
          /\ t.issue <= t.ready /\ t.ready <= now
      BY <1>2, <2>1 DEF TimesInv, TimeInv
    <2>3. t.issue \in Int /\ t.ready \in Int /\ arrival_ns[p] \in Nat /\ now \in Nat /\ t \in AllTimes
      BY <1>2, <2>1, TimeParts
    <2>4. /\ times'[p].consume = At /\ times'[p].processed = n
          /\ times'[p].issue = t.issue /\ times'[p].ready = t.ready
      BY <1>7, <2>1
    <2>5. \A i \in DOMAIN events' : events'[i].kind = "release" /\ events'[i].what = p =>
            events'[i].time = n
      <3> SUFFICES ASSUME NEW i \in DOMAIN events', events'[i].kind = "release", events'[i].what = p
                   PROVE  events'[i].time = n
        OBVIOUS
      <3>1. CASE \E k \in DOMAIN Rest : events'[i] = Rest[k]
        <4>1. \A k \in DOMAIN Rest : ~About(Rest[k], p)
          BY <1>1, <1>4, RestNone DEF Desk
        <4> QED BY <3>1, <4>1 DEF About, OfPacket
      <3>2. CASE \E j \in DOMAIN new : events'[i] = new[j]
        BY <1>6, <3>2
      <3> QED BY <1>8, <3>1, <3>2, SentFrom
    <2>6. stage'[p] = "consuming" /\ arrival_ns[p] <= At /\ t.issue <= At /\ t.ready <= At
      BY <1>2, <1>4, <2>2, <2>3
    <2>7. arrival_ns'[p] = arrival_ns[p]
      BY <1>4
    <2>8. \A i \in DOMAIN events' : events'[i].kind = "release" /\ events'[i].what = p =>
            /\ times'[p].ready <= times'[p].consume /\ times'[p].consume <= times'[p].processed
            /\ times'[p].processed = events'[i].time
      BY <1>3, <2>4, <2>5, <2>6
    <2> QED BY <1>4, <2>2, <2>4, <2>6, <2>7, <2>8 DEF TimeInv
  <1> QED BY <1>9, <1>10 DEF TimesInv

LEMMA TimesRelease ==
    ASSUME TypeInv, QueueInv, FlowsInv, Desk, TimesInv, Release, Running'
    PROVE  TimesInv'
  <1>1. PICK p : p = Taken
    OBVIOUS
  <1>2. /\ p \in Packets /\ stage[p] = "consuming" /\ \E d \in Nat : Delivers(p, d)
    BY <1>1, ReleaseShape DEF Running
  <1>3. PICK d \in Nat : Delivers(p, d)
    BY <1>2
  <1>4. /\ Take("release") /\ now' = At /\ At \in Nat /\ now <= At /\ LeftBy(Rest)
        /\ arrival_ns' = arrival_ns /\ events' = Rest
        /\ 1 \in DOMAIN events /\ events[1].kind = "release" /\ events[1].what = p
        /\ events[1].time = At
    BY <1>1, TakeTyped DEF Release, LeftBy, Take, inputs
  <1>5. Sends(now', Rest, <<>>)
    BY <1>4, TakeSends
  <1>6. /\ \A q \in Packets : stage'[q] = IF q \in UpTo(p, d) THEN "released"
                                          ELSE IF q = p THEN "buffered" ELSE stage[q]
        /\ \A q \in Packets : times'[q] = IF q \in UpTo(p, d) THEN [times[q] EXCEPT !.delivery = At]
                                          ELSE times[q]
        /\ UpTo(p, d) \in SUBSET Packets
        /\ \A q \in UpTo(p, d) : q = p \/ stage[q] = "buffered"
    BY <1>3 DEF Delivers, IsDelivery, UpTo
  <1>7. \A q \in Packets : q # p /\ q \notin UpTo(p, d) => TimeInv(q)'
    BY <1>4, <1>5, <1>6, NothingApart, TimeStays DEF TimesInv, NoFurther
  <1>8. ASSUME NEW q \in Packets, q = p \/ q \in UpTo(p, d)
        PROVE  TimeInv(q)'
    <2>1. PICK t : t = times[q]
      OBVIOUS
    <2>2. /\ t.issue \in Int /\ t.ready \in Int /\ t.consume \in Int /\ t.processed \in Int
          /\ arrival_ns[q] \in Nat /\ now \in Nat /\ t \in AllTimes
      BY <2>1, TimeParts
    <2>3. stage[q] = "consuming" \/ stage[q] = "buffered"
      BY <1>2, <1>6, <1>8
    <2>4. /\ arrival_ns[q] <= now /\ arrival_ns[q] <= t.issue /\ t.issue <= now
          /\ t.issue <= t.ready /\ t.ready <= now
      BY <2>1, <2>3 DEF TimesInv, TimeInv
    <2>5. t.ready <= t.consume /\ t.consume <= t.processed /\ t.processed <= At
      <3>1. CASE q = p
        BY <1>4, <2>1, <2>2, <3>1 DEF TimesInv, TimeInv
      <3>2. CASE q # p
        <4>1. stage[q] = "buffered"
          BY <1>6, <1>8, <3>2
        <4>2. t.ready <= t.consume /\ t.consume <= t.processed /\ t.processed <= now
          BY <2>1, <4>1 DEF TimesInv, TimeInv
        <4> QED BY <1>4, <2>2, <4>2
      <3> QED BY <3>1, <3>2
    <2>6. /\ times'[q].issue = t.issue /\ times'[q].ready = t.ready /\ times'[q].consume = t.consume
          /\ times'[q].processed = t.processed
          /\ q \in UpTo(p, d) => times'[q].delivery = At
      BY <1>6, <2>1, <2>2 DEF AllTimes
    <2>7. stage'[q] = IF q \in UpTo(p, d) THEN "released" ELSE "buffered"
      BY <1>6, <1>8
    <2>8. \A i \in DOMAIN events' : ~(events'[i].kind = "release" /\ events'[i].what = q)
      <3> SUFFICES ASSUME NEW i \in DOMAIN Rest, Rest[i].kind = "release", Rest[i].what = q
                   PROVE  FALSE
        BY <1>4
      <3>1. CASE q = p
        <4>1. \A k \in DOMAIN Rest : ~About(Rest[k], p)
          BY <1>1, <1>4, RestNone DEF Desk
        <4> QED BY <3>1, <4>1 DEF About, OfPacket
      <3>2. CASE q # p
        <4>1. stage[q] = "buffered"
          BY <1>6, <1>8, <3>2
        <4>2. PICK k \in DOMAIN events : Rest[i] = events[k]
          BY <1>4, OldEvents
        <4> QED BY <4>1, <4>2 DEF Desk, EventsFit, EventFits
      <3> QED BY <3>1, <3>2
    <2>9. /\ arrival_ns[q] <= At /\ t.issue <= At /\ t.ready <= At
      BY <1>4, <2>2, <2>4
    <2> QED BY <1>4, <2>2, <2>4, <2>5, <2>6, <2>7, <2>8, <2>9 DEF TimeInv
  <1> QED BY <1>7, <1>8 DEF TimesInv

LEMMA PayloadReleases ==
    ASSUME TypeInv, QueueInv, FlowsInv, Desk, PayloadVisible
    PROVE  \E new : Sends(now', Rest, new) /\ \A j \in DOMAIN new : new[j].kind # "release"
  <1>1. PICK w : w = WithdrawLater(Taken)
    OBVIOUS
  <1>2. PICK p \in Packets : /\ Taken[1] = p
                             /\ CompletionLines(p) = Announcing(p) \/ CompletionLines(p) = <<>>
    BY PayloadShape
  <1>3. PICK o : o = OnLink(At, CompletionLines(p))
    OBVIOUS
  <1>4. w \in Seq(Events) /\ o \in Seq(Events) /\ Sends(now', Rest, w \o o)
    BY <1>1, <1>2, <1>3, PayloadSends
  <1>5. At \in Nat /\ Taken \in Packets \X Nat
    BY TakeTyped DEF PayloadVisible, OfLine
  <1>6. \A k \in DOMAIN w : w[k].kind # "release"
    BY <1>1, <1>5, WithdrawTyped
  <1>7. \A k \in DOMAIN o : o[k].kind # "release"
    <2>1. CASE CompletionLines(p) = Announcing(p)
      BY <1>3, <1>5, <2>1, AnnouncingPlain DEF Plain
    <2>2. CASE CompletionLines(p) = <<>>
      BY <1>3, <2>2 DEF OnLink
    <2> QED BY <1>2, <2>1, <2>2
  <1>8. PICK new : new = w \o o
    OBVIOUS
  <1>9. \A j \in DOMAIN new : new[j].kind # "release"
    <2>1. \A j \in DOMAIN new : /\ j <= Len(w) => j \in DOMAIN w /\ new[j] = w[j]
                                /\ j > Len(w) => j - Len(w) \in DOMAIN o /\ new[j] = o[j - Len(w)]
      BY <1>4, <1>8
    <2>2. \A j \in DOMAIN new : j \in Int /\ Len(w) \in Int
      BY <1>4, <1>8
    <2> QED BY <1>6, <1>7, <2>1, <2>2
  <1> QED BY <1>4, <1>8, <1>9

(* The steps in which a packet may get further.                            *)
Moving == Arrival \/ IssueAtOnce \/ (TryIssue /\ \E p \in Packets : Issues(p))
          \/ ReadyVisible \/ CpuConsume \/ Release

LEMMA NotMoving ==
    ASSUME TypeInv, QueueInv, FlowsInv, CallsInv, Desk, Next, Running, Running', ~Moving
    PROVE  times' = times /\ delivered' = delivered /\ \A q \in Packets : NoFurther(q)
  <1>1. stage' = stage => \A q \in Packets : NoFurther(q)
    BY DEF NoFurther
  <1>2. CASE TryIssue
    <2>1. UNCHANGED <<packets, books, events, link_available_ps, line_counts, outcome>>
      BY <1>2, TryIssueShape DEF Moving
    <2>2. times' = times /\ delivered' = delivered /\ stage' = stage
      BY <1>2, <2>1 DEF TryIssue, packets
    <2> QED BY <1>1, <2>2
  <1>3. CASE PayloadVisible
    <2>1. times' = times /\ delivered' = delivered
      BY <1>3 DEF PayloadVisible
    <2>2. PICK p \in Packets :
             /\ stage[p] = "issued"
             /\ stage' = [stage EXCEPT ![p] = Completed(p)] \/ stage' = stage
      BY <1>3, PayloadShape
    <2>3. /\ \A q \in Packets : q # p => stage'[q] = stage[q]
          /\ stage'[p] \in {"issued", "complete", "publishing"}
      BY <2>2, Opened DEF Completed
    <2> QED BY <2>1, <2>2, <2>3 DEF NoFurther
  <1>4. CASE DescriptorVisible
    BY <1>1, <1>4 DEF DescriptorVisible
  <1>5. CASE TryCpu
    <2>1. times' = times /\ delivered' = delivered
      BY <1>5 DEF TryCpu
    <2>2. CASE \E p \in Packets : TakesUp(p)
      <3>1. PICK p \in Packets : stage[p] = "ready" /\ stage' = [stage EXCEPT ![p] = "consuming"]
        BY <2>2 DEF TakesUp
      <3>2. \A q \in Packets : IF q = p THEN stage'[q] = "consuming" ELSE stage'[q] = stage[q]
        BY <3>1, Opened
      <3> QED BY <2>1, <3>1, <3>2 DEF NoFurther
    <2> QED BY <1>1, <1>5, <2>1, <2>2, TryCpuShape
  <1>6. CASE Withdraw \/ Background \/ GateSample \/ GateApply
    <2>1. times' = times /\ delivered' = delivered /\ stage' = stage
      <3>1. Withdraw \/ Background => times' = times /\ delivered' = delivered /\ stage' = stage
        BY DEF Withdraw, Background, packets
      <3>2. GateSample \/ GateApply => times' = times /\ delivered' = delivered /\ stage' = stage
        BY DEF GateSample, GateApply, packets
      <3> QED BY <1>6, <3>1, <3>2
    <2> QED BY <1>1, <2>1
  <1>7. Finish => FALSE
    BY DEF Finish, Raise, Running
  <1>8. Fail => FALSE
    BY DEF Fail, Raise, Running
  <1>9. Ended => FALSE
    BY DEF Ended
  <1> QED BY <1>2, <1>3, <1>4, <1>5, <1>6, <1>7, <1>8, <1>9 DEF Next, Moving

LEMMA TimesNext ==
    ASSUME TypeInv, QueueInv, FlowsInv, CallsInv, Desk, TimesInv, Next, Running, Running'
    PROVE  TimesInv'
  <1>0. arrival_ns' = arrival_ns
    BY InputsKept
  <1>1. CASE Arrival
    BY <1>1, TimesArrival
  <1>2. CASE IssueAtOnce
    <2>1. PICK p \in Packets : Head(calls).packet = p /\ stage[p] = "arrived"
      BY <1>2, IssueCall DEF IssueAtOnce
    <2>2. Issue(p) /\ now' = now
      BY <1>2, <2>1 DEF IssueAtOnce, UnchangedByIssue
    <2> QED BY <1>0, <2>1, <2>2, TimesIssue DEF Desk
  <1>3. CASE TryIssue /\ \E p \in Packets : Issues(p)
    <2>1. PICK p \in Packets : stage[p] = "arrived" /\ Issue(p)
      BY <1>3 DEF Issues
    <2>2. now' = now
      BY <1>3 DEF TryIssue
    <2> QED BY <1>0, <2>1, <2>2, TimesIssue DEF Desk
  <1>4. CASE ReadyVisible
    BY <1>4, TimesReady
  <1>5. CASE CpuConsume
    BY <1>5, TimesConsume
  <1>6. CASE Release
    BY <1>6, TimesRelease
  <1>7. CASE ~Moving
    <2>1. times' = times /\ \A q \in Packets : NoFurther(q)
      BY <1>7, NotMoving
    <2>2. PICK old, new : /\ Sends(now', old, new) /\ LeftBy(old)
                          /\ \A j \in DOMAIN new : new[j].kind # "release"
      <3>1. CASE PayloadVisible
        <4>1. LeftBy(Rest)
          BY <3>1, TakeTyped DEF PayloadVisible, LeftBy, Take
        <4> QED BY <3>1, <4>1, PayloadReleases
      <3>2. CASE ~PayloadVisible
        BY <1>7, <3>2, PlainStep DEF Moving, Plain
      <3> QED BY <3>1, <3>2
    <2> QED BY <1>0, <2>1, <2>2, TimesKept
  <1> QED BY <1>1, <1>2, <1>3, <1>4, <1>5, <1>6, <1>7 DEF Moving
--------------------------------------------------------------------------------
(* What is delivered.                                                      *)

IsJoined(r, s, t) ==
    /\ DOMAIN r = 1..(Len(s) + Len(t)) /\ Len(s) \in Nat /\ Len(t) \in Nat
    /\ \A i \in DOMAIN r :
         /\ i \in Nat
         /\ i <= Len(s) => i \in DOMAIN s /\ r[i] = s[i]
         /\ i > Len(s) => i - Len(s) \in DOMAIN t /\ r[i] = t[i - Len(s)]
    /\ \A i \in DOMAIN s : i \in DOMAIN r /\ r[i] = s[i]
    /\ \A k \in DOMAIN t : Len(s) + k \in DOMAIN r /\ r[Len(s) + k] = t[k] /\ k \in Nat

LEMMA Joined ==
    ASSUME NEW S, NEW s \in Seq(S), NEW t \in Seq(S), NEW r, r = s \o t
    PROVE  IsJoined(r, s, t)
  BY DEF IsJoined

LEMMA DeliveredRelease ==
    ASSUME TypeInv, QueueInv, FlowsInv, Desk, DeliveredInv, Release, Running'
    PROVE  DeliveredInv'
  <1>1. PICK p : p = Taken
    OBVIOUS
  <1>2. /\ p \in Packets /\ stage[p] = "consuming" /\ \E d \in Nat : Delivers(p, d)
    BY <1>1, ReleaseShape DEF Running
  <1>3. PICK d \in Nat : Delivers(p, d)
    BY <1>2
  <1>4. PICK D : D = Delivery(p)
    OBVIOUS
  <1>5. PICK c : c = next_consume[FlowOf(p)]
    OBVIOUS
  <1>6. PICK r : r = delivered'
    OBVIOUS
  <1>7. /\ D \in Seq(Packets) /\ Len(D) = d - c
        /\ \A k \in DOMAIN D : D[k] = <<FlowOf(p), c + k - 1>>
        /\ UpTo(p, d) = {D[k] : k \in DOMAIN D}
    BY <1>3, <1>4, <1>5 DEF Delivers, IsDelivery
  <1>8. /\ \A q \in Packets : stage'[q] = IF q \in UpTo(p, d) THEN "released"
                                          ELSE IF q = p THEN "buffered" ELSE stage[q]
        /\ r = delivered \o D
    BY <1>3, <1>4, <1>6 DEF Delivers
  <1>9. c \in Nat /\ delivered \in Seq(Packets) /\ r \in Seq(Packets) /\ Len(delivered) \in Nat
    BY <1>2, <1>5, <1>7, <1>8, NextTyped DEF TypeInv
  <1>10. /\ DOMAIN r = 1..(Len(delivered) + Len(D))
         /\ \A i \in DOMAIN r : /\ i \in Nat
                                /\ i <= Len(delivered) => i \in DOMAIN delivered /\ r[i] = delivered[i]
                                /\ i > Len(delivered) =>
                                     /\ i - Len(delivered) \in DOMAIN D
                                     /\ r[i] = D[i - Len(delivered)]
         /\ \A i \in DOMAIN delivered : i \in DOMAIN r /\ r[i] = delivered[i]
         /\ \A k \in DOMAIN D : Len(delivered) + k \in DOMAIN r /\ r[Len(delivered) + k] = D[k]
    <2>1. delivered \in Seq(Packets) /\ D \in Seq(Packets) /\ r = delivered \o D
      BY <1>7, <1>8, <1>9
    <2>2. IsJoined(r, delivered, D)
      BY <2>1, Joined
    <2> QED BY <2>2 DEF IsJoined
  <1>11. /\ \A q \in Packets : stage[q] = "released" <=> \E i \in DOMAIN delivered : delivered[i] = q
         /\ \A i, j \in DOMAIN delivered :
              i < j /\ FlowOf(delivered[i]) = FlowOf(delivered[j])
                => SerialOf(delivered[i]) < SerialOf(delivered[j])
    BY DEF DeliveredInv
  <1>12. \A q \in Packets : stage'[q] = "released" <=> \E i \in DOMAIN r : r[i] = q
    <2> TAKE q \in Packets
    <2>1. stage'[q] = "released" <=> stage[q] = "released" \/ q \in UpTo(p, d)
      BY <1>2, <1>8
    <2>2. (\E i \in DOMAIN r : r[i] = q) <=>
            (\E i \in DOMAIN delivered : delivered[i] = q) \/ (\E k \in DOMAIN D : D[k] = q)
      <3>1. ASSUME NEW i \in DOMAIN r, r[i] = q
            PROVE  (\E j \in DOMAIN delivered : delivered[j] = q) \/ (\E k \in DOMAIN D : D[k] = q)
        <4>1. CASE i <= Len(delivered)
          BY <1>10, <3>1, <4>1
        <4>2. CASE i > Len(delivered)
          BY <1>10, <3>1, <4>2
        <4>3. i \in Nat
          BY <1>10, <3>1
        <4> QED BY <1>9, <4>1, <4>2, <4>3
      <3>2. ASSUME NEW j \in DOMAIN delivered, delivered[j] = q
            PROVE  \E i \in DOMAIN r : r[i] = q
        BY <1>10, <3>2
      <3>3. ASSUME NEW k \in DOMAIN D, D[k] = q
            PROVE  \E i \in DOMAIN r : r[i] = q
        BY <1>10, <3>3
      <3> QED BY <3>1, <3>2, <3>3
    <2>3. q \in UpTo(p, d) <=> \E k \in DOMAIN D : D[k] = q
      BY <1>7
    <2> QED BY <1>11, <2>1, <2>2, <2>3
  <1>13. ASSUME NEW i \in DOMAIN r, NEW j \in DOMAIN r, i < j, FlowOf(r[i]) = FlowOf(r[j])
         PROVE  SerialOf(r[i]) < SerialOf(r[j])
    <2>1. i \in Nat /\ j \in Nat
      BY <1>10
    <2>2. CASE j <= Len(delivered)
      <3>1. i <= Len(delivered)
        BY <1>9, <1>13, <2>1, <2>2
      <3>2. r[i] = delivered[i] /\ r[j] = delivered[j] /\ i \in DOMAIN delivered /\ j \in DOMAIN delivered
        BY <1>10, <2>2, <3>1
      <3> QED BY <1>11, <1>13, <3>2
    <2>3. CASE j > Len(delivered)
      <3>1. PICK k \in DOMAIN D : k = j - Len(delivered) /\ r[j] = D[k]
        BY <1>10, <2>3
      <3>2. k \in Nat /\ 1 <= k
        BY <1>7, <3>1
      <3>3. D[k] = <<FlowOf(p), c + k - 1>> /\ FlowOf(r[j]) = FlowOf(p) /\ SerialOf(r[j]) = c + k - 1
        BY <1>7, <3>1 DEF FlowOf, SerialOf
      <3>4. CASE i <= Len(delivered)
        <4>1. i \in DOMAIN delivered /\ r[i] = delivered[i] /\ r[i] \in Packets
          BY <1>9, <1>10, <3>4
        <4>2. stage[r[i]] = "released"
          BY <1>11, <4>1
        <4>3. InFlow(r[i])
          BY <4>1 DEF FlowsInv
        <4>4. SerialOf(r[i]) < c
          BY <1>5, <1>13, <3>3, <4>2, <4>3 DEF InFlow
        <4>5. SerialOf(r[i]) \in Nat
          BY <4>1, PacketParts
        <4> QED BY <1>9, <3>2, <3>3, <4>4, <4>5
      <3>5. CASE i > Len(delivered)
        <4>1. PICK l \in DOMAIN D : l = i - Len(delivered) /\ r[i] = D[l]
          BY <1>10, <3>5
        <4>2. l \in Nat /\ l < k
          <5>1. l \in Nat
            BY <1>7, <4>1
          <5> QED BY <1>9, <1>13, <2>1, <3>1, <3>2, <4>1, <5>1
        <4>3. SerialOf(r[i]) = c + l - 1
          BY <1>7, <4>1 DEF SerialOf
        <4> QED BY <1>9, <3>2, <3>3, <4>2, <4>3
      <3> QED BY <1>9, <2>1, <3>4, <3>5
    <2> QED BY <1>9, <2>1, <2>2, <2>3
  <1> QED BY <1>6, <1>12, <1>13 DEF DeliveredInv

LEMMA DeliveredNext ==
    ASSUME TypeInv, QueueInv, FlowsInv, FlowsInv', Desk, DeliveredInv, Next, Running, Running'
    PROVE  DeliveredInv'
  <1>1. CASE Release
    BY <1>1, DeliveredRelease
  <1>2. CASE ~Release
    <2>1. delivered' = delivered /\ next_consume' = next_consume
      <3>1. Arrival \/ PayloadVisible \/ DescriptorVisible \/ ReadyVisible
              => delivered' = delivered /\ next_consume' = next_consume
        BY DEF Arrival, PayloadVisible, DescriptorVisible, ReadyVisible
      <3>2. IssueAtOnce \/ TryIssue => delivered' = delivered /\ next_consume' = next_consume
        BY DEF IssueAtOnce, TryIssue, UnchangedByIssue
      <3>3. TryCpu \/ CpuConsume => delivered' = delivered /\ next_consume' = next_consume
        BY DEF TryCpu, CpuConsume
      <3>4. Withdraw \/ Background \/ GateSample \/ GateApply
              => delivered' = delivered /\ next_consume' = next_consume
        BY DEF Withdraw, Background, GateSample, GateApply
      <3>5. Finish \/ Fail \/ Ended => delivered' = delivered /\ next_consume' = next_consume
        BY DEF Finish, Fail, Ended, vars
      <3> QED BY <1>2, <3>1, <3>2, <3>3, <3>4, <3>5 DEF Next
    <2>2. \A q \in Packets : stage'[q] = "released" <=> stage[q] = "released"
      BY <2>1 DEF FlowsInv, InFlow
    <2> QED BY <2>1, <2>2 DEF DeliveredInv
  <1> QED BY <1>1, <1>2
--------------------------------------------------------------------------------
(* What may go on is about to be tried.                                    *)

TriedFor(f) == \E i \in DOMAIN calls : calls[i].name = "try_issue" /\ f \in Considered(FlowOf(calls[i].packet))

NoneIssuable == policy.reorder_before_push => \A f \in Flows : ~Issuable(f)

CpuWaits == cpu_scheduled \/ Consumable = {} \/ Calls("try_cpu")

LEMMA WaitingIs ==
    WaitingInv <=> /\ policy.reorder_before_push => \A f \in Flows : Issuable(f) => TriedFor(f)
                   /\ CpuWaits
  BY DEF WaitingInv, TriedFor, CpuWaits

LEMMA IssuableKept ==
    ASSUME policy' = policy, config' = config, next_issue' = next_issue,
           credit' = credit, global_credit' = global_credit,
           \A q \in Packets : stage'[q] # "coming" => stage[q] # "coming",
           NEW f \in Flows, Issuable(f)'
    PROVE  Issuable(f)
  BY DEF Issuable, NextPacket, FitsCredit, Shared

LEMMA CallsTell ==
    ASSUME NEW c, NEW n, NEW m
    PROVE  /\ DOMAIN <<>> = {} /\ DOMAIN <<c>> = {1} /\ <<c>>[1] = c
           /\ DOMAIN <<n, m>> = {1, 2} /\ <<n, m>>[1] = n /\ <<n, m>>[2] = m
  OBVIOUS

LEMMA NoTryIssue ==
    ASSUME TypeInv, WaitingInv, \A i \in DOMAIN calls : calls[i].name # "try_issue"
    PROVE  NoneIssuable
  BY WaitingIs DEF TriedFor, NoneIssuable

(* An event finds no call left over.                                       *)
LEMMA TakeFinds ==
    ASSUME TypeInv, WaitingInv, NEW kind, Take(kind)
    PROVE  /\ calls = <<>> /\ NoneIssuable
           /\ cpu_scheduled \/ Consumable = {}
  <1>1. calls = <<>> /\ DOMAIN calls = {}
    BY DEF Take, Between
  <1> QED BY <1>1, NoTryIssue, WaitingIs DEF CpuWaits, Calls

LEMMA ConsumableKept ==
    ASSUME policy' = policy, next_consume' = next_consume,
           \A q \in Packets : /\ stage'[q] = "ready" => stage[q] = "ready"
                              /\ stage'[q] \in {"ready", "consuming"} => stage[q] \in {"ready", "consuming"},
           Consumable = {}
    PROVE  Consumable' = {}
  <1>1. \A q \in Packets :
          ~IF policy.cpu_reorder THEN stage[q] = "ready"
           ELSE SerialOf(q) = next_consume[FlowOf(q)] /\ stage[q] \in {"ready", "consuming"}
    BY DEF Consumable
  <1> QED BY <1>1 DEF Consumable

(* Steps after which no more may go on than before.                        *)
LEMMA WaitingKept ==
    ASSUME TypeInv, WaitingInv, NEW kind, Take(kind),
           policy' = policy, config' = config, next_issue' = next_issue,
           credit' = credit, global_credit' = global_credit, cpu_scheduled' = cpu_scheduled,
           \A q \in Packets : stage'[q] # "coming" => stage[q] # "coming",
           Calls("try_cpu")' \/
             /\ next_consume' = next_consume
             /\ \A q \in Packets :
                  /\ stage'[q] = "ready" => stage[q] = "ready"
                  /\ stage'[q] \in {"ready", "consuming"} => stage[q] \in {"ready", "consuming"}
    PROVE  WaitingInv'
  <1>1. NoneIssuable /\ (cpu_scheduled \/ Consumable = {})
    BY TakeFinds
  <1>2. policy.reorder_before_push => \A f \in Flows : ~Issuable(f)'
    BY <1>1, IssuableKept DEF NoneIssuable
  <1>3. cpu_scheduled' \/ Consumable' = {} \/ Calls("try_cpu")'
    BY <1>1, ConsumableKept
  <1> QED BY <1>2, <1>3 DEF WaitingInv

LEMMA WaitingArrival ==
    ASSUME TypeInv, QueueInv, Desk, WaitingInv, Arrival, Running, Running'
    PROVE  WaitingInv'
  <1>1. PICK p : p = Taken
    OBVIOUS
  <1>2. p \in Packets /\ stage[p] = "coming"
    BY <1>1, TakeTyped, ArrivalDesk DEF Arrival, OfPacket
  <1>3. /\ policy' = policy /\ config' = config /\ next_issue' = next_issue /\ credit' = credit
        /\ global_credit' = global_credit /\ cpu_scheduled' = cpu_scheduled
        /\ next_consume' = next_consume /\ stage' = [stage EXCEPT ![p] = "arrived"]
    BY <1>1 DEF Arrival, inputs, books, cpu
  <1>4. \A q \in Packets : stage'[q] = IF q = p THEN "arrived" ELSE stage[q]
    BY <1>2, <1>3, Opened
  <1>5. NoneIssuable /\ (cpu_scheduled \/ Consumable = {})
    BY TakeFinds DEF Arrival
  <1>6. cpu_scheduled' \/ Consumable' = {}
    BY <1>3, <1>4, <1>5, ConsumableKept
  <1>7. ASSUME policy.reorder_before_push, NEW f \in Flows, Issuable(f)'
        PROVE  TriedFor(f)'
    <2>1. calls' = <<Call("try_issue", p)>>
      BY <1>1, <1>7 DEF Arrival, Raise, Running
    <2>2. f = FlowOf(p)
      <3> SUFFICES ASSUME f # FlowOf(p) PROVE Issuable(f)
        BY <1>5, <1>7 DEF NoneIssuable
      <3>1. PICK n : n = NextPacket(f)
        OBVIOUS
      <3>2. n # p /\ NextPacket(f)' = n
        BY <1>3, <3>1 DEF NextPacket, FlowOf
      <3> QED BY <1>3, <1>4, <1>7, <3>1, <3>2 DEF Issuable, FitsCredit, Shared
    <2>3. f \in Considered(FlowOf(p))'
      BY <2>2, <1>7 DEF Considered
    <2>4. /\ 1 \in DOMAIN calls' /\ calls'[1].name = "try_issue" /\ calls'[1].packet = p
      BY <2>1, CallsTell DEF Call
    <2> QED BY <2>3, <2>4 DEF TriedFor, Considered, Shared
  <1> QED BY <1>3, <1>6, <1>7 DEF WaitingInv, TriedFor

LEMMA WaitingRelease ==
    ASSUME TypeInv, QueueInv, FlowsInv, Desk, WaitingInv, Release, Running, Running'
    PROVE  WaitingInv'
  <1>1. PICK p : p = Taken
    OBVIOUS
  <1>2. /\ p \in Packets /\ stage[p] = "consuming"
        /\ IF policy.use_credit
           THEN /\ credit' = [credit EXCEPT ![FlowOf(p)] = @ - LinesOf[p]]
                /\ global_credit' = global_credit - LinesOf[p]
           ELSE credit' = credit /\ global_credit' = global_credit
        /\ \E d \in Nat : Delivers(p, d)
    BY <1>1, ReleaseShape DEF Running
  <1>3. PICK d \in Nat : Delivers(p, d)
    BY <1>2
  <1>4. calls' = <<Call("try_issue", p), Call("try_cpu", p)>>
    BY <1>3 DEF Delivers, CallsAfterRelease
  <1>5. /\ DOMAIN calls' = {1, 2} /\ calls'[1].name = "try_issue" /\ calls'[1].packet = p
        /\ calls'[2].name = "try_cpu"
    BY <1>4, CallsTell DEF Call
  <1>6. policy' = policy /\ config' = config /\ next_issue' = next_issue
    BY DEF Release, inputs
  <1>7. \A q \in Packets : stage'[q] # "coming" => stage[q] # "coming"
    <2>1. /\ \A q \in Packets : stage'[q] = IF q \in UpTo(p, d) THEN "released"
                                            ELSE IF q = p THEN "buffered" ELSE stage[q]
          /\ \A q \in UpTo(p, d) : q = p \/ stage[q] = "buffered"
      BY <1>3 DEF Delivers, IsDelivery
    <2> QED BY <1>2, <2>1
  <1>8. NoneIssuable
    BY TakeFinds DEF Release
  <1>9. ASSUME policy.reorder_before_push, NEW f \in Flows, Issuable(f)'
        PROVE  TriedFor(f)'
    <2>1. CASE Shared \/ f = FlowOf(p)
      <3>1. f \in Considered(FlowOf(p))'
        BY <1>6, <2>1 DEF Considered, Shared
      <3> QED BY <1>5, <3>1 DEF TriedFor, Considered, Shared
    <2>2. CASE ~Shared /\ f # FlowOf(p)
      <3>1. credit'[f] = credit[f]
        BY <1>2, <2>2, Opened
      <3>2. Issuable(f)
        BY <1>6, <1>7, <1>9, <2>2, <3>1 DEF Issuable, NextPacket, FitsCredit, Shared
      <3> QED BY <1>8, <1>9, <3>2 DEF NoneIssuable
    <2> QED BY <2>1, <2>2
  <1> QED BY <1>5, <1>6, <1>9 DEF WaitingInv, TriedFor, Calls

LEMMA WaitingIssue ==
    ASSUME TypeInv, QueueInv, FlowsInv, CallsInv, WaitingInv, IssueAtOnce
    PROVE  WaitingInv'
  <1>1. PICK p \in Packets :
          /\ calls = <<Call("issue", p)>> /\ Head(calls).packet = p /\ Tail(calls) = <<>>
          /\ stage[p] = "arrived" /\ ~policy.reorder_before_push
    BY IssueCall DEF IssueAtOnce
  <1>2. /\ policy' = policy /\ next_consume' = next_consume /\ cpu_scheduled' = cpu_scheduled /\ Issue(p)
    BY <1>1 DEF IssueAtOnce, UnchangedByIssue, inputs, cpu
  <1>3. \A q \in Packets : q # p => stage'[q] = stage[q]
    BY <1>1, <1>2, Opened, IssueShape
  <1>4. stage'[p] \in {"issued", "publishing", "complete"}
    BY <1>1, <1>2, Opened, IssueShape DEF Completed
  <1>5. ~Calls("try_cpu")
    BY <1>1, CallsTell DEF Calls, Call
  <1>6. cpu_scheduled' \/ Consumable' = {}
    BY <1>2, <1>3, <1>4, <1>5, WaitingIs, ConsumableKept DEF CpuWaits
  <1> QED BY <1>1, <1>2, <1>6 DEF WaitingInv

LEMMA WaitingTryIssue ==
    ASSUME TypeInv, QueueInv, FlowsInv, CallsInv, CreditInv, WaitingInv, TryIssue
    PROVE  WaitingInv'
  <1>0. /\ policy' = policy /\ config' = config /\ next_consume' = next_consume
        /\ cpu_scheduled' = cpu_scheduled
    BY DEF TryIssue, inputs, cpu
  <1>1. calls # <<>> /\ Head(calls).packet \in Packets /\ Head(calls).name = "try_issue"
        /\ Considered(FlowOf(Head(calls).packet)) \subseteq Flows
    BY TryIssueShape
  <1>2. PICK c \in Packets :
          /\ Head(calls).packet = c
          /\ \/ calls = <<Call("try_issue", c)>> /\ Tail(calls) = <<>>
             \/ calls = <<Call("try_issue", c), Call("try_cpu", c)>> /\ Tail(calls) = <<Call("try_cpu", c)>>
    BY <1>1, CallsShape
  <1>3. /\ \A i \in DOMAIN calls : calls[i].name = "try_issue" => calls[i].packet = c
        /\ \A i \in DOMAIN Tail(calls) : Tail(calls)[i].name # "try_issue"
        /\ Calls("try_cpu") => \E i \in DOMAIN Tail(calls) : Tail(calls)[i].name = "try_cpu"
        /\ 1 \in DOMAIN calls /\ calls[1].name = "try_issue" /\ calls[1].packet = c
    BY <1>2, CallsTell DEF Call, Calls
  <1>4. CASE /\ policy.reorder_before_push =>
                  \A f \in Considered(FlowOf(Head(calls).packet)) : ~Issuable(f)
             /\ calls' = Tail(calls)
             /\ UNCHANGED <<packets, books, events, link_available_ps, line_counts, outcome>>
    <2>1. stage' = stage /\ credit' = credit /\ global_credit' = global_credit /\ next_issue' = next_issue
      BY <1>4 DEF packets, books
    <2>2. \A f \in Flows : TriedFor(f) => f \in Considered(FlowOf(c))
      BY <1>3 DEF TriedFor
    <2>3. policy.reorder_before_push => \A f \in Flows : ~Issuable(f)
      BY <1>2, <1>4, <2>2, WaitingIs
    <2>4. policy.reorder_before_push => \A f \in Flows : ~Issuable(f)'
      BY <1>0, <2>1, <2>3, IssuableKept
    <2>5. cpu_scheduled' \/ Consumable' = {} \/ Calls("try_cpu")'
      <3>1. CASE Calls("try_cpu")
        BY <1>3, <1>4, <3>1 DEF Calls
      <3>2. CASE ~Calls("try_cpu")
        BY <1>0, <2>1, <3>2, WaitingIs, ConsumableKept DEF CpuWaits
      <3> QED BY <3>1, <3>2
    <2> QED BY <1>0, <2>4, <2>5 DEF WaitingInv
  <1>5. ASSUME NEW p \in Packets, Issues(p)
        PROVE  WaitingInv'
    <2>1. /\ stage[p] = "arrived" /\ Issue(p) /\ calls' = calls
          /\ FlowOf(p) \in Considered(FlowOf(c))
          /\ next_issue' = [next_issue EXCEPT ![FlowOf(p)] = @ + 1]
      BY <1>2, <1>5 DEF Issues
    <2>2. \A q \in Packets : q # p => stage'[q] = stage[q]
      BY <2>1, Opened, IssueShape
    <2>3. stage'[p] \in {"issued", "publishing", "complete"}
      BY <2>1, Opened, IssueShape DEF Completed
    <2>4. \A f \in Flows : TriedFor(f) => TriedFor(f)'
      BY <1>0, <2>1 DEF TriedFor, Considered, Shared
    <2>5. FlowOf(p) \in Flows /\ TriedFor(FlowOf(p))
      BY <1>3, <2>1, PacketParts DEF TriedFor
    <2>6. ASSUME policy.reorder_before_push, NEW f \in Flows, f # FlowOf(p), Issuable(f)'
          PROVE  Issuable(f)
      <3>1. next_issue'[f] = next_issue[f]
        BY <2>1, <2>6 DEF TypeInv
      <3>2. NextPacket(f)' = NextPacket(f)
        BY <3>1 DEF NextPacket
      <3>3. NextPacket(f) \in Packets /\ stage[NextPacket(f)] # "coming"
        BY <2>1, <2>2, <2>3, <2>6, <3>2 DEF Issuable
      <3>4. FitsCredit(f)
        <4>1. CASE ~policy.use_credit
          BY <4>1 DEF FitsCredit
        <4>2. CASE policy.use_credit
          <5>1. /\ credit' = [credit EXCEPT ![FlowOf(p)] = @ + LinesOf[p]]
                /\ global_credit' = global_credit + LinesOf[p]
            BY <2>1, <4>2, IssueShape
          <5>2. credit'[f] = credit[f]
            BY <2>6, <5>1, Opened
          <5>3. /\ LinesOf[p] \in Nat /\ global_credit \in Int
                /\ LinesOf[NextPacket(f)] \in Nat
                /\ Shared => config.global_credit \in Nat
            BY <3>3, Sizes, Opened, ConfigParts DEF Shared
          <5>4. /\ credit'[f] + LinesOf[NextPacket(f)] <= config.push_credit
                /\ Shared => global_credit' + LinesOf[NextPacket(f)] <= config.global_credit
            BY <1>0, <2>6, <3>2, <4>2 DEF Issuable, FitsCredit, Shared
          <5>5. Shared => global_credit + LinesOf[NextPacket(f)] <= config.global_credit
            BY <5>1, <5>3, <5>4
          <5> QED BY <5>2, <5>4, <5>5 DEF FitsCredit
        <4> QED BY <4>1, <4>2
      <3> QED BY <3>3, <3>4 DEF Issuable
    <2>7. policy.reorder_before_push => \A f \in Flows : Issuable(f)' => TriedFor(f)'
      BY <2>4, <2>5, <2>6, WaitingIs
    <2>8. cpu_scheduled' \/ Consumable' = {} \/ Calls("try_cpu")'
      <3>1. CASE Calls("try_cpu")
        BY <2>1, <3>1 DEF Calls
      <3>2. CASE ~Calls("try_cpu")
        BY <1>0, <2>2, <2>3, <3>2, WaitingIs, ConsumableKept DEF CpuWaits
      <3> QED BY <3>1, <3>2
    <2> QED BY <1>0, <2>7, <2>8 DEF WaitingInv, TriedFor
  <1> QED BY <1>4, <1>5, TryIssueShape

LEMMA WaitingTryCpu ==
    ASSUME TypeInv, QueueInv, FlowsInv, CallsInv, Desk, WaitingInv, TryCpu
    PROVE  WaitingInv'
  <1>0. /\ policy' = policy /\ config' = config /\ next_consume' = next_consume
        /\ next_issue' = next_issue /\ credit' = credit /\ global_credit' = global_credit
        /\ calls # <<>> /\ Head(calls).name = "try_cpu"
    BY DEF TryCpu, inputs, books, InCall
  <1>1. PICK c \in Packets : calls = <<Call("try_cpu", c)>>
    BY <1>0, CallsShape
  <1>2. NoneIssuable
    <2>1. \A i \in DOMAIN calls : calls[i].name # "try_issue"
      BY <1>1, CallsTell DEF Call
    <2> QED BY <2>1, NoTryIssue
  <1>3. (cpu_scheduled' \/ Consumable' = {}) /\ \A q \in Packets : stage'[q] # "coming" => stage[q] # "coming"
    <2>1. CASE (cpu_scheduled \/ Consumable = {}) /\ stage' = stage /\ cpu_scheduled' = cpu_scheduled
      BY <1>0, <2>1, ConsumableKept
    <2>2. CASE \E p \in Packets : TakesUp(p)
      <3>1. PICK p \in Packets : /\ stage[p] = "ready" /\ stage' = [stage EXCEPT ![p] = "consuming"]
                                 /\ cpu_scheduled' = TRUE
        BY <2>2 DEF TakesUp
      <3>2. \A q \in Packets : IF q = p THEN stage'[q] = "consuming" ELSE stage'[q] = stage[q]
        BY <3>1, Opened
      <3> QED BY <3>1, <3>2
    <2> QED BY <2>1, <2>2, TryCpuShape
  <1>4. policy.reorder_before_push => \A f \in Flows : ~Issuable(f)'
    BY <1>0, <1>2, <1>3, IssuableKept DEF NoneIssuable
  <1> QED BY <1>0, <1>3, <1>4 DEF WaitingInv

LEMMA WaitingReady ==
    ASSUME TypeInv, QueueInv, FlowsInv, Desk, WaitingInv, ReadyVisible
    PROVE  WaitingInv'
  <1>1. PICK p : p = Taken
    OBVIOUS
  <1>2. /\ p \in Packets /\ stage[p] = "publishing" /\ calls' = <<Call("try_cpu", p)>>
        /\ stage' = [q \in Packets |-> IF q = p THEN "ready"
                                       ELSE IF Follows(p) /\ q = SuccessorOf(p) THEN "publishing"
                                       ELSE stage[q]]
    BY <1>1, ReadyShape
  <1>3. \A q \in Packets : stage'[q] # "coming" => stage[q] # "coming"
    BY <1>2 DEF Follows
  <1>4. Calls("try_cpu")'
    BY <1>2, CallsTell DEF Calls, Call
  <1>5. /\ policy' = policy /\ config' = config /\ next_issue' = next_issue /\ credit' = credit
        /\ global_credit' = global_credit /\ cpu_scheduled' = cpu_scheduled /\ Take("ready_visible")
    BY DEF ReadyVisible, inputs, books, cpu
  <1> QED BY <1>3, <1>4, <1>5, WaitingKept

LEMMA WaitingPayload ==
    ASSUME TypeInv, QueueInv, FlowsInv, Desk, WaitingInv, PayloadVisible
    PROVE  WaitingInv'
  <1>1. PICK p \in Packets :
           /\ stage[p] = "issued"
           /\ stage' = [stage EXCEPT ![p] = Completed(p)] \/ stage' = stage
    BY PayloadShape
  <1>2. /\ \A q \in Packets : q # p => stage'[q] = stage[q]
        /\ stage'[p] \in {"issued", "complete", "publishing"}
    BY <1>1, Opened DEF Completed
  <1>3. /\ policy' = policy /\ config' = config /\ next_issue' = next_issue /\ credit' = credit
        /\ global_credit' = global_credit /\ cpu_scheduled' = cpu_scheduled
        /\ next_consume' = next_consume /\ Take("payload_visible")
    BY DEF PayloadVisible, inputs, books, cpu
  <1> QED BY <1>1, <1>2, <1>3, WaitingKept

LEMMA WaitingNext ==
    ASSUME TypeInv, QueueInv, FlowsInv, CallsInv, CreditInv, Desk, WaitingInv, Next, Running, Running'
    PROVE  WaitingInv'
  <1>1. ASSUME policy' = policy, config' = config, next_issue' = next_issue, credit' = credit,
               global_credit' = global_credit, cpu_scheduled' = cpu_scheduled,
               next_consume' = next_consume, stage' = stage, NEW kind, Take(kind)
        PROVE  WaitingInv'
    BY <1>1, WaitingKept
  <1>2. CASE Arrival
    BY <1>2, WaitingArrival
  <1>3. CASE IssueAtOnce
    BY <1>3, WaitingIssue
  <1>4. CASE TryIssue
    BY <1>4, WaitingTryIssue
  <1>5. CASE PayloadVisible
    BY <1>5, WaitingPayload
  <1>6. CASE DescriptorVisible
    BY <1>1, <1>6 DEF DescriptorVisible, inputs, books, cpu
  <1>7. CASE ReadyVisible
    BY <1>7, WaitingReady
  <1>8. CASE TryCpu
    BY <1>8, WaitingTryCpu
  <1>9. CASE CpuConsume
    BY <1>1, <1>9 DEF CpuConsume, inputs, books, cpu
  <1>10. CASE Release
    BY <1>10, WaitingRelease
  <1>11. CASE Withdraw
    BY <1>1, <1>11 DEF Withdraw, inputs, books, packets, cpu
  <1>12. CASE Background
    BY <1>1, <1>12 DEF Background, inputs, books, packets, cpu
  <1>13. CASE GateSample
    BY <1>1, <1>13 DEF GateSample, inputs, books, packets, cpu
  <1>14. CASE GateApply
    BY <1>1, <1>14 DEF GateApply, inputs, books, packets, cpu
  <1>15. Finish => FALSE
    BY DEF Finish, Raise, Running
  <1>16. Fail => FALSE
    BY DEF Fail, Raise, Running
  <1>17. Ended => FALSE
    BY DEF Ended
  <1> QED BY <1>2, <1>3, <1>4, <1>5, <1>6, <1>7, <1>8, <1>9, <1>10, <1>11, <1>12, <1>13,
             <1>14, <1>15, <1>16, <1>17 DEF Next

--------------------------------------------------------------------------------
(* The end of the run.                                                     *)

LEMMA PacketsCounted ==
    /\ IsFiniteSet(Packets) /\ Cardinality(Packets) = NumFlows * Count
    /\ NumFlows * Count \in Nat
  <1>1. NumFlows \in Nat /\ NumFlows > 0 /\ Count \in Nat /\ Count > 0
    BY Sizes
  <1>2. /\ IsFiniteSet(0..(NumFlows - 1)) /\ Cardinality(0..(NumFlows - 1)) = NumFlows
    <2>1. PICK m \in Int : m = NumFlows - 1
      BY <1>1
    <2>2. IsFiniteSet(0..m) /\ Cardinality(0..m) = IF 0 > m THEN 0 ELSE m - 0 + 1
      BY FS_Interval
    <2> QED BY <1>1, <2>1, <2>2
  <1>3. /\ IsFiniteSet(0..(Count - 1)) /\ Cardinality(0..(Count - 1)) = Count
    <2>1. PICK m \in Int : m = Count - 1
      BY <1>1
    <2>2. IsFiniteSet(0..m) /\ Cardinality(0..m) = IF 0 > m THEN 0 ELSE m - 0 + 1
      BY FS_Interval
    <2> QED BY <1>1, <2>1, <2>2
  <1>4. IsFiniteSet(Packets)
    BY <1>2, <1>3, FS_Product DEF Packets, Flows
  <1>5. Cardinality(Packets) = NumFlows * Count
    <2>1. PICK S, T : S = 0..(NumFlows - 1) /\ T = 0..(Count - 1)
      OBVIOUS
    <2>2. Cardinality(S \X T) = Cardinality(S) * Cardinality(T)
      BY <1>2, <1>3, <2>1, FS_Product
    <2>3. Packets = S \X T
      BY <2>1 DEF Packets, Flows
    <2>4. Cardinality(S) = NumFlows /\ Cardinality(T) = Count
      BY <1>2, <1>3, <2>1
    <2> QED BY <2>2, <2>3, <2>4
  <1>6. NumFlows * Count \in Nat
    BY <1>4, <1>5, FS_CardinalityType
  <1> QED BY <1>4, <1>5, <1>6

LEMMA DeliveredOnce ==
    ASSUME TypeInv, DeliveredInv
    PROVE  \A i, j \in DOMAIN delivered : delivered[i] = delivered[j] => i = j
  <1> TAKE i, j \in DOMAIN delivered
  <1>1. i \in Nat /\ j \in Nat /\ delivered[i] \in Packets /\ delivered[j] \in Packets
    BY DEF TypeInv
  <1>2. SerialOf(delivered[i]) \in Nat /\ SerialOf(delivered[j]) \in Nat
    BY <1>1, PacketParts
  <1>3. i < j => delivered[i] # delivered[j]
    BY <1>2 DEF DeliveredInv
  <1>4. j < i => delivered[i] # delivered[j]
    BY <1>2 DEF DeliveredInv
  <1> QED BY <1>1, <1>3, <1>4

LEMMA AllDelivered ==
    ASSUME TypeInv, DeliveredInv
    PROVE  Unfinished <=> \E p \in Packets : stage[p] # "released"
  <1>1. delivered \in Seq(Packets) /\ Len(delivered) \in Nat /\ DOMAIN delivered = 1..Len(delivered)
    BY DEF TypeInv
  <1>2. PICK n \in Nat : n = Len(delivered)
    BY <1>1
  <1>3. delivered \in [1..n -> Packets]
    BY <1>1, <1>2
  <1>4. delivered \in Injection(1..n, Packets)
    <2>1. \A i, j \in DOMAIN delivered : delivered[i] = delivered[j] => i = j
      BY DeliveredOnce
    <2> QED BY <1>3, <2>1 DEF Injection, IsInjective
  <1>5. IsFiniteSet(1..n) /\ Cardinality(1..n) = n
    <2>1. IsFiniteSet(1..n) /\ Cardinality(1..n) = IF 1 > n THEN 0 ELSE n - 1 + 1
      BY FS_Interval
    <2> QED BY <2>1
  <1>6. /\ Cardinality(1..n) <= Cardinality(Packets)
        /\ Cardinality(1..n) = Cardinality(Packets) <=> delivered \in Surjection(1..n, Packets)
    BY <1>4, PacketsCounted, FS_Injection
  <1>7. delivered \in Surjection(1..n, Packets) <=> \A p \in Packets : stage[p] = "released"
    BY <1>1, <1>2, <1>3 DEF Surjection, DeliveredInv
  <1>8. n <= NumFlows * Count /\ (n = NumFlows * Count <=> \A p \in Packets : stage[p] = "released")
    BY <1>5, <1>6, <1>7, PacketsCounted
  <1>9. Unfinished <=> n < NumFlows * Count
    BY <1>2 DEF Unfinished
  <1>10. PICK m \in Nat : m = NumFlows * Count
    BY PacketsCounted
  <1>11. n <= m /\ (n = m <=> \A p \in Packets : stage[p] = "released") /\ (Unfinished <=> n < m)
    BY <1>8, <1>9, <1>10
  <1> QED BY <1>11

--------------------------------------------------------------------------------
(* Lines that were sent, came and were asked for.                          *)

LEMMA StepSends ==
    ASSUME TypeInv, QueueInv, FlowsInv, CallsInv, Desk, Next, Running, Running'
    PROVE  \E old, new : Sends(now', old, new) /\ LeftBy(old)
  <1>1. CASE PayloadVisible
    <2>1. LeftBy(Rest)
      BY <1>1, TakeTyped DEF PayloadVisible, LeftBy, Take
    <2> QED BY <1>1, <2>1, PayloadReleases
  <1>2. CASE CpuConsume
    <2>1. LeftBy(Rest)
      BY <1>2, TakeTyped DEF CpuConsume, LeftBy, Take
    <2>2. PICK p : p = Taken
      OBVIOUS
    <2>3. PICK n : Sends(now', Rest, <<Event(n, "release", p)>>)
      BY <1>2, <2>2, ConsumeShape
    <2> QED BY <2>1, <2>3
  <1>3. CASE ~PayloadVisible /\ ~CpuConsume
    BY <1>3, PlainStep
  <1> QED BY <1>1, <1>2, <1>3

LEMMA ClockOnward ==
    ASSUME TypeInv, QueueInv, FlowsInv, CallsInv, Desk, Next, Running, Running'
    PROVE  now \in Nat /\ now' \in Nat /\ now <= now'
  <1>1. PICK old : LeftBy(old)
    BY StepSends
  <1>2. now \in Nat
    BY DEF TypeInv
  <1>3. CASE now' = now
    BY <1>2, <1>3
  <1>4. CASE Take(Head(events).kind)
    BY <1>2, <1>4, TakeTyped
  <1> QED BY <1>1, <1>3, <1>4 DEF LeftBy

(* The end of the CPU's work stays in the queue until it comes.            *)
LEMMA ReleaseStays ==
    ASSUME TypeInv, QueueInv, FlowsInv, CallsInv, Desk, Next, Running, Running',
           NEW p \in Packets, stage'[p] = "consuming", IsQueued("release", p)
    PROVE  IsQueued("release", p)'
  <1>1. PICK old, new : Sends(now', old, new) /\ LeftBy(old)
    BY StepSends
  <1>2. SUFFICES ASSUME old # events, events[1].kind = "release", events[1].what = p
                 PROVE  FALSE
    BY <1>1, QueuedStays
  <1>3. Take(Head(events).kind) /\ events # <<>>
    BY <1>1, <1>2 DEF LeftBy
  <1>4. Head(events) = events[1]
    BY <1>3, RestTyped
  <1>5. Between /\ Unfinished /\ Head(events).kind = "release" /\ Taken = p
    BY <1>2, <1>3, <1>4 DEF Take, Taken
  <1>6. Release
    BY <1>5 DEF Next, Arrival, IssueAtOnce, TryIssue, PayloadVisible, DescriptorVisible,
       ReadyVisible, TryCpu, CpuConsume, Withdraw, Background, GateSample, GateApply,
       Finish, Fail, Ended, Raise, Running, Take, Between, InCall
  <1>7. stage' = [stage EXCEPT ![p] = "buffered"] \/ \E d \in Nat : Delivers(p, d)
    BY <1>5, <1>6, ReleaseShape
  <1>8. stage'[p] # "consuming"
    BY <1>7, Opened DEF Delivers
  <1> QED BY <1>8

Early == {"coming", "arrived", "issued", "complete"}
OnLinkStages == {"coming", "arrived", "issued"}
Done == {"consuming", "buffered", "released"}
Visible == {"ready", "consuming", "buffered", "released"}

(* A packet whose times and lines stay as they are, and whose stage does   *)
(* not go back, nor past what they say.                                    *)
LineStays(p) ==
    /\ times'[p].issue = times[p].issue /\ times'[p].consume = times[p].consume
    /\ times'[p].ready = times[p].ready
    /\ Awaited(p)' = Awaited(p)
    /\ last_visible_ns'[p] = last_visible_ns[p]

Onward(p) ==
    /\ stage'[p] \in {"coming", "arrived"} => stage[p] \in {"coming", "arrived"}
    /\ stage[p] \in Done => stage'[p] \in Done
    /\ stage'[p] = "consuming" => stage[p] \in {"ready", "consuming"}
    /\ stage'[p] \in Visible => stage[p] \in Visible
    /\ stage'[p] \notin OnLinkStages =>
        stage[p] \notin OnLinkStages \/ (policy.push_payload => Awaited(p) = {})

LEMMA LineMoves ==
    ASSUME TypeInv, QueueInv, FlowsInv, CallsInv, Desk, Next, Running, Running',
           NEW p \in Packets, LineInv(p), LineStays(p), Onward(p)
    PROVE  LineInv(p)'
  <1>1. now \in Nat /\ now' \in Nat /\ now <= now' /\ last_visible_ns[p] \in Int
    BY ClockOnward DEF TypeInv
  <1>2. policy' = policy
    BY InputsKept
  <1>3. PICK t, u : t = times[p] /\ u = times'[p]
    OBVIOUS
  <1>4. /\ u.issue = t.issue /\ u.consume = t.consume /\ u.ready = t.ready
        /\ Awaited(p)' = Awaited(p) /\ last_visible_ns'[p] = last_visible_ns[p]
    BY <1>3 DEF LineStays
  <1>5. /\ stage[p] \in {"coming", "arrived"} => t.issue = NotYet
        /\ stage[p] \notin Done => t.consume = NotYet
        /\ stage[p] = "consuming" => t.consume = NotYet \/ IsQueued("release", p)
        /\ stage[p] \notin OnLinkStages => (policy.push_payload => Awaited(p) = {})
        /\ last_visible_ns[p] <= now
        /\ stage[p] \in Visible => last_visible_ns[p] <= t.ready
    BY <1>3 DEF LineInv, Done, OnLinkStages, Visible
  <1>6. last_visible_ns'[p] <= now'
    BY <1>1, <1>4, <1>5
  <1>7. stage'[p] = "consuming" => u.consume = NotYet \/ IsQueued("release", p)'
    BY <1>4, <1>5, ReleaseStays DEF Onward, Done
  <1>8. /\ stage'[p] \in {"coming", "arrived"} => u.issue = NotYet
        /\ stage'[p] \notin Done => u.consume = NotYet
        /\ stage'[p] \notin OnLinkStages => (policy.push_payload => Awaited(p) = {})
        /\ stage'[p] \in Visible => last_visible_ns[p] <= u.ready
    BY <1>4, <1>5 DEF Onward
  <1> QED BY <1>2, <1>3, <1>4, <1>6, <1>7, <1>8 DEF LineInv, Done, OnLinkStages, Visible

LEMMA AwaitedFinite ==
    ASSUME NEW p \in Packets
    PROVE  IsFiniteSet(Awaited(p)) /\ Cardinality(Awaited(p)) \in Nat
  <1>1. LinesOf[p] \in Nat
    BY Sizes
  <1>2. IsFiniteSet(0..(LinesOf[p] - 1))
    BY <1>1, FS_Interval
  <1>3. Awaited(p) \in SUBSET (0..(LinesOf[p] - 1))
    BY DEF Awaited
  <1>4. IsFiniteSet(Awaited(p))
    BY <1>2, <1>3, FS_Subset
  <1> QED BY <1>4, FS_CardinalityType

(* The sum over the packets of what came of each.                          *)
Came == [k \in Nat |-> CameOf(PacketAt(k + 1))]

LEMMA CameTyped ==
    /\ Came \in [Nat -> Int]
    /\ LinesCame = PartialSums(Came)[NumFlows * Count]
  <1>1. \A q : CameOf(q) \in Int
    BY AwaitedFinite, Sizes DEF CameOf
  <1> QED BY <1>1 DEF Came, LinesCame

LEMMA CameKept ==
    ASSUME \A q \in Packets : Awaited(q)' = Awaited(q)
    PROVE  LinesCame' = LinesCame
  <1>1. \A q : CameOf(q)' = CameOf(q)
    BY DEF CameOf
  <1> QED BY <1>1 DEF LinesCame

LEMMA CameMore ==
    ASSUME NEW p \in Packets, Cardinality(Awaited(p)') = Cardinality(Awaited(p)) - 1,
           \A q \in Packets : q # p => Awaited(q)' = Awaited(q)
    PROVE  LinesCame' = LinesCame + 1
  <1>1. PICK w : w = Came'
    OBVIOUS
  <1>2. PICK i \in Nat : i = IndexOf(p)
    BY PacketIndex
  <1>3. PICK n \in Nat : n = NumFlows * Count /\ i < n /\ \A k \in Nat : PacketAt(k + 1) = p <=> k = i
    BY <1>2, PacketIndex
  <1>4. \A q : q # p => CameOf(q)' = CameOf(q)
    BY DEF CameOf
  <1>5. Cardinality(Awaited(p)) \in Nat /\ LinesOf[p] \in Nat
    BY AwaitedFinite, Sizes
  <1>6. CameOf(p)' = CameOf(p) + 1 /\ CameOf(p) \in Int
    BY <1>5 DEF CameOf
  <1>7. w = [k \in Nat |-> CameOf(PacketAt(k + 1))']
    BY <1>1 DEF Came
  <1>8. Came \in [Nat -> Int] /\ \A k \in Nat : Came[k] = CameOf(PacketAt(k + 1))
    BY CameTyped DEF Came
  <1>9. \A k \in Nat : w[k] = IF k = i THEN Came[k] + 1 ELSE Came[k]
    BY <1>3, <1>4, <1>6, <1>7, <1>8
  <1>10. w \in [Nat -> Int] /\ w[i] - Came[i] = 1
    <2>1. w = [k \in Nat |-> w[k]]
      BY <1>7
    <2>2. \A k \in Nat : w[k] \in Int
      <3> TAKE k \in Nat
      <3>1. Came[k] \in Int
        BY <1>8
      <3> QED BY <1>9, <3>1
    <2>3. w[i] = Came[i] + 1 /\ Came[i] \in Int
      BY <1>3, <1>8, <1>9
    <2>4. w \in [Nat -> Int]
      BY <2>1, <2>2
    <2> QED BY <2>3, <2>4
  <1>11. PartialSums(w)[n] = PartialSums(Came)[n] + (w[i] - Came[i])
    BY <1>3, <1>8, <1>9, <1>10, SumsMove
  <1>12. LinesCame' = PartialSums(w)[n]
    BY <1>3, <1>7 DEF LinesCame
  <1>13. LinesCame = PartialSums(Came)[n]
    BY <1>3, CameTyped
  <1> QED BY <1>10, <1>11, <1>12, <1>13

LEMMA CameNone ==
    ASSUME \A q \in Packets : visible[q] = {}
    PROVE  LinesCame = 0
  <1>1. \A q : CameOf(q) = 0
    BY AwaitedAll, Sizes DEF CameOf
  <1>2. \A k \in Nat : Came[k] = 0
    BY <1>1 DEF Came
  <1>3. NumFlows * Count \in Nat
    BY PacketsCounted
  <1> QED BY <1>2, <1>3, CameTyped, SumsOfZero

LEMMA CameAll ==
    ASSUME \A q \in Packets : Awaited(q) = {}
    PROVE  LinesCame = LinesIn(Packets)
  <1>1. Cardinality({}) = 0
    BY FS_EmptySet
  <1>2. \A q : CameOf(q) = IF q \in Packets THEN LinesOf[q] ELSE 0
    BY <1>1, Sizes DEF CameOf
  <1> QED BY <1>2 DEF LinesCame, LinesIn

LEMMA AnnouncedFinite ==
    IsFiniteSet(Announced) /\ Cardinality(Announced) \in Nat
  <1>1. Announced \in SUBSET Packets
    BY DEF Announced
  <1> QED BY <1>1, PacketsCounted, FS_Subset, FS_CardinalityType

(* A packet that is announced, or is not yet.                              *)
LEMMA Announcement ==
    ASSUME NEW p \in Packets, p \notin Announced,
           \A q \in Packets : q # p => (stage'[q] \in Early <=> stage[q] \in Early)
    PROVE  /\ 2 * Cardinality(Announced')
                 = 2 * Cardinality(Announced) + (IF stage'[p] \in Early THEN 0 ELSE 2)
           /\ Cardinality(Announced) \in Nat
  <1>1. CASE stage'[p] \in Early
    <2>1. Announced' = Announced
      BY <1>1 DEF Announced, Early
    <2> QED BY <1>1, <2>1, AnnouncedFinite
  <1>2. CASE stage'[p] \notin Early
    <2>1. Announced' = Announced \cup {p}
      BY <1>2 DEF Announced, Early
    <2>2. Cardinality(Announced \cup {p}) = Cardinality(Announced) + 1
      BY AnnouncedFinite, FS_AddElement
    <2> QED BY <1>2, <2>1, <2>2, AnnouncedFinite
  <1> QED BY <1>1, <1>2

(* Steps that neither send lines nor ask for any.                          *)
LEMMA LinesKept ==
    ASSUME TypeInv, QueueInv, FlowsInv, CallsInv, Desk, Next, Running, Running', LinesInv,
           line_counts' = line_counts,
           \A q \in Packets : /\ LineStays(q) /\ Onward(q)
                              /\ stage'[q] \in Early <=> stage[q] \in Early
    PROVE  LinesInv'
  <1>1. \A q \in Packets : LineInv(q)'
    BY LineMoves DEF LinesInv
  <1>2. policy' = policy
    BY InputsKept
  <1>3. Sent' = Sent /\ Demanded' = Demanded /\ Announced' = Announced
    BY DEF Sent, Demanded, Announced, LineStays, Early
  <1>4. LinesCame' = LinesCame
    BY CameKept DEF LineStays
  <1> QED BY <1>1, <1>2, <1>3, <1>4 DEF LinesInv

LEMMA LinesInit ==
    ASSUME Init, \A p \in Packets : stage[p] = "coming"
    PROVE  LinesInv
  <1>1. \A p \in Packets : times[p].issue = NotYet /\ times[p].consume = NotYet
    BY DEF Init, Untimed
  <1>2. \A p \in Packets : LineInv(p)
    <2> TAKE p \in Packets
    <2>1. last_visible_ns[p] = NotYet /\ now = 0
      BY DEF Init
    <2> QED BY <1>1, <2>1 DEF LineInv, NotYet
  <1>3. Sent = {} /\ Demanded = {} /\ Announced = {}
    BY <1>1 DEF Sent, Demanded, Announced
  <1>4. LinesCame = 0
    BY CameNone DEF Init
  <1>5. Cardinality(Announced) = 0
    BY <1>3, FS_EmptySet
  <1>6. /\ line_counts.demanded = 0 /\ line_counts.pushed = 0
        /\ line_counts.produced = 0 /\ line_counts.gated = 0
    BY DEF Init
  <1>7. LinesIn(Demanded) = 0 /\ LinesIn(Sent) = 0
    BY <1>3, LinesOfNone
  <1> QED BY <1>2, <1>4, <1>5, <1>6, <1>7 DEF LinesInv

(* What the counts become.                                                 *)
LEMMA PushedBecome ==
    ASSUME TypeInv, NEW n \in Int, NEW m \in Int,
           line_counts' = [line_counts EXCEPT !.pushed = @ + n, !.produced = @ + m]
    PROVE  /\ line_counts.demanded \in Int /\ line_counts.pushed \in Int
           /\ line_counts.produced \in Int /\ line_counts.gated \in Int
           /\ line_counts'.pushed = line_counts.pushed + n
           /\ line_counts'.produced = line_counts.produced + m
           /\ line_counts'.demanded = line_counts.demanded
           /\ line_counts'.gated = line_counts.gated
  <1>1. line_counts \in [Counted -> Int]
    BY DEF TypeInv
  <1> QED BY <1>1 DEF Counted

LEMMA GatedBecome ==
    ASSUME TypeInv, NEW n \in Int, NEW m \in Int,
           line_counts' = [line_counts EXCEPT !.produced = @ + n, !.gated = @ + m]
    PROVE  /\ line_counts.demanded \in Int /\ line_counts.pushed \in Int
           /\ line_counts.produced \in Int /\ line_counts.gated \in Int
           /\ line_counts'.produced = line_counts.produced + n
           /\ line_counts'.gated = line_counts.gated + m
           /\ line_counts'.demanded = line_counts.demanded
           /\ line_counts'.pushed = line_counts.pushed
  <1>1. line_counts \in [Counted -> Int]
    BY DEF TypeInv
  <1> QED BY <1>1 DEF Counted

LEMMA ProducedBecome ==
    ASSUME TypeInv, NEW n \in Int,
           line_counts' = [line_counts EXCEPT !.produced = @ + n]
    PROVE  /\ line_counts.demanded \in Int /\ line_counts.pushed \in Int
           /\ line_counts.produced \in Int /\ line_counts.gated \in Int
           /\ line_counts'.produced = line_counts.produced + n
           /\ line_counts'.demanded = line_counts.demanded
           /\ line_counts'.pushed = line_counts.pushed
           /\ line_counts'.gated = line_counts.gated
  <1>1. line_counts \in [Counted -> Int]
    BY DEF TypeInv
  <1> QED BY <1>1 DEF Counted

LEMMA DemandedBecome ==
    ASSUME TypeInv, NEW n \in Int,
           line_counts' = [line_counts EXCEPT !.demanded = @ + n]
    PROVE  /\ line_counts.demanded \in Int /\ line_counts.pushed \in Int
           /\ line_counts.produced \in Int /\ line_counts.gated \in Int
           /\ line_counts'.demanded = line_counts.demanded + n
           /\ line_counts'.pushed = line_counts.pushed
           /\ line_counts'.produced = line_counts.produced
           /\ line_counts'.gated = line_counts.gated
  <1>1. line_counts \in [Counted -> Int]
    BY DEF TypeInv
  <1> QED BY <1>1 DEF Counted

LEMMA LinesIssue ==
    ASSUME TypeInv, QueueInv, FlowsInv, CallsInv, Desk, Next, Running, Running', LinesInv,
           NEW p \in Packets, stage[p] = "arrived", Issue(p), visible' = visible,
           last_visible_ns' = last_visible_ns
    PROVE  LinesInv'
  <1>1. /\ \A q \in Packets : q # p => stage'[q] = stage[q] /\ times'[q] = times[q]
        /\ times'[p] = [times[p] EXCEPT !.issue = now]
        /\ stage'[p] = IF policy.push_payload THEN "issued" ELSE Completed(p)
    BY Opened, IssueShape
  <1>2. /\ times'[p].issue = now /\ times'[p].consume = times[p].consume
        /\ times'[p].ready = times[p].ready
    BY <1>1, TimeParts DEF AllTimes
  <1>3. policy' = policy
    BY InputsKept
  <1>4. \A q \in Packets : Awaited(q)' = Awaited(q)
    BY DEF Awaited
  <1>5. now \in Nat /\ now' \in Nat /\ now <= now' /\ now # NotYet
    BY ClockOnward DEF NotYet
  <1>6. ASSUME NEW q \in Packets, q # p PROVE LineInv(q)'
    BY <1>1, <1>4, <1>6, LineMoves DEF LinesInv, LineStays, Onward
  <1>7. LineInv(p)
    BY DEF LinesInv
  <1>8. LineInv(p)'
    <2>1. last_visible_ns[p] <= now /\ last_visible_ns[p] \in Int /\ times[p].consume = NotYet
      BY <1>7 DEF LineInv, TypeInv
    <2>2. last_visible_ns'[p] <= now'
      BY <1>5, <2>1
    <2>3. stage'[p] \in {"issued", "complete", "publishing"}
      BY <1>1 DEF Completed
    <2>4. stage'[p] # "issued" => ~policy.push_payload
      BY <1>1
    <2> QED BY <1>2, <1>3, <2>1, <2>2, <2>3, <2>4 DEF LineInv
  <1>9. \A q \in Packets : LineInv(q)'
    BY <1>6, <1>8
  <1>10. Demanded' = Demanded /\ LinesCame' = LinesCame
    <2>1. \A q \in Packets : times'[q].consume = times[q].consume
      BY <1>1, <1>2
    <2> QED BY <1>4, <2>1, CameKept DEF Demanded
  <1>11. p \notin Sent /\ Sent' = Sent \cup {p}
    <2>1. times[p].issue = NotYet
      BY <1>7 DEF LineInv
    <2>2. \A q \in Packets : q # p => times'[q].issue = times[q].issue
      BY <1>1
    <2> QED BY <1>2, <1>5, <2>1, <2>2 DEF Sent
  <1>12. LinesIn(Sent') = LinesIn(Sent) + LinesOf[p] /\ LinesIn(Sent) \in Int /\ LinesOf[p] \in Int
    <2>1. Sent \in SUBSET Packets
      BY DEF Sent
    <2> QED BY <1>11, <2>1, LinesWith, Sizes
  <1>13. p \notin Announced
    BY DEF Announced
  <1>14. CASE policy.push_payload
    <2>1. Announced' = Announced
      BY <1>1, <1>14 DEF Announced
    <2>2. line_counts' = [line_counts EXCEPT !.pushed = @ + LinesOf[p], !.produced = @ + LinesOf[p]]
      BY <1>14, IssueTallies
    <2>3. PICK n \in Int : n = LinesOf[p]
      BY <1>12
    <2>4. /\ line_counts'.pushed = line_counts.pushed + n
          /\ line_counts'.produced = line_counts.produced + n
          /\ line_counts'.demanded = line_counts.demanded /\ line_counts'.gated = line_counts.gated
          /\ line_counts.pushed \in Int /\ line_counts.produced \in Int
      <3>1. line_counts' = [line_counts EXCEPT !.pushed = @ + n, !.produced = @ + n]
        BY <2>2, <2>3
      <3> QED BY <3>1, PushedBecome
    <2>5. Cardinality(Announced) \in Nat
      BY <2>1, AnnouncedFinite
    <2> QED BY <1>3, <1>9, <1>10, <1>12, <1>14, <2>1, <2>3, <2>4, <2>5 DEF LinesInv
  <1>15. CASE ~policy.push_payload
    <2>1. PICK m \in Nat : m = IF InTurn(p) THEN 2 ELSE 0
      OBVIOUS
    <2>2. line_counts' = [line_counts EXCEPT !.pushed = @ + 0, !.produced = @ + m]
      BY <1>15, <2>1, IssueTallies
    <2>3. /\ line_counts'.pushed = line_counts.pushed
          /\ line_counts'.produced = line_counts.produced + m
          /\ line_counts'.demanded = line_counts.demanded /\ line_counts'.gated = line_counts.gated
          /\ line_counts.pushed \in Int /\ line_counts.produced \in Int
      <3>1. PICK z \in Int, k \in Int : z = 0 /\ k = m
        OBVIOUS
      <3>2. line_counts' = [line_counts EXCEPT !.pushed = @ + z, !.produced = @ + k]
        BY <2>2, <3>1
      <3>3. /\ line_counts'.pushed = line_counts.pushed + z
            /\ line_counts'.produced = line_counts.produced + k
            /\ line_counts'.demanded = line_counts.demanded
            /\ line_counts'.gated = line_counts.gated
            /\ line_counts.pushed \in Int /\ line_counts.produced \in Int
        BY <3>2, PushedBecome
      <3> QED BY <3>1, <3>3
    <2>4. 2 * Cardinality(Announced') = 2 * Cardinality(Announced) + m /\ Cardinality(Announced) \in Nat
      <3>1. stage'[p] = IF InTurn(p) THEN "publishing" ELSE "complete"
        BY <1>1, <1>15 DEF Completed
      <3>2. \A q \in Packets : q # p => (stage'[q] \in Early <=> stage[q] \in Early)
        BY <1>1
      <3>3. stage'[p] \in Early <=> m = 0
        BY <2>1, <3>1 DEF Early
      <3> QED BY <1>13, <2>1, <3>2, <3>3, Announcement
    <2> QED BY <1>3, <1>9, <1>10, <1>15, <2>3, <2>4 DEF LinesInv
  <1> QED BY <1>14, <1>15

LEMMA LinesPayload ==
    ASSUME TypeInv, QueueInv, FlowsInv, CallsInv, Desk, Next, Running, Running', LinesInv,
           PayloadVisible
    PROVE  LinesInv'
  <1>1. PICK p \in Packets, k \in Nat :
             /\ Taken = <<p, k>> /\ Taken[1] = p /\ stage[p] = "issued" /\ k \in Awaited(p)
             /\ LeftOf(p) = Cardinality(Awaited(p)')
             /\ Awaited(p)' = Awaited(p) \ {k}
             /\ LeftOf(p) = 0 <=> Awaited(p)' = {}
             /\ visible' = [visible EXCEPT ![p] = @ \cup {PayloadLine(k)}]
             /\ IF LeftOf(p) = 0 THEN stage' = [stage EXCEPT ![p] = Completed(p)]
                ELSE stage' = stage
    BY PayloadShape
  <1>2. /\ line_counts' =
             [line_counts EXCEPT !.produced = @ + (IF LeftOf(p) = 0 /\ InTurn(p) THEN 2 ELSE 0),
                                 !.gated = @ + (IF policy.gated THEN 1 ELSE 0)]
        /\ last_visible_ns' = [last_visible_ns EXCEPT ![p] = At]
    BY <1>1, PayloadTallies
  <1>3. policy' = policy /\ times' = times
    BY InputsKept DEF PayloadVisible
  <1>4. At \in Nat /\ now' = At
    BY TakeTyped DEF PayloadVisible
  <1>5. /\ \A q \in Packets : q # p => /\ stage'[q] = stage[q] /\ Awaited(q)' = Awaited(q)
                                       /\ last_visible_ns'[q] = last_visible_ns[q]
        /\ stage'[p] = IF LeftOf(p) = 0 THEN Completed(p) ELSE "issued"
        /\ last_visible_ns'[p] = At
    <2>1. \A q \in Packets : q # p => visible'[q] = visible[q]
      BY <1>1, Opened
    <2>2. \A q \in Packets : q # p => Awaited(q)' = Awaited(q)
      BY <2>1 DEF Awaited
    <2>3. last_visible_ns \in [Packets -> Int]
      BY DEF TypeInv
    <2> QED BY <1>1, <1>2, <2>2, <2>3, Opened
  <1>6. ASSUME NEW q \in Packets, q # p PROVE LineInv(q)'
    BY <1>3, <1>5, <1>6, LineMoves DEF LinesInv, LineStays, Onward
  <1>7. LineInv(p)'
    <2>1. LineInv(p)
      BY DEF LinesInv
    <2>2. times[p].consume = NotYet
      BY <1>1, <2>1 DEF LineInv
    <2>3. stage'[p] \in {"issued", "complete", "publishing"}
      BY <1>5 DEF Completed
    <2>4. stage'[p] # "issued" => Awaited(p)' = {}
      BY <1>1, <1>5
    <2>5. last_visible_ns'[p] <= now'
      BY <1>4, <1>5
    <2> QED BY <1>3, <2>2, <2>3, <2>4, <2>5 DEF LineInv
  <1>8. \A q \in Packets : LineInv(q)'
    BY <1>6, <1>7
  <1>9. Sent' = Sent /\ Demanded' = Demanded
    BY <1>3 DEF Sent, Demanded
  <1>10. LinesCame' = LinesCame + 1
    <2>1. Cardinality(Awaited(p)') = Cardinality(Awaited(p)) - 1
      BY <1>1, AwaitedFinite, FS_RemoveElement
    <2> QED BY <1>5, <2>1, CameMore
  <1>11. PICK n \in Nat, m \in Nat : /\ n = IF LeftOf(p) = 0 /\ InTurn(p) THEN 2 ELSE 0
                                     /\ m = IF policy.gated THEN 1 ELSE 0
    OBVIOUS
  <1>12. /\ line_counts'.produced = line_counts.produced + n
         /\ line_counts'.gated = line_counts.gated + m
         /\ line_counts'.demanded = line_counts.demanded /\ line_counts'.pushed = line_counts.pushed
         /\ line_counts.produced \in Int /\ line_counts.gated \in Int /\ line_counts.pushed \in Int
    <2>1. PICK i \in Int, j \in Int : i = n /\ j = m
      OBVIOUS
    <2>2. line_counts' = [line_counts EXCEPT !.produced = @ + i, !.gated = @ + j]
      BY <1>2, <1>11, <2>1
    <2>3. /\ line_counts'.produced = line_counts.produced + i
          /\ line_counts'.gated = line_counts.gated + j
          /\ line_counts'.demanded = line_counts.demanded /\ line_counts'.pushed = line_counts.pushed
          /\ line_counts.produced \in Int /\ line_counts.gated \in Int
          /\ line_counts.pushed \in Int
      BY <2>2, GatedBecome
    <2> QED BY <2>1, <2>3
  <1>13. 2 * Cardinality(Announced') = 2 * Cardinality(Announced) + n /\ Cardinality(Announced) \in Nat
    <2>1. p \notin Announced
      BY <1>1 DEF Announced
    <2>2. stage'[p] \in Early <=> n = 0
      BY <1>5, <1>11 DEF Completed, Early
    <2> QED BY <1>5, <1>11, <2>1, <2>2, Announcement DEF Early
  <1>14. line_counts'.gated = IF policy.gated THEN LinesCame' ELSE 0
    <2>1. CASE policy.gated
      BY <1>10, <1>11, <1>12, <2>1 DEF LinesInv
    <2>2. CASE ~policy.gated
      BY <1>11, <1>12, <2>2 DEF LinesInv
    <2> QED BY <2>1, <2>2
  <1>15. /\ line_counts'.produced = line_counts'.pushed + 2 * Cardinality(Announced')
         /\ line_counts'.pushed = IF policy.push_payload THEN LinesIn(Sent') ELSE 0
         /\ line_counts'.demanded = LinesIn(Demanded')
    BY <1>9, <1>12, <1>13 DEF LinesInv
  <1> QED BY <1>3, <1>8, <1>14, <1>15 DEF LinesInv

LEMMA LinesReady ==
    ASSUME TypeInv, QueueInv, FlowsInv, CallsInv, Desk, Next, Running, Running', LinesInv,
           ReadyVisible
    PROVE  LinesInv'
  <1>1. PICK p : p = Taken
    OBVIOUS
  <1>2. /\ p \in Packets /\ stage[p] = "publishing"
        /\ times' = [times EXCEPT ![p].ready = At]
        /\ visible' = [visible EXCEPT ![p] = @ \cup {ReadyLine}]
        /\ SuccessorOf(p) # p
        /\ stage' = [q \in Packets |-> IF q = p THEN "ready"
                                       ELSE IF Follows(p) /\ q = SuccessorOf(p) THEN "publishing"
                                       ELSE stage[q]]
    BY <1>1, ReadyShape
  <1>3. line_counts' = [line_counts EXCEPT !.produced = @ + (IF Follows(p) THEN 2 ELSE 0)]
    BY <1>1, <1>2, ReadyTallies
  <1>4. policy' = policy /\ last_visible_ns' = last_visible_ns
    BY InputsKept DEF ReadyVisible
  <1>5. At \in Nat /\ now' = At /\ now <= At /\ now \in Nat
    BY ClockOnward, TakeTyped DEF ReadyVisible
  <1>6. \A q \in Packets : Awaited(q)' = Awaited(q)
    <2>1. visible'[p] = visible[p] \cup {ReadyLine}
      BY <1>2, Opened
    <2>2. \A q \in Packets : q # p => visible'[q] = visible[q]
      BY <1>2, Opened
    <2>3. \A q \in Packets : q # p => Awaited(q)' = Awaited(q)
      BY <2>2 DEF Awaited
    <2> QED BY <1>2, <2>1, <2>3, AwaitedKept
  <1>7. /\ \A q \in Packets : q # p => times'[q] = times[q]
        /\ times'[p] = [times[p] EXCEPT !.ready = At]
    BY <1>2, Opened
  <1>8. /\ times'[p].ready = At /\ times'[p].issue = times[p].issue
        /\ times'[p].consume = times[p].consume
    BY <1>2, <1>7, TimeParts DEF AllTimes
  <1>9. /\ stage'[p] = "ready"
        /\ \A q \in Packets : q # p =>
             \/ stage'[q] = stage[q] /\ ~(Follows(p) /\ q = SuccessorOf(p))
             \/ Follows(p) /\ q = SuccessorOf(p) /\ stage[q] = "complete" /\ stage'[q] = "publishing"
    BY <1>2 DEF Follows
  <1>10. ASSUME NEW q \in Packets, q # p PROVE LineInv(q)'
    <2>1. LineStays(q)
      BY <1>4, <1>6, <1>7, <1>10 DEF LineStays
    <2>2. Onward(q)
      BY <1>9, <1>10 DEF Onward, Done, Visible, OnLinkStages
    <2> QED BY <2>1, <2>2, LineMoves DEF LinesInv
  <1>11. LineInv(p)'
    <2>1. LineInv(p)
      BY <1>2 DEF LinesInv
    <2>2. times[p].consume = NotYet /\ (policy.push_payload => Awaited(p) = {})
          /\ last_visible_ns[p] <= now /\ last_visible_ns[p] \in Int
      BY <1>2, <2>1 DEF LineInv, TypeInv
    <2>3. last_visible_ns'[p] <= now' /\ last_visible_ns'[p] <= times'[p].ready
      BY <1>4, <1>5, <1>8, <2>2
    <2>4. policy'.push_payload => Awaited(p)' = {}
      BY <1>2, <1>4, <1>6, <2>2
    <2> QED BY <1>8, <1>9, <2>2, <2>3, <2>4 DEF LineInv
  <1>12. \A q \in Packets : LineInv(q)'
    BY <1>10, <1>11
  <1>13. Sent' = Sent /\ Demanded' = Demanded /\ LinesCame' = LinesCame
    <2>1. \A q \in Packets : times'[q].issue = times[q].issue /\ times'[q].consume = times[q].consume
      BY <1>7, <1>8
    <2> QED BY <1>6, <2>1, CameKept DEF Sent, Demanded
  <1>14. PICK n \in Nat : n = IF Follows(p) THEN 2 ELSE 0
    OBVIOUS
  <1>15. /\ line_counts'.produced = line_counts.produced + n
         /\ line_counts'.demanded = line_counts.demanded /\ line_counts'.pushed = line_counts.pushed
         /\ line_counts'.gated = line_counts.gated
         /\ line_counts.produced \in Int /\ line_counts.pushed \in Int
    <2>1. line_counts' = [line_counts EXCEPT !.produced = @ + n]
      BY <1>3, <1>14
    <2> QED BY <2>1, ProducedBecome
  <1>16. 2 * Cardinality(Announced') = 2 * Cardinality(Announced) + n /\ Cardinality(Announced) \in Nat
    <2>1. CASE Follows(p)
      <3>1. PICK c \in Packets : c = SuccessorOf(p) /\ stage[c] = "complete" /\ stage'[c] = "publishing"
        BY <1>9, <2>1, <1>2 DEF Follows
      <3>2. c \notin Announced
        BY <3>1 DEF Announced
      <3>3. \A q \in Packets : q # c => (stage'[q] \in Early <=> stage[q] \in Early)
        BY <1>2, <1>9, <3>1 DEF Early
      <3> QED BY <1>14, <2>1, <3>1, <3>2, <3>3, Announcement DEF Early
    <2>2. CASE ~Follows(p)
      <3>1. \A q \in Packets : stage'[q] \in Early <=> stage[q] \in Early
        BY <1>2, <1>9, <2>2 DEF Early
      <3>2. Announced' = Announced
        BY <3>1 DEF Announced, Early
      <3> QED BY <1>14, <2>2, <3>2, AnnouncedFinite
    <2> QED BY <2>1, <2>2
  <1>17. line_counts'.produced = line_counts'.pushed + 2 * Cardinality(Announced')
    BY <1>15, <1>16 DEF LinesInv
  <1> QED BY <1>4, <1>12, <1>13, <1>15, <1>17 DEF LinesInv

LEMMA LinesConsume ==
    ASSUME TypeInv, QueueInv, FlowsInv, CallsInv, Desk, Next, Running, Running', LinesInv,
           CpuConsume
    PROVE  LinesInv'
  <1>1. PICK p : p = Taken
    OBVIOUS
  <1>2. p \in Packets /\ stage[p] = "consuming"
    BY <1>1, ConsumeShape
  <1>3. PICK n \in Nat :
          /\ times' = [times EXCEPT ![p].consume = At, ![p].processed = n]
          /\ Sends(now', Rest, <<Event(n, "release", p)>>)
    BY <1>1, ConsumeShape
  <1>4. /\ policy' = policy /\ stage' = stage /\ visible' = visible
        /\ last_visible_ns' = last_visible_ns
    BY InputsKept DEF CpuConsume
  <1>5. At \in Nat /\ now' = At /\ At # NotYet /\ now \in Nat /\ now <= now' /\ 1 \in DOMAIN events
        /\ events[1].kind = "cpu_consume" /\ events[1].what = p
    BY <1>1, ClockOnward, TakeTyped DEF CpuConsume, NotYet
  <1>6. \A q \in Packets : Awaited(q)' = Awaited(q)
    BY <1>4 DEF Awaited
  <1>7. /\ \A q \in Packets : q # p => times'[q] = times[q]
        /\ times'[p].consume = At
        /\ times'[p].issue = times[p].issue /\ times'[p].ready = times[p].ready
    <2>1. PICK T : T = times'
      OBVIOUS
    <2> QED BY <1>2, <1>3, <2>1, Opened, TwoTimes
  <1>8. ASSUME NEW q \in Packets, q # p PROVE LineInv(q)'
    BY <1>4, <1>6, <1>7, <1>8, LineMoves DEF LinesInv, LineStays, Onward
  <1>9. LineInv(p)
    BY <1>2 DEF LinesInv
  <1>10. times[p].consume = NotYet
    <2>1. SUFFICES ASSUME IsQueued("release", p) PROVE FALSE
      BY <1>2, <1>9 DEF LineInv
    <2>2. PICK i \in DOMAIN events : events[i].kind = "release" /\ events[i].what = p
      BY <2>1 DEF IsQueued
    <2>3. BothCpu(events[1], events[i])
      BY <1>5, <2>2 DEF BothCpu
    <2>4. i = 1
      BY <1>5, <2>3 DEF Desk, EventsApart, Apart
    <2> QED BY <1>5, <2>2, <2>4
  <1>11. LineInv(p)'
    <2>1. IsQueued("release", p)'
      <3>1. PICK new : new = <<Event(n, "release", p)>>
        OBVIOUS
      <3>2. 1 \in DOMAIN new /\ new[1].kind = "release" /\ new[1].what = p
        BY <3>1 DEF Event
      <3> QED BY <1>3, <3>1, <3>2, QueuedComes
    <2>2. /\ last_visible_ns[p] <= now /\ last_visible_ns[p] \in Int
          /\ last_visible_ns[p] <= times[p].ready /\ (policy.push_payload => Awaited(p) = {})
      BY <1>2, <1>9 DEF LineInv, TypeInv
    <2>3. last_visible_ns'[p] <= now' /\ last_visible_ns'[p] <= times'[p].ready
      BY <1>4, <1>5, <1>7, <2>2
    <2>4. policy'.push_payload => Awaited(p)' = {}
      BY <1>2, <1>4, <1>6, <2>2
    <2>5. stage'[p] = "consuming"
      BY <1>2, <1>4
    <2> QED BY <2>1, <2>3, <2>4, <2>5 DEF LineInv
  <1>12. \A q \in Packets : LineInv(q)'
    BY <1>8, <1>11
  <1>13. Sent' = Sent /\ Announced' = Announced /\ LinesCame' = LinesCame
    <2>1. \A q \in Packets : times'[q].issue = times[q].issue
      BY <1>7
    <2> QED BY <1>4, <1>6, <2>1, CameKept DEF Sent, Announced
  <1>14. p \notin Demanded /\ Demanded' = Demanded \cup {p}
    <2>1. \A q \in Packets : q # p => times'[q].consume = times[q].consume
      BY <1>7
    <2> QED BY <1>2, <1>5, <1>7, <1>10, <2>1 DEF Demanded
  <1>15. LinesIn(Demanded') = LinesIn(Demanded) + LinesOf[p]
    <2>1. Demanded \in SUBSET Packets
      BY DEF Demanded
    <2> QED BY <1>2, <1>14, <2>1, LinesWith
  <1>16. PICK m \in Int : m = LinesOf[p]
    BY <1>2, Sizes
  <1>17. line_counts' = [line_counts EXCEPT !.demanded = @ + m]
    BY <1>1, <1>2, <1>16, ConsumeTallies
  <1>18. /\ line_counts'.demanded = line_counts.demanded + m
         /\ line_counts'.produced = line_counts.produced /\ line_counts'.pushed = line_counts.pushed
         /\ line_counts'.gated = line_counts.gated
    BY <1>17, DemandedBecome
  <1>19. line_counts'.demanded = LinesIn(Demanded')
    BY <1>15, <1>16, <1>18 DEF LinesInv
  <1> QED BY <1>4, <1>12, <1>13, <1>18, <1>19 DEF LinesInv

LEMMA LinesNext ==
    ASSUME TypeInv, QueueInv, FlowsInv, CallsInv, Desk, LinesInv, Next, Running, Running'
    PROVE  LinesInv'
  <1>1. ASSUME times' = times, last_visible_ns' = last_visible_ns, line_counts' = line_counts,
               \A q \in Packets : Awaited(q)' = Awaited(q), stage' = stage
        PROVE  LinesInv'
    BY <1>1, LinesKept DEF LineStays, Onward
  <1>2. visible' = visible => \A q \in Packets : Awaited(q)' = Awaited(q)
    BY DEF Awaited
  <1>3. CASE Arrival
    <2>1. PICK p : p = Taken
      OBVIOUS
    <2>2. p \in Packets /\ 1 \in DOMAIN events /\ events[1].kind = "arrival" /\ events[1].what = p
      BY <1>3, <2>1, TakeTyped DEF Arrival, OfPacket
    <2>3. stage[p] = "coming" /\ stage' = [stage EXCEPT ![p] = "arrived"]
      BY <1>3, <2>1, <2>2 DEF Arrival, Desk, EventsFit, EventFits
    <2>4. \A q \in Packets : IF q = p THEN stage'[q] = "arrived" ELSE stage'[q] = stage[q]
      BY <2>2, <2>3, Opened
    <2>5. \A q \in Packets : LineStays(q)
      BY <1>2, <1>3 DEF Arrival, tallies, LineStays
    <2>6. \A q \in Packets : Onward(q) /\ (stage'[q] \in Early <=> stage[q] \in Early)
      BY <2>3, <2>4 DEF Onward, Early, Done, Visible, OnLinkStages
    <2> QED BY <1>3, <2>5, <2>6, LinesKept, TalliesKept
  <1>4. CASE IssueAtOnce
    <2>1. PICK p \in Packets : Head(calls).packet = p /\ stage[p] = "arrived"
      BY <1>4, IssueCall DEF IssueAtOnce
    <2>2. Issue(p) /\ visible' = visible /\ last_visible_ns' = last_visible_ns
      BY <1>4, <2>1 DEF IssueAtOnce, UnchangedByIssue
    <2> QED BY <2>1, <2>2, LinesIssue
  <1>5. CASE TryIssue
    <2>1. last_visible_ns' = last_visible_ns /\ visible' = visible
      BY <1>5 DEF TryIssue, packets
    <2>2. CASE UNCHANGED <<packets, books, events, link_available_ps, line_counts, outcome>>
      BY <1>1, <1>2, <2>1, <2>2 DEF packets
    <2>3. CASE \E p \in Packets : Issues(p)
      <3>1. PICK p \in Packets : stage[p] = "arrived" /\ Issue(p)
        BY <2>3 DEF Issues
      <3> QED BY <2>1, <3>1, LinesIssue
    <2> QED BY <1>5, <2>2, <2>3, TryIssueShape
  <1>6. CASE DescriptorVisible
    <2>1. PICK p : p = Taken
      OBVIOUS
    <2>2. p \in Packets
      BY <1>6, <2>1, TakeTyped DEF DescriptorVisible, OfPacket
    <2>3. visible' = [visible EXCEPT ![p] = @ \cup {DescriptorLine}]
      BY <1>6, <2>1 DEF DescriptorVisible
    <2>4. visible'[p] = visible[p] \cup {DescriptorLine}
          /\ \A q \in Packets : q # p => visible'[q] = visible[q]
      BY <2>2, <2>3, Opened
    <2>5. \A q \in Packets : q # p => Awaited(q)' = Awaited(q)
      BY <2>4 DEF Awaited
    <2>6. \A q \in Packets : Awaited(q)' = Awaited(q)
      BY <2>2, <2>4, <2>5, AwaitedKept
    <2> QED BY <1>1, <1>6, <2>6, TalliesKept DEF DescriptorVisible
  <1>7. CASE TryCpu
    <2>1. times' = times /\ visible' = visible
      BY <1>7 DEF TryCpu
    <2>2. line_counts' = line_counts /\ last_visible_ns' = last_visible_ns
      BY <1>7, TalliesKept
    <2>3. CASE \E p \in Packets : TakesUp(p)
      <3>1. PICK p \in Packets : stage[p] = "ready" /\ stage' = [stage EXCEPT ![p] = "consuming"]
        BY <2>3 DEF TakesUp
      <3>2. \A q \in Packets : IF q = p THEN stage'[q] = "consuming" ELSE stage'[q] = stage[q]
        BY <3>1, Opened
      <3>3. \A q \in Packets : LineStays(q)
        BY <1>2, <2>1, <2>2 DEF LineStays
      <3>4. \A q \in Packets : Onward(q) /\ (stage'[q] \in Early <=> stage[q] \in Early)
        BY <3>1, <3>2 DEF Onward, Early, Done, Visible, OnLinkStages
      <3> QED BY <2>2, <3>3, <3>4, LinesKept
    <2>4. CASE stage' = stage
      BY <1>1, <1>2, <2>1, <2>2, <2>4
    <2> QED BY <1>7, <2>3, <2>4, TryCpuShape
  <1>8. CASE Release
    <2>1. PICK p : p = Taken
      OBVIOUS
    <2>2. /\ p \in Packets /\ stage[p] = "consuming" /\ \E d \in Nat : Delivers(p, d)
      BY <1>8, <2>1, ReleaseShape DEF Running
    <2>3. PICK d \in Nat : Delivers(p, d)
      BY <2>2
    <2>4. /\ \A q \in Packets : stage'[q] = IF q \in UpTo(p, d) THEN "released"
                                            ELSE IF q = p THEN "buffered" ELSE stage[q]
          /\ \A q \in Packets : times'[q] = IF q \in UpTo(p, d) THEN [times[q] EXCEPT !.delivery = At]
                                            ELSE times[q]
          /\ \A q \in UpTo(p, d) : q = p \/ stage[q] = "buffered"
      BY <2>3 DEF Delivers, IsDelivery, UpTo
    <2>5. \A q \in Packets : /\ times'[q].issue = times[q].issue /\ times'[q].consume = times[q].consume
                             /\ times'[q].ready = times[q].ready
      <3> TAKE q \in Packets
      <3>1. times[q] \in AllTimes
        BY TimeParts
      <3> QED BY <2>4, <3>1 DEF AllTimes
    <2>6. visible' = visible /\ line_counts' = line_counts /\ last_visible_ns' = last_visible_ns
      BY <1>8, TalliesKept DEF Release
    <2>7. \A q \in Packets : LineStays(q)
      BY <1>2, <2>5, <2>6 DEF LineStays
    <2>8. \A q \in Packets : \/ stage'[q] = stage[q]
                             \/ /\ stage[q] \in {"consuming", "buffered"}
                                /\ stage'[q] \in {"buffered", "released"}
      BY <2>2, <2>4
    <2>9. \A q \in Packets : Onward(q) /\ (stage'[q] \in Early <=> stage[q] \in Early)
      BY <2>8 DEF Onward, Early, Done, Visible, OnLinkStages
    <2> QED BY <2>6, <2>7, <2>9, LinesKept
  <1>9. CASE Withdraw \/ Background \/ GateSample \/ GateApply
    <2>1. Withdraw \/ Background => times' = times /\ visible' = visible /\ stage' = stage
      BY DEF Withdraw, Background, packets
    <2>2. GateSample \/ GateApply => times' = times /\ visible' = visible /\ stage' = stage
      BY DEF GateSample, GateApply, packets
    <2> QED BY <1>1, <1>2, <1>9, <2>1, <2>2, TalliesKept
  <1>10. Finish => FALSE
    BY DEF Finish, Raise, Running
  <1>11. Fail => FALSE
    BY DEF Fail, Raise, Running
  <1>12. Ended => FALSE
    BY DEF Ended
  <1> QED BY <1>3, <1>4, <1>5, <1>6, <1>7, <1>8, <1>9, <1>10, <1>11, <1>12,
             LinesPayload, LinesReady, LinesConsume DEF Next

(* When every packet is released, every line was sent, announced, demanded *)
(* and, under a gate, classified.                                          *)
LEMMA LinesAtEnd ==
    ASSUME TypeInv, TimesInv, LinesInv, \A p \in Packets : stage[p] = "released"
    PROVE  LinesAccounted
  <1>1. Sent = Packets /\ Demanded = Packets
    <2>1. ASSUME NEW p \in Packets
          PROVE  times[p].issue # NotYet /\ times[p].consume # NotYet
      <3>1. PICK t : t = times[p]
        OBVIOUS
      <3>2. t.issue \in Int /\ t.ready \in Int /\ t.consume \in Int /\ arrival_ns[p] \in Nat
        BY <3>1, TimeParts
      <3>3. arrival_ns[p] <= t.issue /\ t.issue <= t.ready /\ t.ready <= t.consume
        BY <3>1 DEF TimesInv, TimeInv
      <3> QED BY <3>1, <3>2, <3>3 DEF NotYet
    <2> QED BY <2>1 DEF Sent, Demanded
  <1>2. Cardinality(Announced) = NumFlows * Count
    <2>1. Announced = Packets
      BY DEF Announced
    <2> QED BY <2>1, PacketsCounted
  <1>3. policy.gated => policy.push_payload /\ LinesCame = LinesIn(Packets)
    <2>1. policy.gated => policy.push_payload
      BY PolicyParts
    <2>2. policy.push_payload => \A q \in Packets : Awaited(q) = {}
      BY DEF LinesInv, LineInv
    <2> QED BY <2>1, <2>2, CameAll
  <1>4. PICK total : total = LinesIn(Packets)
    OBVIOUS
  <1>5. PICK pushed : pushed = IF policy.push_payload THEN total ELSE 0
    OBVIOUS
  <1>6. /\ line_counts.demanded = total
        /\ line_counts.pushed = pushed
        /\ line_counts.produced = pushed + 2 * (NumFlows * Count)
        /\ line_counts.gated = IF policy.gated THEN total ELSE 0
    BY <1>1, <1>2, <1>3, <1>4, <1>5 DEF LinesInv
  <1>7. line_counts \in [Counted -> Int]
    BY DEF TypeInv
  <1>8. 2 * (NumFlows * Count) = 2 * NumFlows * Count
    BY Sizes
  <1>9. line_counts = [demanded |-> total, pushed |-> pushed,
                       produced |-> pushed + 2 * NumFlows * Count,
                       gated |-> IF policy.gated THEN total ELSE 0]
    BY <1>6, <1>7, <1>8 DEF Counted
  <1> QED BY <1>4, <1>5, <1>9 DEF LinesAccounted

LEMMA FinishPasses ==
    ASSUME TypeInv, RunInv, ~Unfinished
    PROVE  /\ \A f \in Flows : InOrder(f)
           /\ NothingLeaked
           /\ \A p \in Packets : TimesInOrder(p)
           /\ LinesAccounted
           /\ Withdrawn + StillQueued = withdrawals.scheduled
  <1>1. DeliveredInv /\ CreditInv /\ TimesInv /\ WithdrawnInv /\ LinesInv
    BY DEF RunInv
  <1>2. \A p \in Packets : stage[p] = "released"
    BY <1>1, AllDelivered
  <1>3. ASSUME NEW f \in Flows PROVE InOrder(f)
    <2>1. \A s \in 0..(Count - 1) : <<f, s>> \in Packets
      BY DEF Packets
    <2>2. \A s \in 0..(Count - 1) : \E i \in DOMAIN delivered : delivered[i] = <<f, s>>
      BY <1>1, <1>2, <2>1 DEF DeliveredInv
    <2>3. \A i, j \in DOMAIN delivered :
            i < j /\ FlowOf(delivered[i]) = f /\ FlowOf(delivered[j]) = f =>
              SerialOf(delivered[i]) < SerialOf(delivered[j])
      BY <1>1 DEF DeliveredInv
    <2> QED BY <2>2, <2>3 DEF InOrder
  <1>4. NothingLeaked
    <2>1. NicSet = {} /\ BufferSet = {} /\ PushedSet = {} /\ \A f : PushedIn(f) = {}
      BY <1>2 DEF NicSet, BufferSet, PushedSet, PushedIn, Pushed, InNic
    <2>2. nic_buffer = 0 /\ cpu_reorder_buffer = 0
      BY <1>1, <2>1, CreditSets, LinesOfNone
    <2>3. credit = ZeroForAll /\ global_credit = 0
      <3>1. CASE policy.use_credit
        <4>1. global_credit = 0 /\ \A f \in Flows : credit[f] = 0
          BY <1>1, <2>1, <3>1, CreditSets, LinesOfNone
        <4>2. credit \in [Flows -> Int]
          BY DEF TypeInv
        <4>3. credit = [f \in Flows |-> 0]
          BY <4>1, <4>2
        <4> QED BY <4>1, <4>3 DEF ZeroForAll
      <3>2. CASE ~policy.use_credit
        BY <1>1, <3>2, CreditSets
      <3> QED BY <3>1, <3>2
    <2> QED BY <2>2, <2>3 DEF NothingLeaked
  <1>5. ASSUME NEW p \in Packets PROVE TimesInOrder(p)
    <2>1. PICK t : t = times[p]
      OBVIOUS
    <2>2. /\ t.issue \in Int /\ t.ready \in Int /\ t.consume \in Int /\ t.processed \in Int
          /\ t.delivery \in Int /\ arrival_ns[p] \in Nat
      BY <2>1, TimeParts
    <2>3. /\ arrival_ns[p] <= t.issue /\ t.issue <= t.ready /\ t.ready <= t.consume
          /\ t.consume <= t.processed /\ t.processed <= t.delivery
      BY <1>1, <1>2, <2>1 DEF TimesInv, TimeInv
    <2>4. NotYet \notin {t.issue, t.ready, t.consume, t.processed, t.delivery}
      BY <2>2, <2>3 DEF NotYet
    <2>5. last_visible_ns[p] <= t.ready
      BY <1>1, <1>2, <2>1 DEF LinesInv, LineInv
    <2> QED BY <2>1, <2>3, <2>4, <2>5 DEF TimesInOrder
  <1>6. LinesAccounted
    BY <1>1, <1>2, LinesAtEnd
  <1> QED BY <1>1, <1>3, <1>4, <1>5, <1>6 DEF WithdrawnInv

LEMMA NeverRaisesNext ==
    ASSUME TypeInv, QueueInv, NeverRaises, Running => RunInv, Next
    PROVE  NeverRaises'
  <1>1. CASE outcome' = outcome
    BY <1>1 DEF NeverRaises
  <1>2. CASE outcome' # outcome
    <2>1. Running
      <3>1. Arrival \/ PayloadVisible \/ DescriptorVisible \/ ReadyVisible => Running
        BY DEF Arrival, PayloadVisible, DescriptorVisible, ReadyVisible, Take, Between
      <3>2. IssueAtOnce \/ TryIssue \/ TryCpu => Running
        BY DEF IssueAtOnce, TryIssue, TryCpu, InCall
      <3>3. CpuConsume \/ Release \/ Withdraw \/ Background => Running
        BY DEF CpuConsume, Release, Withdraw, Background, Take, Between
      <3>4. GateSample \/ GateApply \/ Finish \/ Fail => Running
        BY DEF GateSample, GateApply, Take, Finish, Fail, Between
      <3>5. Ended => outcome' = outcome
        BY DEF Ended, vars
      <3> QED BY <1>2, <3>1, <3>2, <3>3, <3>4, <3>5 DEF Next
    <2>2. /\ FlowsInv /\ CallsInv /\ Desk
      BY <2>1 DEF RunInv, Desk
    <2>3. CASE Arrival
      BY <1>2, <2>3 DEF Arrival, Raise, NeverRaises
    <2>4. CASE IssueAtOnce
      <3>1. PICK p \in Packets : Head(calls).packet = p /\ stage[p] = "arrived"
        BY <2>2, <2>4, IssueCall DEF IssueAtOnce
      <3> QED BY <1>2, <2>2, <2>4, <3>1, IssueShape DEF IssueAtOnce
    <2>5. CASE TryIssue
      <3>1. CASE UNCHANGED <<packets, books, events, link_available_ps, line_counts, outcome>>
        BY <1>2, <3>1
      <3>2. CASE \E p \in Packets : Issues(p)
        BY <1>2, <2>2, <3>2, IssueShape DEF Issues
      <3> QED BY <2>2, <2>5, <3>1, <3>2, TryIssueShape
    <2>6. CASE ReadyVisible
      BY <1>2, <2>2, <2>6, ReadyShape
    <2>7. CASE CpuConsume
      BY <1>2, <2>2, <2>7, ConsumeShape
    <2>8. CASE Release
      <3>1. PICK p : p = Taken
        OBVIOUS
      <3>2. outcome' = "overflow" \/ \E d \in Nat : Delivers(p, d)
        BY <2>2, <2>8, <3>1, ReleaseShape
      <3> QED BY <1>2, <3>2 DEF NeverRaises, Delivers
    <2>9. CASE Finish
      BY <2>1, <2>9, FinishPasses DEF Finish, Raise, NeverRaises
    <2>10. CASE Fail
      BY <2>10 DEF Fail, Raise, NeverRaises
    <2>11. PayloadVisible \/ DescriptorVisible \/ TryCpu => outcome' = outcome
      BY DEF PayloadVisible, DescriptorVisible, TryCpu
    <2>12. Withdraw \/ Background \/ GateSample \/ GateApply => outcome' = outcome
      BY DEF Withdraw, Background, GateSample, GateApply
    <2>13. Ended => outcome' = outcome
      BY DEF Ended, vars
    <2> QED BY <1>2, <2>3, <2>4, <2>5, <2>6, <2>7, <2>8, <2>9, <2>10, <2>11, <2>12, <2>13 DEF Next
  <1> QED BY <1>1, <1>2

(* With no event left, the first of a flow that is not released waits for   *)
(* credit, and so do all after it.                                         *)
LEMMA DryFlow ==
    ASSUME TypeInv, RunInv, calls = <<>>, events = <<>>,
           NEW p \in Packets, stage[p] # "released"
    PROVE  /\ stage[p] = "arrived" /\ policy.reorder_before_push
           /\ NextPacket(FlowOf(p)) \in Packets /\ stage[NextPacket(FlowOf(p))] = "arrived"
  <1>1. PacketsFit /\ CpuFits /\ FlowsInv /\ WaitingInv
    BY DEF RunInv
  <1>2. \A kind, what : ~IsQueued(kind, what)
    BY DEF IsQueued
  <1>3. \A q \in Packets : stage[q] \in {"arrived", "complete", "ready", "buffered", "released"}
    <2> TAKE q \in Packets
    <2>1. stage[q] \in Stages
      BY DEF TypeInv
    <2>2. PacketFits(q)
      BY <1>1 DEF PacketsFit
    <2>3. stage[q] \notin {"coming", "publishing", "consuming"}
      BY <1>2, <2>2 DEF PacketFits
    <2>4. stage[q] # "issued"
      BY <1>2, <2>2 DEF PacketFits
    <2> QED BY <2>1, <2>3, <2>4 DEF Stages
  <1>4. ~cpu_scheduled
    BY <1>1, <1>3 DEF CpuFits
  <1>5. DOMAIN calls = {}
    OBVIOUS
  <1>6. Consumable = {} /\ (policy.reorder_before_push => \A f \in Flows : ~Issuable(f))
    BY <1>1, <1>4, <1>5 DEF WaitingInv, Calls
  <1>7. PICK f, nc, np, ni : /\ f = FlowOf(p) /\ nc = next_consume[f] /\ np = next_publish[f]
                             /\ ni = next_issue[f]
    OBVIOUS
  <1>8. /\ nc \in Nat /\ np \in Nat /\ ni \in Nat /\ f \in Flows
        /\ SerialOf(p) \in Nat /\ SerialOf(p) < Count /\ Count \in Nat
    BY <1>7, NextTyped
  <1>9. \A q \in Packets : /\ stage[q] = "buffered" => policy.cpu_reorder /\ SerialOf(q) # next_consume[FlowOf(q)]
                           /\ stage[q] = "released" <=> SerialOf(q) < next_consume[FlowOf(q)]
                           /\ stage[q] = "complete" => ~policy.cpu_reorder
                           /\ ~policy.cpu_reorder =>
                                /\ stage[q] \in {"ready", "released"} => SerialOf(q) < next_publish[FlowOf(q)]
                                /\ SerialOf(q) < next_publish[FlowOf(q)] => stage[q] \in {"ready", "consuming", "released"}
                                /\ stage[q] = "complete" => SerialOf(q) # next_publish[FlowOf(q)]
                           /\ policy.reorder_before_push =>
                                (stage[q] \in {"coming", "arrived"} <=> next_issue[FlowOf(q)] <= SerialOf(q))
                           /\ stage[q] = "arrived" => policy.reorder_before_push
    <2> TAKE q \in Packets
    <2>1. InFlow(q)
      BY <1>1 DEF FlowsInv
    <2>2. calls # <<Call("issue", q)>>
      BY CallsTell
    <2> QED BY <2>1, <2>2 DEF InFlow
  <1>10. nc <= SerialOf(p)
    BY <1>7, <1>8, <1>9
  <1>11. PICK x : x = <<f, nc>>
    OBVIOUS
  <1>12. x \in Packets /\ FlowOf(x) = f /\ SerialOf(x) = nc
    BY <1>8, <1>10, <1>11, PacketOf
  <1>13. stage[x] \notin {"released", "buffered"}
    BY <1>7, <1>8, <1>9, <1>12
  <1>14. stage[x] # "ready"
    BY <1>6, <1>7, <1>12 DEF Consumable
  <1>15. stage[x] # "complete"
    <2> SUFFICES ASSUME stage[x] = "complete" PROVE FALSE
      OBVIOUS
    <2>1. ~policy.cpu_reorder /\ nc # np /\ ~(nc < np)
      BY <1>7, <1>9, <1>12
    <2>2. np < nc
      BY <1>8, <2>1
    <2>3. PICK y : y = <<f, np>>
      OBVIOUS
    <2>4. y \in Packets /\ FlowOf(y) = f /\ SerialOf(y) = np
      BY <1>8, <1>10, <2>2, <2>3, PacketOf
    <2>5. stage[y] = "released"
      BY <1>7, <1>9, <2>2, <2>4
    <2>6. np < np
      BY <1>7, <1>9, <2>1, <2>4, <2>5
    <2> QED BY <1>8, <2>6
  <1>16. stage[x] = "arrived" /\ policy.reorder_before_push
    BY <1>3, <1>9, <1>12, <1>13, <1>14, <1>15
  <1>17. ni <= nc
    BY <1>7, <1>9, <1>12, <1>16
  <1>18. stage[p] = "arrived"
    BY <1>3, <1>7, <1>8, <1>9, <1>10, <1>16, <1>17
  <1>19. PICK y : y = NextPacket(f)
    OBVIOUS
  <1>20. y \in Packets /\ FlowOf(y) = f /\ SerialOf(y) = ni
    <2>1. ni < Count
      BY <1>8, <1>10, <1>17
    <2> QED BY <1>7, <1>8, <1>19, <2>1, PacketOf DEF NextPacket
  <1>21. stage[y] = "arrived"
    BY <1>3, <1>7, <1>8, <1>9, <1>16, <1>20
  <1> QED BY <1>7, <1>16, <1>18, <1>19, <1>20, <1>21

LEMMA DryOversized ==
    ASSUME TypeInv, RunInv, ~Refused, calls = <<>>, events = <<>>, Unfinished
    PROVE  Oversized
  <1>1. DeliveredInv /\ CreditInv /\ WaitingInv
    BY DEF RunInv
  <1>2. PICK p \in Packets : stage[p] # "released"
    BY <1>1, AllDelivered
  <1>3. PICK y : y = NextPacket(FlowOf(p))
    OBVIOUS
  <1>4. policy.reorder_before_push /\ y \in Packets /\ stage[y] = "arrived"
    BY <1>2, <1>3, DryFlow
  <1>5. FlowOf(p) \in Flows
    BY <1>2, PacketParts
  <1>6. ~Issuable(FlowOf(p))
    BY <1>1, <1>4, <1>5 DEF WaitingInv
  <1>7. ~FitsCredit(FlowOf(p))
    BY <1>3, <1>4, <1>6 DEF Issuable
  <1>8. policy.use_credit
    BY <1>7 DEF FitsCredit
  <1>9. \A q \in Packets : stage[q] \in {"arrived", "released"}
    BY DryFlow
  <1>10. PushedSet = {} /\ PushedIn(FlowOf(p)) = {}
    BY <1>9 DEF PushedSet, PushedIn, Pushed, InNic
  <1>11. credit[FlowOf(p)] = 0 /\ global_credit = 0
    BY <1>1, <1>5, <1>8, <1>10, CreditSets, LinesOfNone
  <1>12. LinesOf[y] \in Nat /\ config.push_credit \in Nat
         /\ (Shared => config.global_credit \in Nat)
    BY <1>4, Sizes, ConfigParts DEF Shared
  <1>13. \/ ~(0 + LinesOf[y] <= config.push_credit)
         \/ Shared /\ ~(0 + LinesOf[y] <= config.global_credit)
    BY <1>3, <1>7, <1>11 DEF FitsCredit
  <1>14. CASE Shared /\ ~(0 + LinesOf[y] <= config.global_credit)
    BY <1>4, <1>8, <1>12, <1>14 DEF Refused, Shared
  <1>15. CASE ~(0 + LinesOf[y] <= config.push_credit)
    BY <1>4, <1>8, <1>12, <1>15 DEF Oversized
  <1> QED BY <1>13, <1>14, <1>15

LEMMA DrainNext ==
    ASSUME TypeInv, QueueInv, ~Refused, OnlyOversizedDrain, Running => RunInv, Next
    PROVE  OnlyOversizedDrain'
  <1>1. policy' = policy /\ config' = config
    BY InputsKept
  <1>2. Oversized' <=> Oversized
    BY <1>1 DEF Oversized
  <1>3. CASE outcome' = outcome \/ outcome' # "drained"
    BY <1>2, <1>3 DEF OnlyOversizedDrain
  <1>4. CASE outcome' # outcome /\ outcome' = "drained"
    <2>1. Fail
      <3>1. ~Arrival /\ ~PayloadVisible /\ ~DescriptorVisible /\ ~ReadyVisible
        BY <1>4 DEF Arrival, PayloadVisible, DescriptorVisible, ReadyVisible, Raise
      <3>2. ~IssueAtOnce /\ ~TryIssue
        BY <1>4 DEF IssueAtOnce, TryIssue, Issue, Raise
      <3>3. ~TryCpu /\ ~CpuConsume /\ ~Release
        BY <1>4 DEF TryCpu, CpuConsume, Release, Raise
      <3>4. ~Withdraw /\ ~Background /\ ~GateSample /\ ~GateApply
        BY <1>4 DEF Withdraw, Background, GateSample, GateApply
      <3>5. ~Finish /\ ~Ended
        BY <1>4 DEF Finish, Ended, vars, Raise
      <3> QED BY <3>1, <3>2, <3>3, <3>4, <3>5 DEF Next
    <2>2. Running /\ calls = <<>> /\ Unfinished /\ events = <<>>
      BY <1>4, <2>1 DEF Fail, Between, Raise
    <2>3. Oversized
      BY <2>2, DryOversized
    <2> QED BY <1>2, <2>3 DEF OnlyOversizedDrain
  <1> QED BY <1>3, <1>4
--------------------------------------------------------------------------------
(* The beginning.                                                          *)

LEMMA PacketAtIn ==
    ASSUME NEW k \in Int, 1 <= k, k <= NumFlows * Count
    PROVE  PacketAt(k) \in Packets /\ \A p \in Packets : PacketAt(k) = p => k = IndexOf(p) + 1
  <1>1. NumFlows \in Nat /\ NumFlows > 0 /\ Count \in Nat /\ Count > 0
    BY Sizes
  <1>2. PICK n \in Nat : n = k - 1
    OBVIOUS
  <1>3. PICK q, r : q = n \div Count /\ r = n % Count
    OBVIOUS
  <1>4. q \in Int /\ r \in 0..(Count - 1) /\ n = Count * q + r
    BY <1>1, <1>3, Division
  <1>5. PICK m \in Nat : m = NumFlows * Count
    BY PacketsCounted
  <1>6. n < m
    BY <1>2, <1>5
  <1>7. 0 <= q
    <2> SUFFICES ASSUME q + 1 <= 0 PROVE FALSE
      BY <1>4
    <2>1. PICK u \in Nat : u = 0 - (q + 1)
      BY <1>4
    <2>2. q = 0 - u - 1
      BY <1>4, <2>1
    <2>3. Count * q = 0 - Count * u - Count
      BY <1>1, <2>2
    <2>4. Count * u \in Nat
      BY <1>1
    <2>5. n < 0
      BY <1>1, <1>4, <2>3, <2>4
    <2> QED BY <2>5
  <1>8. q < NumFlows
    <2> SUFFICES ASSUME NumFlows <= q PROVE FALSE
      BY <1>1, <1>4
    <2>1. PICK u \in Nat : u = q - NumFlows
      BY <1>1, <1>4
    <2>2. q = NumFlows + u
      BY <1>1, <1>4, <2>1
    <2>3. Count * q = NumFlows * Count + Count * u
      BY <1>1, <2>2
    <2>4. Count * u \in Nat
      BY <1>1
    <2>5. PICK v, w : v = Count * q /\ w = Count * u
      OBVIOUS
    <2>6. v = m + w /\ w \in Nat /\ n = v + r /\ r \in Nat
      BY <1>1, <1>4, <1>5, <2>3, <2>4, <2>5
    <2> QED BY <1>6, <2>6
  <1>9. PacketAt(k) = <<q, r>>
    BY <1>2, <1>3 DEF PacketAt
  <1>10. <<q, r>> \in Packets
    BY <1>1, <1>4, <1>7, <1>8 DEF Packets, Flows
  <1>11. ASSUME NEW p \in Packets, PacketAt(k) = p
         PROVE  k = IndexOf(p) + 1
    <2>1. PacketAt(n + 1) = p <=> n = IndexOf(p)
      BY PacketIndex
    <2>2. n + 1 = k
      BY <1>2
    <2> QED BY <1>2, <1>11, <2>1, <2>2
  <1> QED BY <1>9, <1>10, <1>11

FirstEvents == ArrivalEvents \o FirstBackground \o FirstSample

(* An arrival of each packet, and what recurs.                             *)
Begins(q) ==
    /\ q \in Seq(Events) /\ Apart(q)
    /\ \A i \in DOMAIN q :
         \/ /\ q[i].kind = "arrival" /\ q[i].what \in Packets /\ q[i].time = arrival_ns[q[i].what]
         \/ /\ q[i].kind = "background" /\ config.background # NoLimit
         \/ /\ q[i].kind = "gate_sample" /\ config.sample_interval # NoLimit
    /\ \A p \in Packets : \E i \in DOMAIN q : q[i].kind = "arrival" /\ q[i].what = p

LEMMA ArrivalTyped ==
    ASSUME arrival_ns \in [Packets -> Nat]
    PROVE  /\ ArrivalEvents \in Seq(Events)
           /\ DOMAIN ArrivalEvents = 1..(NumFlows * Count)
           /\ \A k \in DOMAIN ArrivalEvents :
                /\ k \in Nat /\ ArrivalEvents[k].kind = "arrival"
                /\ ArrivalEvents[k].what = PacketAt(k) /\ PacketAt(k) \in Packets
                /\ ArrivalEvents[k].time = arrival_ns[PacketAt(k)]
           /\ \A i, j \in DOMAIN ArrivalEvents : PacketAt(i) = PacketAt(j) => i = j
           /\ \A p \in Packets : \E k \in DOMAIN ArrivalEvents : PacketAt(k) = p
  <1>1. PICK m \in Nat : m = NumFlows * Count
    BY PacketsCounted
  <1>2. \A k \in 1..m : PacketAt(k) \in Packets /\ k \in Nat
    BY <1>1, PacketAtIn
  <1>3. \A k \in 1..m : Event(arrival_ns[PacketAt(k)], "arrival", PacketAt(k)) \in Events
    BY <1>2 DEF Event, Events, OfPacket
  <1>4. ArrivalEvents = [k \in 1..m |-> Event(arrival_ns[PacketAt(k)], "arrival", PacketAt(k))]
    BY <1>1 DEF ArrivalEvents
  <1>5. ArrivalEvents \in Seq(Events) /\ DOMAIN ArrivalEvents = 1..m
    BY <1>3, <1>4
  <1>6. \A k \in DOMAIN ArrivalEvents :
          /\ ArrivalEvents[k].kind = "arrival"
          /\ ArrivalEvents[k].what = PacketAt(k)
          /\ ArrivalEvents[k].time = arrival_ns[PacketAt(k)]
    BY <1>4 DEF Event
  <1>7. \A i, j \in 1..m : PacketAt(i) = PacketAt(j) => i = j
    <2> TAKE i, j \in 1..m
    <2>1. /\ i = IndexOf(PacketAt(i)) + 1 /\ j = IndexOf(PacketAt(j)) + 1
      BY <1>1, <1>2, PacketAtIn
    <2> QED BY <2>1
  <1>8. \A p \in Packets : \E k \in 1..m : PacketAt(k) = p
    <2> TAKE p \in Packets
    <2>1. PICK n \in Nat : n = IndexOf(p) /\ n < m
      BY <1>1, PacketIndex
    <2>2. PacketAt(n + 1) = p
      BY <2>1, PacketIndex
    <2> QED BY <1>1, <2>1, <2>2
  <1> QED BY <1>1, <1>2, <1>5, <1>6, <1>7, <1>8

LEMMA RecurringTyped ==
    /\ FirstBackground \in Seq(Events) /\ FirstSample \in Seq(Events)
    /\ \A i \in DOMAIN FirstBackground : FirstBackground[i].kind = "background" /\ config.background # NoLimit
    /\ \A i \in DOMAIN FirstSample : FirstSample[i].kind = "gate_sample" /\ config.sample_interval # NoLimit
  <1>1. Event(0, "background", FALSE) \in Events /\ Event(0, "gate_sample", FALSE) \in Events
    BY DEF Event, Events, OfGate
  <1>2. Event(0, "background", FALSE).kind = "background" /\ Event(0, "gate_sample", FALSE).kind = "gate_sample"
    BY DEF Event
  <1>3. FirstBackground \in Seq(Events)
        /\ \A i \in DOMAIN FirstBackground : FirstBackground[i].kind = "background" /\ config.background # NoLimit
    <2>1. PICK e : e = Event(0, "background", FALSE)
      OBVIOUS
    <2>2. CASE config.background # NoLimit
      <3>1. FirstBackground = <<e>>
        BY <2>1, <2>2 DEF FirstBackground
      <3>2. e \in Events /\ e.kind = "background"
        BY <1>1, <1>2, <2>1
      <3> QED BY <2>2, <3>1, <3>2
    <2>3. CASE ~(config.background # NoLimit)
      <3>1. FirstBackground = <<>>
        BY <2>3 DEF FirstBackground
      <3> QED BY <3>1, NothingApart
    <2> QED BY <2>2, <2>3
  <1>4. FirstSample \in Seq(Events)
        /\ \A i \in DOMAIN FirstSample : FirstSample[i].kind = "gate_sample" /\ config.sample_interval # NoLimit
    <2>1. PICK e : e = Event(0, "gate_sample", FALSE)
      OBVIOUS
    <2>2. CASE Sampled
      <3>1. FirstSample = <<e>>
        BY <2>1, <2>2 DEF FirstSample
      <3>2. e \in Events /\ e.kind = "gate_sample"
        BY <1>1, <1>2, <2>1
      <3>3. config.sample_interval # NoLimit
        BY <2>2 DEF Sampled
      <3> QED BY <3>1, <3>2, <3>3
    <2>3. CASE ~Sampled
      <3>1. FirstSample = <<>>
        BY <2>3 DEF FirstSample
      <3> QED BY <3>1, NothingApart
    <2> QED BY <2>2, <2>3
  <1> QED BY <1>3, <1>4

LEMMA FirstBegins ==
    ASSUME arrival_ns \in [Packets -> Nat]
    PROVE  Begins(FirstEvents)
  <1>1. PICK A, B, C, AB, q : /\ A = ArrivalEvents /\ B = FirstBackground /\ C = FirstSample
                              /\ AB = A \o B /\ q = AB \o C
    OBVIOUS
  <1>2. /\ A \in Seq(Events) /\ B \in Seq(Events) /\ C \in Seq(Events)
        /\ AB \in Seq(Events) /\ q \in Seq(Events)
    BY <1>1, ArrivalTyped, RecurringTyped
  <1>3. IsJoined(AB, A, B) /\ IsJoined(q, AB, C)
    <2>1. IsJoined(AB, A, B)
      BY <1>1, <1>2, Joined
    <2>2. IsJoined(q, AB, C)
      BY <1>1, <1>2, Joined
    <2> QED BY <2>1, <2>2
  <1>4. /\ \A k \in DOMAIN A : /\ A[k].kind = "arrival" /\ A[k].what \in Packets
                               /\ A[k].time = arrival_ns[A[k].what]
        /\ \A i, j \in DOMAIN A : A[i].what = A[j].what => i = j
        /\ \A p \in Packets : \E k \in DOMAIN A : A[k].kind = "arrival" /\ A[k].what = p
        /\ \A i \in DOMAIN B : B[i].kind = "background" /\ config.background # NoLimit
        /\ \A i \in DOMAIN C : C[i].kind = "gate_sample" /\ config.sample_interval # NoLimit
    <2>1. \A k \in DOMAIN A : A[k].kind = "arrival" /\ A[k].what = PacketAt(k) /\ PacketAt(k) \in Packets
                              /\ A[k].time = arrival_ns[PacketAt(k)]
      BY <1>1, ArrivalTyped
    <2>2. \A k \in DOMAIN A : /\ A[k].kind = "arrival" /\ A[k].what \in Packets
                               /\ A[k].time = arrival_ns[A[k].what]
      <3> TAKE k \in DOMAIN A
      <3>1. A[k].what = PacketAt(k)
        BY <2>1
      <3> QED BY <2>1, <3>1
    <2>3. \A i, j \in DOMAIN A : A[i].what = A[j].what => i = j
      <3>1. \A i, j \in DOMAIN A : PacketAt(i) = PacketAt(j) => i = j
        BY <1>1, ArrivalTyped
      <3> TAKE i, j \in DOMAIN A
      <3>2. A[i].what = PacketAt(i) /\ A[j].what = PacketAt(j)
        BY <2>1
      <3> QED BY <3>1, <3>2
    <2>4. \A p \in Packets : \E k \in DOMAIN A : A[k].kind = "arrival" /\ A[k].what = p
      <3> TAKE p \in Packets
      <3>1. PICK k \in DOMAIN A : PacketAt(k) = p
        BY <1>1, ArrivalTyped
      <3>2. A[k].kind = "arrival" /\ A[k].what = p
        BY <2>1, <3>1
      <3> QED BY <3>2
    <2>5. \A i \in DOMAIN B : B[i].kind = "background" /\ config.background # NoLimit
      BY <1>1, RecurringTyped
    <2>6. \A i \in DOMAIN C : C[i].kind = "gate_sample" /\ config.sample_interval # NoLimit
      BY <1>1, RecurringTyped
    <2> QED BY <2>2, <2>3, <2>4, <2>5, <2>6
  <1>5. \A i \in DOMAIN q :
          \/ i \in DOMAIN A /\ q[i] = A[i]
          \/ q[i].kind = "background" /\ config.background # NoLimit
          \/ q[i].kind = "gate_sample" /\ config.sample_interval # NoLimit
    <2> TAKE i \in DOMAIN q
    <2>1. CASE i > Len(AB)
      <3>1. PICK j : j = i - Len(AB)
        OBVIOUS
      <3>2. j \in DOMAIN C /\ q[i] = C[j]
        BY <1>3, <2>1, <3>1 DEF IsJoined
      <3> QED BY <1>4, <3>2
    <2>2. CASE ~(i > Len(AB))
      <3>1. i \in DOMAIN AB /\ q[i] = AB[i]
        <4>1. i \in Nat /\ Len(AB) \in Nat
          BY <1>3 DEF IsJoined
        <4>2. i <= Len(AB)
          BY <2>2, <4>1
        <4> QED BY <1>3, <4>2 DEF IsJoined
      <3>2. CASE i > Len(A)
        <4>1. PICK j : j = i - Len(A)
          OBVIOUS
        <4>2. j \in DOMAIN B /\ AB[i] = B[j]
          BY <1>3, <3>1, <3>2, <4>1 DEF IsJoined
        <4> QED BY <1>4, <3>1, <4>2
      <3>3. CASE ~(i > Len(A))
        <4>1. i \in Nat /\ Len(A) \in Nat
          BY <1>3, <3>1 DEF IsJoined
        <4>2. i <= Len(A)
          BY <3>3, <4>1
        <4> QED BY <1>3, <3>1, <4>2 DEF IsJoined
      <3> QED BY <3>2, <3>3
    <2> QED BY <2>1, <2>2
  <1>6. \A k \in DOMAIN A : k \in DOMAIN q /\ q[k] = A[k]
    BY <1>3 DEF IsJoined
  <1>7. Apart(q)
    <2> SUFFICES ASSUME NEW i \in DOMAIN q, NEW j \in DOMAIN q
                 PROVE  /\ Same(q[i], q[j]) \/ BothCpu(q[i], q[j]) => i = j
                        /\ Announces(q[i], q[j]) => i < j
      BY DEF Apart
    <2>1. q[i].kind \in {"arrival", "background", "gate_sample"}
      BY <1>4, <1>5
    <2>2. ~BothCpu(q[i], q[j]) /\ ~Announces(q[i], q[j])
      BY <2>1 DEF BothCpu, Announces
    <2>3. Same(q[i], q[j]) => i = j
      <3> SUFFICES ASSUME Same(q[i], q[j]) PROVE i = j
        OBVIOUS
      <3>1. q[i].kind = "arrival" /\ q[j].kind = "arrival" /\ q[i].what = q[j].what
        BY <2>1 DEF Same, OfPacket
      <3>2. i \in DOMAIN A /\ q[i] = A[i] /\ j \in DOMAIN A /\ q[j] = A[j]
        BY <1>5, <3>1
      <3> QED BY <1>4, <3>1, <3>2
    <2> QED BY <2>2, <2>3
  <1>8. \A i \in DOMAIN q :
         \/ /\ q[i].kind = "arrival" /\ q[i].what \in Packets /\ q[i].time = arrival_ns[q[i].what]
         \/ /\ q[i].kind = "background" /\ config.background # NoLimit
         \/ /\ q[i].kind = "gate_sample" /\ config.sample_interval # NoLimit
    BY <1>4, <1>5
  <1>9. \A p \in Packets : \E i \in DOMAIN q : q[i].kind = "arrival" /\ q[i].what = p
    BY <1>4, <1>6
  <1>10. Begins(q)
    BY <1>2, <1>7, <1>8, <1>9 DEF Begins
  <1> QED BY <1>1, <1>10 DEF FirstEvents

LEMMA EventsBegin ==
    ASSUME arrival_ns \in [Packets -> Nat], events = ScheduleAll(<<>>, FirstEvents)
    PROVE  Begins(events) /\ Sorted(events)
  <1>1. PICK q : q = FirstEvents
    OBVIOUS
  <1>2. Begins(q)
    BY <1>1, FirstBegins
  <1>3. q \in Seq(Events) /\ Timed(q)
    <2>1. q \in Seq(Events)
      BY <1>2 DEF Begins
    <2>2. \A i \in DOMAIN q : q[i] \in Events
      BY <2>1
    <2> QED BY <2>1, <2>2, EventParts DEF Timed
  <1>4. PICK none : none = <<>>
    OBVIOUS
  <1>5. none \in Seq(Events) /\ DOMAIN none = {} /\ Timed(none) /\ Sorted(none) /\ Apart(none)
    BY <1>4, NothingApart DEF Timed, Sorted
  <1>6. events = ScheduleAll(none, q)
    BY <1>1, <1>4
  <1>7. events \in Seq(Events) /\ Sorted(events) /\ \E a, b : Merged(events, none, q, a, b)
    <2>1. LET r == ScheduleAll(none, q)
          IN  /\ r \in Seq(Events) /\ Len(r) = Len(none) + Len(q) /\ Timed(r) /\ Sorted(r)
              /\ \E a, b : Merged(r, none, q, a, b)
      BY <1>3, <1>5, ScheduleMerges
    <2> QED BY <1>6, <2>1
  <1>8. PICK a, b : Merged(events, none, q, a, b)
    BY <1>7
  <1>9. /\ \A j \in DOMAIN q : b[j] \in DOMAIN events /\ events[b[j]] = q[j]
        /\ \A n \in DOMAIN events : \E j \in DOMAIN q : b[j] = n
    BY <1>5, <1>8 DEF Merged
  <1>10. \A n \in DOMAIN events : \E j \in DOMAIN q : events[n] = q[j]
    BY <1>9
  <1>11. Apart(events)
    <2>1. Fresh(none, q)
      <3>1. \A j \in DOMAIN q : q[j].kind \in {"arrival", "background", "gate_sample"}
        BY <1>2 DEF Begins
      <3>2. \A j, k \in DOMAIN q : ~Announces(q[j], q[k])
        BY <3>1 DEF Announces
      <3> QED BY <1>2, <1>5, <3>2 DEF Fresh, Begins
    <2> QED BY <1>3, <1>5, <1>7, <1>8, <2>1, ApartMerged
  <1>12. \A i \in DOMAIN events :
         \/ /\ events[i].kind = "arrival" /\ events[i].what \in Packets
            /\ events[i].time = arrival_ns[events[i].what]
         \/ /\ events[i].kind = "background" /\ config.background # NoLimit
         \/ /\ events[i].kind = "gate_sample" /\ config.sample_interval # NoLimit
    BY <1>2, <1>10 DEF Begins
  <1>13. \A p \in Packets : \E i \in DOMAIN events : events[i].kind = "arrival" /\ events[i].what = p
    BY <1>2, <1>9 DEF Begins
  <1> QED BY <1>7, <1>11, <1>12, <1>13 DEF Begins

LEMMA TypeInit ==
    ASSUME Init
    PROVE  TypeInv /\ QueueInv /\ Begins(events) /\ arrival_ns \in [Packets -> Nat]
  <1>1. arrival_ns \in [Packets -> Nat]
    BY TimingAssumption DEF Init
  <1>2. events = ScheduleAll(<<>>, FirstEvents)
    BY DEF Init, FirstEvents
  <1>3. Begins(events) /\ Sorted(events)
    BY <1>1, <1>2, EventsBegin
  <1>4. PICK q : q = events
    OBVIOUS
  <1>5. q \in Seq(Events) /\ \A i \in DOMAIN q : q[i] \in Events
    BY <1>3, <1>4 DEF Begins
  <1>6. TypeInv
    <2>1. policy \in Policies /\ config \in Configs /\ events \in Seq(Events)
      BY <1>4, <1>5 DEF Init
    <2>2. calls \in Seq(CallSet) /\ delivered \in Seq(Packets)
      BY DEF Init
    <2>3. /\ now \in Nat /\ link_available_ps \in Nat /\ global_credit \in Int
          /\ issue_round_robin \in Int /\ cpu_round_robin \in Int
          /\ nic_buffer \in Int /\ cpu_reorder_buffer \in Int
      BY DEF Init
    <2>8. outcome \in {"running", "passed", "raised", "overflow", "drained", "deadline"}
      BY DEF Init
    <2>9. cpu_scheduled \in BOOLEAN /\ gate_requested \in BOOLEAN /\ gate_push_enabled \in BOOLEAN
      BY Zenon DEF Init
    <2>4. /\ stage \in [Packets -> Stages] /\ pending_payload_lines \in [Packets -> Int]
          /\ visible \in [Packets -> SUBSET [kind : {"payload", "descriptor", "ready"}, what : Nat]]
      BY DEF Init, Stages
    <2>5. times \in [Packets -> AllTimes]
      BY DEF Init, Untimed, NotYet, AllTimes
    <2>6. /\ next_issue \in [Flows -> Nat] /\ next_publish \in [Flows -> Nat]
          /\ next_consume \in [Flows -> Nat] /\ credit \in [Flows -> Int]
      BY DEF Init, ZeroForAll
    <2>7. withdrawals \in [Classes -> Int]
      BY DEF Init, Classes
    <2>10. line_counts \in [Counted -> Int] /\ last_visible_ns \in [Packets -> Int]
      BY DEF Init, Counted, NotYet
    <2> QED BY <1>1, <2>1, <2>2, <2>3, <2>4, <2>5, <2>6, <2>7, <2>8, <2>9, <2>10 DEF TypeInv
  <1>7. QueueInv
    <2>1. \A i, j \in DOMAIN events : i < j => events[i].time <= events[j].time
      BY <1>3 DEF Sorted
    <2>2. \A i \in DOMAIN events : now <= events[i].time
      <3>1. now = 0
        BY DEF Init
      <3>2. \A i \in DOMAIN q : q[i].time \in Nat
        BY <1>5, EventParts
      <3> QED BY <1>4, <3>1, <3>2
    <2>3. \A i \in DOMAIN events :
            /\ events[i].kind = "background" => config.background # NoLimit
            /\ events[i].kind = "gate_sample" => config.sample_interval # NoLimit
      BY <1>3 DEF Begins
    <2> QED BY <2>1, <2>2, <2>3 DEF QueueInv
  <1> QED BY <1>1, <1>3, <1>6, <1>7

LEMMA GateInit ==
    ASSUME Init, Begins(events)
    PROVE  GateInv
  <1>1. \A i \in DOMAIN events : events[i].kind # "gate_apply"
    BY DEF Begins
  <1>2. Flags = {0}
    BY <1>1 DEF Flags
  <1>3. Flag(0) = TRUE /\ gate_requested = TRUE
    BY DEF Flag, Init
  <1>4. GateChangesAlternate
    <2>1. \A i, j \in Flags : ~(i < j)
      BY <1>2
    <2>2. \A i \in Flags : Flag(i) = gate_requested
      BY <1>2, <1>3
    <2> QED BY <2>1, <2>2 DEF GateChangesAlternate
  <1> QED BY <1>1, <1>4 DEF GateInv

LEMMA DeskInit ==
    ASSUME Init, Begins(events)
    PROVE  Desk
  <1>1. \A p \in Packets : stage[p] = "coming" /\ visible[p] = {}
    BY DEF Init
  <1>2. EventsApart
    BY DEF Begins, EventsApart
  <1>3. EventsFit
    <2> SUFFICES ASSUME NEW i \in DOMAIN events PROVE EventFits(events[i])
      BY DEF EventsFit
    <2>1. CASE /\ events[i].kind = "arrival" /\ events[i].what \in Packets
               /\ events[i].time = arrival_ns[events[i].what]
      BY <1>1, <2>1 DEF EventFits
    <2>2. CASE events[i].kind \in {"background", "gate_sample"}
      BY <2>2 DEF EventFits
    <2> QED BY <2>1, <2>2 DEF Begins
  <1>4. PacketsFit
    <2> SUFFICES ASSUME NEW p \in Packets PROVE PacketFits(p)
      BY DEF PacketsFit
    <2>1. IsQueued("arrival", p)
      BY DEF Begins, IsQueued
    <2> QED BY <1>1, <2>1 DEF PacketFits
  <1>5. CpuFits
    BY <1>1 DEF CpuFits, Init
  <1> QED BY <1>2, <1>3, <1>4, <1>5 DEF Desk

LEMMA RunInit ==
    ASSUME Init, TypeInv, Begins(events)
    PROVE  RunInv
  <1>1. \A p \in Packets : stage[p] = "coming"
    BY DEF Init
  <1>2. \A f \in Flows : next_issue[f] = 0 /\ next_publish[f] = 0 /\ next_consume[f] = 0
    BY DEF Init, ZeroForAll
  <1>3. \A p \in Packets : FlowOf(p) \in Flows /\ SerialOf(p) \in Nat /\ 0 <= SerialOf(p)
    BY PacketParts
  <1>4. FlowsInv
    <2>1. \A p \in Packets : InFlow(p)
      <3> TAKE p \in Packets
      <3>1. PICK f, s : f = FlowOf(p) /\ s = SerialOf(p) /\ f \in Flows /\ s \in Nat
        BY <1>3
      <3>2. ~(s < next_consume[f]) /\ ~(s < next_publish[f]) /\ next_issue[f] <= s
        BY <1>2, <3>1
      <3> QED BY <1>1, <3>1, <3>2 DEF InFlow
    <2>2. \A f \in Flows : next_consume[f] <= Count
      BY <1>2, Sizes
    <2> QED BY <2>1, <2>2 DEF FlowsInv
  <1>5. CallsInv
    BY DEF Init, CallsInv
  <1>6. WaitingInv
    <2>1. \A f \in Flows : ~Issuable(f)
      BY <1>1 DEF Issuable
    <2>2. Consumable = {}
      BY <1>1 DEF Consumable
    <2> QED BY <2>1, <2>2 DEF WaitingInv
  <1>7. CreditInv
    <2>1. {p \in Packets : InNic(p)} = {} /\ {p \in Packets : stage[p] = "buffered"} = {}
          /\ {p \in Packets : Pushed(p)} = {}
          /\ \A f \in Flows : {p \in Packets : Pushed(p) /\ FlowOf(p) = f} = {}
      BY <1>1 DEF InNic, Pushed
    <2>2. nic_buffer = 0 /\ cpu_reorder_buffer = 0 /\ global_credit = 0 /\ credit = ZeroForAll
          /\ \A f \in Flows : credit[f] = 0
      BY DEF Init, ZeroForAll
    <2>3. config.push_credit \in Nat
          /\ config.global_credit \in Nat \cup {NoLimit}
      BY ConfigAssumption DEF TypeInv
    <2>4. \A f \in Flows : credit[f] <= config.push_credit
      <3>1. PICK n \in Nat : n = config.push_credit
        BY <2>3
      <3> QED BY <2>2, <3>1
    <2>5. Shared => global_credit <= config.global_credit
      <3> SUFFICES ASSUME Shared PROVE global_credit <= config.global_credit
        OBVIOUS
      <3>1. PICK n \in Nat : n = config.global_credit
        BY <2>3 DEF Shared
      <3> QED BY <2>2, <3>1
    <2> QED BY <2>1, <2>2, <2>4, <2>5, LinesOfNone DEF CreditInv
  <1>8. TimesInv
    <2> SUFFICES ASSUME NEW p \in Packets PROVE TimeInv(p)
      BY DEF TimesInv
    <2>1. \A i \in DOMAIN events : events[i].kind # "release"
      BY DEF Begins
    <2> QED BY <1>1, <2>1 DEF TimeInv
  <1>9. DeliveredInv
    <2>1. delivered = <<>>
      BY DEF Init
    <2>2. DOMAIN delivered = {}
      BY <2>1, NothingApart
    <2> QED BY <1>1, <2>2 DEF DeliveredInv
  <1>10. WithdrawnInv
    <2>1. {i \in DOMAIN events : events[i].kind = "withdraw"} = {}
      BY DEF Begins
    <2>2. StillQueued = 0
      BY <2>1, FS_EmptySet DEF StillQueued
    <2>3. withdrawals.before = 0 /\ withdrawals.after = 0 /\ withdrawals.stale = 0
          /\ withdrawals.scheduled = 0
      BY DEF Init
    <2> QED BY <2>2, <2>3 DEF WithdrawnInv, Withdrawn
  <1>11. Desk
    BY DeskInit
  <1>12. LinesInv
    BY <1>1, LinesInit
  <1> QED BY <1>4, <1>5, <1>6, <1>7, <1>8, <1>9, <1>10, <1>11, <1>12 DEF RunInv, Desk

LEMMA InitInv ==
    ASSUME Init
    PROVE  IndInv
  <1>1. TypeInv /\ QueueInv /\ Begins(events)
    BY TypeInit
  <1>2. GateInv
    BY <1>1, GateInit
  <1>3. RunInv
    BY <1>1, RunInit
  <1>4. ~Refused /\ NeverRaises /\ OnlyOversizedDrain
    BY DEF Init, NeverRaises, OnlyOversizedDrain
  <1> QED BY <1>1, <1>2, <1>3, <1>4 DEF IndInv

LEMMA NextInv ==
    ASSUME IndInv, Next
    PROVE  IndInv'
  <1>0. /\ TypeInv /\ QueueInv /\ GateInv /\ ~Refused /\ NeverRaises /\ OnlyOversizedDrain
        /\ Running => RunInv
    BY DEF IndInv
  <1>1. Running => Desk /\ FlowsInv /\ CallsInv
    BY <1>0 DEF RunInv, Desk
  <1>2. QueueInv' /\ GateInv' /\ NeverRaises' /\ OnlyOversizedDrain'
    BY <1>0, QueueNext, GateNext, NeverRaisesNext, DrainNext
  <1>3. TypeInv'
    BY <1>0, <1>1, TypeNext
  <1>4. ~Refused'
    <2>1. policy' = policy /\ config' = config
      BY InputsKept
    <2> QED BY <1>0, <2>1 DEF Refused
  <1>5. ASSUME Running' PROVE Running
    <2>1. CASE Ended
      <3>1. outcome' = outcome
        BY <2>1 DEF Ended, vars
      <3> QED BY <1>5, <3>1 DEF Running
    <2>2. CASE ~Ended
      BY <2>2 DEF Next, Arrival, IssueAtOnce, TryIssue, PayloadVisible, DescriptorVisible,
         ReadyVisible, TryCpu, CpuConsume, Release, Withdraw, Background, GateSample, GateApply,
         Finish, Fail, Take, Between, InCall
    <2> QED BY <2>1, <2>2
  <1>6. ASSUME Running' PROVE RunInv'
    <2>1. Running /\ Desk /\ FlowsInv /\ CallsInv /\ WaitingInv /\ CreditInv /\ TimesInv
          /\ DeliveredInv /\ WithdrawnInv /\ LinesInv
      BY <1>0, <1>1, <1>5, <1>6 DEF RunInv
    <2>2. Desk' /\ FlowsInv' /\ CallsInv'
      BY <1>0, <1>6, <2>1, DeskNext, FlowsNext, CallsNext
    <2>3. WaitingInv' /\ CreditInv' /\ TimesInv' /\ WithdrawnInv'
      BY <1>0, <1>6, <2>1, WaitingNext, CreditNext, TimesNext, WithdrawnNext
    <2>4. DeliveredInv'
      BY <1>0, <1>6, <2>1, <2>2, DeliveredNext
    <2>5. LinesInv'
      BY <1>0, <1>6, <2>1, LinesNext
    <2> QED BY <2>2, <2>3, <2>4, <2>5 DEF RunInv, Desk
  <1> QED BY <1>2, <1>3, <1>4, <1>6 DEF IndInv

LEMMA StutterInv ==
    ASSUME IndInv, UNCHANGED vars
    PROVE  IndInv'
  <1>1. /\ policy' = policy /\ config' = config /\ arrival_ns' = arrival_ns /\ events' = events
        /\ calls' = calls /\ now' = now /\ link_available_ps' = link_available_ps
        /\ stage' = stage /\ pending_payload_lines' = pending_payload_lines /\ visible' = visible
        /\ times' = times /\ next_issue' = next_issue /\ next_publish' = next_publish
        /\ next_consume' = next_consume /\ credit' = credit /\ global_credit' = global_credit
        /\ issue_round_robin' = issue_round_robin /\ cpu_scheduled' = cpu_scheduled
        /\ cpu_round_robin' = cpu_round_robin /\ nic_buffer' = nic_buffer
        /\ cpu_reorder_buffer' = cpu_reorder_buffer /\ delivered' = delivered
        /\ gate_requested' = gate_requested /\ gate_push_enabled' = gate_push_enabled
        /\ withdrawals' = withdrawals /\ outcome' = outcome
        /\ line_counts' = line_counts /\ last_visible_ns' = last_visible_ns
    BY DEF vars, inputs, packets, books, cpu, buffers, gate, tallies
  <1>2. TypeInv'
    BY <1>1 DEF IndInv, TypeInv
  <1>3. QueueInv'
    BY <1>1 DEF IndInv, QueueInv
  <1>4. GateInv'
    BY <1>1 DEF IndInv, GateInv, GateChangesAlternate, Flags, Flag
  <1>5. ~Refused' /\ NeverRaises' /\ OnlyOversizedDrain'
    BY <1>1 DEF IndInv, Refused, NeverRaises, OnlyOversizedDrain, Oversized
  <1>6. ASSUME Running' PROVE RunInv'
    <2>1. RunInv
      BY <1>1, <1>6 DEF IndInv, Running
    <2>2. EventsApart'
      BY <1>1, <2>1 DEF RunInv, EventsApart
    <2>3. EventsFit'
      BY <1>1, <2>1 DEF RunInv, EventsFit, EventFits, Awaited
    <2>4. PacketsFit' /\ CpuFits'
      <3>1. CpuFits'
        BY <1>1, <2>1 DEF RunInv, CpuFits
      <3>2. \A kind, what : IsQueued(kind, what) => IsQueued(kind, what)'
        BY <1>1 DEF IsQueued
      <3>3. \A p \in Packets : Awaited(p)' = Awaited(p)
        BY <1>1 DEF Awaited
      <3>4. ASSUME NEW p \in Packets PROVE PacketFits(p)'
        <4>1. PacketFits(p)
          BY <2>1 DEF RunInv, PacketsFit
        <4>2. Awaited(p)' = Awaited(p)
          BY <3>3
        <4> QED BY <1>1, <3>2, <4>1, <4>2 DEF PacketFits
      <3> QED BY <3>1, <3>4 DEF PacketsFit
    <2>5. FlowsInv' /\ CallsInv'
      BY <1>1, <2>1 DEF RunInv, FlowsInv, InFlow, CallsInv
    <2>6. WaitingInv'
      BY <1>1, <2>1 DEF RunInv, WaitingInv, Issuable, NextPacket, FitsCredit, Shared, Considered,
         Consumable, Calls
    <2>7. CreditInv'
      BY <1>1, <2>1 DEF RunInv, CreditInv, InNic, Pushed, Shared
    <2>8. TimesInv'
      BY <1>1, <2>1 DEF RunInv, TimesInv, TimeInv
    <2>9. DeliveredInv' /\ WithdrawnInv'
      BY <1>1, <2>1 DEF RunInv, DeliveredInv, WithdrawnInv, Withdrawn, StillQueued
    <2>10. LinesInv'
      <3>1. LinesInv
        BY <2>1 DEF RunInv
      <3>2. \A kind, what : IsQueued(kind, what)' = IsQueued(kind, what)
        BY <1>1 DEF IsQueued
      <3>3. \A p \in Packets : Awaited(p)' = Awaited(p)
        BY <1>1 DEF Awaited
      <3>4. Sent' = Sent /\ Announced' = Announced /\ Demanded' = Demanded
        BY <1>1 DEF Sent, Announced, Demanded
      <3>5. LinesCame' = LinesCame
        BY <1>1 DEF LinesCame, CameOf, Awaited
      <3>6. \A p \in Packets : LineInv(p)'
        BY <1>1, <3>1, <3>2, <3>3 DEF LinesInv, LineInv
      <3> QED BY <1>1, <3>1, <3>4, <3>5, <3>6 DEF LinesInv
    <2> QED BY <2>2, <2>3, <2>4, <2>5, <2>6, <2>7, <2>8, <2>9, <2>10 DEF RunInv
  <1> QED BY <1>2, <1>3, <1>4, <1>5, <1>6 DEF IndInv

LEMMA NothingWaits ==
    ASSUME IndInv
    PROVE  NothingLeftWaiting
  <1> SUFFICES ASSUME Between
               PROVE  /\ policy.reorder_before_push => \A f \in Flows : ~Issuable(f)
                      /\ cpu_scheduled \/ Consumable = {}
                      /\ \A p \in Packets : stage[p] = "complete" =>
                             ~policy.cpu_reorder /\ SerialOf(p) > next_publish[FlowOf(p)]
    BY DEF NothingLeftWaiting
  <1>1. Running /\ calls = <<>> /\ TypeInv /\ WaitingInv /\ FlowsInv
    BY DEF Between, IndInv, RunInv
  <1>2. DOMAIN calls = {}
    BY <1>1, NothingApart
  <1>3. policy.reorder_before_push => \A f \in Flows : ~Issuable(f)
    BY <1>1, <1>2 DEF WaitingInv
  <1>4. cpu_scheduled \/ Consumable = {}
    BY <1>1, <1>2 DEF WaitingInv, Calls
  <1>5. ASSUME NEW p \in Packets, stage[p] = "complete"
        PROVE  ~policy.cpu_reorder /\ SerialOf(p) > next_publish[FlowOf(p)]
    <2>1. InFlow(p)
      BY <1>1 DEF FlowsInv
    <2>2. PICK f \in Flows, s \in Nat, n \in Nat :
          f = FlowOf(p) /\ s = SerialOf(p) /\ n = next_publish[f]
      BY <1>1, PacketParts DEF TypeInv
    <2>3. ~policy.cpu_reorder /\ ~(s < n) /\ s # n
      BY <1>5, <2>1, <2>2 DEF InFlow
    <2> QED BY <2>2, <2>3
  <1> QED BY <1>3, <1>4, <1>5

LEMMA CreditCovers ==
    ASSUME IndInv
    PROVE  CreditCoversPushed
  <1> SUFFICES ASSUME Running PROVE CreditCoversPushed
    BY DEF CreditCoversPushed
  <1>1. CreditInv
    BY DEF IndInv, RunInv
  <1> QED BY <1>1 DEF CreditInv, CreditCoversPushed
--------------------------------------------------------------------------------
(* Whatever arrives, and under every policy and configuration: the         *)
(* invariant that the rest follows from, which says of every packet what    *)
(* the queue holds for it, where it stands in its flow and what the books   *)
(* say of it, is that of every reachable state of the run (timing.py:718). *)
THEOREM TimingInvariance == Spec => []IndInv
  <1>1. Init => IndInv
    BY InitInv
  <1>2. IndInv /\ [Next]_vars => IndInv'
    BY NextInv, StutterInv
  <1> QED BY <1>1, <1>2, PTL DEF Spec

(* None of the simulation's own checks ever fails, for any number of flows *)
(* and packets, any arrivals and any lengths: no packet is issued or        *)
(* published twice or out of turn, the CPU finds each packet whole and in   *)
(* order, and at the end all is delivered in order, nothing is left over   *)
(* and the times of each packet are in order (timing.py:413, 574, 629, 639, *)
(* 662, 751-758, 786-806).                                                 *)
THEOREM ChecksNeverFail == Spec => []NeverRaises
  <1>1. IndInv => NeverRaises
    BY DEF IndInv
  <1> QED BY <1>1, TimingInvariance, PTL

(* When a handler is done, everything that may go on is going on: no packet *)
(* that has credit and whose turn it is waits at the NIC, none that could   *)
(* be consumed waits for an idle CPU, and none whose turn it is waits to be *)
(* published (timing.py:530, 560, 578, 714).                               *)
THEOREM NothingForgotten == Spec => []NothingLeftWaiting
  <1>1. IndInv => NothingLeftWaiting
    BY NothingWaits
  <1> QED BY <1>1, TimingInvariance, PTL

(* Credit and the NIC's buffer are at all times the lines of the packets    *)
(* that hold them, and what is pushed ahead of the CPU stays within the     *)
(* flow's and the shared limit (timing.py:418, 452, 470-475, 693).         *)
THEOREM CreditCoversWhatIsPushed == Spec => []CreditCoversPushed
  <1>1. IndInv => CreditCoversPushed
    BY CreditCovers
  <1> QED BY <1>1, TimingInvariance, PTL

(* The queue of events never runs dry before all is delivered, unless a     *)
(* packet alone is larger than the credit of its flow (timing.py:294-297,   *)
(* 723).                                                                   *)
THEOREM NeverDrains == Spec => []OnlyOversizedDrain
  <1>1. IndInv => OnlyOversizedDrain
    BY DEF IndInv
  <1> QED BY <1>1, TimingInvariance, PTL

(* Changes of the gate arrive in the order in which they were sent, and     *)
(* each differs from the one before: the gate ends where it was last asked  *)
(* to be (timing.py:611-615).                                              *)
THEOREM GateFollowsRequests == Spec => []GateChangesAlternate
  <1>1. IndInv => GateChangesAlternate
    BY DEF IndInv, GateInv
  <1> QED BY <1>1, TimingInvariance, PTL

================================================================================
