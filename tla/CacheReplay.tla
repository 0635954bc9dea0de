------------------------------ MODULE CacheReplay ------------------------------
(***************************************************************************)
(* The cache experiment of cxl_nic/cache_replay.py: a trace that the       *)
(* checker has accepted is replayed through the finite cache.  Each event  *)
(* becomes a few cache accesses; some events after a packet is published   *)
(* its payload may be withdrawn from the cache.                            *)
(*                                                                         *)
(* The trace is any that Checker accepts.  The replay's tables `active`    *)
(* and `packets` are written by the same events as the checker's, so       *)
(* active_slots and packets stand for them.  The accesses of one event are *)
(* steps of their own (todo); the next event is read when they are done.   *)
(* Counts and logs are left out but for the balance of pushed and demanded *)
(* lines, which run() asserts.                                             *)
(***************************************************************************)
EXTENDS Cache, Sequences

CONSTANTS
    Flows, InitialSerial, Window, MaxPacketBytes, CreditLimit, GlobalLimit,
    Payloads, Length, Fields, NoToken, NotHalted, \* those of the checker
    Serials, MaxGeneration,  \* what the tokens of the trace name
    Admission,               \* the ways a pushed line may take
    BackgroundBase,          \* a line number above all slots
    BackgroundLines,         \* config.background_lines
    Never,                   \* None for config.withdraw_after_events
    Delays                   \* its values

VARIABLES
    bases, next_issue, next_ready, next_consume, credit, global_credit,
    released_serials, pending_ready, generations, active_slots, packets, halted,
    withdraw_after,   \* config.withdraw_after_events of this run
    deferred,         \* withdrawals to come, with the events left until then
    todo,             \* accesses of the present event not made yet
    background_index,
    undemanded,       \* payload lines pushed and not read by the CPU
    running

Check == INSTANCE Checker

checker == <<bases, next_issue, next_ready, next_consume, credit, global_credit,
             released_serials, pending_ready, generations, active_slots, packets, halted>>
llc == <<lines, older, backing, done>>
replay == <<withdraw_after, deferred, todo, background_index, undemanded, running>>
replay_vars == <<checker, llc, replay>>

Tokens == [flow : Flows, serial : Serials, slot : Check!Slots, generation : 1..MaxGeneration]

(* The packets a trace may hold.                                           *)
Packable == {p \in Payloads : Length[p] \in 1..MaxPacketBytes}
--------------------------------------------------------------------------------
(* Where the parts of a packet are: a slot is a stretch of 64 lines.       *)

SlotBase == 1024
SlotStride == 64
PayloadOffset == 4

SlotLine(t) == SlotBase + (t.flow * Window + t.slot) * SlotStride

DescriptorLine(t) == SlotLine(t)
ReadyLine(t) == SlotLine(t) + 1
ReleaseLine(t) == SlotLine(t) + 2
PayloadLine(t, i) == SlotLine(t) + PayloadOffset + i

LineCount(size) == (size + Check!LineBytes - 1) \div Check!LineBytes

SlotLines ==
    UNION {{DescriptorLine(t), ReadyLine(t), ReleaseLine(t)}
           \cup {PayloadLine(t, i) : i \in 0..(LineCount(MaxPacketBytes) - 1)} :
           t \in [flow : Flows, slot : Check!Slots]}

MaxBackground == Cardinality(Flows) * Cardinality(Serials) * BackgroundLines

BackgroundAddresses == BackgroundBase..(BackgroundBase + MaxBackground - 1)

ReplayAddresses == SlotLines \cup BackgroundAddresses

(* A cell holds 8 bytes, named by what they are part of.                   *)
Zero == <<"zero">>

ZeroLine == [c \in Cells |-> Zero]

Word(name, value) == <<name, value>>

Words ==
    {Zero} \cup {Word(name, g) : name \in {"ready", "release"}, g \in 1..MaxGeneration}
    \cup {Word(k, Check!DescriptorOf(t, p)[k]) : k \in Fields, t \in Tokens, p \in Packable}
    \cup {<<"payload", p, i>> : p \in Packable, i \in 0..(LineCount(MaxPacketBytes) - 1)}
--------------------------------------------------------------------------------
(* The bytes the parts of a packet put into their lines.                   *)

FIELDS == <<"flow", "serial", "slot", "generation", "length">>

(* A packet fits its slot, background lines are above all slots            *)
(* (cache_replay.py:78-81), a line has a cell for each field; Addresses    *)
(* and Values of the cache are what the replay defines and stores.         *)
ASSUME ReplayAssumption ==
    /\ IsFiniteSet(Flows) /\ Flows \subseteq Nat
    /\ IsFiniteSet(Serials) /\ Serials \subseteq Nat
    /\ Window \in Nat \ {0} /\ MaxPacketBytes \in Nat /\ MaxGeneration \in Nat
    /\ LineCount(MaxPacketBytes) <= SlotStride - PayloadOffset
    /\ InitialSerial \in [Flows -> Nat]
    /\ Fields \subseteq {FIELDS[n] : n \in DOMAIN FIELDS} /\ LineCells >= Len(FIELDS)
    /\ BackgroundBase \in Nat /\ BackgroundLines \in Nat
    /\ \A line \in SlotLines : line < BackgroundBase
    /\ Addresses = ReplayAddresses /\ Words \subseteq Values
    /\ NoToken \notin Tokens
    /\ Never \notin Nat /\ Delays \subseteq Nat \cup {Never}

(* Mutant: every field at the front of the line.                           *)
FrontCell(k) == 0

FieldCell(k) == (CHOOSE n \in 1..Len(FIELDS) : FIELDS[n] = k) - 1

FieldPart(k, v) == [c \in {FieldCell(k)} |-> Word(k, v)]

DescriptorPart(descriptor) ==
    [c \in {FieldCell(k) : k \in Fields} |->
        LET k == CHOOSE d \in Fields : FieldCell(d) = c IN Word(k, descriptor[k])]

ReadyPart(t) == [c \in {0} |-> Word("ready", t.generation)]

ReleasePart(t) == [c \in {0} |-> Word("release", t.generation)]

(* The payload in one of its lines: the first cell of a last line that is  *)
(* not full.                                                               *)
PayloadPart(p, i) ==
    [c \in (IF (i + 1) * Check!LineBytes <= Length[p] THEN Cells ELSE {0}) |->
        <<"payload", p, i>>]

(* What is pushed or withdrawn is the whole line, ljust with zeros.        *)
PaddedPart(p, i) ==
    [c \in Cells |-> IF c \in DOMAIN PayloadPart(p, i) THEN PayloadPart(p, i)[c] ELSE Zero]

Access(call, line, bytes) == [call |-> call, line |-> line, bytes |-> bytes]
--------------------------------------------------------------------------------
(* service_deferred                                                        *)

(* Mutant: withdraws from whoever has the slot.                            *)
SlotInUse(t) == active_slots[t.flow][t.slot] # NoToken

StillOwned(t) == active_slots[t.flow][t.slot] = t

(* One store for each line of the payload, in order.                       *)
Withdrawal(t) ==
    LET p == packets[t].payload
    IN  [n \in 1..LineCount(Length[p]) |->
            Access("bypass_write", PayloadLine(active_slots[t.flow][t.slot], n - 1),
                   PaddedPart(p, n - 1))]

Ticked == [n \in DOMAIN deferred |-> [deferred[n] EXCEPT !.left = @ - 1]]

(* An event publishes one packet at most and all withdrawals wait equally  *)
(* long, so no two are due at one event.                                   *)
OneDue == deferred # <<>> /\ Ticked[1].left <= 0

Later == IF OneDue THEN Tail(Ticked) ELSE Ticked

(* What the withdrawal due at this event does, one that outlived its       *)
(* packet nothing.                                                         *)
Served ==
    IF OneDue /\ StillOwned(Ticked[1].token) THEN Withdrawal(Ticked[1].token) ELSE <<>>
--------------------------------------------------------------------------------
(* The accesses of the events.                                             *)

IsPayload(component) == component[1] = "payload"

VisibleAccess(t, component, content) ==
    IF component = Check!ReadyComponent
    THEN Access("io_write", ReadyLine(t), ReadyPart(t))
    ELSE IF IsPayload(component)
    THEN Access("io_write", PayloadLine(t, component[2]),
                PaddedPart(packets[t].payload, component[2]))
    ELSE Access("io_write", DescriptorLine(t), FieldPart(component[2], content))

(* Each background line is defined and read.                               *)
BackgroundAccesses ==
    [n \in 1..(2 * BackgroundLines) |->
        LET line == BackgroundBase + background_index + (n - 1) \div 2
        IN  IF n % 2 = 1 THEN Access("define", line, ZeroLine) ELSE Access("read", line, <<>>)]

LinesDemanded(p) == LineCount(Length[p])

(* A read names the bytes the replay compares with what it gets.           *)
Demands(t, descriptor) ==
    LET p == packets[t].payload
    IN  <<Access("read", ReadyLine(t), ReadyPart(t)),
          Access("read", DescriptorLine(t), DescriptorPart(descriptor))>>
        \o [n \in 1..LinesDemanded(p) |->
                Access("read", PayloadLine(t, n - 1), PayloadPart(p, n - 1))]

Idle == running /\ todo = <<>>

(* An event that the replay reads but ignores: receive changes the tables  *)
(* only, an issue has no effect on memory.                                 *)
ReadQuiet ==
    /\ Idle
    /\ \E t \in Tokens :
        \/ \E p \in Payloads : Check!Receive(t, p)
        \/ /\ t \in DOMAIN packets
           /\ \E component \in Check!RequiredData(packets[t].payload) \cup {Check!ReadyComponent} :
                Check!Issue(t, component, Check!ContentOf(t, packets[t].payload, component))
    /\ todo' = Served
    /\ deferred' = Later
    /\ UNCHANGED <<llc, withdraw_after, background_index, undemanded, running>>

(* A packet turned away is an event of the trace and nothing else: it only *)
(* brings the withdrawals closer.                                          *)
ReadReject ==
    /\ Idle
    /\ deferred # <<>>
    /\ todo' = Served
    /\ deferred' = Later
    /\ UNCHANGED <<checker, llc, withdraw_after, background_index, undemanded, running>>

(* visible(): a publication starts the clock of the withdrawal, or when    *)
(* that is zero is followed by it.                                         *)
ReadVisible(t, component) ==
    LET content == Check!ContentOf(t, packets[t].payload, component)
        publication == component = Check!ReadyComponent /\ withdraw_after # Never
    IN  /\ Idle
        /\ Check!Visible(t, component, content)
        /\ todo' = Served \o <<VisibleAccess(t, component, content)>>
                \o (IF publication /\ withdraw_after = 0 THEN Withdrawal(t) ELSE <<>>)
        /\ deferred' = Later \o
                (IF publication /\ withdraw_after # 0
                 THEN <<[left |-> withdraw_after, token |-> t]>> ELSE <<>>)
        /\ undemanded' = undemanded + (IF IsPayload(component) THEN 1 ELSE 0)
        /\ UNCHANGED <<llc, withdraw_after, background_index, running>>

ReadConsume(t) ==
    LET descriptor == Check!DescriptorOf(t, packets[t].payload)
    IN  /\ Idle
        /\ Check!Consume(t, descriptor, Check!BytesOf(packets[t].payload))
        /\ todo' = Served \o BackgroundAccesses \o Demands(t, descriptor)
        /\ deferred' = Later
        /\ background_index' = background_index + BackgroundLines
        /\ undemanded' = undemanded - LinesDemanded(packets[t].payload)
        /\ UNCHANGED <<llc, withdraw_after, running>>

ReadRelease(t) ==
    /\ Idle
    /\ Check!Release(t)
    /\ todo' = Served \o <<Access("cpu_write", ReleaseLine(t), ReleasePart(t))>>
    /\ deferred' = Later
    /\ UNCHANGED <<llc, withdraw_after, background_index, undemanded, running>>

(* After the last event the withdrawals left over are stale and dropped,   *)
(* and the cache is flushed.                                               *)
Finish ==
    /\ Idle
    /\ Check!Drained
    /\ running' = FALSE
    /\ deferred' = <<>>
    /\ Flush
    /\ UNCHANGED <<checker, withdraw_after, todo, background_index, undemanded>>

MakeAccess ==
    /\ todo # <<>>
    /\ LET access == Head(todo)
       IN  \/ access.call = "define" /\ Define(access.line, access.bytes)
           \/ access.call = "read" /\ Read(access.line)
           \/ access.call = "io_write" /\ IoWrite(access.line, access.bytes, Admission)
           \/ access.call = "cpu_write" /\ CpuWrite(access.line, access.bytes)
           \/ access.call = "bypass_write" /\ BypassWrite(access.line, access.bytes)
    /\ todo' = Tail(todo)
    /\ UNCHANGED <<checker, withdraw_after, deferred, background_index, undemanded, running>>

ReplayInit ==
    /\ Check!Init
    /\ lines = [i \in Indices |-> [w \in WayIds |-> NoLine]]
    /\ older = [i \in Indices |-> {}]
    /\ backing = [a \in Addresses |-> IF a \in SlotLines THEN ZeroLine ELSE NoData]
    /\ done = [call |-> "none"]
    /\ withdraw_after \in Delays
    /\ deferred = <<>> /\ todo = <<>>
    /\ background_index = 0
    /\ undemanded = 0
    /\ running = TRUE

ReplayNext ==
    \/ ReadQuiet
    \/ ReadReject
    \/ \E t \in DOMAIN packets :
        \/ \E component \in Check!RequiredData(packets[t].payload) \cup {Check!ReadyComponent} :
            ReadVisible(t, component)
        \/ ReadConsume(t)
        \/ ReadRelease(t)
    \/ MakeAccess
    \/ Finish

ReplaySpec == ReplayInit /\ [][ReplayNext]_replay_vars
--------------------------------------------------------------------------------
Holds(line, bytes) == \A c \in DOMAIN bytes : Newest(line)[c] = bytes[c]

(* The replay never fails: every read of a consumer returns the marker,    *)
(* the descriptor and the payload that were published, whatever was        *)
(* withdrawn, evicted by background or merged on the way; and at the end   *)
(* the CPU has read every pushed line once and no slot has an owner        *)
(* (the errors of cache_replay.py:173, 188, 209 and 215).                  *)
NeverFails ==
    /\ todo # <<>> =>
        LET access == Head(todo)
        IN  access.call = "read" => Holds(access.line, access.bytes)
    /\ Check!Drained =>
        undemanded = 0 /\ \A f \in Flows, k \in Check!Slots : active_slots[f][k] = NoToken

(* "The payload is immutable between publication and CPU release"          *)
(* (cache_replay.py:56): no withdrawal, for this packet or for an earlier  *)
(* owner of the slot, changes the bytes a second read would return.        *)
PublishedBytesHold ==
    \A f \in Flows, k \in Check!Slots :
        LET t == active_slots[f][k]
        IN  t # NoToken /\ packets[t].ready_visible =>
                \A i \in 0..(LineCount(Length[packets[t].payload]) - 1) :
                    Holds(PayloadLine(t, i), PayloadPart(packets[t].payload, i))
================================================================================
