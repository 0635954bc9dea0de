----------------------------- MODULE Integration -----------------------------
(***************************************************************************)
(* The integration test of cxl_nic/integration.py: a driver owns a Protocol *)
(* and carries out its writes on a memory; a guest CPU                     *)
(* (guest/integration.c) polls that memory, reads the packets, reports     *)
(* them over a serial line and gives the slots back through the memory.    *)
(* Two of the three modes plant a fault that the guest must notice.        *)
(*                                                                         *)
(* Driver and guest are interleaved access by access.  Caches, transport   *)
(* and placement of lines are left out: each access of the guest sees the  *)
(* last write, which is what Cache is proved to provide.                   *)
(***************************************************************************)
EXTENDS Protocol, Sequences, FiniteSetsExt

CONSTANTS
    Count,      \* packets of each flow
    PayloadOf,  \* payloads[flow][serial], which is also the guest's pattern
    Modes,      \* which modes
    PostPushes, \* which values of ncp_post_push = "before-ready"
    Corrupt,    \* a line with a flipped bit
    NoWrite

(* What run_case is given and builds: two flows at least, the packets of   *)
(* each in the network, and a planted line that differs from any packet's, *)
(* as does what memory holds before the first (integration.py:38-41,       *)
(* 246-254, 330-332).                                                      *)
ASSUME IntegrationAssumption ==
    /\ NumFlows >= 2 /\ Count \in Nat \ {0}
    /\ \A f \in Flows : InitialSerial[f]..(InitialSerial[f] + Count - 1) \subseteq Serials
    /\ \A f \in Flows : \A s \in InitialSerial[f]..(InitialSerial[f] + Count - 1) :
        PayloadOf[f][s] \in Payloads
    /\ Modes \subseteq {"adversarial", "corrupt-payload", "early-ready"}
    /\ PostPushes \subseteq BOOLEAN
    /\ {Corrupt, Stale} \cap (Payloads \X HostLines) = {}
    /\ NoWrite \notin Writes

VARIABLES
    mode, post_push,      \* arguments of this run
    memory,               \* what the guest's loads and stores meet
    status,               \* the guest's status word, in memory too
    serial_line,          \* lines the guest printed, not read yet
    turn,                 \* where the driver's loop is
    input,                \* lines of the present poll
    unread,               \* slots whose release word is still to be read
    writing,              \* the write made in memory and not completed
    remaining, bases, freed, consumed, holding, withdrawn, \* the driver's books
    guest_ready, guest_done, guest_failure, fault_injected, held_progress,
    outcome,              \* result["status"]
    at, flow_at,          \* where the guest is
    copy,                 \* what it has read of a packet
    guest_consumed        \* consumed[] of the guest

books == <<remaining, bases, freed, consumed, holding, withdrawn>>
flags == <<guest_ready, guest_done, guest_failure, fault_injected, held_progress>>
shared == <<memory, status, serial_line>>
guest == <<at, flow_at, copy, guest_consumed>>
driver == <<turn, input, unread, writing, books, flags, outcome>>
ivars == <<vars, mode, post_push, shared, driver, guest>>

Sent(f) == InitialSerial[f]..(InitialSerial[f] + Count - 1)

EmptyCopy == [field |-> <<>>, line |-> <<>>]

(* The limits run_case accepts: none (0), or two packets of maximum size   *)
(* when one is held.                                                       *)
Bearable(m) ==
    m = "adversarial" /\ GlobalCredit # 0 => 2 * aligned_size(MaxPacketBytes) <= GlobalCredit

IInit ==
    /\ Init
    /\ mode \in Modes /\ Bearable(mode)
    /\ post_push \in PostPushes
    /\ post_push => mode = "adversarial"
    /\ memory = [line |-> host_data,
                 field |-> [f \in Flows |-> [k \in Slots |-> [d \in Fields |-> 0]]],
                 ready |-> [f \in Flows |-> [k \in Slots |-> 0]],
                 release |-> [f \in Flows |-> [k \in Slots |-> 0]]]
    /\ status = 0
    /\ serial_line = <<>>
    /\ turn = "poll" /\ input = <<>> /\ unread = <<>> /\ writing = NoWrite
    /\ remaining = [f \in Flows |-> Sent(f)]
    /\ bases = InitialSerial
    /\ freed = [f \in Flows |-> {}]
    /\ consumed = [f \in Flows |-> 0]
    /\ holding = <<>>
    /\ withdrawn = {}
    /\ guest_ready = FALSE /\ guest_done = FALSE /\ guest_failure = <<>>
    /\ fault_injected = FALSE /\ held_progress = FALSE
    /\ outcome = "running"
    /\ at = "start" /\ flow_at = 0 /\ copy = EmptyCopy
    /\ guest_consumed = [f \in Flows |-> 0]

Running == outcome = "running"

--------------------------------------------------------------------------------
(* The guest.                                                              *)

Goto(place) == at' = place

SerialAt == InitialSerial[flow_at] + guest_consumed[flow_at]

SlotAt == SlotOf(SerialAt)

GenerationAt == guest_consumed[flow_at] \div Window + 1

NextFlow == (flow_at + 1) % NumFlows

UnchangedByGuest == UNCHANGED <<vars, mode, post_push, driver>>

GuestStart ==
    /\ at = "start"
    /\ status' = 1
    /\ Goto("announce")
    /\ UNCHANGED <<memory, serial_line, flow_at, copy, guest_consumed>>

Says(line) == serial_line' = Append(serial_line, line)

GuestAnnounce ==
    /\ at = "announce"
    /\ Says(<<"READY">>)
    /\ Goto("poll")
    /\ UNCHANGED <<memory, status, flow_at, copy, guest_consumed>>

AllConsumed == \A f \in Flows : guest_consumed[f] = Count

(* One load of a ready word; a flow that is finished is passed over.       *)
GuestPoll ==
    /\ at = "poll"
    /\ ~(flow_at = 0 /\ AllConsumed)
    /\ IF /\ guest_consumed[flow_at] # Count
          /\ memory.ready[flow_at][SlotAt] = GenerationAt
       THEN Goto("descriptor") /\ UNCHANGED flow_at
       ELSE flow_at' = NextFlow /\ UNCHANGED at
    /\ UNCHANGED <<shared, copy, guest_consumed>>

GuestLoadField ==
    /\ at = "descriptor"
    /\ \E d \in Fields \ DOMAIN copy.field :
        copy' = [copy EXCEPT !.field = [k \in DOMAIN @ \cup {d} |->
                    IF k = d THEN memory.field[flow_at][SlotAt][d] ELSE @[k]]]
    /\ UNCHANGED <<shared, at, flow_at, guest_consumed>>

DescriptorAt == Token(flow_at, SerialAt, GenerationAt)

WrongField(d) ==
    IF d = "length" THEN copy.field[d] \notin 1..MaxPacketBytes
    ELSE copy.field[d] # DescriptorAt[d]

GuestCheckDescriptor ==
    /\ at = "descriptor"
    /\ DOMAIN copy.field = Fields
    /\ IF \E d \in Fields : WrongField(d)
       THEN /\ Says(<<"FAIL", 1, flow_at, SerialAt, 0>>)
            /\ Goto("fail descriptor")
       ELSE Goto("payload") /\ UNCHANGED serial_line
    /\ UNCHANGED <<memory, status, flow_at, copy, guest_consumed>>

LinesAt == LineNumbers(copy.field["length"])

(* Loads go through the payload in order.                                  *)
GuestLoadLine ==
    /\ at = "payload"
    /\ \E i \in LinesAt \ DOMAIN copy.line :
        /\ \A j \in LinesAt \ DOMAIN copy.line : i <= j
        /\ copy' = [copy EXCEPT !.line = [k \in DOMAIN @ \cup {i} |->
                    IF k = i THEN memory.line[flow_at][SlotAt][i] ELSE @[k]]]
    /\ UNCHANGED <<shared, at, flow_at, guest_consumed>>

WrongLines == {i \in LinesAt : copy.line[i] # <<PayloadOf[flow_at][SerialAt], i>>}

(* The first byte that differs from the pattern is in its first wrong line. *)
GuestCheckPayload ==
    /\ at = "payload"
    /\ DOMAIN copy.line = LinesAt
    /\ IF WrongLines # {}
       THEN /\ Says(<<"FAIL", 2, flow_at, SerialAt, Min(WrongLines)>>)
            /\ Goto("fail payload")
       ELSE /\ Says(<<"PACKET", flow_at, copy>>)
            /\ Goto("release")
    /\ UNCHANGED <<memory, status, flow_at, copy, guest_consumed>>

GuestRelease ==
    /\ at = "release"
    /\ memory' = [memory EXCEPT !.release[flow_at][SlotAt] = GenerationAt]
    /\ guest_consumed' = [guest_consumed EXCEPT ![flow_at] = @ + 1]
    /\ flow_at' = NextFlow
    /\ copy' = EmptyCopy
    /\ Goto("poll")
    /\ UNCHANGED <<status, serial_line>>

GuestDone ==
    /\ at = "poll" /\ flow_at = 0 /\ AllConsumed
    /\ Says(<<"DONE", NumFlows * Count>>)
    /\ Goto("done")
    /\ UNCHANGED <<memory, status, flow_at, copy, guest_consumed>>

Failed == 256

FinalStatus ==
    CASE at = "done" -> 2
      [] at = "fail descriptor" -> Failed + 1
      [] at = "fail payload" -> Failed + 2

GuestPark ==
    /\ at \in {"done", "fail descriptor", "fail payload"}
    /\ status' = FinalStatus
    /\ Goto("parked")
    /\ UNCHANGED <<memory, serial_line, flow_at, copy, guest_consumed>>

Guest ==
    /\ Running
    /\ UnchangedByGuest
    /\ \/ GuestStart \/ GuestAnnounce \/ GuestPoll
       \/ GuestLoadField \/ GuestCheckDescriptor
       \/ GuestLoadLine \/ GuestCheckPayload
       \/ GuestRelease \/ GuestDone \/ GuestPark
--------------------------------------------------------------------------------
(* The driver: poll.                                                       *)

InTurn(place) == Running /\ turn = place

UnchangedByDriver == UNCHANGED <<mode, post_push, guest>>

DriverPoll ==
    /\ InTurn("poll")
    /\ input' = serial_line
    /\ serial_line' = <<>>
    /\ turn' = "lines"
    /\ UNCHANGED <<vars, memory, status, unread, writing, books, flags, outcome>>

NextLine == Head(input)

ReadLine(kind) == InTurn("lines") /\ input # <<>> /\ NextLine[1] = kind /\ input' = Tail(input)

DriverReady ==
    /\ ReadLine("READY")
    /\ IF status = 1 THEN guest_ready' = TRUE /\ UNCHANGED outcome
       ELSE outcome' = "raised" /\ UNCHANGED guest_ready
    /\ UNCHANGED <<vars, shared, turn, unread, writing, books, guest_done,
                   guest_failure, fault_injected, held_progress>>

(* observe_consumption hands over the packet at next_consume with the      *)
(* contents that the guest reports.                                        *)
ObserveConsumption(f, delivery) ==
    LET s == next_consume[f]
    IN  /\ MarkerSeen(f, s)
        /\ phase[f][s] = "READY"
        /\ phase' = [phase EXCEPT ![f][s] = "CPU_OWNED"]
        /\ next_consume' = [next_consume EXCEPT ![f] = s + 1]
        /\ held' = [held EXCEPT ![f][s] = delivery]
        /\ UNCHANGED <<base, next_issue, next_publish, released, generations,
                       budgets, halted, payload, generation, data_writes, pending,
                       host, loop>>

(* What the driver checks of a PACKET line, observe_consumption included.  *)
Expected(f, delivery) ==
    LET s == next_consume[f]
    IN  /\ MarkerSeen(f, s)
        /\ phase[f][s] = "READY"
        /\ delivery = Image(TokenOf(f, s), PayloadOf[f][s])

Reported == [descriptor |-> NextLine[3].field, lines |-> NextLine[3].line]

DriverPacket ==
    /\ ReadLine("PACKET")
    /\ LET f == NextLine[2]
           s == next_consume[f]
       IN  IF Expected(f, Reported)
           THEN /\ ObserveConsumption(f, Reported)
                /\ holding' = Append(holding, TokenOf(f, s))
                /\ consumed' = [consumed EXCEPT ![f] = @ + 1]
                /\ held_progress' = (held_progress \/ (f = 1 /\ consumed[0] = 0))
                /\ UNCHANGED outcome
           ELSE /\ outcome' = "raised"
                /\ UNCHANGED <<vars, holding, consumed, held_progress>>
    /\ UNCHANGED <<shared, turn, unread, writing, remaining, bases, freed, withdrawn,
                   guest_ready, guest_done, guest_failure, fault_injected>>

DriverDone ==
    /\ ReadLine("DONE")
    /\ IF NextLine[2] = NumFlows * Count THEN guest_done' = TRUE /\ UNCHANGED outcome
       ELSE outcome' = "raised" /\ UNCHANGED guest_done
    /\ UNCHANGED <<vars, shared, turn, unread, writing, books, guest_ready,
                   guest_failure, fault_injected, held_progress>>

DriverFail ==
    /\ ReadLine("FAIL")
    /\ guest_failure' = NextLine
    /\ UNCHANGED <<vars, shared, turn, unread, writing, books, guest_ready, guest_done,
                   fault_injected, held_progress, outcome>>

(* The packet that a fault or a hold is about.                             *)
FirstSerial == InitialSerial[0]

LastLine == Max(LineNumbers(Length[PayloadOf[0][FirstSerial]]))

InjectedLine == IF mode = "corrupt-payload" THEN 0 ELSE LastLine

InjectedFailure == <<"FAIL", 2, 0, FirstSerial, InjectedLine>>

(* After the lines: a failure is the one that was planted, or an error.    *)
(* The status word may come after the line, and is awaited.                *)
DriverJudge ==
    /\ InTurn("lines") /\ input = <<>>
    /\ guest_failure # <<>>
    /\ IF mode = "adversarial" \/ ~fault_injected \/ guest_failure # InjectedFailure
       THEN outcome' = "raised" /\ UNCHANGED turn
       ELSE IF status < Failed
       THEN turn' = "poll" /\ UNCHANGED outcome
       ELSE /\ outcome' = IF status = Failed + 2 THEN "expected_rejection" ELSE "raised"
            /\ UNCHANGED turn
    /\ UNCHANGED <<vars, shared, input, unread, writing, books, flags>>

DriverOn ==
    /\ InTurn("lines") /\ input = <<>>
    /\ guest_failure = <<>>
    /\ IF guest_ready THEN turn' = "release" /\ unread' = holding
       ELSE turn' = "poll" /\ UNCHANGED unread
    /\ UNCHANGED <<vars, shared, input, writing, books, flags, outcome>>
--------------------------------------------------------------------------------
(* The driver: releases, arrivals, pump.                                   *)

(* bases moves as the class's base does, by the driver's own count.        *)
Advanced(f, back) ==
    Min({b \in bases[f]..(bases[f] + Window) : b \notin back})

(* Mutant: one generation too early.                                       *)
GivenBackEarly(t) == memory.release[t.flow][t.slot] >= t.generation - 1

GivenBack(t) == memory.release[t.flow][t.slot] = t.generation

(* del held[token]; the others keep their order.                           *)
Without(tokens, t) ==
    LET n == CHOOSE i \in DOMAIN tokens : tokens[i] = t
    IN  SubSeq(tokens, 1, n - 1) \o SubSeq(tokens, n + 1, Len(tokens))

(* What the class asks of a release.                                       *)
Releasable(f, s) == phase[f][s] = "CPU_OWNED" /\ ~WritesInFlight(f, s)

(* The release word of one slot is read; the guest gave it back if it      *)
(* holds the generation of the packet.                                     *)
DriverRelease ==
    /\ InTurn("release") /\ unread # <<>>
    /\ LET t == Head(unread)
           f == t.flow
           back == freed[f] \cup {t.serial}
           b == Advanced(f, back)
       IN  IF ~GivenBack(t)
           THEN UNCHANGED <<vars, holding, freed, bases, outcome>>
           ELSE IF Releasable(f, t.serial)
           THEN /\ Release(f, t.serial)
                /\ holding' = Without(holding, t)
                /\ bases' = [bases EXCEPT ![f] = b]
                /\ freed' = [freed EXCEPT ![f] = back \ (bases[f]..(b - 1))]
                /\ UNCHANGED outcome
           ELSE outcome' = "raised" /\ UNCHANGED <<vars, holding, freed, bases>>
    /\ unread' = Tail(unread)
    /\ UNCHANGED <<shared, turn, input, writing, remaining, consumed, withdrawn, flags>>

DriverReleased ==
    /\ InTurn("release") /\ unread = <<>>
    /\ turn' = "feed"
    /\ UNCHANGED <<vars, shared, input, unread, writing, books, flags, outcome>>

(* Mutant: the whole window and one more.                                  *)
WideCandidates(f) == {s \in remaining[f] : bases[f] <= s /\ s <= bases[f] + Window}

Candidates(f) == {s \in remaining[f] : bases[f] <= s /\ s < bases[f] + Window}

(* Each window comes in backwards, each packet twice; the class must take  *)
(* the first copy and turn the second away.                                *)
DriverFeed ==
    /\ InTurn("feed")
    /\ \E f \in Flows :
        /\ Candidates(f) # {}
        /\ \A g \in Flows : g < f => Candidates(g) = {}
        /\ LET s == Max(Candidates(f))
           IN  IF Admissible(f, s) /\ ~SlotOwned(f, s)
               THEN /\ \E e \in Epochs, q \in Sequences :
                        /\ WireSerial(e, q) = s
                        /\ Receive(f, e, q, PayloadOf[f][s])
                    /\ remaining' = [remaining EXCEPT ![f] = @ \ {s}]
                    /\ UNCHANGED outcome
               ELSE outcome' = "raised" /\ UNCHANGED <<vars, remaining>>
    /\ UNCHANGED <<shared, turn, input, unread, writing, bases, freed, consumed,
                   holding, withdrawn, flags>>

DriverFed ==
    /\ InTurn("feed")
    /\ \A f \in Flows : Candidates(f) = {}
    /\ turn' = "pump"
    /\ UNCHANGED <<vars, shared, input, unread, writing, books, flags, outcome>>

DriverPump ==
    /\ InTurn("pump")
    /\ \/ Pump /\ UNCHANGED turn
       \/ /\ ~pumping /\ ~\E f \in Flows : Issuable(f)
          /\ turn' = IF post_push THEN "withdraw" ELSE "write"
          /\ UNCHANGED vars
    /\ UNCHANGED <<shared, input, unread, writing, books, flags, outcome>>
--------------------------------------------------------------------------------
(* The driver: writes.                                                     *)

Unwithdrawn == {w.token : w \in {v \in pending : v.kind = "ready"}} \ withdrawn

(* Before the marker of a packet its payload is written once more, past    *)
(* the cache.  The lines are written in one step: all of them are already  *)
(* in memory, or the marker would not be pending.                          *)
DriverWithdraw ==
    /\ InTurn("withdraw")
    /\ IF Unwithdrawn = {}
       THEN turn' = "write" /\ UNCHANGED <<memory, withdrawn>>
       ELSE \E t \in Unwithdrawn :
            LET p == PayloadOf[t.flow][t.serial]
            IN  /\ memory' = [memory EXCEPT !.line[t.flow][t.slot] =
                        [i \in HostLines |-> IF i \in LineNumbers(Length[p]) THEN Lines(p)[i] ELSE @[i]]]
                /\ withdrawn' = withdrawn \cup {t}
                /\ UNCHANGED turn
    /\ UNCHANGED <<vars, status, serial_line, input, unread, writing, remaining, bases,
                   freed, consumed, holding, flags, outcome>>

IsTarget(w) == w.token.flow = 0 /\ w.token.serial = FirstSerial

IsLastLine(w) == IsTarget(w) /\ w.kind = "payload" /\ w.offset = LastLine

IsLengthField(w) == IsTarget(w) /\ w.kind = "descriptor" /\ w.field = "length"

(* Mutant: holds for a packet more than the window and the credit let by.  *)
HeldTooLong(w) == mode = "adversarial" /\ IsTarget(w) /\ consumed[1] < Count + 1

HeldBack(w) ==
    \/ mode = "early-ready" /\ IsLastLine(w)
    \/ mode = "adversarial" /\ IsLastLine(w) /\ consumed[1] < 1
    \/ mode = "adversarial" /\ IsLengthField(w) /\ consumed[1] < 2

Eligible == {w \in pending : ~HeldBack(w)}

IsCorrupted(w) ==
    /\ mode = "corrupt-payload" /\ ~fault_injected
    /\ IsTarget(w) /\ w.kind = "payload" /\ w.offset = 0

Stored(w) ==
    LET f == w.token.flow
        k == w.token.slot
    IN  IF w.kind = "payload"
        THEN [memory EXCEPT !.line[f][k][w.offset] = IF IsCorrupted(w) THEN Corrupt ELSE w.data]
        ELSE IF w.kind = "descriptor"
        THEN [memory EXCEPT !.field[f][k][w.field] = w.value]
        ELSE [memory EXCEPT !.ready[f][k] = w.token.generation]

(* A write takes effect in memory ...                                      *)
DriverWrite ==
    /\ InTurn("write")
    /\ \E w \in Eligible :
        /\ memory' = Stored(w)
        /\ fault_injected' = (fault_injected \/ IsCorrupted(w))
        /\ writing' = w
    /\ turn' = "complete"
    /\ UNCHANGED <<vars, status, serial_line, input, unread, books, guest_ready, guest_done,
                   guest_failure, held_progress, outcome>>

(* What the class asks of a completion.                                    *)
Completable(w) ==
    /\ ~Outlived(w)
    /\ IF w.kind = "ready" THEN ~EarlyPublication(w) ELSE ~LateData(w)

(* ... and only then the protocol hears of it.                             *)
DriverComplete ==
    /\ InTurn("complete")
    /\ IF Completable(writing) THEN Complete(writing) /\ UNCHANGED outcome
       ELSE outcome' = "raised" /\ UNCHANGED vars
    /\ writing' = NoWrite
    /\ turn' = "inject"
    /\ UNCHANGED <<shared, input, unread, books, flags>>

DriverIdle ==
    /\ InTurn("write")
    /\ Eligible = {}
    /\ turn' = "inject"
    /\ UNCHANGED <<vars, shared, input, unread, writing, books, flags, outcome>>

Waiting == {w \in pending : IsTarget(w)}

(* In mode early-ready the marker is set while one line is still missing.  *)
DriverInject ==
    /\ InTurn("inject")
    /\ IF /\ mode = "early-ready" /\ ~fault_injected
          /\ Waiting # {} /\ \A w \in Waiting : IsLastLine(w)
       THEN /\ memory' = [memory EXCEPT !.ready[0][SlotOf(FirstSerial)] =
                            generation[0][FirstSerial]]
            /\ fault_injected' = TRUE
       ELSE UNCHANGED <<memory, fault_injected>>
    /\ turn' = IF guest_done THEN "finish" ELSE "poll"
    /\ UNCHANGED <<vars, status, serial_line, input, unread, writing, books, guest_ready,
                   guest_done, guest_failure, held_progress, outcome>>

Finished ==
    /\ holding = <<>> /\ pending = {}
    /\ \A f \in Flows : remaining[f] = {}

DriverFinish ==
    /\ InTurn("finish")
    /\ IF mode # "adversarial"
       THEN outcome' = "raised" /\ UNCHANGED turn
       ELSE IF ~Finished \/ status # 2
       THEN turn' = "poll" /\ UNCHANGED outcome
       ELSE /\ outcome' = IF held_progress /\ consumed = [f \in Flows |-> Count]
                          THEN "passed" ELSE "raised"
            /\ UNCHANGED turn
    /\ UNCHANGED <<vars, shared, input, unread, writing, books, flags>>

Driver ==
    /\ UnchangedByDriver
    /\ \/ DriverPoll \/ DriverReady \/ DriverPacket \/ DriverDone \/ DriverFail
       \/ DriverJudge \/ DriverOn
       \/ DriverRelease \/ DriverReleased \/ DriverFeed \/ DriverFed \/ DriverPump
       \/ DriverWithdraw \/ DriverWrite \/ DriverComplete \/ DriverIdle
       \/ DriverInject \/ DriverFinish

Ended == ~Running /\ UNCHANGED ivars

INext == Guest \/ Driver \/ Ended

ISpec == IInit /\ [][INext]_ivars

(* Both processes keep running; the random choice of a write needs no      *)
(* fairness, since each one chosen is done with.                           *)
FairISpec == ISpec /\ WF_ivars(Guest) /\ WF_ivars(Driver)
--------------------------------------------------------------------------------
(* No check of the driver or of the class ever fails: what the guest       *)
(* reports is what came in, in the order of the class's own cursor, the    *)
(* class takes what the driver's own window offers, releases are legal, a  *)
(* guest that fails does so at the planted fault and in no other mode, and *)
(* a planted fault is never missed (the raises of integration.py:354-503). *)
NeverRaises == outcome # "raised"

(* While the guest reads a slot, from the match of the marker to the       *)
(* release, nobody changes it (the fences of integration.c:263 and :284    *)
(* bracket these loads), not even when an early marker let it in too soon. *)
GuestAlone ==
    [][(at \in {"descriptor", "payload", "release"} /\ at' # "poll") =>
        /\ memory'.line[flow_at][SlotAt] = memory.line[flow_at][SlotAt]
        /\ memory'.field[flow_at][SlotAt] = memory.field[flow_at][SlotAt]
        /\ memory'.ready[flow_at][SlotAt] = memory.ready[flow_at][SlotAt]]_ivars

(* Every run ends as its mode says: nothing waits for ever for a held      *)
(* write, for credit that a held packet keeps, or for the other process.   *)
Ends == <>(outcome = IF mode = "adversarial" THEN "passed" ELSE "expected_rejection")
================================================================================
