----------------------------- MODULE CheckedTraces -----------------------------
(***************************************************************************)
(* Every trace the checker accepts, whoever wrote it: any event whatever   *)
(* is offered to it, and the ones it lets pass make a run.  A history      *)
(* variable keeps what the consume events of the run reported.             *)
(***************************************************************************)
EXTENDS Checker

CONSTANTS
    Serials,         \* serials the events name
    MaxGeneration,   \* generations the events name
    FieldValues,     \* values of descriptor fields the events name
    NoPayload

Tokens == [flow : Flows, serial : Serials, slot : Slots, generation : 1..MaxGeneration]

ASSUME TracesAssumption ==
    /\ Serials \subseteq Nat
    /\ NoToken \notin Tokens
    /\ NotHalted \notin Serials

LineCount == (MaxPacketBytes + LineBytes - 1) \div LineBytes

PayloadLines == Payloads \X (0..(LineCount - 1))

(* The writes an event may name, right or wrong.                           *)
NamedWrites ==
    {<<<<"payload", i>>, line>> : i \in 0..LineCount, line \in PayloadLines}
    \cup {<<<<"descriptor", k>>, v>> : k \in Fields, v \in FieldValues}
    \cup {<<ReadyComponent, NoContent>>}

VARIABLE reported  \* reported[f][s]: the payload the CPU's bytes were those of

tvars == <<vars, reported>>

TInit == Init /\ reported = [f \in Flows |-> [s \in Serials |-> NoPayload]]

Reads(t, d, p) ==
    /\ Consume(t, d, BytesOf(p))
    /\ reported' = [reported EXCEPT ![t.flow][t.serial] = p]

Frees(t) ==
    /\ Release(t)
    /\ reported' = [reported EXCEPT ![t.flow][t.serial] = NoPayload]

TNext ==
    \/ \E t \in Tokens :
        \/ \E p \in Payloads : Receive(t, p) /\ UNCHANGED reported
        \/ t \in DOMAIN packets /\ \E w \in NamedWrites :
            (Issue(t, w[1], w[2]) \/ Visible(t, w[1], w[2])) /\ UNCHANGED reported
        \/ \E d \in [Fields -> FieldValues], p \in Payloads : Reads(t, d, p)
        \/ Frees(t)
    \/ \E f \in Flows, s \in Serials : Halt(f, s) /\ UNCHANGED reported

TSpec == TInit /\ [][TNext]_tvars
--------------------------------------------------------------------------------
(* The packet of a serial that is received and not released.               *)
Live(f, s) ==
    {t \in DOMAIN packets : t.flow = f /\ t.serial = s /\ ~packets[t].released}

StatusOf(f, s) ==
    IF \E t \in Live(f, s) : packets[t].consumed THEN "held"
    ELSE IF Live(f, s) # {} THEN "accepted"
    ELSE IF s < bases[f] \/ s \in released_serials[f] THEN "settled"
    ELSE "new"

ContentAt(f, s) ==
    IF Live(f, s) = {} THEN NoPayload
    ELSE packets[CHOOSE t \in Live(f, s) : TRUE].payload

Ordered == INSTANCE OrderedDelivery WITH
    status   <- [f \in Flows |-> [s \in Serials |-> StatusOf(f, s)]],
    content  <- [f \in Flows |-> [s \in Serials |-> ContentAt(f, s)]],
    observed <- reported,
    halted   <- [f \in Flows |-> halted[f] # NotHalted]

(* A trace that passes is a trace of ordered delivery: the checker lets no *)
(* event through that delivers a packet twice, out of order or with other  *)
(* bytes than those received (checker.py:97-103).                          *)
AcceptedTracesAreOrdered == Ordered!Spec
================================================================================
