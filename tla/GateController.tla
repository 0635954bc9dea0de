---------------------------- MODULE GateController ----------------------------
(***************************************************************************)
(* The gate of cxl_nic/integration.py: it decides for each payload line    *)
(* whether it is pushed into the host's cache or written past it.  The     *)
(* occupancy of the cache is looked at only on some lines, and what was    *)
(* seen takes effect some lines later.  Time is counted in payload lines.  *)
(*                                                                         *)
(* below and pushes are histories: what each line found and where it went. *)
(* The code's counters are left out.                                       *)
(***************************************************************************)
EXTENDS Integers, Sequences, FiniteSetsExt

CONSTANTS
    SampleIntervals,  \* values of sample_every_lines
    ControlDelays,    \* values of control_delay_lines
    Instant,          \* None for sample_every_lines
    MaxLines          \* bound on the lines of a run

ASSUME GateAssumption ==
    /\ SampleIntervals \subseteq Nat \ {0}
    /\ ControlDelays \subseteq Nat
    /\ Instant \notin SampleIntervals
    /\ MaxLines \in Nat

VARIABLES
    sample_every_lines, control_delay_lines,  \* fixed by the constructor
    lines, enabled, requested,
    pending,   \* control writes on their way: [due, enabled]
    below,     \* below[n]: occupancy under the threshold when line n came
    pushes     \* pushes[n]: line n was pushed

settings == <<sample_every_lines, control_delay_lines>>
vars == <<settings, lines, enabled, requested, pending, below, pushes>>

TypeOK ==
    /\ sample_every_lines \in SampleIntervals \cup {Instant}
    /\ control_delay_lines \in ControlDelays
    /\ lines \in 0..MaxLines
    /\ enabled \in BOOLEAN /\ requested \in BOOLEAN
    /\ pending \in Seq([due : Nat, enabled : BOOLEAN])
    /\ below \in [0..(lines - 1) -> BOOLEAN]
    /\ pushes \in [0..(lines - 1) -> BOOLEAN]

Empty == [n \in 0..(-1) |-> FALSE]

Init ==
    /\ sample_every_lines \in SampleIntervals \cup {Instant}
    /\ control_delay_lines \in ControlDelays
    /\ sample_every_lines = Instant => control_delay_lines = 0
    /\ lines = 0
    /\ enabled = TRUE /\ requested = TRUE
    /\ pending = <<>>
    /\ below = Empty /\ pushes = Empty
--------------------------------------------------------------------------------
(* _apply_due: control writes are taken from the front up to the first one *)
(* that is not due.                                                        *)
Arrived(writes) ==
    Min({n \in 0..Len(writes) : n = Len(writes) \/ writes[n + 1].due > lines})

AfterDue(writes) == SubSeq(writes, Arrived(writes) + 1, Len(writes))

FlagAfterDue(writes) ==
    IF Arrived(writes) = 0 THEN enabled ELSE writes[Arrived(writes)].enabled

Sampling == sample_every_lines = Instant \/ lines % sample_every_lines = 0

(* Mutant: compares with the flag in force, not with the one asked for.    *)
DiffersFromFlag(desired) == desired # enabled

DiffersFromRequest(desired) == desired # requested

(* Mutant: the delay starts with the next line.                            *)
DueAfterThisLine == lines + 1 + control_delay_lines

DueLine == lines + control_delay_lines

(* The control writes after the line looked at the occupancy, if it did.   *)
Asks(desired) ==
    Sampling /\ sample_every_lines # Instant /\ DiffersFromRequest(desired)

Written(desired) ==
    IF Asks(desired) THEN Append(pending, [due |-> DueLine, enabled |-> desired])
    ELSE pending

Flag(desired) ==
    IF sample_every_lines = Instant THEN desired ELSE FlagAfterDue(Written(desired))

(* choose_push: applying what is due before and after the sample is        *)
(* applying it once after, since a sample reads only requested.            *)
ChoosePush(desired) ==
    /\ lines < MaxLines
    /\ requested' = IF Asks(desired) THEN desired ELSE requested
    /\ pending' = AfterDue(Written(desired))
    /\ enabled' = Flag(desired)
    /\ lines' = lines + 1
    /\ below' = [n \in 0..lines |-> IF n = lines THEN desired ELSE below[n]]
    /\ pushes' = [n \in 0..lines |-> IF n = lines THEN Flag(desired) ELSE pushes[n]]
    /\ UNCHANGED settings

Next == \E desired \in BOOLEAN : ChoosePush(desired)

Spec == Init /\ [][Next]_vars
--------------------------------------------------------------------------------
Interval == IF sample_every_lines = Instant THEN 1 ELSE sample_every_lines

(* The last line at or before n whose sample counts.                       *)
SampleBefore(n) == n - (n % Interval)

Wanted(n) ==
    IF n < control_delay_lines THEN TRUE ELSE below[SampleBefore(n - control_delay_lines)]

(* Each line goes where the newest sample said that is at least            *)
(* control_delay_lines old, and is pushed while there is none: a change of *)
(* mind on the way neither overtakes nor revives an earlier one            *)
(* (integration.py:152-175).  With a sample on each line and no delay this *)
(* is the immediate mode.                                                  *)
PushesFollowSamples == \A n \in 0..(lines - 1) : pushes[n] = Wanted(n)

(* Each control write changes the flag when it arrives, the last one makes *)
(* it what was requested, none is overdue, and their queue does not        *)
(* outgrow the delay (integration.py:165-168).                             *)
ControlWritesAlternate ==
    sample_every_lines # Instant =>
        LET flags == <<enabled>> \o [i \in 1..Len(pending) |-> pending[i].enabled]
        IN  /\ \A i \in 1..Len(pending) :
                flags[i] # flags[i + 1] /\ pending[i].due >= lines
            /\ flags[Len(flags)] = requested
            /\ Len(pending) * Interval < control_delay_lines + Interval
--------------------------------------------------------------------------------
(* The inductive invariant.  After line n was let through, the control     *)
(* writes on their way determine the flag for the next control_delay_lines *)
(* lines, and it is the one wanted.                                        *)

(* v is the flag at line n if flag holds now and these writes are to come. *)
InForce(writes, flag, n, v) ==
    /\ (\A i \in 1..Len(writes) : n < writes[i].due) => v = flag
    /\ \A i \in 1..Len(writes) :
        /\ writes[i].due <= n
        /\ \A j \in (i + 1)..Len(writes) : n < writes[j].due
        => v = writes[i].enabled

FlagsAsWanted ==
    \A n \in (lines - 1)..(lines - 1 + control_delay_lines) :
        InForce(pending, enabled, n, Wanted(n))

DuesIncrease ==
    /\ \A i, j \in 1..Len(pending) : i < j => pending[i].due < pending[j].due
    /\ \A i \in 1..Len(pending) :
        pending[i].due \in lines..(lines - 1 + control_delay_lines)

RequestIsNewestSample ==
    requested = IF lines = 0 THEN TRUE ELSE below[SampleBefore(lines - 1)]

ByMode ==
    IF sample_every_lines = Instant THEN control_delay_lines = 0 /\ pending = <<>>
    ELSE RequestIsNewestSample

IndInv == TypeOK /\ ByMode /\ DuesIncrease /\ FlagsAsWanted /\ PushesFollowSamples
================================================================================
