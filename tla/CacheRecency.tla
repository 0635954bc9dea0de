----------------------------- MODULE CacheRecency -----------------------------
(***************************************************************************)
(* Replacement in the cache watched from outside: a history variable keeps *)
(* the order in which the lines that came into the cache were last used.   *)
(***************************************************************************)
EXTENDS Cache

VARIABLE used  \* used: <<a, b>> when line a was last used before line b

rvars == <<vars, used>>

Entered == {p[1] : p \in used} \cup {p[2] : p \in used}

(* A line that is used is the last one used; <<a, a>> stands for "a came   *)
(* in and was not taken out since".                                        *)
Without(gone) == {p \in used : p[1] \notin gone /\ p[2] \notin gone}

UseOf(a, gone) ==
    used' = {p \in Without(gone) : p[1] # a}
            \cup {<<b, a>> : b \in (Entered \ gone) \cup {a}}

Withdraw(a) == used' = Without({a})

(* A store that may allocate in some ways only pushes out what is there,   *)
(* old or not: such a line does not count as replaced.                     *)
PushedOut(admission) ==
    IF admission = WayIds THEN {} ELSE {b \in Entered : Resident(b) /\ ~Resident(b)'}

RInit == Init /\ used = {}

RNext ==
    \/ \E a \in Addresses :
        \/ (\E data \in Data : Define(a, data)) /\ UNCHANGED used
        \/ Read(a) /\ UseOf(a, {})
        \/ \E part \in Parts :
            \/ CpuWrite(a, part) /\ UseOf(a, {})
            \/ BypassWrite(a, part) /\ Withdraw(a)
        \/ \E part \in Parts, admission \in Admissions :
            /\ IoWrite(a, part, admission)
            /\ IF admission = {} /\ ~Resident(a) THEN Withdraw(a)
               ELSE UseOf(a, PushedOut(admission))
    \/ Flush /\ UNCHANGED used

RSpec == RInit /\ [][RNext]_rvars

(* A line that an allocation with all ways to choose from pushed out was   *)
(* used before every line of its set that is still in, over any sequence   *)
(* of hits, fills, withdrawals, refills of emptied ways and stores with    *)
(* fewer ways (cache.py:106-108, 120-139).                                 *)
EvictedAreOlder ==
    \A a, b \in Entered :
        Index(a) = Index(b) /\ Resident(a) /\ ~Resident(b) => <<b, a>> \in used
================================================================================
