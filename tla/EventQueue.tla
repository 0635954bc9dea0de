------------------------------ MODULE EventQueue ------------------------------
(***************************************************************************)
(* The heap of events of timing.py (heapq over time and number), as the    *)
(* sequence in which it gives its events back.  The number of an event is  *)
(* its place among those scheduled before it.                              *)
(***************************************************************************)
EXTENDS Integers, FiniteSets, Sequences

(* Mutant: of the events of one time the last comes first.                 *)
TakenLatestFirst(queue, i, j) ==
    queue[i].time < queue[j].time \/ (queue[i].time = queue[j].time /\ i > j)

(* Events are numbered as they are scheduled, and those of one time are    *)
(* taken in the order of their numbers.                                    *)
TakenFirst(queue, i, j) ==
    queue[i].time < queue[j].time \/ (queue[i].time = queue[j].time /\ i < j)

(* How many events come before an event, itself included.                  *)
Rank(queue, i) == Cardinality({j \in DOMAIN queue : j = i \/ TakenFirst(queue, j, i)})

InOrderOfTime(queue) ==
    LET rank == [i \in DOMAIN queue |-> Rank(queue, i)]
    IN  [n \in DOMAIN queue |-> queue[CHOOSE i \in DOMAIN queue : rank[i] = n]]

ScheduleAll(queue, new) == InOrderOfTime(queue \o new)

Schedule(queue, e) == ScheduleAll(queue, <<e>>)
================================================================================
