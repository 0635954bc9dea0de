---------------------------- MODULE OrderedDelivery ----------------------------
(***************************************************************************)
(* What the reordering NIC promises to the CPU, with every mechanism left  *)
(* out: no slots, no host lines, no ready markers, no credit, no push      *)
(* queue.  Each flow is a bounded buffer of serials.  A packet that was    *)
(* taken in is handed to the CPU once, intact and in serial order; the CPU *)
(* hands the buffers back in any order; a flow that gave up on a missing   *)
(* packet takes in nothing more.                                           *)
(***************************************************************************)
EXTENDS Integers

CONSTANTS Flows, Serials, InitialSerial, Window, Payloads, NoPayload

VARIABLES
    status,   \* status[f][s]: where serial s of flow f stands
    content,  \* content[f][s]: the payload that was taken in and is not handed back
    observed, \* observed[f][s]: what the CPU saw in the buffer it holds
    halted    \* halted[f]: the flow reported a gap it will never fill

vars == <<status, content, observed, halted>>

Status == {"new", "accepted", "held", "settled"}

TypeOK ==
    /\ status \in [Flows -> [Serials -> Status]]
    /\ content \in [Flows -> [Serials -> Payloads \cup {NoPayload}]]
    /\ observed \in [Flows -> [Serials -> Payloads \cup {NoPayload}]]
    /\ halted \in [Flows -> BOOLEAN]

(* Serials before the first one of the session are settled from the start. *)
Init ==
    /\ status = [f \in Flows |-> [s \in Serials |->
                    IF s < InitialSerial[f] THEN "settled" ELSE "new"]]
    /\ content = [f \in Flows |-> [s \in Serials |-> NoPayload]]
    /\ observed = [f \in Flows |-> [s \in Serials |-> NoPayload]]
    /\ halted = [f \in Flows |-> FALSE]

(* A serial is taken in at most once, and only when every serial a window  *)
(* or more below it has been handed back.                                  *)
Accept(f, s, p) ==
    /\ ~halted[f]
    /\ status[f][s] = "new"
    /\ \A t \in Serials : t + Window <= s => status[f][t] = "settled"
    /\ status' = [status EXCEPT ![f][s] = "accepted"]
    /\ content' = [content EXCEPT ![f][s] = p]
    /\ UNCHANGED <<observed, halted>>

(* The CPU gets the accepted serial that follows those it has already got, *)
(* and sees the payload that was taken in for it.                          *)
Deliver(f, s) ==
    /\ status[f][s] = "accepted"
    /\ \A t \in Serials : t < s => status[f][t] \in {"held", "settled"}
    /\ status' = [status EXCEPT ![f][s] = "held"]
    /\ observed' = [observed EXCEPT ![f][s] = content[f][s]]
    /\ UNCHANGED <<content, halted>>

Release(f, s) ==
    /\ status[f][s] = "held"
    /\ status' = [status EXCEPT ![f][s] = "settled"]
    /\ content' = [content EXCEPT ![f][s] = NoPayload]
    /\ observed' = [observed EXCEPT ![f][s] = NoPayload]
    /\ UNCHANGED halted

(* Giving up needs evidence of a gap: an accepted serial behind one that   *)
(* never came in.                                                          *)
Halt(f) ==
    /\ ~halted[f]
    /\ \E t \in Serials :
        /\ status[f][t] = "accepted"
        /\ \E s \in InitialSerial[f]..(t - 1) : s \in Serials => status[f][s] = "new"
    /\ halted' = [halted EXCEPT ![f] = TRUE]
    /\ UNCHANGED <<status, content, observed>>

Next ==
    \E f \in Flows :
        \/ \E s \in Serials : \/ \E p \in Payloads : Accept(f, s, p)
                              \/ Deliver(f, s)
                              \/ Release(f, s)
        \/ Halt(f)

Spec == Init /\ [][Next]_vars
================================================================================
