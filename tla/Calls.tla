--------------------------------- MODULE Calls ---------------------------------
(***************************************************************************)
(* What a caller may rely on that talks to a server through the Client of  *)
(* cxl_nic/transport.py.  A call that returns was carried out once, and    *)
(* its answer is about that.  A call that raises was carried out, or will  *)
(* be, or never is; it is the last that the server hears of.               *)
(***************************************************************************)
EXTENDS Naturals, Sequences

CONSTANT Ops

VARIABLES
    calls,      \* calls[n]: the n-th call, its answer being a place in performed
    performed   \* what the server carried out, in order

Init == calls = <<>> /\ performed = <<>>

Open == \A n \in 1..Len(calls) : calls[n].status \notin {"waiting", "raised"}

Enter(op, status) ==
    calls' = Append(calls, [op |-> op, status |-> status, answer |-> 0])

Begin(op) ==
    /\ Open
    /\ Enter(op, "waiting") \/ Enter(op, "raised")
    /\ UNCHANGED performed

(* Nothing comes of a call that is turned away.                            *)
TurnAway(op) ==
    /\ \A n \in 1..Len(calls) : calls[n].status # "waiting"
    /\ Enter(op, "refused")
    /\ UNCHANGED performed

Perform(n) ==
    /\ calls[n].status \in {"waiting", "raised"}
    /\ \A i \in 1..Len(performed) : performed[i].call # n
    /\ \E value \in BOOLEAN :
        performed' = Append(performed, [call |-> n, op |-> calls[n].op, value |-> value])
    /\ UNCHANGED calls

Return(n) ==
    /\ calls[n].status = "waiting"
    /\ performed # <<>> /\ performed[Len(performed)].call = n
    /\ calls' = [calls EXCEPT ![n].status = "returned", ![n].answer = Len(performed)]
    /\ UNCHANGED performed

GiveUp(n) ==
    /\ calls[n].status = "waiting"
    /\ calls' = [calls EXCEPT ![n].status = "raised"]
    /\ UNCHANGED performed

Next ==
    \/ \E op \in Ops : Begin(op) \/ TurnAway(op)
    \/ \E n \in 1..Len(calls) : Perform(n) \/ Return(n) \/ GiveUp(n)

Spec == Init /\ [][Next]_<<calls, performed>>
================================================================================
