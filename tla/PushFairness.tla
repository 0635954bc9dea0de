----------------------------- MODULE PushFairness -----------------------------
(***************************************************************************)
(* The turn-taking of pump() under a global push budget, watched from      *)
(* outside: a history variable counts how often each other flow issues     *)
(* while a flow waits for nothing but its share of the global budget.      *)
(***************************************************************************)
EXTENDS Protocol

VARIABLE passed  \* passed[f][g]: packets of g issued during f's wait

fvars == <<vars, passed>>

(* The head of f could go but for the global budget.                       *)
WaitsForTurn(f) == HeadWaits(f) /\ FlowCreditFits(f)

HasIssued(f) == next_issue'[f] # next_issue[f]

CountPasses ==
    passed' = [f \in Flows |-> [g \in Flows |->
        IF HasIssued(f) \/ ~WaitsForTurn(f) \/ ~WaitsForTurn(f)' THEN 0
        ELSE IF HasIssued(g) THEN passed[f][g] + 1
        ELSE passed[f][g]]]

FInit == Init /\ passed = [f \in Flows |-> [g \in Flows |-> 0]]

FNext == Next /\ CountPasses

FSpec == FInit /\ [][FNext]_fvars

(* What a turn rests on: all packets take the same share.                  *)
OneSize ==
    \A p, q \in Payloads : aligned_size(Length[p]) = aligned_size(Length[q])

(* With packets of one aligned size, no flow that waits for global credit  *)
(* is passed more than once by each other flow, over however many calls of *)
(* pump() the wait lasts (model.py:199-223).                               *)
BoundedBypass == \A f, g \in Flows : passed[f][g] <= 1
================================================================================
