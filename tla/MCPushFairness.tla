---------------------------- MODULE MCPushFairness ----------------------------
(* Three flows with packets of one size that share a global budget.        *)
EXTENDS PushFairness, TLC

CONSTANT short

LengthOf == short :> 64

StartsAtZero == [f \in Flows |-> 0]
================================================================================
