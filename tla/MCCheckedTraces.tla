---------------------------- MODULE MCCheckedTraces ----------------------------
(* Traces of one flow with two packets of one line and one of two.         *)
EXTENDS CheckedTraces

CONSTANTS short, other, long

LengthOf == [p \in Payloads |-> IF p = long THEN 65 ELSE 64]

StartsAtZero == [f \in Flows |-> 0]
================================================================================
