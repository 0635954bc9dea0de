------------------------------ MODULE MCEvidence ------------------------------
(* Two arms, the first with a negative control.                            *)
EXTENDS Evidence

TwoArms == <<<<"adversarial", "early-ready">>, <<"adversarial">>>>
================================================================================
