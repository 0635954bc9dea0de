----------------------------- MODULE MCIntegration -----------------------------
(* Two flows whose serials wrap, three packets each for two slots.         *)
EXTENDS Integration

StartsAtWrap == [f \in Flows |-> 7]

(* The payloads of all packets differ; the first of each flow is longest.  *)
AllPayloads == Flows \X Serials

LengthOf == [p \in AllPayloads |-> IF p[2] = 7 THEN 65 ELSE 64]

EachItsOwn == [f \in Flows |-> [s \in Serials |-> <<f, s>>]]
================================================================================
