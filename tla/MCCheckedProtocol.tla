--------------------------- MODULE MCCheckedProtocol ---------------------------
(* One flow from the last serial of epoch 0, with two packet sizes.        *)
EXTENDS CheckedProtocol

CONSTANTS short, long

LengthOf == [p \in Payloads |-> IF p = long THEN 65 ELSE 64]

KeptFields == <<"generation", "length">>

StartsAtWrap == [f \in Flows |-> 7]
================================================================================
