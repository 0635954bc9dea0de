----------------------------- MODULE MCCacheReplay -----------------------------
(* One flow whose slots are reused, packets of one line and of two.        *)
EXTENDS CacheReplay

CONSTANTS short, long

LengthOf == [p \in Payloads |-> IF p = long THEN 65 ELSE 64]

StartsAtZero == [f \in Flows |-> 0]

AnyWay == 0..(Ways - 1)

OneAdmission == {AnyWay}

NowOrLater == {0, 6, 10, Never}
================================================================================
