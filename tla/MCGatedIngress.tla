---------------------------- MODULE MCGatedIngress ----------------------------
(* Intervals below, at and above the delays.                               *)
EXTENDS GatedIngress

AllOps == {Push, PastCache, Query, "write"}

CountedOps == AllOps \ {Query}
================================================================================
