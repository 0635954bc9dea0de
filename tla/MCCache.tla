-------------------------------- MODULE MCCache --------------------------------
(* Lines that compete for the ways of a set.                                *)
EXTENDS CacheRecency

AnyWays == SUBSET WayIds
================================================================================
