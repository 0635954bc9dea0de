------------------------------ MODULE MCProtocol ------------------------------
(* Small instances of Protocol for TLC.                                    *)
EXTENDS ProtocolInvariants, TLC

(* Two payloads of different contents and different numbers of lines: the  *)
(* boundary of aligned_size is between 64 and 65 bytes.                    *)
CONSTANTS short, long

LengthOf == [p \in Payloads |-> IF p = long THEN 65 ELSE 64]

(* One flow that starts at serial 7, the last of epoch 0.                  *)
StartsAtWrap == [f \in Flows |-> 7]

StartsAtZero == [f \in Flows |-> 0]
(* The CPU of flow 0 may stop polling, stop handing buffers back, and its  *)
(* writes may hang: only flow 1 is served for sure.                        *)
StalledFlowSpec == Spec /\ WF_vars(Pump) /\ FlowFairness(1)

(* A stalled flow holds up nobody else: with per-flow budgets only, the    *)
(* other flow's packets are still issued, published, delivered and handed  *)
(* back (tests/test_protocol.py:272, :294).                                *)
StalledFlowIsolated ==
    \A s \in Serials : PrefixReceived(1, s) ~> Settled(1, s)
================================================================================
