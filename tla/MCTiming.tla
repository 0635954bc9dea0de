-------------------------------- MODULE MCTiming --------------------------------
(* Two flows of two packets, the first packet of each twice as long.      *)
EXTENDS Timing

TwoThenOne == [p \in Packets |-> IF SerialOf(p) = 0 THEN 2 ELSE 1]

Arm(family, home, reorder, use_credit, push, cpu_reorder, gated) ==
    [family |-> family, home |-> home, reorder_before_push |-> reorder,
     use_credit |-> use_credit, push_payload |-> push, cpu_reorder |-> cpu_reorder,
     gated |-> gated]

(* A, B0, B1, C, D0, D1, D1-gated, E and D1-host-control of POLICIES.      *)
AllArms ==
    {Arm("ddio", "host", FALSE, FALSE, TRUE, TRUE, FALSE),
     Arm("ddio", "host", TRUE, FALSE, TRUE, FALSE, FALSE),
     Arm("ddio", "host", TRUE, TRUE, TRUE, FALSE, FALSE),
     Arm("ncp", "nic", FALSE, FALSE, TRUE, FALSE, FALSE),
     Arm("ncp", "nic", TRUE, FALSE, TRUE, FALSE, FALSE),
     Arm("ncp", "nic", TRUE, TRUE, TRUE, FALSE, FALSE),
     Arm("ncp", "nic", TRUE, TRUE, TRUE, FALSE, TRUE),
     Arm("demand", "nic", TRUE, TRUE, FALSE, FALSE, FALSE),
     Arm("ncp", "host", TRUE, TRUE, TRUE, FALSE, FALSE)}

Setting(flow, shared, nic, cpu_side, interval, latency, withdraw, background) ==
    [push_credit |-> flow, global_credit |-> shared, nic_buffer |-> nic,
     cpu_reorder_buffer |-> cpu_side, sample_interval |-> interval,
     control_latency |-> latency, withdraw |-> withdraw, background |-> background]

(* Ample credit, and a gate with several changes on their way; shared     *)
(* credit, a small NIC buffer and withdrawals; too little credit for long  *)
(* packets, a small reorder buffer, background reads, and a gate whose     *)
(* last change misses the deadline.                                        *)
SomeSettings ==
    {Setting(3, NoLimit, 6, 6, 4, 9, NoLimit, NoLimit),
     Setting(2, 3, 5, 6, NoLimit, 0, 12, NoLimit),
     Setting(1, NoLimit, 6, 1, 30, 15, NoLimit, 40)}

(* All hit or all miss, or the second payload line alone differs.          *)
LastLineDiffers ==
    {[n \in 1..4 |-> IF n = 4 THEN last ELSE others] : last \in BOOLEAN, others \in BOOLEAN}
================================================================================
