------------------------------ MODULE MCVictims ------------------------------
EXTENDS Victims, TLC

AllPrograms == {"target", "target_mem", "target_reg", "target_net", "target_cpu", "target_res"}

TwoBaits == <<"static", "heap">>
OneStatic == {"static"}

\* Two tools on the same bit of one bait, a third on another bait.
Aim == "m1" :> [word |-> "static", bit |-> 0] @@ "m2" :> [word |-> "static", bit |-> 0]
       @@ "m3" :> [word |-> "heap", bit |-> 1]
Tools3 == DOMAIN Aim

Plus == {3, -3, 1}
Asked == {0, 2, 5}
NetKinds == [target |-> {"block", "delay", "loss"}, target_net |-> {"loss", "corrupt"}]
Probes == [tcp_prober |-> 1, udp_prober |-> 2]
LeakSizes == {3, 9}
=============================================================================
