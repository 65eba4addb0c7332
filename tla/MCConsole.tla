--------------------------- MODULE MCConsole ------------------------------
EXTENDS Console

A(action) == Request(action)
B(action, arg) == [action |-> action, arg |-> arg]

\* The Hadoop cards: starts, restarts and a stop, behind each other.
ClusterMenu == {A("hadoop_start"), A("hadoop_restart"), B("process_fault", "crash")}

\* vm.use_sudo and kvm.use_sudo of config.json.
UnderSudo == {"vm_network", "kvm_perf_delay", "kvm_perf_clear", "kvm_cpu_hotplug", "kvm_clear"}

NoTests == {}
OneWorker == <<"slave1">>
NameNode == {<<"nn", "master">>}

\* The one-click recovery beside a functional test, whose cleanup injects again.
TestMenu == {B("vm_network", "loss")}

\* The cards of Hadoop, the one-click recovery and a test page, or none.
Browsers == {Cards, RecoverAll \cup TestPages, {}}
TestScreen == {TestPages}

\* The server crashes once under all but the first.
OneCrash == [s \in Browsers \cup TestScreen |-> IF s = Cards /\ s # {} THEN 0 ELSE 1]

TwoNodes == <<"master", "slave1">>
=============================================================================
