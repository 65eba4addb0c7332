---------------------------- MODULE MCVmInjectors ----------------------------
EXTENDS VmInjectors, TLC

CONSTANTS v1, v2

C(op, v, n) == [op |-> op, vm |-> v, n |-> n]

ShellSymmetry == Permutations(Shells)

OneNamed == [r \in Menus |-> v1]

\* Two shells beside a menu: delays (700 ms overflows an int of MCVm.cfg), CPU
\* hotplug, clearing, and a network and a process fault that race with those of
\* the menu.
AllCommands ==
    {C("network", Nothing, 3), C("process", v1, 2), C("perf-delay", v1, 100), C("perf-delay", v1, 700),
     C("perf-clear", v1, 0), C("cpu-offline", Nothing, 0), C("cpu-online", Nothing, 1), C("clear", Nothing, 0)}

KvmCommands ==
    {C("perf-delay", v1, 100), C("perf-delay", v2, 50), C("perf-clear", v1, 0), C("clear", Nothing, 0)}
=============================================================================
