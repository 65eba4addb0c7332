------------------------------ MODULE MCHadoop ------------------------------
(* Instances of HadoopInjector: a master, two slaves and, as targets that   *)
(* are no slave, a client address and the name "master".                    *)
EXTENDS HadoopInjector, TLC

MCSlaves == <<"slave1", "slave2">>

C(op, target, amount) == [op |-> op, target |-> target, amount |-> amount]

Symmetry == Permutations(Sessions)

NoHosted == [n \in Nodes |-> {}]
MCHosted == [n \in Nodes |-> IF n = "master" THEN {<<"nn", 1>>, <<"snn", 1>>}
                             ELSE {<<"map", 1>>}]
\* Shaping, isolation with and without a port, on slaves and beyond,
\* while a CPU burns; only slave1 can lose its ssh.
NetCommands ==
    {C("delay", "slave1", 200), C("loss", "slave1", 99), C("loss", "gateway", 10),
     C("isolate", "slave1", 22), C("isolate", "slave2", 0),
     C("isolate", "masterName", 0), C("cpu-stress", "slave2", 10),
     C("isolate-clear", None, 0), C("loss-clear", None, 0)}
\* Processes, files, cgroups, the safe mode, and a slave that is cut off.
HostCommands ==
    {C("hang", "nn", 0), C("crash", "nn", 0), C("resume", "nn", 0),
     C("hdfs-safe", None, 1), C("crash-map", "slave1", 0),
     C("isolate", "slave1", 22),
     C("yarn-unhealthy", "slave1", 1), C("yarn-unhealthy", "slave1", 0),
     C("io-slow", "slave1", 1), C("io-slow", "slave1", 0)}
=============================================================================
