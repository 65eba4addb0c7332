--------------------------- MODULE HadoopInjector ---------------------------
(***************************************************************************)
(* kvm_injection/hadoop-fi/hadoop_injector.c: the command-line injector    *)
(* that runs on the Hadoop master.  One invocation (a session) turns its   *)
(* command into legs: one on the master itself, or one ssh call for every  *)
(* slave concerned, in the order of SLAVE_HOSTS.  A leg is the sequence of *)
(* shell commands and system calls the injector makes on that node.        *)
(*                                                                         *)
(* Invocations run concurrently (several shells, or the thread pool of the *)
(* web controller), without any lock: every shell command is one step.     *)
(***************************************************************************)
EXTENDS Integers, Sequences, FiniteSets

CONSTANTS
    Master,     \* the node the injector is started on
    SlaveSeq,   \* SLAVE_HOSTS: the slaves, in the order they are visited
    Outsiders,  \* targets that are no slave address and no slave name
    BadNames,   \* the outsiders that neither tc nor iptables can parse
    Hosted,     \* Hosted[n]: the Hadoop processes placed on node n
    Sessions,   \* invocations that may be in flight at the same time
    Commands,   \* the command lines that may be entered
    None        \* "no node", "no command", "no address"

Slaves == {SlaveSeq[i] : i \in DOMAIN SlaveSeq}
Nodes  == {Master} \cup Slaves

\* parse_component and is_slave_component
MasterComps == {"nn", "rm", "snn", "jhs", "am"}
SlaveComps  == {"dn", "nm", "map", "reduce"}
Components  == MasterComps \cup SlaveComps

\* A process is a component and a number: a node may run several YarnChild.
Processes == UNION {Hosted[n] : n \in Nodes}

ShapeOps    == {"delay", "heartbeat", "loss", "reorder"}
FillOps     == {"disk-fill", "hdfs-disk"}
TargetedOps == ShapeOps \cup FillOps \cup
               {"isolate", "cpu-stress", "mem-stress", "io-slow"}
SlaveOnly   == {"yarn-unhealthy", "crash-map", "crash-reduce"}
ShapeClears == {"delay-clear", "loss-clear", "reorder-clear"}
ClearOps    == ShapeClears \cup
               {"isolate-clear", "mem-stress-clear", "disk-fill-clear"}
SignalOps   == {"crash", "hang", "resume"}

ASSUME Topology ==
    /\ SlaveSeq \in Seq(Slaves)
    /\ \A i, j \in DOMAIN SlaveSeq : SlaveSeq[i] = SlaveSeq[j] => i = j
    /\ Master \notin Slaves
    /\ Outsiders \cap Slaves = {}
    /\ BadNames \subseteq Outsiders
    /\ None \notin Nodes /\ None \notin Outsiders /\ None \notin Commands

ASSUME Placement ==
    \A n \in Nodes : Hosted[n] \subseteq Components \X Nat

Targets == Slaves \cup Outsiders \cup Components \cup {None}

\* amount: milliseconds, percent, megabytes, a port, or 1 for on and 0 for off
ASSUME CommandLines ==
    Commands \subseteq [op : STRING, target : Targets, amount : Nat]
-----------------------------------------------------------------------------
(* Shell commands and system calls.  `what` and `amt` are their operands.  *)

Do(op, what, amt) == [op |-> op, what |-> what, amt |-> amt]

\* The scripts of one node, one operator per C function.

\* Variants named <definition>_<fault> are plausible bugs: see PROJECT.json.
Shape_NoDelete(kind, peer, amt) ==
    IF amt <= 0 THEN <<Do("qdisc-del", None, 0)>>
                ELSE <<Do("qdisc-netem", kind, amt)>>

Shape(kind, peer, amt) ==
    <<Do("qdisc-del", None, 0)>> \o
    IF amt <= 0 THEN <<>>
    ELSE IF peer = None THEN <<Do("qdisc-netem", kind, amt)>>
    ELSE <<Do("qdisc-prio", None, 0), Do("qdisc-child", kind, amt),
           Do("filter", peer, 0)>>

inject_network_delay(peer, ms)     == Shape("delay", peer, ms)
inject_network_loss(peer, percent) == Shape("loss", peer, percent)
\* The target is a parameter of the C function too, which never reads it.
inject_network_reorder(peer, percent) == Shape("reorder", None, percent)

\* inject_network_fault(target_ip, port, 1); a rule is <<chain, match, port>>
inject_network_fault(peer, port) ==
    IF peer \in BadNames THEN <<>>
    ELSE <<Do("drop", <<"INPUT", peer, port>>, 0),
           Do("drop", <<"OUTPUT", peer, port>>, 0)>>

\* 8030 stands for the range 8030:8033.
InPorts  == <<8020, 9870, 9866, 9867, 9864, 8088, 8042, 8030>>
OutPorts == <<8020, 9870, 9866, 8088, 8042>>

isolate_local_AllPorts(port) ==
    <<Do("drop", <<"INPUT", "dport", 22>>, 0), Do("drop", <<"OUTPUT", "sport", 22>>, 0)>>

isolate_local(port) ==
    IF port > 0
    THEN <<Do("drop", <<"INPUT", "dport", port>>, 0),
           Do("drop", <<"OUTPUT", "sport", port>>, 0)>>
    ELSE [i \in 1..Len(InPorts) |->
            Do("drop", <<"INPUT", "dport", InPorts[i]>>, 0)] \o
         [i \in 1..Len(OutPorts) |->
            Do("drop", <<"OUTPUT", "dport", OutPorts[i]>>, 0)]

inject_memory_stress(mb) ==
    IF mb <= 0 THEN <<Do("rm", "hadoop_mem_stress", 0)>>
               ELSE <<Do("write", "hadoop_mem_stress", 0)>>

inject_io_delay_EntersFirst(enable) ==
    IF enable > 0 THEN <<Do("io-enter", None, 0), Do("io-mkdir", None, 0),
                         Do("io-max", None, 0)>>
                  ELSE <<Do("io-list", None, 0), Do("io-rmdir", None, 0)>>

inject_io_delay(enable) ==
    IF enable > 0 THEN <<Do("io-mkdir", None, 0), Do("io-max", None, 0),
                         Do("io-enter", None, 0)>>
                  ELSE <<Do("io-list", None, 0), Do("io-rmdir", None, 0)>>

inject_yarn_fault(type) ==
    IF type = 1 THEN <<Do("write", "yarn_node_health_check", 0)>>
                ELSE <<Do("rm", "yarn_node_health_check", 0)>>

inject_hdfs_fault(type) == <<Do("safemode", None, type)>>

inject_cpu_stress == <<Do("burn", None, 0), Do("cool", None, 0)>>

exec_local_process_fault(op, comp) == <<Do(op, comp, 0)>>

find_hadoop_pid_AnyNameNode(n, comp) ==
    {p \in Hosted[n] : p[1] = comp \/ (comp = "nn" /\ p[1] = "snn")}

\* jps knows map and reduce tasks by the same class name, YarnChild.
find_hadoop_pid(n, comp) ==
    {p \in Hosted[n] : \/ p[1] = comp
                       \/ {p[1], comp} \subseteq {"map", "reduce"}}
-----------------------------------------------------------------------------
(* main(): where a command runs, and what it runs there                    *)

Legs_Everywhere(c) == <<Master>> \o SlaveSeq
Legs_SkipMaster(c) ==
    IF c.op \in ClearOps THEN SlaveSeq
    ELSE IF c.target \in Slaves THEN <<c.target>> ELSE <<Master>>

Legs(c) ==
    CASE c.op \in ClearOps    -> <<Master>> \o SlaveSeq
      [] c.op \in SignalOps   -> IF c.target \in SlaveComps THEN SlaveSeq
                                                            ELSE <<Master>>
      [] c.op \in TargetedOps -> IF c.target \in Slaves THEN <<c.target>>
                                                        ELSE <<Master>>
      [] c.op \in SlaveOnly   -> IF c.target \in Slaves THEN <<c.target>>
                                                        ELSE <<>>
      [] c.op = "hdfs-safe"   -> <<Master>>
      [] OTHER                -> <<>>   \* "Unknown command", exit status 0

\* A slave is always told "global"; on the master the target is the address.
Peer(c, n) == IF n = Master THEN c.target ELSE None

Script(c, n) ==
    CASE c.op \in {"delay", "heartbeat"} ->
            inject_network_delay(Peer(c, n), c.amount)
      [] c.op = "loss"             -> inject_network_loss(Peer(c, n), c.amount)
      [] c.op = "reorder"          -> inject_network_reorder(Peer(c, n), c.amount)
      [] c.op = "delay-clear"      -> inject_network_delay(None, 0)
      [] c.op = "loss-clear"       -> inject_network_loss(None, 0)
      [] c.op = "reorder-clear"    -> inject_network_reorder(None, 0)
      [] c.op = "isolate"          -> IF n = Master
                                      THEN inject_network_fault(c.target, c.amount)
                                      ELSE isolate_local(c.amount)
      [] c.op = "isolate-clear"    -> <<Do("flush", None, 0)>>
      [] c.op \in FillOps          -> <<Do("write", "disk_hog", 0)>>
      [] c.op = "disk-fill-clear"  -> <<Do("rm", "disk_hog", 0)>>
      [] c.op = "mem-stress"       -> inject_memory_stress(c.amount)
      [] c.op = "mem-stress-clear" -> inject_memory_stress(0)
      [] c.op = "cpu-stress"       -> inject_cpu_stress
      [] c.op = "io-slow"          -> inject_io_delay(c.amount)
      [] c.op = "yarn-unhealthy"   -> inject_yarn_fault(IF c.amount = 1 THEN 1 ELSE 2)
      [] c.op = "hdfs-safe"        -> inject_hdfs_fault(c.amount)
      [] c.op = "crash-map"        -> <<Do("kill-task", "map", 0)>>
      [] c.op = "crash-reduce"     -> <<Do("kill-task", "reduce", 0)>>
      [] c.op \in SignalOps        -> exec_local_process_fault(c.op, c.target)
      [] OTHER                     -> <<>>
-----------------------------------------------------------------------------
VARIABLES
    \* what the injector changes on the nodes
    qdisc,      \* qdisc[n]: the traffic control tree of eth1
    drops,      \* drops[n]: the iptables DROP rules (only ever flushed whole)
    proc,       \* proc[n][p]: the state of a Hadoop process
    safemode,   \* the NameNode is in safe mode
    files,      \* files[n]: the ballast and health files under /tmp
    ioDir,      \* ioDir[n]: the cgroup io_limited, without or with its io.max
    limited,    \* limited[n]: the processes inside it
    burning,    \* burning[n]: the sessions whose CPU workers run on n
    \* the invocations
    running,    \* running[s]: the command session s executes
    legs,       \* legs[s]: the nodes it has not visited yet
    here,       \* here[s]: the node it is on
    todo,       \* todo[s]: the shell commands left on that node
    \* history, read by properties only
    alone,      \* alone[s]: no other session has run since s started
    steady,     \* steady[s]: ... and no process has been restarted either
    missed,     \* missed[s]: the slaves its ssh calls did not reach
    asked       \* asked[n]: the shapings that the commands which overlap on
                \* slave n are to leave there ({} when there is none)

netVars  == <<qdisc, drops>>
hostVars == <<proc, safemode, files, ioDir, limited, burning>>
cliVars  == <<running, legs, here, todo, alone, steady, missed, asked>>
vars     == <<netVars, hostVars, cliVars>>

NoQdisc == [root |-> "none", kind |-> "none", amt |-> 0, flows |-> {}]

\* What the shaping command c is to leave on a slave.
KindOf(c) == IF c.op = "heartbeat" THEN "delay" ELSE c.op
Wanted(c) ==
    IF c.op \in ShapeClears \/ c.amount = 0 THEN NoQdisc
    ELSE [root |-> "netem", kind |-> KindOf(c), amt |-> c.amount, flows |-> {}]

\* Session s shapes the traffic of node n.
Shaping(s, n) ==
    here[s] = n /\ running[s] # None /\ running[s].op \in ShapeOps \cup ShapeClears

FileNames == {"disk_hog", "hadoop_mem_stress", "yarn_node_health_check"}

\* sshd of a slave answers: its port is not dropped and its NIC transmits.
Reachable(n) ==
    /\ {<<"INPUT", "dport", 22>>, <<"OUTPUT", "sport", 22>>} \cap drops[n] = {}
    /\ ~(qdisc[n].root = "netem" /\ qdisc[n].kind = "loss" /\ qdisc[n].amt >= 100)

Init ==
    /\ qdisc    = [n \in Nodes |-> NoQdisc]
    /\ drops    = [n \in Nodes |-> {}]
    /\ proc     = [n \in Nodes |-> [p \in Hosted[n] |-> "running"]]
    /\ safemode = FALSE
    /\ files    = [n \in Nodes |-> {}]
    /\ ioDir    = [n \in Nodes |-> "absent"]
    /\ limited  = [n \in Nodes |-> {}]
    /\ burning  = [n \in Nodes |-> {}]
    /\ running  = [s \in Sessions |-> None]
    /\ legs     = [s \in Sessions |-> <<>>]
    /\ here     = [s \in Sessions |-> None]
    /\ todo     = [s \in Sessions |-> <<>>]
    /\ alone    = [s \in Sessions |-> FALSE]
    /\ steady   = [s \in Sessions |-> FALSE]
    /\ missed   = [s \in Sessions |-> {}]
    /\ asked    = [n \in Slaves |-> {}]
-----------------------------------------------------------------------------
(* An invocation and its legs                                              *)

Idle(s) == running[s] = None

Start(s, c) ==
    /\ Idle(s)
    /\ running' = [running EXCEPT ![s] = c]
    /\ legs'    = [legs EXCEPT ![s] = Legs(c)]
    /\ alone'   = [t \in Sessions |-> t = s /\ \A u \in Sessions : Idle(u)]
    /\ steady'  = alone'
    /\ missed'  = [missed EXCEPT ![s] = {}]
    /\ UNCHANGED <<netVars, hostVars, here, todo, asked>>

\* Session s comes to a slave with a command that shapes traffic.
AskedWith(s, n) ==
    IF n = Master \/ running[s].op \notin ShapeOps \cup ShapeClears THEN asked
    ELSE [asked EXCEPT ![n] = @ \cup {Wanted(running[s])}]

\* The master's own leg, or an ssh call that connects.
EnterLeg(s) ==
    /\ here[s] = None /\ legs[s] # <<>>
    /\ LET n == Head(legs[s]) IN
       /\ n = Master \/ Reachable(n)
       /\ here' = [here EXCEPT ![s] = n]
       /\ todo' = [todo EXCEPT ![s] = Script(running[s], n)]
       /\ asked' = AskedWith(s, n)
    /\ legs' = [legs EXCEPT ![s] = Tail(@)]
    /\ UNCHANGED <<netVars, hostVars, running, alone, steady, missed>>

MissLeg_AnyLeg(s) ==
    /\ here[s] = None /\ legs[s] # <<>>
    /\ missed' = [missed EXCEPT ![s] = @ \cup {Head(legs[s])}]
    /\ legs'   = [legs EXCEPT ![s] = Tail(@)]
    /\ UNCHANGED <<netVars, hostVars, running, here, todo, alone, steady, asked>>

MissLeg_Retries(s) ==
    /\ here[s] = None /\ legs[s] # <<>>
    /\ Head(legs[s]) # Master
    /\ missed' = [missed EXCEPT ![s] = @ \cup {Head(legs[s])}]
    /\ UNCHANGED <<netVars, hostVars, running, legs, here, todo, alone, steady, asked>>

\* An ssh call that does not connect (always so when the slave is cut off):
\* system() returns, its status is ignored, the loop goes on.
MissLeg(s) ==
    /\ here[s] = None /\ legs[s] # <<>>
    /\ Head(legs[s]) # Master
    /\ missed' = [missed EXCEPT ![s] = @ \cup {Head(legs[s])}]
    /\ legs'   = [legs EXCEPT ![s] = Tail(@)]
    /\ UNCHANGED <<netVars, hostVars, running, here, todo, alone, steady, asked>>

\* The leg's last command has run.  When the leg itself has cut the slave off,
\* the ssh client returns only after the keepalive of TCP gives up: it does.
LeaveLeg(s) ==
    /\ here[s] # None /\ todo[s] = <<>>
    /\ here' = [here EXCEPT ![s] = None]
    /\ asked' = [n \in Slaves |->
                    IF \E t \in Sessions \ {s} : Shaping(t, n) THEN asked[n] ELSE {}]
    /\ UNCHANGED <<netVars, hostVars, running, legs, todo, alone, steady, missed>>

\* main returns, after its "[Success]" message if it has one.
Finish(s) ==
    /\ ~Idle(s) /\ here[s] = None /\ legs[s] = <<>>
    /\ running' = [running EXCEPT ![s] = None]
    /\ alone'   = [alone EXCEPT ![s] = FALSE]
    /\ steady'  = [steady EXCEPT ![s] = FALSE]
    /\ missed'  = [missed EXCEPT ![s] = {}]
    /\ UNCHANGED <<netVars, hostVars, legs, here, todo, asked>>
-----------------------------------------------------------------------------
(* The shell commands of a leg.  Exec(s, op) is the common part of a step. *)

Exec(s, op) ==
    /\ here[s] # None /\ todo[s] # <<>>
    /\ Head(todo[s]).op = op
    /\ UNCHANGED <<running, legs, here, alone, steady, missed, asked>>

Pop(s)  == todo' = [todo EXCEPT ![s] = Tail(@)]
Quit(s) == todo' = [todo EXCEPT ![s] = <<>>]
What(s) == Head(todo[s]).what
Amt(s)  == Head(todo[s]).amt

\* tc qdisc del dev eth1 root 2>/dev/null
QdiscDel(s) ==
    /\ Exec(s, "qdisc-del") /\ Pop(s)
    /\ qdisc' = [qdisc EXCEPT ![here[s]] = NoQdisc]
    /\ UNCHANGED <<drops, hostVars>>

QdiscNetem_Changes(s) ==   \* tc qdisc change: the kind it finds stays
    /\ Exec(s, "qdisc-netem") /\ Pop(s)
    /\ qdisc' = [qdisc EXCEPT ![here[s]] =
                    IF @.root # "none" THEN [@ EXCEPT !.amt = Amt(s)]
                    ELSE [NoQdisc EXCEPT !.root = "netem",
                                         !.kind = What(s), !.amt = Amt(s)]]
    /\ UNCHANGED <<drops, hostVars>>

\* tc qdisc add dev eth1 root netem ...: refused when a root is there.
QdiscNetem(s) ==
    /\ Exec(s, "qdisc-netem") /\ Pop(s)
    /\ qdisc' = [qdisc EXCEPT ![here[s]] =
                    IF @.root # "none" THEN @
                    ELSE [NoQdisc EXCEPT !.root = "netem",
                                         !.kind = What(s), !.amt = Amt(s)]]
    /\ UNCHANGED <<drops, hostVars>>

\* tc qdisc add dev eth1 root handle 1: prio
QdiscPrio(s) ==
    /\ Exec(s, "qdisc-prio") /\ Pop(s)
    /\ qdisc' = [qdisc EXCEPT ![here[s]] =
                    IF @.root # "none" THEN @ ELSE [NoQdisc EXCEPT !.root = "prio"]]
    /\ UNCHANGED <<drops, hostVars>>

\* tc qdisc add dev eth1 parent 1:3 handle 30: netem ...
QdiscChild(s) ==
    /\ Exec(s, "qdisc-child") /\ Pop(s)
    /\ qdisc' = [qdisc EXCEPT ![here[s]] =
                    IF @.root # "prio" \/ @.kind # "none" THEN @
                    ELSE [@ EXCEPT !.kind = What(s), !.amt = Amt(s)]]
    /\ UNCHANGED <<drops, hostVars>>

\* tc filter add dev eth1 parent 1:0 ... match ip dst <target> flowid 1:3
FilterAdd(s) ==
    /\ Exec(s, "filter") /\ Pop(s)
    /\ qdisc' = IF qdisc[here[s]].root # "prio" \/ What(s) \in BadNames THEN qdisc
                ELSE [qdisc EXCEPT ![here[s]].flows = @ \cup {What(s)}]
    /\ UNCHANGED <<drops, hostVars>>

\* iptables -A <chain> ... -j DROP
Drop(s) ==
    /\ Exec(s, "drop") /\ Pop(s)
    /\ drops' = [drops EXCEPT ![here[s]] = @ \cup {What(s)}]
    /\ UNCHANGED <<qdisc, hostVars>>

\* iptables -F
Flush(s) ==
    /\ Exec(s, "flush") /\ Pop(s)
    /\ drops' = [drops EXCEPT ![here[s]] = {}]
    /\ UNCHANGED <<qdisc, hostVars>>

\* Process p of node n is gone, and with it its place in the cgroup.
Dies(n, p) ==
    /\ proc'    = [proc EXCEPT ![n][p] = "absent"]
    /\ limited' = [limited EXCEPT ![n] = @ \ {p}]

Alive(n) == {p \in Hosted[n] : proc[n][p] # "absent"}

\* find_hadoop_pid, then kill(pid, SIGKILL); no process found is no error.
Crash(s) ==
    /\ Exec(s, "crash") /\ Pop(s)
    /\ LET n == here[s]
           found == Alive(n) \cap find_hadoop_pid(n, What(s)) IN
       \/ found = {} /\ UNCHANGED <<proc, limited>>
       \/ \E p \in found : Dies(n, p)
    /\ UNCHANGED <<netVars, safemode, files, ioDir, burning>>

\* SIGSTOP and SIGCONT
Signal(s, op, state) ==
    /\ Exec(s, op) /\ Pop(s)
    /\ LET n == here[s]
           found == Alive(n) \cap find_hadoop_pid(n, What(s)) IN
       \/ found = {} /\ UNCHANGED proc
       \/ \E p \in found : proc' = [proc EXCEPT ![n][p] = state]
    /\ UNCHANGED <<netVars, safemode, files, ioDir, limited, burning>>

Hang(s)   == Signal(s, "hang", "stopped")
Resume(s) == Signal(s, "resume", "running")

\* inject_mapreduce_fault: a random task of the given type
KillTask(s) ==
    /\ Exec(s, "kill-task") /\ Pop(s)
    /\ LET n == here[s]
           found == {p \in Alive(n) : p[1] = What(s)} IN
       \/ found = {} /\ UNCHANGED <<proc, limited>>
       \/ \E p \in found : Dies(n, p)
    /\ UNCHANGED <<netVars, safemode, files, ioDir, burning>>

NameNodeIs(state) == \E p \in Hosted[Master] : p[1] = "nn" /\ proc[Master][p] = state

\* hdfs dfsadmin -safemode enter|leave: the NameNode does it; where there is
\* none the command fails.  One that is stopped accepts the connection and
\* does not answer: the command, run by system(), waits for it.
Safemode(s) ==
    /\ Exec(s, "safemode") /\ Pop(s)
    /\ \/ NameNodeIs("running") /\ safemode' = (Amt(s) = 1)
       \/ ~NameNodeIs("running") /\ ~NameNodeIs("stopped") /\ UNCHANGED safemode
    /\ UNCHANGED <<netVars, proc, files, ioDir, limited, burning>>

AwaitsNameNode(s) ==
    /\ here[s] # None /\ todo[s] # <<>> /\ Head(todo[s]).op = "safemode"
    /\ NameNodeIs("stopped")

\* The user gives up: Ctrl-C ends the waiting hdfs, and system() returns.
InterruptSafemode(s) ==
    /\ Exec(s, "safemode") /\ Pop(s)
    /\ AwaitsNameNode(s)
    /\ UNCHANGED <<netVars, hostVars>>

\* dd of=..., echo > ...
WriteFile(s) ==
    /\ Exec(s, "write") /\ Pop(s)
    /\ files' = [files EXCEPT ![here[s]] = @ \cup {What(s)}]
    /\ UNCHANGED <<netVars, proc, safemode, ioDir, limited, burning>>

\* rm -f ...
RemoveFile(s) ==
    /\ Exec(s, "rm") /\ Pop(s)
    /\ files' = [files EXCEPT ![here[s]] = @ \ {What(s)}]
    /\ UNCHANGED <<netVars, proc, safemode, ioDir, limited, burning>>

\* mkdir -p io_limited
IoMkdir(s) ==
    /\ Exec(s, "io-mkdir") /\ Pop(s)
    /\ ioDir' = [ioDir EXCEPT ![here[s]] = IF @ = "absent" THEN "plain" ELSE @]
    /\ UNCHANGED <<netVars, proc, safemode, files, limited, burning>>

\* echo ... > io_limited/io.max: where another invocation has removed the
\* directory meanwhile, set -e ends the script.
IoMax(s) ==
    /\ Exec(s, "io-max")
    /\ \/ ioDir[here[s]] # "absent" /\ ioDir' = [ioDir EXCEPT ![here[s]] = "slow"] /\ Pop(s)
       \/ ioDir[here[s]] = "absent" /\ UNCHANGED ioDir /\ Quit(s)
    /\ UNCHANGED <<netVars, proc, safemode, files, limited, burning>>

\* for pid in $(pgrep -f java): echo $pid > io_limited/cgroup.procs || true
IoEnter(s) ==
    /\ Exec(s, "io-enter") /\ Pop(s)
    /\ limited' = [limited EXCEPT ![here[s]] =
                      IF ioDir[here[s]] # "absent" THEN @ \cup Alive(here[s]) ELSE @]
    /\ UNCHANGED <<netVars, proc, safemode, files, ioDir, burning>>

\* $(cat io_limited/cgroup.procs): the list is read before the loop starts.
IoList(s) ==
    /\ Exec(s, "io-list")
    /\ todo' = [todo EXCEPT ![s] =
                   <<Do("io-leave", limited[here[s]], 0)>> \o Tail(@)]
    /\ UNCHANGED <<netVars, hostVars>>

\* ... echo $pid > cgroup.procs for every pid of the list
IoLeave(s) ==
    /\ Exec(s, "io-leave") /\ Pop(s)
    /\ limited' = [limited EXCEPT ![here[s]] = @ \ What(s)]
    /\ UNCHANGED <<netVars, proc, safemode, files, ioDir, burning>>

\* rmdir io_limited || true: refused while a process is inside.
IoRmdir(s) ==
    /\ Exec(s, "io-rmdir") /\ Pop(s)
    /\ ioDir' = [ioDir EXCEPT ![here[s]] = IF limited[here[s]] = {} THEN "absent" ELSE @]
    /\ UNCHANGED <<netVars, proc, safemode, files, limited, burning>>

\* inject_cpu_stress: g_stress_running = 1, pthread_create ...
Burn(s) ==
    /\ Exec(s, "burn") /\ Pop(s)
    /\ burning' = [burning EXCEPT ![here[s]] = @ \cup {s}]
    /\ UNCHANGED <<netVars, proc, safemode, files, ioDir, limited>>

\* ... sleep(duration), g_stress_running = 0, pthread_join
Cool(s) ==
    /\ Exec(s, "cool") /\ Pop(s)
    /\ burning' = [burning EXCEPT ![here[s]] = @ \ {s}]
    /\ UNCHANGED <<netVars, proc, safemode, files, ioDir, limited>>

ShellStep(s) ==
    \/ QdiscDel(s) \/ QdiscNetem(s) \/ QdiscPrio(s) \/ QdiscChild(s)
    \/ FilterAdd(s) \/ Drop(s) \/ Flush(s)
    \/ Crash(s) \/ Hang(s) \/ Resume(s) \/ KillTask(s)
    \/ Safemode(s) \/ InterruptSafemode(s) \/ WriteFile(s) \/ RemoveFile(s)
    \/ IoMkdir(s) \/ IoMax(s) \/ IoEnter(s) \/ IoList(s) \/ IoLeave(s) \/ IoRmdir(s)
    \/ Burn(s) \/ Cool(s)
-----------------------------------------------------------------------------
(* Hadoop itself, or its operator, starts a process that is gone; a process *)
(* that one of the limited processes forks is born in their cgroup, and a   *)
(* NameNode that restarts has left the safe mode it was told to enter.      *)
Restart(n, p) ==
    /\ p \in Hosted[n] /\ proc[n][p] = "absent"
    /\ proc' = [proc EXCEPT ![n][p] = "running"]
    /\ \/ UNCHANGED limited
       \/ limited[n] # {} /\ limited' = [limited EXCEPT ![n] = @ \cup {p}]
    /\ safemode' = (safemode /\ p[1] # "nn")
    /\ steady' = [s \in Sessions |-> FALSE]
    /\ UNCHANGED <<netVars, files, ioDir, burning,
                   running, legs, here, todo, alone, missed, asked>>

SessionStep(s) ==
    EnterLeg(s) \/ MissLeg(s) \/ ShellStep(s) \/ LeaveLeg(s) \/ Finish(s)

Next ==
    \/ \E s \in Sessions, c \in Commands : Start(s, c)
    \/ \E s \in Sessions : SessionStep(s)
    \/ \E n \in Nodes : \E p \in Hosted[n] : Restart(n, p)

Spec == Init /\ [][Next]_vars

\* The operating system schedules every process that can run, TCP gives up on
\* a dead connection, and sleep returns.  Nobody has to enter a command, to
\* resume a NameNode or to interrupt a command that waits for it.
FairSpec ==
    Spec /\ \A s \in Sessions : WF_vars(SessionStep(s) /\ ~AwaitsNameNode(s))
-----------------------------------------------------------------------------
(* Properties *)

Kinds == {"delay", "loss", "reorder"}
Rules == {"INPUT", "OUTPUT"} \X ({"dport", "sport"} \cup Targets) \X Nat
States == {"running", "stopped", "absent"}

Qdisc == [root  : {"none", "prio", "netem"}, kind : Kinds \cup {"none"},
          amt   : Nat, flows : SUBSET Targets]

\* A shell command with the operands it has.
Step ==
    [op : {"drop"}, what : Rules, amt : {0}] \cup
    [op : {"qdisc-netem", "qdisc-child"}, what : Kinds, amt : Nat] \cup
    [op : {"filter"}, what : Targets, amt : {0}] \cup
    [op : {"write", "rm"}, what : FileNames, amt : {0}] \cup
    [op : {"io-leave"}, what : SUBSET Processes, amt : {0}] \cup
    [op : SignalOps \cup {"kill-task"}, what : Targets, amt : {0}] \cup
    [op : {"qdisc-del", "qdisc-prio", "flush", "io-mkdir", "io-max",
           "io-enter", "io-list", "io-rmdir", "burn", "cool"}, what : {None}, amt : {0}] \cup
    [op : {"safemode"}, what : {None}, amt : Nat]

NetType ==
    /\ qdisc    \in [Nodes -> Qdisc]
    /\ drops    \in [Nodes -> SUBSET Rules]

HostType ==
    /\ proc     \in [Nodes -> UNION {[Hosted[n] -> States] : n \in Nodes}]
    /\ \A n \in Nodes : proc[n] \in [Hosted[n] -> States]
    /\ safemode \in BOOLEAN
    /\ files    \in [Nodes -> SUBSET FileNames]
    /\ ioDir    \in [Nodes -> {"absent", "plain", "slow"}]
    /\ limited  \in [Nodes -> SUBSET Processes]
    /\ burning  \in [Nodes -> SUBSET Sessions]

CliType ==
    /\ running  \in [Sessions -> Commands \cup {None}]
    /\ legs     \in [Sessions -> Seq(Nodes)]
    /\ here     \in [Sessions -> Nodes \cup {None}]
    /\ todo     \in [Sessions -> Seq(Step)]
    /\ alone    \in [Sessions -> BOOLEAN]
    /\ steady   \in [Sessions -> BOOLEAN]
    /\ missed   \in [Sessions -> SUBSET Slaves]
    /\ asked    \in [Slaves -> SUBSET Qdisc]

\* The type of every variable (state kept by hadoop_injector.c and its nodes).
TypeOK == NetType /\ HostType /\ CliType

\* A command that asks for what is found on a slave.
Asks(c, n, ops) == c.target = n /\ c.op \in ops

\* No command that may be entered names the ssh port, or a total loss, on n.
SshSafe(n) ==
    \A c \in Commands :
        /\ Asks(c, n, {"isolate"}) => c.amount # 22
        /\ Asks(c, n, {"loss"}) => c.amount < 100

\* As long as no command names the ssh port or a loss of 100% on a slave,
\* whatever is injected, cleared or interrupted, in whatever order, there and
\* elsewhere, the master can still reach that slave: isolation without a port
\* keeps ssh, and every shaping replaces the one before.
SlavesReachable == \A n \in Slaves : SshSafe(n) => Reachable(n)

KindOps(kind) == IF kind = "delay" THEN {"delay", "heartbeat"} ELSE {kind}

Aimed(n) ==
    /\ qdisc[n] # NoQdisc =>
          /\ qdisc[n].root = "netem" /\ qdisc[n].flows = {}
          /\ \E c \in Commands : /\ Asks(c, n, KindOps(qdisc[n].kind))
                                 /\ c.amount = qdisc[n].amt /\ c.amount > 0
    /\ drops[n] # {} => \E c \in Commands : Asks(c, n, {"isolate"})
    /\ "disk_hog" \in files[n] => \E c \in Commands : Asks(c, n, FillOps)
    /\ "hadoop_mem_stress" \in files[n] =>
          \E c \in Commands : Asks(c, n, {"mem-stress"}) /\ c.amount > 0
    /\ "yarn_node_health_check" \in files[n] =>
          \E c \in Commands : Asks(c, n, {"yarn-unhealthy"}) /\ c.amount = 1
    /\ ioDir[n] # "absent" \/ limited[n] # {} =>
          \E c \in Commands : Asks(c, n, {"io-slow"}) /\ c.amount > 0

\* Blast radius: whatever shapes or filters the traffic of a slave, fills its
\* disk, marks it unhealthy or throttles it was asked for that very slave;
\* the shaping has the kind and amount of one command (never a blend of two)
\* and takes the whole NIC.
FaultsAreAimed == \A n \in Slaves : Aimed(n)

\* However the shaping commands of several invocations interleave on a slave
\* (each deletes the root, then adds its own), when all that are there have run
\* their commands, the slave has what one of those that overlapped was to leave:
\* no blend, nothing from before, and a bare NIC only if one was to clear it.
RacesLeaveOneShaping ==
    \A n \in Slaves :
        LET shapers == {s \in Sessions : Shaping(s, n)} IN
        shapers # {} /\ (\A s \in shapers : todo[s] = <<>>) => qdisc[n] \in asked[n]

\* Session s has run its last leg and is about to report.
Done(s) == ~Idle(s) /\ here[s] = None /\ legs[s] = <<>>

Swept(c, n) ==
    /\ c.op \in ShapeClears        => qdisc[n] = NoQdisc
    /\ c.op = "isolate-clear"      => drops[n] = {}
    /\ c.op = "mem-stress-clear"   => "hadoop_mem_stress" \notin files[n]
    /\ c.op = "disk-fill-clear"    => "disk_hog" \notin files[n]

\* A clear command that ran alone leaves nothing of its kind on the master or
\* on any slave that its ssh calls reached.
ClearSweeps ==
    \A s \in Sessions :
        Done(s) /\ alone[s] => \A n \in Nodes \ missed[s] : Swept(running[s], n)

\* What the command c, aimed at slave n, is meant to leave there.
InEffect(c, n) ==
    /\ c.op \in ShapeOps => qdisc[n] = Wanted(c)
    /\ c.op = "isolate" /\ c.amount > 0 =>
          {<<"INPUT", "dport", c.amount>>, <<"OUTPUT", "sport", c.amount>>}
             \subseteq drops[n]
    /\ c.op = "yarn-unhealthy" =>
          ("yarn_node_health_check" \in files[n] <=> c.amount = 1)
    /\ c.op = "mem-stress" =>
          ("hadoop_mem_stress" \in files[n] <=> c.amount > 0)

\* An injection that ran alone and reached its slave is in effect there when
\* it reports, whatever shaping or file it found.
InjectionTakesEffect ==
    \A s \in Sessions :
        /\ Done(s) /\ alone[s] /\ missed[s] = {}
        /\ running[s].target \in Slaves
        => InEffect(running[s], running[s].target)

\* What the command c is meant to do to the processes, the cgroup and the safe
\* mode of the nodes it is for.
HostEffect(c) ==
    /\ \A n \in {Legs(c)[i] : i \in DOMAIN Legs(c)} :
          LET found == find_hadoop_pid(n, c.target) \cap Alive(n) IN
          /\ c.op = "hang" /\ found # {} => \E p \in found : proc[n][p] = "stopped"
          /\ c.op = "crash" /\ Cardinality(find_hadoop_pid(n, c.target)) = 1 =>
                found = {}
          /\ c.op = "crash-map" =>
                \A p \in Alive(n) : p[1] = "map" =>
                    \E q \in Hosted[n] : q[1] = "map" /\ q # p
          /\ c.op = "io-slow" =>
                IF c.amount > 0 THEN ioDir[n] = "slow" /\ Alive(n) \subseteq limited[n]
                                ELSE ioDir[n] = "absent" /\ limited[n] = {}
    /\ c.op = "hdfs-safe" /\ NameNodeIs("running") => safemode = (c.amount = 1)
    /\ c.target \in Slaves => InEffect(c, c.target)

\* A hang, a crash, an I/O throttle, a health file or a change of the safe mode
\* that ran alone, reached its nodes and met no restart is in effect when it
\* reports, whatever the invocations before it have left half done.
HostFaultsTakeEffect ==
    \A s \in Sessions :
        Done(s) /\ steady[s] /\ missed[s] = {} => HostEffect(running[s])

\* resume: when a resume that ran alone reports, no process of the component
\* is left stopped on a node that it reached.
ResumeWakesAll ==
    \A s \in Sessions :
        (Done(s) /\ alone[s] /\ running[s].op = "resume") =>
            \A n \in Nodes \ missed[s] :
                \A p \in {q \in Hosted[n] : q[1] = running[s].target} :
                    proc[n][p] # "stopped"

\* Every invocation ends, whatever it has cut off on its way, unless a hung
\* NameNode keeps its safe mode command waiting: nothing else blocks it.
EveryInvocationEnds ==
    \A s \in Sessions : ~Idle(s) ~> (Idle(s) \/ AwaitsNameNode(s))
=============================================================================
