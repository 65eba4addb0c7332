-------------------------- MODULE ClusterController -------------------------
(***************************************************************************)
(* kvm_injection/cluster_controller.c: the menu on the Hadoop master that  *)
(* runs the other tools one after the other, and its "recover all".  The   *)
(* tools it calls act on what CloudStackInjector describes, on the Hadoop  *)
(* daemons of the cluster (hadoop_injector, over ssh for the slaves) and   *)
(* on a virtual machine (process_injector, network_injector).  Meanwhile   *)
(* shells run cloudstack_injector and kvm_injection/cluster_manage.sh.     *)
(***************************************************************************)
EXTENDS CloudStackInjector

CONSTANTS
    Slaves,     \* the slaves, all of them addresses
    Controller, \* the runner that is the menu; the others are shells
    Menu,       \* the choices that may be made in the menu
    Commands    \* the command lines that may be entered in a shell

ASSUME Cluster == Slaves \subseteq Addresses /\ Controller \in Runners

Master  == "master"
Components == {"nn", "snn", "rm", "dn", "nm"}
Daemons == ({"nn", "snn", "rm"} \X {Master}) \cup ({"dn", "nm"} \X Slaves)

VARIABLES
    daemon,     \* daemon[d]: the state of a Hadoop daemon
    qemu,       \* the state of the virtual machine's process
    safemode    \* the NameNode is in safe mode

clusterVars == <<daemon, qemu, safemode>>
vars == <<csVars, clusterVars>>

Init ==
    /\ CsInit
    /\ daemon = [d \in Daemons |-> "running"]
    /\ qemu = "running"
    /\ safemode = FALSE
-----------------------------------------------------------------------------
(* What the tools run                                                      *)

\* network_injector <type>: replaces the root qdisc, flushes OUTPUT.
network_injector(kind) ==
    <<Do("qdisc-del", None), Do("flush", "OUTPUT")>> \o
    IF kind = "none" THEN <<>> ELSE <<Do("netem", kind)>>

\* hadoop_injector crash|hang|resume <component>: one leg for every host.
hadoop_injector(op, comp) == <<Do("hadoop", <<op, comp>>)>>

ClearAll_ResumeFirst ==
    hadoop_injector("resume", "nn") \o hadoop_injector("resume", "dn")
    \o hadoop_injector("resume", "rm") \o hadoop_injector("resume", "nm")
    \o network_injector("none") \o <<Do("flush", "INPUT"), Do("flush", "OUTPUT")>>
    \o <<Do("resume", "ms"), Do("resume", "agent")>>
    \o inject_api_fault(0) \o inject_db_fault(151)

\* clear_all_faults (the file it removes at its end is written by no command)
ClearAll ==
    network_injector("none") \o <<Do("flush", "INPUT"), Do("flush", "OUTPUT")>>
    \o hadoop_injector("resume", "nn") \o hadoop_injector("resume", "dn")
    \o hadoop_injector("resume", "rm") \o hadoop_injector("resume", "nm")
    \o <<Do("resume", "ms"), Do("resume", "agent")>>
    \o inject_api_fault(0) \o inject_db_fault(151)

Cascade_KeepsDelay ==
    network_injector("delay") \o hadoop_injector("hang", "dn")
    \o hadoop_injector("resume", "dn")

\* run_fault_scenario(4): delay, hang, wait, and undo both
Cascade ==
    network_injector("delay") \o hadoop_injector("hang", "dn")
    \o hadoop_injector("resume", "dn") \o network_injector("none")

\* inject_vm_fault, inject_hadoop_fault, inject_cloudstack_fault (its choices
\* are command lines of cloudstack_injector) and run_fault_scenario.  The
\* `network' and `network-clear' of the Hadoop menu and of scenario 2 are
\* unknown to hadoop_injector, which prints its usage.
MenuScript(c) ==
    CASE c.op = "qemu"          -> <<Do("qemu", c.arg)>>
      [] c.op = "vm-network"    -> network_injector(c.arg)
      [] c.op = "hadoop-crash"  -> hadoop_injector("crash", c.arg)
      [] c.op = "hadoop-hang"   -> hadoop_injector("hang", c.arg)
      [] c.op = "hadoop-resume" -> hadoop_injector("resume", c.arg)
      [] c.op = "hdfs-safe"     -> <<Do("safemode", c.arg)>>
      [] c.op \in {"hadoop-network", "hadoop-network-clear", "partition"} -> <<>>
      [] c.op = "cascade"       -> Cascade
      [] c.op = "exhaust"       -> inject_cs_cpu_stress   \* cpu_injector 0 <s> 4
      [] c.op = "recover-all"   -> ClearAll
      [] OTHER                  -> CsScript(c)

\* cluster_manage.sh; arg is an address, or <<host, component>>.
ManageScript(c) ==
    CASE c.op = "inject-network" -> inject_cs_network_fault(c.arg, 0, 1)
      [] c.op = "clear-network"  -> IF c.arg = None
                                    THEN <<Do("flush", "INPUT"), Do("flush", "OUTPUT")>>
                                    ELSE inject_cs_network_fault(c.arg, 0, 0)
      [] c.op = "inject-delay"   -> <<Do("qdisc-del", None), Do("netem", "delay")>>
      [] c.op = "clear-delay"    -> <<Do("qdisc-del", None)>>
      [] c.op = "inject-crash"   -> <<Do("manage", <<"crash", c.arg>>)>>
      [] c.op = "inject-hang"    -> <<Do("manage", <<"hang", c.arg>>)>>
      [] c.op = "resume-process" -> <<Do("manage", <<"resume", c.arg>>)>>
      [] c.op = "start"          -> <<Do("start", {"nn", "snn", "dn"}),
                                      Do("start", {"rm", "nm"})>>
      [] c.op = "stop"           -> <<Do("stop", {"rm", "nm"}),
                                      Do("stop", {"nn", "snn", "dn"})>>
      [] OTHER                   -> CsScript(c)

Signals == {"crash", "hang", "resume"}

\* The arguments of the choices of the menu and of the command lines.
MenuArgument(op) ==
    CASE op = "qemu" -> Signals
      [] op = "vm-network" -> {"none", "delay", "loss"}
      [] op \in {"hadoop-crash", "hadoop-hang", "hadoop-resume"} -> Components
      [] op = "hdfs-safe" -> {"enter", "leave"}
      [] op \in {"hadoop-network", "hadoop-network-clear", "partition"} -> Addresses
      [] OTHER -> CsArgument(op)

ManageArgument(op) ==
    CASE op = "inject-network" -> Addresses
      [] op = "clear-network"  -> Addresses \cup {None}
      [] op \in {"inject-crash", "inject-hang", "resume-process"}
                               -> ({Master} \cup Slaves) \X Components
      [] OTHER -> CsArgument(op)

ASSUME CommandLines ==
    /\ None \notin Menu \cup Commands
    /\ \A c \in Menu : c.arg \in MenuArgument(c.op) /\ c.port \in Ports
    /\ \A c \in Commands : c.arg \in ManageArgument(c.op) /\ c.port \in Ports
-----------------------------------------------------------------------------
\* ssh reaches the host: no rule drops all its packets.
Reachable(n) ==
    n = Master \/ Answers(n)

After(op, state) ==
    IF state = "absent" THEN "absent"
    ELSE CASE op = "crash"  -> "absent"
           [] op = "hang"   -> "stopped"
           [] op = "resume" -> "running"

\* hadoop_injector: on every host of the component that ssh reaches
HadoopSignal(r) ==
    /\ Exec(r, "hadoop")
    /\ daemon' = [d \in Daemons |->
           IF d[1] = What(r)[2] /\ Reachable(d[2]) THEN After(What(r)[1], daemon[d])
           ELSE daemon[d]]
    /\ Pop(r)
    /\ UNCHANGED <<netVars, hostVars, qemu, safemode>>

\* cluster_manage.sh looks for the name with grep, takes the first process
\* that matches, and "NameNode" matches "SecondaryNameNode" too.
ManageSignal(r) ==
    /\ Exec(r, "manage")
    /\ LET op   == What(r)[1]
           host == What(r)[2][1]
           comp == What(r)[2][2]
           found == {d \in Daemons :
                       /\ d[2] = host /\ daemon[d] # "absent" /\ Reachable(host)
                       /\ d[1] = comp \/ (comp = "nn" /\ d[1] = "snn")} IN
       \/ found = {} /\ UNCHANGED daemon
       \/ \E d \in found : daemon' = [daemon EXCEPT ![d] = After(op, @)]
    /\ Pop(r)
    /\ UNCHANGED <<netVars, hostVars, qemu, safemode>>

\* start-dfs.sh, start-yarn.sh and stop-*.sh: on every host they reach
StartStop(r) ==
    /\ \/ /\ Exec(r, "start")
          /\ daemon' = [d \in Daemons |->
                IF d[1] \in What(r) /\ Reachable(d[2]) /\ daemon[d] = "absent"
                THEN "running" ELSE daemon[d]]
          /\ safemode' = (safemode /\ (daemon[<<"nn", Master>>] # "absent"))
       \/ /\ Exec(r, "stop")
          /\ daemon' = [d \in Daemons |->
                IF d[1] \in What(r) /\ Reachable(d[2]) THEN "absent" ELSE daemon[d]]
          /\ UNCHANGED safemode
    /\ Pop(r)
    /\ UNCHANGED <<netVars, hostVars, qemu>>

\* hdfs dfsadmin, by system(): waits for a NameNode that hangs
AwaitsNameNode(r) ==
    /\ todo[r] # <<>> /\ Head(todo[r]).op = "safemode"
    /\ daemon[<<"nn", Master>>] = "stopped"

\* hdfs dfsadmin -safemode: fails when there is no NameNode
Safemode(r) ==
    /\ Exec(r, "safemode") /\ Pop(r) /\ ~ AwaitsNameNode(r)
    /\ safemode' = IF daemon[<<"nn", Master>>] = "running" THEN What(r) = "enter"
                   ELSE safemode
    /\ UNCHANGED <<netVars, hostVars, daemon, qemu>>

\* process_injector qemu 1|2|3
SignalQemu(r) ==
    /\ Exec(r, "qemu")
    /\ qemu' = After(What(r), qemu)
    /\ Pop(r)
    /\ UNCHANGED <<netVars, hostVars, daemon, safemode>>

ToolStep(r) == \/ HadoopSignal(r) \/ ManageSignal(r) \/ StartStop(r)
               \/ Safemode(r) \/ SignalQemu(r)

RunnerStep(r) ==
    \/ (ShellStep(r) \/ Finish(r)) /\ UNCHANGED clusterVars
    \/ ToolStep(r)

Choose(c) == Begin(Controller, c, MenuScript(c)) /\ UNCHANGED clusterVars

Enter(r, c) ==
    /\ r # Controller
    /\ Begin(r, c, ManageScript(c)) /\ UNCHANGED clusterVars

Next ==
    \/ \E c \in Menu : Choose(c)
    \/ \E r \in Runners, c \in Commands : Enter(r, c)
    \/ \E r \in Runners : RunnerStep(r)
    \/ CsEnvironment /\ UNCHANGED clusterVars

\* Every process that can run is scheduled; nobody has to enter a command.
Spec == Init /\ [][Next]_vars /\ \A r \in Runners : WF_vars(RunnerStep(r))
-----------------------------------------------------------------------------
\* The type of every variable (state the tools of the master change).
TypeOK ==
    /\ CsTypeOK
    /\ daemon \in [Daemons -> {"running", "stopped", "absent"}]
    /\ qemu \in {"running", "stopped", "absent"} /\ safemode \in BOOLEAN

Reports(op) ==
    Done(Controller) /\ alone[Controller] /\ running[Controller].op = op

\* "Recover all", when nothing else ran, leaves no shaping, no packet filter
\* rule, no hung NameNode, ResourceManager, DataNode or NodeManager (on slaves
\* it could not even reach when it started), no hung management server or
\* agent and, if MySQL runs, the standard number of connections.
RecoverAllRestores ==
    Reports("recover-all") =>
        /\ qdisc = NoQdisc /\ \A u \in Rules : rules[u] = 0
        /\ \A d \in Daemons : daemon[d] = "stopped" => d[1] = "snn"
        /\ "stopped" \notin {svc["ms"], svc["agent"]}
        /\ svc["mysql"] = "running" => dbMax = 151

\* The cascading scenario, when nothing else ran, undoes both of its faults.
CascadeUndoesItself ==
    Reports("cascade") =>
        /\ qdisc = NoQdisc
        /\ \A n \in Slaves : Reachable(n) => daemon[<<"dn", n>>] # "stopped"

\* Every invocation ends, or it comes to a command that waits for what does not
\* answer: mysqld, libvirtd or the NameNode, which hang, or the server of the
\* storage, which is isolated.  Nothing else can keep a tool, whatever the
\* others do meanwhile (no call of the tools has a timeout).
WaitsOnlyForTheHung ==
    \A r \in Runners : ~Idle(r) ~> (Idle(r) \/ CsAwaits(r) \/ AwaitsNameNode(r))
=============================================================================
