------------------------- MODULE CloudStackInjector -------------------------
(***************************************************************************)
(* kvm_injection/cloudstack-fi/cloudstack_injector.c: the command-line     *)
(* injector of the CloudStack management host.  One invocation (a runner)  *)
(* executes its command as a script of shell commands and system calls on  *)
(* what every invocation shares: the root qdisc, the packet filter, the    *)
(* services, the system virtual machines, the database and the storage.    *)
(* Commands that only print, and db-lock, have an empty script: the client *)
(* that db-lock starts in background ends at once and its lock with it.    *)
(***************************************************************************)
EXTENDS Integers, Sequences, FiniteSets

CONSTANTS
    Runners,    \* invocations that may be in flight at the same time
    Addresses,  \* the addresses that are isolated
    SystemVMs,  \* the system virtual machines, in the order virsh lists them
    StorageServer,  \* the NFS server of the storage mount, None for a local disk
    MaxRuns,    \* bound: invocations in a behaviour
    None        \* "no command", "no address"

SystemVMNames == {SystemVMs[i] : i \in DOMAIN SystemVMs}

ASSUME Bounds ==
    /\ MaxRuns \in Nat /\ None \notin Addresses /\ SystemVMs \in Seq(SystemVMNames)
    /\ StorageServer \in Addresses \cup {None}

Services == {"ms", "agent", "usage", "mysql", "nfs", "libvirt"}
AgentPort == 8250
Ports == {0, 8080, AgentPort}   \* 0 stands for a rule without a port
Rules == {"INPUT", "OUTPUT"} \X (Addresses \cup {None}) \X Ports

VARIABLES
    qdisc,      \* the traffic control tree of the default NIC
    rules,      \* rules[r]: how often the DROP rule r is in the packet filter
    svc,        \* svc[s]: the state of a service process
    vms,        \* the active system virtual machines, in virsh's order
    dbMax,      \* max_connections of MySQL
    mount,      \* the storage mount: read-write, read-only or gone
    fill,       \* where copies of cs_storage_fill are: "export", "local"
    ballast,    \* /tmp/cs_mem_stress: its dd is to start, or it is there
    burning,    \* the runners whose CPU workers run
    running,    \* running[r]: the command r executes
    todo,       \* todo[r]: the shell commands it has left
    left,       \* invocations that may still be started (bound)
    alone       \* history: no other runner has run since r started

hostVars == <<svc, vms, dbMax, mount, fill, ballast, burning>>
netVars  == <<qdisc, rules>>
cliVars  == <<running, left, alone>>
csVars   == <<netVars, hostVars, cliVars, todo>>

NoQdisc == [root |-> "none", kind |-> "none", filter |-> FALSE]

CsInit ==
    /\ qdisc   = NoQdisc
    /\ rules   = [r \in Rules |-> 0]
    /\ svc     = [s \in Services |-> "running"]
    /\ vms     = [i \in DOMAIN SystemVMs |-> [name |-> SystemVMs[i], paused |-> FALSE]]
    /\ dbMax   = 151
    /\ mount   = "rw"
    /\ fill    = {}
    /\ ballast = {}
    /\ burning = {}
    /\ running = [r \in Runners |-> None]
    /\ todo    = [r \in Runners |-> <<>>]
    /\ left    = MaxRuns
    /\ alone   = [r \in Runners |-> FALSE]
-----------------------------------------------------------------------------
(* Scripts, one operator per C function                                    *)

Do(op, what) == [op |-> op, what |-> what]

\* Variants named <definition>_<fault> are plausible bugs: see PROJECT.json.
inject_api_fault_NoDelete(action) ==
    IF action = 0 THEN <<Do("qdisc-del", None)>>
    ELSE <<Do("prio", None), Do("child", "delay"), Do("filter", None)>>

inject_api_fault(action) ==
    <<Do("qdisc-del", None)>> \o
    IF action = 0 THEN <<>>
    ELSE <<Do("prio", None), Do("child", "delay"), Do("filter", None)>>

inject_cs_network_fault(ip, port, action) ==
    IF action = 0
    THEN <<Do("delete", <<"INPUT", ip, 0>>), Do("delete", <<"OUTPUT", ip, 0>>)>>
    ELSE <<Do("append", <<"INPUT", ip, port>>), Do("append", <<"OUTPUT", ip, port>>)>>

inject_agent_fault(type, ip) ==
    <<Do(IF type = 1 THEN "append" ELSE "delete", <<"OUTPUT", ip, AgentPort>>)>>

inject_db_fault(limit) == <<Do("sql", limit)>>

inject_cs_cpu_stress_NoJoin == <<Do("burn", None)>>

inject_cs_cpu_stress == <<Do("burn", None), Do("cool", None)>>

inject_cs_memory_stress(mb) == <<Do(IF mb <= 0 THEN "rm" ELSE "dd", None)>>

\* vm-create-fail passes no target and injects nothing; vm-migrate-fail does
\* not remove the root qdisc it may find.
inject_vm_operation_fault(type) ==
    CASE type = 1 -> <<>>
      [] type = 2 -> <<Do("netem", "delay-loss")>>
      [] type = 3 -> <<Do("qdisc-del", None)>>

CsCommand(op, arg, port) == [op |-> op, arg |-> arg, port |-> port]

\* The arguments main() accepts (those of the other commands do not matter).
CsArgument(op) ==
    CASE op \in {"crash", "hang", "resume"} -> Services
      [] op \in {"network", "network-clear"} -> Addresses
      [] op \in {"agent-disconnect", "agent-reconnect"} -> Addresses \cup {None}
      [] OTHER -> {None}

CsScript(c) ==
    CASE c.op \in {"crash", "hang", "resume"}  -> <<Do(c.op, c.arg)>>
      [] c.op \in {"sysvm-crash", "sysvm-hang", "sysvm-resume"}
                                   -> <<Do("virsh", c.op)>>
      [] c.op = "api-delay"        -> inject_api_fault(1)
      [] c.op = "api-delay-clear"  -> inject_api_fault(0)
      [] c.op = "network"          -> inject_cs_network_fault(c.arg, c.port, 1)
      [] c.op = "network-clear"    -> inject_cs_network_fault(c.arg, 0, 0)
      [] c.op = "agent-disconnect" -> inject_agent_fault(1, c.arg)
      [] c.op = "agent-reconnect"  -> inject_agent_fault(2, c.arg)
      [] c.op = "db-limit"         -> inject_db_fault(5)
      [] c.op = "db-restore"       -> inject_db_fault(151)
      [] c.op = "db-unlock"        -> inject_db_fault(0)
      [] c.op \in {"storage-umount", "storage-ro", "storage-rw",
                   "storage-fill", "storage-clean"} -> <<Do(c.op, None)>>
      [] c.op = "cpu-stress"       -> inject_cs_cpu_stress
      [] c.op = "mem-stress"       -> inject_cs_memory_stress(1)
      [] c.op = "mem-stress-clear" -> inject_cs_memory_stress(0)
      [] c.op = "vm-create-fail"   -> inject_vm_operation_fault(1)
      [] c.op = "vm-migrate-fail"  -> inject_vm_operation_fault(2)
      [] c.op = "vm-op-clear"      -> inject_vm_operation_fault(3)
      [] OTHER                     -> <<>>
-----------------------------------------------------------------------------
Idle(r) == running[r] = None

\* A runner starts the command c, whose script is given.
Begin(r, c, script) ==
    /\ Idle(r) /\ left > 0
    /\ left'    = left - 1
    /\ running' = [running EXCEPT ![r] = c]
    /\ todo'    = [todo EXCEPT ![r] = script]
    /\ alone'   = [q \in Runners |-> q = r /\ \A p \in Runners : Idle(p)]
    /\ UNCHANGED <<netVars, hostVars>>

Done(r) == ~Idle(r) /\ todo[r] = <<>>

Finish(r) ==
    /\ Done(r)
    /\ running' = [running EXCEPT ![r] = None]
    /\ alone'   = [alone EXCEPT ![r] = FALSE]
    /\ UNCHANGED <<netVars, hostVars, todo, left>>

\* No rule drops every packet from or to the address.
Answers(a) == rules[<<"INPUT", a, 0>>] + rules[<<"OUTPUT", a, 0>>] = 0

\* dd, rm and remount work on the mount; umount -l does not wait for its server.
OnMount == {"storage-ro", "storage-rw", "storage-fill", "storage-clean"}

\* The command of r waits, without a timeout, for an answer that does not come.
CsAwaits(r) ==
    /\ todo[r] # <<>>
    /\ LET op == Head(todo[r]).op IN
       \/ op = "virsh" /\ svc["libvirt"] = "stopped"
       \/ op = "sql" /\ svc["mysql"] = "stopped"
       \/ op \in OnMount /\ mount # "gone" /\ StorageServer # None /\ ~ Answers(StorageServer)

\* The common part of a step of runner r that executes a command named op.
Exec(r, op) ==
    /\ todo[r] # <<>> /\ Head(todo[r]).op = op
    /\ UNCHANGED cliVars
What(r) == Head(todo[r]).what
Pop(r)  == todo' = [todo EXCEPT ![r] = Tail(@)]

\* tc: an add is refused when something is already there; a filter that is
\* refused makes api-delay shape the whole NIC instead.
QdiscDel(r) ==
    /\ Exec(r, "qdisc-del") /\ Pop(r)
    /\ qdisc' = NoQdisc
    /\ UNCHANGED <<rules, hostVars>>

QdiscNetem(r) ==
    /\ Exec(r, "netem") /\ Pop(r)
    /\ qdisc' = IF qdisc.root # "none" THEN qdisc
                ELSE [NoQdisc EXCEPT !.root = "netem", !.kind = What(r)]
    /\ UNCHANGED <<rules, hostVars>>

QdiscPrio(r) ==
    /\ Exec(r, "prio") /\ Pop(r)
    /\ qdisc' = IF qdisc.root # "none" THEN qdisc
                ELSE [NoQdisc EXCEPT !.root = "prio"]
    /\ UNCHANGED <<rules, hostVars>>

QdiscChild(r) ==
    /\ Exec(r, "child") /\ Pop(r)
    /\ qdisc' = IF qdisc.root = "prio" /\ qdisc.kind = "none"
                THEN [qdisc EXCEPT !.kind = What(r)] ELSE qdisc
    /\ UNCHANGED <<rules, hostVars>>

FilterAdd(r) ==
    /\ Exec(r, "filter")
    /\ \/ /\ qdisc.root = "prio"
          /\ qdisc' = [qdisc EXCEPT !.filter = TRUE]
          /\ Pop(r)
       \/ /\ qdisc.root # "prio"
          /\ todo' = [todo EXCEPT ![r] = <<Do("netem", "delay")>> \o Tail(@)]
          /\ UNCHANGED qdisc
    /\ UNCHANGED <<rules, hostVars>>

\* iptables -A, -D (the first rule that matches, if any) and -F
AddRule(r) ==
    /\ Exec(r, "append") /\ Pop(r)
    /\ rules' = [rules EXCEPT ![What(r)] = @ + 1]
    /\ UNCHANGED <<qdisc, hostVars>>

DeleteRule(r) ==
    /\ Exec(r, "delete") /\ Pop(r)
    /\ rules' = [rules EXCEPT ![What(r)] = IF @ = 0 THEN 0 ELSE @ - 1]
    /\ UNCHANGED <<qdisc, hostVars>>

Flush(r) ==
    /\ Exec(r, "flush") /\ Pop(r)
    /\ rules' = [u \in Rules |-> IF u[1] = What(r) THEN 0 ELSE rules[u]]
    /\ UNCHANGED <<qdisc, hostVars>>

\* find_cs_pid, then kill: when the service is not there, the shell of pgrep
\* itself is found, is gone when the signal is sent, and nothing happens.
SignalService(r) ==
    /\ \E op \in {"crash", "hang", "resume"} :
         /\ Exec(r, op)
         /\ svc' = [svc EXCEPT ![What(r)] =
                       IF @ = "absent" THEN @
                       ELSE CASE op = "crash"  -> "absent"
                              [] op = "hang"   -> "stopped"
                              [] op = "resume" -> "running"]
    /\ Pop(r)
    /\ UNCHANGED <<netVars, vms, dbMax, mount, fill, ballast, burning>>

\* virsh list | grep | head -n 1: the first active one, of whatever type; virsh
\* waits for a libvirtd that hangs and fails at once when there is none.
Virsh(r) ==
    /\ Exec(r, "virsh") /\ Pop(r) /\ ~ CsAwaits(r)
    /\ vms' = IF svc["libvirt"] = "absent" \/ vms = <<>> THEN vms
              ELSE IF What(r) = "sysvm-crash" THEN Tail(vms)
              ELSE [vms EXCEPT ![1].paused = (What(r) = "sysvm-hang")]
    /\ UNCHANGED <<netVars, svc, dbMax, mount, fill, ballast, burning>>

Sql_WaitsForServer(r) ==
    /\ Exec(r, "sql") /\ Pop(r)
    /\ svc["mysql"] = "running"
    /\ dbMax' = IF What(r) > 0 THEN What(r) ELSE dbMax
    /\ UNCHANGED <<netVars, svc, vms, mount, fill, ballast, burning>>

\* mysql -e "...": waits for a mysqld that hangs, fails when there is none.
\* UNLOCK TABLES (0) unlocks what its own new session holds: nothing.
Sql(r) ==
    /\ Exec(r, "sql") /\ Pop(r) /\ ~ CsAwaits(r)
    /\ dbMax' = IF svc["mysql"] = "running" /\ What(r) > 0 THEN What(r) ELSE dbMax
    /\ UNCHANGED <<netVars, svc, vms, mount, fill, ballast, burning>>

\* umount -l, mount -o remount and the ballast file, which lands on the local
\* disk below a mount point that is gone and cannot be touched read-only.
Storage(r) ==
    /\ ~ CsAwaits(r)
    /\ \/ Exec(r, "storage-umount") /\ mount' = "gone" /\ UNCHANGED fill
       \/ /\ Exec(r, "storage-ro") /\ UNCHANGED fill
          /\ mount' = IF mount = "gone" THEN "gone" ELSE "ro"
       \/ /\ Exec(r, "storage-rw") /\ UNCHANGED fill
          /\ mount' = IF mount = "gone" THEN "gone" ELSE "rw"
       \/ /\ Exec(r, "storage-fill") /\ UNCHANGED mount
          /\ fill' = CASE mount = "rw"   -> fill \cup {"export"}
                       [] mount = "ro"   -> fill
                       [] mount = "gone" -> fill \cup {"local"}
       \/ /\ Exec(r, "storage-clean") /\ UNCHANGED mount
          /\ fill' = CASE mount = "rw"   -> fill \ {"export"}
                       [] mount = "ro"   -> fill
                       [] mount = "gone" -> fill \ {"local"}
    /\ Pop(r)
    /\ UNCHANGED <<netVars, svc, vms, dbMax, ballast, burning>>

\* dd ... && cat ... &: the shell returns before dd has opened the file.
StartBallast(r) ==
    /\ Exec(r, "dd") /\ Pop(r)
    /\ ballast' = ballast \cup {"starting"}
    /\ UNCHANGED <<netVars, svc, vms, dbMax, mount, fill, burning>>

RemoveBallast(r) ==
    /\ Exec(r, "rm") /\ Pop(r)
    /\ ballast' = ballast \ {"file"}
    /\ UNCHANGED <<netVars, svc, vms, dbMax, mount, fill, burning>>

\* cs_cpu_stress_worker until g_stress_running falls
Burn(r) ==
    /\ Exec(r, "burn") /\ Pop(r)
    /\ burning' = burning \cup {r}
    /\ UNCHANGED <<netVars, svc, vms, dbMax, mount, fill, ballast>>

Cool(r) ==
    /\ Exec(r, "cool") /\ Pop(r)
    /\ burning' = burning \ {r}
    /\ UNCHANGED <<netVars, svc, vms, dbMax, mount, fill, ballast>>

ShellStep(r) ==
    \/ QdiscDel(r) \/ QdiscNetem(r) \/ QdiscPrio(r) \/ QdiscChild(r)
    \/ FilterAdd(r) \/ AddRule(r) \/ DeleteRule(r) \/ Flush(r)
    \/ SignalService(r) \/ Virsh(r) \/ Sql(r) \/ Storage(r)
    \/ StartBallast(r) \/ RemoveBallast(r) \/ Burn(r) \/ Cool(r)

\* The dd in background opens its file.
OpenBallast ==
    /\ "starting" \in ballast
    /\ ballast' = {"file"}
    /\ UNCHANGED <<netVars, cliVars, todo, svc, vms, dbMax, mount, fill, burning>>

\* systemd or the operator starts a service; mysqld reads its own limit again.
RestartService(s) ==
    /\ svc[s] = "absent"
    /\ svc' = [svc EXCEPT ![s] = "running"]
    /\ dbMax' = IF s = "mysql" THEN 151 ELSE dbMax
    /\ UNCHANGED <<netVars, cliVars, todo, vms, mount, fill, ballast, burning>>

CsEnvironment == OpenBallast \/ \E s \in Services : RestartService(s)
-----------------------------------------------------------------------------
(* Properties *)

CsTypeOK ==
    /\ qdisc \in [root : {"none", "prio", "netem"}, filter : BOOLEAN,
                  kind : {"none", "delay", "delay-loss", "loss"}]
    /\ rules \in [Rules -> Nat]
    /\ svc \in [Services -> {"running", "stopped", "absent"}]
    /\ vms \in Seq([name : SystemVMNames, paused : BOOLEAN])
    /\ dbMax \in {5, 151} /\ mount \in {"rw", "ro", "gone"}
    /\ fill \subseteq {"export", "local"} /\ ballast \subseteq {"starting", "file"}
    /\ burning \subseteq {r \in Runners : ~Idle(r)}
    /\ left \in 0..MaxRuns /\ alone \in [Runners -> BOOLEAN]

\* api-delay and network, each run alone, are in effect when they report,
\* whatever shaping they found: the delay sits behind the filter on port 8080
\* (the responses of the API) and both directions of the address are dropped.
CsInjectionTakesEffect ==
    \A r \in Runners : Done(r) /\ alone[r] =>
        /\ running[r].op = "api-delay" =>
              qdisc = [root |-> "prio", kind |-> "delay", filter |-> TRUE]
        /\ running[r].op = "network" =>
              \A chain \in {"INPUT", "OUTPUT"} :
                  rules[<<chain, running[r].arg, running[r].port>>] > 0
=============================================================================
