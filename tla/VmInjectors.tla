----------------------------- MODULE VmInjectors -----------------------------
(***************************************************************************)
(* The tools of vm_injection/ on the host of the virtual machines:         *)
(* network_injector, process_injector and kvm_injector, each a list of     *)
(* shell commands and file writes, and the menu of fault_controller that   *)
(* runs the first two.  A runner is a menu or a shell (the web console is  *)
(* one): it runs one tool at a time, and the runners interleave between    *)
(* any two commands on the one network interface, packet filter, cgroup    *)
(* and set of CPUs of the host.                                            *)
(***************************************************************************)
EXTENDS Integers, Sequences, FiniteSets

CONSTANTS VMs,          \* the processes that can be a target
          CPUs,         \* the CPUs of the host, 0 among them
          Shells,       \* shells and web handlers: any command, any target
          Menus,        \* fault_controller processes
          Named,        \* the target each was given on its command line
          Commands,     \* the command lines of the shells: [op, vm, n] records
          NetTypes,     \* bound: the network faults a menu is asked for
          MaxBusy,      \* bound: the commands that overlap
          HasCgroup,    \* the host has a cgroup CPU controller, v1 or v2
          HasCpulimit,  \* the program cpulimit is installed
          MaxInt,       \* the greatest int, 2^31 - 1
          Nothing       \* stands for a missing target

\* CPUs are numbered from 0.
ASSUME CpuAssumption == IsFiniteSet(CPUs) /\ 0 \in CPUs /\ CPUs = 0 .. Cardinality(CPUs) - 1

ASSUME RunnersAssumption ==
    /\ Shells \cap Menus = {}
    /\ Named \in [Menus -> VMs \cup {Nothing}]
    /\ HasCgroup \in BOOLEAN /\ HasCpulimit \in BOOLEAN

\* The period of the cgroup, and 10% of it, in microseconds.
Period == 100000
Least == 10000

ASSUME IntAssumption == MaxInt \in Nat /\ Period <= MaxInt
Ints == -(MaxInt + 1) .. MaxInt

\* The command lines of the usages: "network" with a type, "process" with a
\* target and an action, the "perf" ones with a target and milliseconds, the
\* "cpu" ones with a number.
Ops == {"network", "process", "perf-delay", "perf-clear", "cpu-offline", "cpu-online", "clear"}
ASSUME CommandLines ==
    /\ NetTypes \subseteq 0 .. 4 /\ Nothing \notin VMs
    /\ \A c \in Commands :
          /\ c.op \in Ops /\ c.n \in Ints
          /\ c.op = "network" => c.n \in 0 .. 4
          /\ c.op = "process" => c.n \in 1 .. 3
          /\ c.op \in {"process", "perf-delay", "perf-clear"} => c.vm \in VMs

VARIABLES qdisc,    \* the root discipline of the interface: 0, or its type
          drops,    \* the ports dropped in the chain OUTPUT
          vm,       \* the state of each target process
          young,    \* targets started after the menus were
          dir,      \* the cgroup qemu_throttle exists
          quota,    \* its quota, in microseconds of a Period
          members,  \* the targets in it
          limited,  \* the targets a cpulimit works on
          online,   \* the CPUs that are online
          todo,     \* what is left of each runner's command
          last,     \* the command it ran last
          state,    \* of each menu: a signal may stop or kill it
          tool,     \* of each runner's tool: so may it be
          target,   \* the current target of each menu
          alone,    \* history: no other command overlapped
          net,      \* history: the last network command, and if it raced
          owed      \* history: targets whose delay nothing undid

runners == <<todo, last, state, tool, target, alone>>
network == <<qdisc, drops>>
throttle == <<dir, quota, members, limited>>
vars == <<runners, network, vm, young, throttle, online, net, owed>>

Runners == Shells \cup Menus
NoCommand == [op |-> "none", vm |-> Nothing, n |-> 0]

-----------------------------------------------------------------------------
(* The tools, as lists of commands *)

\* Mutant: only the discipline is cleared.
inject_network_NoFlush(type) ==
    << [do |-> "qdisc_del"] >> \o
    CASE type = 0 -> <<>>
      [] type = 3 -> << [do |-> "drop"] >>
      [] OTHER    -> << [do |-> "qdisc_add", type |-> type] >>

\* network_injector: clear, then at most one fault, by its type 1 to 4.
inject_network(type) ==
    << [do |-> "qdisc_del"], [do |-> "flush_OUTPUT"] >> \o
    CASE type = 0 -> <<>>
      [] type = 3 -> << [do |-> "drop"] >>
      [] OTHER    -> << [do |-> "qdisc_add", type |-> type] >>

\* process_injector: find the process, then signal what was found.
inject_process(v, action) == << [do |-> "find", vm |-> v, action |-> action] >>

Greatest(a, b) == IF a > b THEN a ELSE b

\* Mutant: the floor of 10% is missing.
Quota_NoFloor(ms) == {Period - ms * 1000}

\* The low bits of a number, as an int.
Wrap(x) == ((x + MaxInt + 1) % (2 * (MaxInt + 1))) - (MaxInt + 1)

\* The quotas a delay of ms may get.  ms * 1000 may overflow: then the build
\* compares what the low bits say with the floor, or, as it may suppose that
\* nothing overflows, takes the floor.
Quota(ms) ==
    {Greatest(Wrap(Period - ms * 1000), Least)} \cup
    (IF ms * 1000 \in Ints /\ Period - ms * 1000 \in Ints THEN {} ELSE {Least})

\* kvm_injector perf-delay and perf-clear: a cgroup, else cpulimit.
inject_performance_fault(v, ms) ==
    IF ms <= 0 THEN << [do |-> "leave", vm |-> v] >>
    ELSE IF HasCgroup
         THEN << [do |-> "mkdir"], [do |-> "quota", vm |-> v, ms |-> ms],
                 [do |-> "enter", vm |-> v], [do |-> "return", vm |-> v] >>
         ELSE << [do |-> "cpulimit", vm |-> v], [do |-> "return", vm |-> v] >>

\* CPU 0 is never taken offline, CPU 1 goes instead.
inject_cpu_hotplug_fault(c, on) ==
    LET cpu == IF c = 0 /\ ~ on THEN 1 ELSE c
    IN  IF cpu \in CPUs \ {0} THEN << [do |-> "cpu", cpu |-> cpu, on |-> on] >> ELSE <<>>

\* Mutant: the last CPU is left out.
CpusOnline_OffByOne == [c \in 1 .. Cardinality(CPUs) - 2 |-> [do |-> "cpu", cpu |-> c, on |-> TRUE]]

\* kvm_injector clear.
CpusOnline == [c \in 1 .. Cardinality(CPUs) - 1 |-> [do |-> "cpu", cpu |-> c, on |-> TRUE]]

clear_all_faults == << [do |-> "rmdir"] >> \o CpusOnline \o << [do |-> "pkill_cpulimit"] >>

\* The commands of a command line; "c" is the menu's "clear all".
Tool(c) ==
    CASE c.op = "network"     -> inject_network(c.n)
      [] c.op = "process"     -> inject_process(c.vm, c.n)
      [] c.op = "c"           -> inject_network(0) \o inject_process(c.vm, 3)
      [] c.op = "perf-delay"  -> inject_performance_fault(c.vm, c.n)
      [] c.op = "perf-clear"  -> inject_performance_fault(c.vm, 0)
      [] c.op = "cpu-offline" -> inject_cpu_hotplug_fault(c.n, FALSE)
      [] c.op = "cpu-online"  -> inject_cpu_hotplug_fault(c.n, TRUE)
      [] c.op = "clear"       -> clear_all_faults

-----------------------------------------------------------------------------
Init ==
    /\ qdisc = 0 /\ drops = {}
    /\ vm = [v \in VMs |-> "running"] /\ young = {}
    /\ dir = FALSE /\ quota = Period /\ members = {} /\ limited = {}
    /\ online = CPUs
    /\ todo = [r \in Runners |-> <<>>]
    /\ last = [r \in Runners |-> NoCommand]
    /\ state = [m \in Menus |-> "running"]
    /\ tool = [r \in Runners |-> "running"]
    /\ target \in [Menus -> VMs]
    /\ \A r \in Menus : Named[r] # Nothing => target[r] = Named[r]
    /\ alone = [r \in Runners |-> FALSE]
    /\ net = [type |-> 0, raced |-> FALSE]
    /\ owed = {}

Busy(r) == todo[r] # <<>>
Networking(r) == Busy(r) /\ last[r].op \in {"network", "c"}
Delaying(v) == \E r \in Runners : Busy(r) /\ last[r].op = "perf-delay" /\ last[r].vm = v

\* A menu a signal has stopped or killed starts nothing; a shell always can.
Acts(r) == r \in Menus => state[r] = "running"

\* A runner starts a command.
Launch(r, c) ==
    /\ ~ Busy(r) /\ Acts(r) /\ tool[r] = "running"
    /\ Cardinality({q \in Runners : Busy(q)}) < MaxBusy
    /\ todo' = [todo EXCEPT ![r] = Tool(c)]
    /\ last' = [q \in Runners |-> IF q = r THEN c
                                  ELSE IF Busy(q) \/ tool[q] # "running" THEN last[q] ELSE NoCommand]
    /\ alone' = [q \in Runners |-> q = r /\ \A u \in Runners \ {r} : ~ Busy(u)]
    /\ net' = IF c.op \in {"network", "c"}
              THEN [type |-> IF c.op = "c" THEN 0 ELSE c.n,
                    raced |-> \E q \in Runners : Networking(q)]
              ELSE net
    /\ owed' = IF c.op = "perf-delay" /\ c.n > 0 /\ vm[c.vm] # "dead" THEN owed \cup {c.vm} ELSE owed
    /\ UNCHANGED <<network, vm, young, throttle, online, state, tool, target>>

Shell(r) == \E c \in Commands : Launch(r, c)

\* The menu offers the network and the process faults and "c", on its target.
Choose(r) ==
    \/ \E type \in NetTypes : Launch(r, [op |-> "network", vm |-> Nothing, n |-> type])
    \/ \E action \in 1 .. 3 : Launch(r, [op |-> "process", vm |-> target[r], n |-> action])
    \/ Launch(r, [op |-> "c", vm |-> target[r], n |-> 0])

\* t: another target.
Switch(r) ==
    /\ ~ Busy(r) /\ Acts(r) /\ tool[r] = "running"
    /\ \E v \in VMs : target' = [target EXCEPT ![r] = v]
    /\ UNCHANGED <<network, vm, young, throttle, online, todo, last, state, tool, alone, net, owed>>

-----------------------------------------------------------------------------
(* One command of a tool.  A signal that hits a tool may as well hit the shell
   or the sudo that waits for it, and then the tool itself goes on. *)

Next1(r) == Head(todo[r])
Doing(r, do) == Busy(r) /\ Next1(r).do = do
Pop(r) == todo' = [todo EXCEPT ![r] = Tail(@)]
Keep == UNCHANGED <<last, target, alone, net>>

QdiscDel(r) ==
    /\ Doing(r, "qdisc_del") /\ Pop(r) /\ Keep
    /\ qdisc' = 0
    /\ UNCHANGED <<drops, vm, young, throttle, online, state, tool, owed>>

Flush(r) ==
    /\ Doing(r, "flush_OUTPUT") /\ Pop(r) /\ Keep
    /\ drops' = {}
    /\ UNCHANGED <<qdisc, vm, young, throttle, online, state, tool, owed>>

\* tc refuses to add a second root discipline.
QdiscAdd(r) ==
    /\ Doing(r, "qdisc_add") /\ Pop(r) /\ Keep
    /\ qdisc' = IF qdisc = 0 THEN Next1(r).type ELSE qdisc
    /\ UNCHANGED <<drops, vm, young, throttle, online, state, tool, owed>>

Drop(r) ==
    /\ Doing(r, "drop") /\ Pop(r) /\ Keep
    /\ drops' = {"port"}
    /\ UNCHANGED <<qdisc, vm, young, throttle, online, state, tool, owed>>

\* Mutant: the search skips stopped processes.
get_vm_pid_Running(r, v) ==
    {IF vm[v] = "running" THEN [what |-> "target", of |-> Nothing] ELSE [what |-> "tool", of |-> r]}

\* The other processes whose command line names target v: the menus started
\* with it, the process_injectors at work on it, and those that have hung
\* themselves and are left of a time when the target was dead.
NamedMenus(v) == {m \in Menus : Named[m] = v /\ state[m] # "dead"}
Left(v) == {q \in Runners : ~ Busy(q) /\ tool[q] = "stopped" /\ last[q].vm = v}
Tools(v) ==
    Left(v) \cup
    {q \in Runners : /\ Busy(q) /\ tool[q] # "dead" /\ Next1(q).do \in {"find", "kill"}
                      /\ Next1(q).vm = v /\ (last[q].op = "c" => Next1(q).do = "kill")}

\* pgrep -f | head -n 1 takes the oldest process with the name on its command
\* line: a target that was up before the menus; else a menu of that name; else,
\* as long as the target is dead, a tool, the own one at least; else a hung
\* tool of that time; else the target that was started again.
get_vm_pid(r, v) ==
    LET menus == [what : {"menu"}, of : NamedMenus(v)]
        left == [what : {"tool"}, of : Left(v)]
    IN  IF menus # {} /\ (vm[v] = "dead" \/ v \in young) THEN menus
        ELSE IF vm[v] = "dead" THEN [what : {"tool"}, of : Tools(v) \cup {r}]
        ELSE IF v \in young /\ left # {} THEN left
        ELSE {[what |-> "target", of |-> Nothing]}

\* "c" of a menu starts the process_injector only now: a stopped menu does not,
\* and a dead one never will.
Find(r) ==
    /\ Doing(r, "find") /\ Keep
    /\ last[r].op = "c" => state[r] # "stopped"
    /\ IF last[r].op = "c" /\ state[r] = "dead" THEN Pop(r)
       ELSE \E found \in get_vm_pid(r, Next1(r).vm) :
                todo' = [todo EXCEPT ![r] =
                            << [do |-> "kill", vm |-> Next1(r).vm, action |-> Next1(r).action,
                                who |-> found] >> \o Tail(@)]
    /\ UNCHANGED <<network, vm, young, throttle, online, state, tool, owed>>

Signalled(was, action) ==
    CASE was = "dead"   -> "dead"
      [] action = 1     -> "dead"
      [] action = 2     -> "stopped"
      [] OTHER          -> "running"

\* A dead target leaves its cgroup and its cpulimit ends.
Dead(v) ==
    /\ members' = members \ {v} /\ limited' = limited \ {v} /\ owed' = owed \ {v}
    /\ UNCHANGED <<dir, quota>>

\* The signal is sent to what was found, and success is printed: to the target;
\* to a menu, or to the sudo that started it; or to a tool, if it is still there.
Kill(r) ==
    /\ Doing(r, "kill") /\ Pop(r) /\ Keep
    /\ LET k == Next1(r)
       IN  CASE k.who.what = "target" ->
                   /\ vm' = [vm EXCEPT ![k.vm] = Signalled(@, k.action)]
                   /\ IF k.action = 1 THEN Dead(k.vm) ELSE UNCHANGED <<throttle, owed>>
                   /\ UNCHANGED <<state, tool>>
             [] k.who.what = "menu" ->
                   /\ \/ state' = [state EXCEPT ![k.who.of] = Signalled(@, k.action)]
                      \/ UNCHANGED state
                   /\ UNCHANGED <<vm, throttle, owed, tool>>
             [] k.who.what = "tool" ->
                   /\ IF k.who.of \in Tools(k.vm)
                      THEN tool' = [tool EXCEPT ![k.who.of] = Signalled(@, k.action)]
                      ELSE UNCHANGED tool
                   /\ UNCHANGED <<vm, throttle, owed, state>>
    /\ UNCHANGED <<network, young, online>>

Mkdir(r) ==
    /\ Doing(r, "mkdir") /\ Pop(r) /\ Keep
    /\ dir' = TRUE
    /\ quota' = IF dir THEN quota ELSE Period
    /\ UNCHANGED <<network, vm, young, members, limited, online, state, tool, owed>>

\* Mutant: the failure of the chain is ignored.
Fallback_None(r, v) ==
    todo' = [todo EXCEPT ![r] = << [do |-> "return", vm |-> v] >>]

\* A write of the chain fails: the rest of it is skipped, cpulimit is tried.
Fallback(r, v) ==
    todo' = [todo EXCEPT ![r] = << [do |-> "cpulimit", vm |-> v], [do |-> "return", vm |-> v] >>]

WriteQuota(r) ==
    /\ Doing(r, "quota") /\ Keep
    /\ IF dir
       THEN /\ Pop(r) /\ quota' \in Quota(Next1(r).ms)
            /\ owed' = IF quota' < Period THEN owed ELSE owed \cap limited
       ELSE Fallback(r, Next1(r).vm) /\ UNCHANGED <<quota, owed>>
    /\ UNCHANGED <<network, vm, young, dir, members, limited, online, state, tool>>

Enter(r) ==
    /\ Doing(r, "enter") /\ Keep
    /\ LET v == Next1(r).vm
       IN  IF dir /\ vm[v] # "dead" THEN Pop(r) /\ members' = members \cup {v}
                                    ELSE Fallback(r, v) /\ UNCHANGED members
    /\ UNCHANGED <<network, vm, young, dir, quota, limited, online, state, tool, owed>>

\* The status of cpulimit is discarded: it may not be installed.
CpuLimit(r) ==
    /\ Doing(r, "cpulimit") /\ Pop(r) /\ Keep
    /\ limited' = limited \cup {v \in {Next1(r).vm} : HasCpulimit /\ vm[v] # "dead"}
    /\ UNCHANGED <<network, vm, young, dir, quota, members, online, state, tool, owed>>

Return(r) ==
    /\ Doing(r, "return") /\ Pop(r) /\ Keep
    /\ UNCHANGED <<network, vm, young, throttle, online, state, tool, owed>>

\* perf-clear moves the target out of the cgroup; a cpulimit stays.
Leave(r) ==
    /\ Doing(r, "leave") /\ Pop(r) /\ Keep
    /\ members' = members \ {Next1(r).vm}
    /\ owed' = owed \ {Next1(r).vm}
    /\ UNCHANGED <<network, vm, young, dir, quota, limited, online, state, tool>>

\* rmdir of a cgroup with a member fails, silently.
Rmdir(r) ==
    /\ Doing(r, "rmdir") /\ Pop(r) /\ Keep
    /\ dir' = (dir /\ members # {})
    /\ UNCHANGED <<network, vm, young, quota, members, limited, online, state, tool, owed>>

Cpu(r) ==
    /\ Doing(r, "cpu") /\ Pop(r) /\ Keep
    /\ online' = IF Next1(r).on THEN online \cup {Next1(r).cpu} ELSE online \ {Next1(r).cpu}
    /\ UNCHANGED <<network, vm, young, throttle, state, tool, owed>>

PkillCpulimit(r) ==
    /\ Doing(r, "pkill_cpulimit") /\ Pop(r) /\ Keep
    /\ limited' = {}
    /\ owed' = owed \ limited
    /\ UNCHANGED <<network, vm, young, dir, quota, members, online, state, tool>>

\* A virtual machine is started again: it is younger than the menus.
\* Bound: not while a command works on its old process number, or looks for one.
Reboot(v) ==
    /\ vm[v] = "dead" /\ ~ Delaying(v)
    /\ \A r \in Runners : Busy(r) /\ Next1(r).do \in {"find", "kill"} => Next1(r).vm # v
    /\ vm' = [vm EXCEPT ![v] = "running"]
    /\ young' = young \cup {v}
    /\ alone' = [r \in Runners |-> FALSE]
    /\ UNCHANGED <<network, throttle, online, todo, last, state, tool, target, net, owed>>

\* cpulimit stops and continues its target in turns: a hung one wakes up.
Wake(v) ==
    /\ v \in limited /\ vm[v] = "stopped"
    /\ vm' = [vm EXCEPT ![v] = "running"]
    /\ UNCHANGED <<runners, network, young, throttle, online, net, owed>>

\* A killed tool is over; the timeout of the web console, or the user, ends a
\* stopped one.
Unblock(r) ==
    /\ tool[r] = "dead" \/ (tool[r] = "stopped" /\ r \in Shells)
    /\ tool' = [tool EXCEPT ![r] = "running"]
    /\ todo' = [todo EXCEPT ![r] = <<>>]
    /\ UNCHANGED <<last, state, target, alone, network, vm, young, throttle, online, net, owed>>

Step(r) ==
    \/ QdiscDel(r) \/ Flush(r) \/ QdiscAdd(r) \/ Drop(r)
    \/ Find(r) \/ Kill(r)
    \/ Mkdir(r) \/ WriteQuota(r) \/ Enter(r) \/ CpuLimit(r) \/ Return(r) \/ Leave(r)
    \/ Rmdir(r) \/ Cpu(r) \/ PkillCpulimit(r)

Next ==
    \/ \E r \in Shells : Shell(r)
    \/ \E r \in Menus : Choose(r) \/ Switch(r)
    \/ \E r \in Runners : Step(r)
    \/ \E r \in Runners : Unblock(r)
    \/ \E v \in VMs : Reboot(v) \/ Wake(v)

Spec == Init /\ [][Next]_vars

-----------------------------------------------------------------------------
(* Properties *)

QuotaOK(q) == q \in Int /\ Least <= q /\ q <= MaxInt

\* Every variable keeps its type; in particular the quota of the cgroup never
\* falls below 10% of a CPU, whatever delay is asked for and overflows
\* (kvm_injector.c: inject_performance_fault), and CPU 0 is never taken offline
\* (inject_cpu_hotplug_fault).
TypeOK ==
    /\ qdisc \in {0, 1, 2, 4} /\ drops \subseteq {"port"}
    /\ vm \in [VMs -> {"running", "stopped", "dead"}]
    /\ young \subseteq VMs /\ members \subseteq VMs /\ limited \subseteq VMs
    /\ dir \in BOOLEAN /\ QuotaOK(quota)
    /\ online \subseteq CPUs /\ 0 \in online
    /\ DOMAIN todo = Runners /\ DOMAIN last = Runners
    /\ state \in [Menus -> {"running", "stopped", "dead"}]
    /\ tool \in [Runners -> {"running", "stopped", "dead"}]
    /\ target \in [Menus -> VMs]
    /\ alone \in [Runners -> BOOLEAN]
    /\ net.type \in 0 .. 4 /\ net.raced \in BOOLEAN
    /\ owed \subseteq VMs

\* A command is over, ran alone, and so did nothing since.
Ended(r, op) == ~ Busy(r) /\ alone[r] /\ last[r].op = op

\* When network commands do not overlap, the host suffers exactly the fault of
\* the last one, of whatever runner: no rule of an earlier fault survives
\* (network_injector.c: inject_network).
LastNetworkFaultOnly ==
    ~ net.raced /\ (\A r \in Runners : ~ Networking(r))
        => /\ qdisc = IF net.type = 3 THEN 0 ELSE net.type
           /\ drops = IF net.type = 3 THEN {"port"} ELSE {}

\* With cpulimit installed, a perf-delay on a live target limits it, through the
\* cgroup or through cpulimit, whatever else removes the cgroup under it, until
\* something undoes it; and once no perf-delay is at work, the cgroup allows it
\* less than a CPU.  A delay that overflows undoes those the cgroup makes
\* (kvm_injector.c: inject_performance_fault).
DelayTakesEffect ==
    HasCpulimit =>
        \A v \in owed :
            /\ ~ Delaying(v) => v \in members \cup limited
            /\ (\A r \in Runners : Busy(r) => last[r].op # "perf-delay") =>
                   v \in limited \/ quota < Period

\* "c" of a menu, run alone, leaves no network fault and wakes the target up,
\* unless the target was started again after a menu with its name, or after a
\* process_injector that had found nothing else and hung itself
\* (fault_controller.c: main, process_injector.c: get_vm_pid).
MenuClearRestores ==
    \A r \in Menus :
        Ended(r, "c") =>
            /\ qdisc = 0 /\ drops = {}
            /\ vm[last[r].vm] = "stopped" =>
                   /\ last[r].vm \in young
                   /\ \/ \E m \in Menus : Named[m] = last[r].vm
                      \/ \E q \in Runners \ {r} : last[q].vm = last[r].vm

\* A kvm_injector clear that ran alone brings every CPU back, ends every
\* cpulimit, and removes the cgroup once perf-clear has emptied it
\* (kvm_injector.c: clear_all_faults).
KvmClearAfterPerfClear ==
    \A r \in Shells :
        Ended(r, "clear") => /\ online = CPUs /\ limited = {}
                             /\ members = {} => ~ dir

\* "Clears every KVM fault": a kvm_injector clear that ran alone leaves no
\* target throttled, no CPU offline (kvm_injector.c: clear_all_faults).
KvmClearRestores ==
    \A r \in Shells :
        Ended(r, "clear") => online = CPUs /\ limited = {} /\ members = {}
=============================================================================
