# A TLA+ model of the fault-injection toolkit

The repository is a set of tools that inject faults into a small Hadoop and
CloudStack cluster made of ARM64 virtual machines: command-line injectors in C,
kernel modules with kprobes, two menu programs, a shell script, and a web
console (FastAPI and plain JavaScript) that calls all of them. No tool keeps
state of its own between two invocations and none takes a lock. What matters
is the state they leave on the machines (traffic shaping, packet filters,
stopped processes, cgroups, files), how the steps of several of them
interleave on it, and whether the clearing commands undo it.

This directory models that: TLA+ modules translated from the code, TLC runs on
small instances, and TLAPS proofs for every value of the constants.

    tlc -config MCHadoop_net.cfg MCHadoop.tla     # one run
    tlapm HadoopInjectorProofs.tla                # one proof module

`PROJECT.json` lists the components, the runs, for every property a mutation of
a definition that breaks it, the source lines of every definition, the
disagreements found between code and documentation, the hazards and the theorems.

## 1. Inventory

| Component | State it works on | Operations | Module |
|---|---|---|---|
| `kvm_injection/hadoop-fi/hadoop_injector.c` | qdisc tree, iptables, processes, files, cgroup of every node; HDFS safe mode | crash/hang/resume, delay, loss, reorder, isolate, heartbeat, cpu-stress, mem-stress, disk-fill, task crash, io-slow, yarn-unhealthy, hdfs-safe, their clears | `HadoopInjector` |
| `kvm_injection/*-fi/*.c` (kernel modules and their tools) | static integers of a module, shared by all CPUs and by /proc | write settings, arm, kprobe handler | `Kprobes` |
| `kvm_injection/cloudstack-fi/cloudstack_injector.c` | qdisc, iptables, services, system VMs, MySQL, storage | every menu command | `CloudStackInjector` |
| `kvm_injection/cluster_controller.c`, `cluster_manage.sh` | the same, and the Hadoop daemons of all nodes | menu choices, scenarios, recover-all; script commands | `ClusterController` |
| `vm_injection/network_injector.c`, `process_injector.c`, `kvm_injector.c`, `fault_controller.c` | qdisc, iptables, cgroup, CPUs, processes of the host | network faults, kill/hang/resume, perf-delay/clear, CPU hotplug, clear, the menu | `VmInjectors` |
| `vm_injection/reg_injector.c`, `mem_injector.c` | one ptraced process | attach, wait, read, fault, write, detach, loop | `PtraceInjectors` |
| `web_controller/app.py`, `static/app.js`, `static/test.js`, `test_scenarios.py` | requests, command lines under way, the answers | cards, one-click recovery, functional tests, cleanup, timeouts | `WebController`, `Console` |
| `start_frontend.sh`, `run_cluster.sh`, the startup event of `app.py` | QEMU processes, their disk images and ports | look, start, become the server | `VmStart`, `Console` |
| `vm_injection/cpu_injector.c`, `memleak_injector.c` | threads and a flag; memory | burn, leak, hold, join | `LoadVictims` |
| victims `vm_injection/target*.c` | baits, counters, statistics under a lock, alert levels | one thread per kind of fault: look, report, repair; probe, count, judge | `MemVictim`, `RegVictim`, `NetVictim`, `LoadVictims`, `Victims` |
| page layout, unit tests | none of interest | | not modelled |

How they interact. The web console and `cluster_controller` run the tools as
commands; `hadoop_injector` runs itself on the slaves over ssh (`...-local`
commands); `fault_controller` runs the tools of its directory;
`network_injector`, `hadoop_injector`, `cloudstack_injector` and
`cluster_manage.sh` meet on the same root qdisc and the same packet filter; the
tools for kernel modules talk to them through /proc, the register and memory
injectors meet on the ptrace state of one process.

What is hard. There is no lock anywhere, and an operation is a series of shell
commands: any two invocations interleave between any two of them (web handlers
run in a thread pool, operators have several shells). Exit codes are mostly
ignored, so a chain goes on after a step failed. A fault can cut the channel
(ssh) that its own removal needs. A command that outlives the timeout of the
web console goes on running, and one under sudo cannot be killed at all. `system()`
waits for servers that were hung or cut off by another fault. kprobe handlers race on plain integers. ptrace
stops are not told apart. Each of these is a line of "hazards".

What makes each part correct:

* injectors: what is found on a machine was asked for on that machine; an
  injection that ran alone is in effect when it reports; a clear that ran alone
  leaves nothing of its kind where it could reach; the master is not locked
  out by accident; every invocation ends;
* kernel modules: as many faults as asked for, with the settings asked for, and
  then no more;
* menus and console: "recover" removes what the injections put there, an
  "ok" means what it says, every click comes back;
* ptrace tools: an injection is one atomic fault of the value that is there,
  honest counts, the target runs on afterwards;
* start: every node has its machine in the end, whoever starts it at the same time;
* victims: what was injected is reported, once, and not for longer than it
  lasts; what they print adds up; Ctrl-C ends them.

## 2. Modules and how they correspond to the code

**HadoopInjector** (proofs: **HadoopInjectorProofs** and **HadoopEffects**,
instance: **MCHadoop**).
A *session* is one invocation. `Start` parses the command (`running`) and
computes the *legs* (`Legs`: the master, or the slaves of `SLAVE_HOSTS` in
order). `EnterLeg` begins a leg: locally, or by `ssh`, which succeeds iff
`Reachable` (rules on port 22 and total loss, on both ends). `Script` is the
list of shell commands that the leg runs; `Exec` performs one of them
(`QdiscDel`, `FilterAdd`, `Drop`, `Hang`, ...). `hdfs dfsadmin` waits while the
NameNode is stopped by a signal (`AwaitsNameNode`), until somebody resumes it or
interrupts the command (`InterruptSafemode`). A leg that cuts its own slave off runs to
its end, and `LeaveLeg` is then the keepalive of TCP that gives up. `Restart` is a daemon or task that
is started again by Hadoop or the operator. History: `alone`, no other session
overlapped; `steady`, nor did anything restart; `missed`, the slaves whose ssh
failed; `asked[n]`, what the shaping commands that overlapped on slave n were each
to leave there.

**Kprobes** (proofs: **KprobesProofs**, instance: **MCKprobes**). The modules
share one pattern in three families, which differ in when they count and when
they disarm (see the head of the module). A tool writes the settings, the number
and the switch to /proc in this order; a handler on each CPU tests the switch,
injects, loads, decrements and stores the counter in separate steps. `asked`,
`hits`, `spent`, `overlapped`, `rearmed` are history.

**VmInjectors** (proofs: **VmInjectorsProofs**, instance: **MCVmInjectors**).
Each tool is a script of shell commands and file writes on the one interface,
filter, cgroup and CPU set of the host; shells and `fault_controller` menus run
them, one command at a time each. A cgroup refuses
`rmdir` while it has members; the writes to it are a chain that stops at the
first failure and falls back to `cpulimit`, if that is installed. `Quota` is
computed in the width of an int (`MaxInt`, `Wrap`); where it overflows, both what
the low bits say and the floor are possible, since the build may do either.
`get_vm_pid` is `pgrep -f | head -n 1`: the oldest process with the name on its
command line, which may be a `fault_controller` started with it (`NamedMenus`), a
`process_injector` at work or left hung (`Tools`, `Left`), whoever searches; such
a menu or tool is then stopped or killed in place of the target (`state`, `tool`).

**PtraceInjectors** (proofs: **PtraceProofs**, instance: **MCPtrace**). A target, its pending signals,
stops and tracer, as ptrace(2) describes them, and the system calls of the two
tools, one per step. An *invocation* has a delay (`wait`: none, one that works, or a
second and more, which `ualarm` refuses and the code does not notice) and a
*hurdle*: no permission to trace, or a register that does not exist. A dead
process is a zombie until its parent, or the tool that traces it, collects it
(`reaped`); every attach until then is refused and tried again. **AtomicFaults** is what they promise together: a word of
memory or a register, and injections that are one step each. `PtraceInjectors`
instantiates it (`Atomic`, property `FaultsAreAtomic`): `hits` maps to the
injections, `claimed` to what a tool that ended has said; attach, wait, read,
delay and detach are stutters, and the write is the step, which is why nobody
may write between the read and the write.

**CloudStackInjector** and **ClusterController** (proofs: **ClusterProofs**, instance:
**MCCluster**). The
second EXTENDS the first: the menu and one or more shells run scripts on the
common host, and the Hadoop daemons, the VM process and safe mode are added.
The steps of the database and libvirt clients (`Sql`, `Virsh`) are disabled
while the server they talk to is stopped by a signal, and fail without one; the
commands on the files of the storage mount while its NFS server (`StorageServer`)
is isolated; `dfsadmin` (`Safemode`) while the NameNode is stopped. No one
interrupts a command that waits here; in HadoopInjector somebody may.

**WebController**, **VmStart** and **Console** (proofs: **ConsoleProofs**,
instance: **MCConsole**). A
*slot* of WebController is one control of a page. Its request goes through
validation, the loop over nodes and command lines, and the answer; a command
ends by itself, takes effect, misses its node (and may report success all the
same), or times out, in which case the program
behind it may survive as a *stray* and still take effect. A command of the actions
`Sudo` is killed by no timeout: `TimesOut` is not among its steps, and it may
outlive the timeout and still end by itself. The server may crash and restart.
`owes[s]` are the faults whose cleaning steps in the recovery of slot s were not
carried out. In VmStart a *starter* is one `start_frontend.sh`: it looks at each
node (`is_vm_running`), launches `run_cluster.sh` where it saw no machine, and
becomes the server, whose startup event does the same again. QEMU of one node
competes with QEMU of the same node for the disk image; a machine may exit.
Console composes the two: a screen without controls is the time before the
server, the first starter that comes through is the server (`Restart`).

**Victim**, **MemVictim**, **RegVictim**, **NetVictim**, **LoadVictims** and
**Victims** (proofs: **VictimsProofs**, instance: **MCVictims**). `Victim` is
what the programs share: main, the threads, `keep_running`, the tool that has
stopped main. `MemVictim` is the watcher of the baits against tools that stop
main only, `RegVictim` the loop with the shadow counter, statement by statement,
`NetVictim` servers, probers, sockets, the statistics and their lock, and the
prober of `target` with its baseline, `LoadVictims` the two victims that have
their CPU or memory taken away, with the two programs that take it. `Victims`
starts any one of them.

## 3. Runs

| Run | Instance | Shows |
|---|---|---|
| `hadoop_net` | master, 2 slaves, 2 sessions, 9 commands | types; the master stays able to reach slaves no command was meant to cut; faults are where they were aimed; clears sweep; injections that ran alone take effect; commands that race leave the shaping of one of them |
| `hadoop_host` | the same, NameNode and SecondaryNameNode on the master, a map task per slave, 10 commands, weak fairness | hang, crash, task crash, I/O throttle, health file and safe mode are in effect when an invocation that ran alone reports, whatever was left half done before; resume wakes what it looks up; every invocation ends although a slave is cut off meanwhile, except a safe mode command for as long as the NameNode hangs |
| `kprobes` | 2 CPUs, counts -1..2, 2 settings | never fewer faults than asked for, exactly as many without overlap, with their own settings, and campaigns end |
| `kprobes_more` | the same | *violation*: with two CPUs more faults than asked for |
| `web` | one card with start/restart/crash of Hadoop; or the recovery button beside a test page, with a server crash; or 2 starters of 2 machines | an "ok" restart that nothing overlapped left every daemon up, even with a stray stop; a recovery that nothing overlapped leaves no fault that has a cleanup button, except where its own step for it was not carried out, "ok" or not; every click comes back, unless its program under sudo never ends; every node has its machine once a starter is through |
| `web_test` | one test page | *violation*: the banner "system restored" shows though the fault was injected again |
| `vm` | 1 VM, 2 CPUs, 2 shells, 1 menu named after the VM; delays of 100 ms and of 700 ms, which overflows the int of the instance | network faults replace each other; the quota never falls below its floor; a delay takes effect whatever is removed under it; what `c` and `clear` restore, and when `c` wakes somebody else |
| `vm_clear` | 2 VMs | *violation*: `kvm_injector clear` leaves a throttled VM throttled |
| `ptrace` | 2 register injectors (one looped, one endless), 1 memory injector; a short delay, a delay of a second, an unknown register, or no permission | every injection is one atomic fault and is counted (refinement of `AtomicFaults`), nothing left stopped by the tools' own signals, delays honoured, invocations end unless they are stuck for one of the reasons that `Stuck` names |
| `ptrace_resumes` | 1 memory injector, 1 foreign signal | *violation*: "the process has resumed" is printed and the process stops for good |
| `cluster` | 1 slave, menu and one shell, 11 + 31 commands | CloudStack injections take effect on what they find; recover-all and the cascade undo what they promise; an invocation waits for ever only for a hung mysqld, libvirtd or NameNode, or for an NFS server that is isolated |
| `victims` | each of 6 victims: 2 baits and 3 tools; 2 register faults; 1 TCP and 2 UDP probes, blocking, delay, loss and corruption; 2 cores and up to 3 threads, 4 by default; 6 blocks and leaks of 3 and 9 | every visible change of a bait is reported once; the register verdict settles; the statistics add up when printed; what stays wrong is noticed, and what is over is not reported; everything ends after Ctrl-C |

The four violations are the four `findings` of `PROJECT.json`, with the lines
that say otherwise.

**Bounds.** `Sessions`/`Shells`/`Runners` = 2: interference here is between a
step of one invocation and the rest of another; a third adds no new kind. Two
slaves show the order of the loop and that a fault on one is none on the other
(one slave in `cluster`, where no property compares two). `Commands`: the run's
command set holds one command for each kind of step that meets another
(shape, filter, process, file, cgroup) with the edge amounts (port 22, no port,
amount 0, loss 99); `disk-fill`, `mem-stress`, `reorder` and `heartbeat` run
the same steps as commands that are in the set and are covered by the
proofs, as are the commands of every amount. `Cap = 4` stops the history
counters of `Kprobes` above every number asked for, `MCCounts` includes "no
end", zero, one and two. `MaxStrays`, `MaxCrashes`, `Fragile` bound the
surviving commands, server crashes and spontaneous exits of the console; one of
each already overtakes a restart. `Sudo` are the actions that `config.json`
runs under sudo as delivered. `Screens` are the sets of controls that are
open together; what no screen puts together shares no state. `MaxExits = 1`
machine exits; `Again`, a second run of `start_frontend.sh`, waits until the
launches of the first have settled, so that their number stays small. `MaxBusy = 2` commands overlap in `vm`; its
shells, and the sessions of `hadoop_net`, are symmetric (no liveness there).
`MaxInt = 524287` is the greatest int of `vm`: less than 700 ms in microseconds,
whose low bits read as a quota above the period, as 3000000 ms do with the real
one. One menu runs there, named after the one target; the theorems are about any
menus. A machine is started again (`Reboot`) while no tool looks for it or works
on its old process number. `NetTypes` = clear, delay, port.
`Width = Low = 1` bit: faults on registers differ only in the bits they
touch. `Invocations` of `ptrace`: in those with a delay of a second and with an
unknown register, `mem_injector` may not trace and fails at once, so that three
tools at a time meet in the first invocation only and two in the others.
`MaxSignals = 1` foreign signal. `MaxRuns = 3` invocations in a
behaviour of `cluster`: a fault, another one, and the recovery; its
`StorageServer` is the slave that can be isolated; the system of
this run stops after them, hence `CHECK_DEADLOCK FALSE` there; and in `victims`, where
the program ends. `MaxDrift` keeps the two counters of `target_reg` close,
`Tolerance = 2` stands for 1000, and `Most = 3` threads for 256: less than the
4 that two cores make by default. Two UDP probes on one port number let the echo
of the first meet the socket of the second. `Memory = 6` blocks are less than one
of the leaks, so that both the leak and the victim can be killed. No other
configuration turns the check for deadlock off.

**Fairness.** Hadoop: weak, per session: the OS schedules processes, TCP gives
up on a dead connection, sleeps return; not for a `dfsadmin` that waits for a hung
NameNode. Kprobes: weak for the tool and for
every CPU's handler: the tools tell the operator to trigger calls of the probed
function. Web: weak for the timeout, the reply and the page's reception;
nothing for a command's own end, which the timeout replaces, and so nothing for a
command under sudo, which has no timeout that works. Ptrace: weak for
the kernel, timers and `mem_injector`; strong for each step of `reg_injector`,
because a refused attach is tried again every 50 ms and a looping tool leaves
the process alone for as long between two injections: a tool is not refused
for ever by tools that come and go. That is an assumption on scheduling only: a
refusal for want of permission, by a zombie or by a tool that never lets go stays
one, a parent need not collect its zombie (`Reap`), and `ualarm` with a second
or more sets no timer. Cluster: weak per runner. Start: weak
for each starter and for QEMU. Victims: weak for every thread, for the tools
once they are attached, and for the load programs; their real-time threads
leave the share the kernel keeps back. Nothing says that packets arrive, a
machine stays up or a load is started. No fairness on what operators enter.

## 4. Proofs

The proof modules hold for any number of slaves, sessions, commands, CPUs,
settings, counts, tools, baits and probes.

**HadoopInjectorProofs.** From `Topology`, `Placement` and `CommandLines` (the
slaves are distinct and not the master; processes are components with a number;
command lines are records of the parser's types):

* `TypeCorrect`: `Spec => []TypeOK`;
* `FaultsStayAimed`: `Spec => []FaultsAreAimed`;
* `SlavesStayReachable`: `Spec => []SlavesReachable`.

`FaultsAreAimed` is not inductive: the step that adds a rule must know that
it belongs to a command that asked for it on this node. The invariant `AimInv`
adds that: *Itinerary*, the legs of a session are nodes its command concerns;
*Pending*, each step still to run on a slave is *licensed* by the running command
(or harmless), also when sessions interleave; *Accounted(n)*, everything present on
slave n is licensed by some command. `SlavesReachable` follows from `Accounted`
and `SshSafe`: no licensed rule or shaping stops ssh. With `TypeInv` (types,
and an idle session rests) it is the invariant of all these theorems.

**KprobesProofs.** From `Parameters`: `TypeCorrect`, `NeverTooFew`
(`NeverFewerThanAsked`), `SerialIsExact` (`ExactWhenSerial`),
`SettingsInPlace` (`FaultsHaveTheirSettings`). The invariant `IInv` adds:
*Pending* and *OffUntilTheSwitch*, the tool's writes are a suffix of its script
and the module is disarmed until the last; *Loaded*, what the tool has written is
there when it comes to the switch; *Paths*, where a handler may be in each
family; *Owed*, as long as fewer faults than asked for were counted down, the
counter, and every value of it a CPU holds, cover the rest, even if updates were
lost; *OneAtATime* and *Balance*, without overlap faults injected and faults left
make up the number asked for exactly. The last two are what `ExactWhenSerial`
needs and hold only without overlap; *Owed* is what survives it.

**PtraceProofs.** From `FaultsAssumption` (fault types and bit numbers are
those the usage names): `TypeCorrect`, `InjectionsAreAtomic` (`Spec =>
FaultsAreAtomic`, the refinement), `NobodyLeftStopped` (`NotLeftStopped`) and
`DelaysAreHonoured` (`DelayHonoured`). The invariant ties the place of a tool to
the state of the kernel: between the attach and the detach the tool is the
tracer, it reads and writes only while the process is trapped for it, and so
what it has read is still there (`seen`) when it writes. The step that writes
then is a fault of the present value, every other step a stutter, and what a
tool claims at its end is what it has counted. The last two theorems need a
second invariant, for behaviours without foreign signals and without a tool that
exited undetached: each SIGSTOP that is pending belongs to the tool that waits
for it, and the alarm is armed exactly in the delay.

**VictimsProofs.** From the assumptions on baits, drift, probes and sizes:
`TypeCorrect`, `ReportedOnce` (`HitsAreReportedOnce`), `VerdictSettles`
(`RegVerdictSettles`) and `Balanced` (`StatsBalance`). One invariant per victim.
Memory: the number of baits that are to be reported is a cardinality, so each
write is shown to add or remove one bait of a finite set; `NotYet` says that
nobody works on a bait before the watcher has made it. Register: what each
comparison since the last injection has seen. Network: at most one probe of each
prober is not accounted for (`Sums`), and the lock is held exactly while the
display reads (`Places`), so that the two reads see the same figures (`Books`).

**VmInjectorsProofs.** From `CpuAssumption`, `RunnersAssumption`, `IntAssumption`
(the period is an int) and `CommandLines`: `TypeCorrect`, `LastFaultOnly` (`LastNetworkFaultOnly`),
`DelaysLimit` (`DelayTakesEffect`), `MenuClears` (`MenuClearRestores`) and
`KvmClears` (`KvmClearAfterPerfClear`), for any number of machines, CPUs, shells
and menus. What is left of a command is a sequence, and induction over it is not
available; so *PlanOK* describes it step by step (a step belongs to the command,
which step may follow it, which may be the last), each tool is shown to make such
a plan, and every further invariant speaks of the first step left only. `TypeCorrect` bounds the quota from below for every delay an int can hold,
through `Wrap`. `NetInv`:
without a race at most one command works on the network, and what comes before
its next step is cleared. `DelayInv`: a delay that is owed is in force, or a step
that puts it in force is still to come. `MenuInv` and `KvmInv`: what a clear that
runs alone has restored so far; *AloneInv* says that nobody else moves meanwhile.
`MenuClears` excepts a target that was started again after a menu of its name or
after a `process_injector` that hung itself: then `c` wakes that one.

**ClusterProofs.** From `CommandLines` (every command has an argument of the kind
that the menu or the script takes there), `Cluster` (slaves are addresses, the
menu is a runner) and `Bounds` (the system VMs are a finite list of names):
`Types`, `InjectionsTakeEffect` (`CsInjectionTakesEffect`), `RecoverAllRecovers`
(`RecoverAllRestores`) and `CascadeUndone` (`CascadeUndoesItself`). What a script
leaves behind says nothing while it runs; so a runner that is *alone* (`AloneOK`)
is followed by the number n of the steps it has executed (`todo[r]` is the rest
of its script from n on), and the invariant says what n steps have achieved:
rules and shapes (`ApiOK`, `NetOK`), the recoveries so far, the phase of the
cascade. For the types, scripts are typed kind by kind, and CPU workers of a
runner run between the two steps of the stress only (`RunnersOK`).

**ConsoleProofs.** From `Pages` (the controls of a page are requests of the
front end to a list of workers, in finitely many slots) and `StartAssumption`
(distinct nodes, finitely many starters): `TypeCorrect` (`ConsoleTypeOK`),
`RestartsComplete` (`RestartIsComplete`) and `RecoveryIsClear` (`RecoveryClears`:
of the faults that have a cleanup button, a recovery leaves those only whose own
steps were not carried out).
A request is at a command line of its script (`SlotsOK`). The number of launches
on a node is bounded by two per starter, its script and its startup event, which
is a cardinality: launched and opening machines are no more than the pairs of a
starter and a stage that passed the node (`StartsInv`). An "ok" is sure when
nobody else is busy (`AloneInv`, which adds that there is no stray as long as no
command failed), and it comes after the last command line (`OrderInv`); the
daemons of the start commands it has passed are up (`StartedInv`), a
recovery that passed a fault has removed it, or still owes it (`ClearedInv`).

**HadoopEffects.** On top of `TypeInv`: `ClearsSweep` (`ClearSweeps`),
`InjectionsTakeEffect` (`InjectionTakesEffect`), `ResumesWakeAll`
(`ResumeWakesAll`) and `RacesLeaveOne` (`RacesLeaveOneShaping`). The first three
speak of a command that has ended without company. The invariant `EffectInv` speaks of every step before: each node that
the command is meant for was missed, or is on a leg still to come, or is as far
as the rest of the script there says (`Progress`; `Half` after the first of two
steps), or holds the `Goal`; and nobody else is at work. What a later leg or a
restart does must not take back what an earlier one left, so each kind of step is
shown to keep the goals of all other nodes. For resume, `StopInv` says that
what is stopped was hung where its component belongs, so resume looks at the
right nodes. `ResumesWakeAll` has a hypothesis, `OnePerComponent`: a component is
found at most once on a node. It is needed, because one resume wakes one process:
with two tasks on a slave the second stays stopped (section 6). The runs
satisfy it. `RacesLeaveOne` is about commands that do race on a slave: each
deletes the root and may then add its own, which tc refuses if there is one by
then. Its invariant `RaceInv` says, while they run, that a NIC that is neither bare
nor as one of them wants it still has a delete to come, and that a bare one has an
add to come or is what one of them asks for.

**What stays with TLC.** Every invariant that a passing run checks, but one, and
the refinement of `AtomicFaults` is a theorem. The one is `HostFaultsTakeEffect`:
the steps of the I/O throttle list processes while they read, so that an
invariant for it speaks of every prefix of every list; TLC checks it. Not proved are the
liveness properties, which need fairness and ENABLED, out of reach of the prover:
`EveryInvocationEnds`, `CampaignsEnd`, `ClicksComeBack`, `MachinesComeUp`,
`InvocationsEnd`, `WaitsOnlyForTheHung`, `AlarmsFollowFaults`, `EverythingEnds`. TLC checks them on the instances of
section 3. The findings are counterexamples, found by TLC.

## 5. Abstractions

*Hadoop.* Numbers of seconds and megabytes matter only when zero; pids are the
processes they name; `SecondaryNameNode` is told from `NameNode` by the look-up
as the code does it. A process forked in the loop of `io-slow off` is left out.

*Kprobes.* A new campaign starts when no handler is under way; calls the filter
of a module does not match stutter; several setting files count as one.

*Vm.* A reboot does not happen in the middle of a perf-delay of the same VM. A
process whose command line names the target is the target, a menu or a
`process_injector`; others (an editor, a shell history) are left out.

*Web.* A command takes effect and exits in one step, unless it times out; the
size of the thread pool is not modelled; read-only checks are left out.

*Start.* Ports, paths and the wait of the script between two launches are left
out; `nohup` starts cannot fail before QEMU.

*Victims.* A bait is the set of its changed bits, the register how far it is off.
Latencies are "fast" or "slow", and a probe that met a change of the network may
be either. A score of `target_cpu` is slow if every core was taken throughout.
Numbers are not compared by what they are worth but by the thresholds of the
code. `cpu_monitor`, `mem_watcher` and `res_monitor` of `target.c` repeat the
smaller victims; its `reg_watcher` computes in a thread that `reg_injector` does
not attach.

*Ptrace.* One single-threaded target; a retry after EPERM stutters; an endless
loop counts to one; delays are none, below a second, or longer.

*Cluster.* A restart is a stop and a start; a restarted mysqld has 151
connections again; `db-lock` and `vm-create-fail` change nothing (below).

## 6. What reading and modelling showed besides

Not stated as runs, since no text promises otherwise or the effect is local:

* `hadoop_injector` clear commands print "[Success]" and exit with 0 though the
  ssh to a slave failed (`hadoop_injector.c:1128`), so that a recovery of the
  console whose steps were all answered "ok" may leave a fault there
  (`RecoveryClears` says which); `hdfs-safe` waits for a NameNode that `hang nn`
  has stopped (`:744`); `reorder` of a target that is no slave shapes the whole NIC of the master; two
  concurrent targeted shapings on the master blend; `isolate` without a
  port drops 9867, 9864 and 8030:8033 on the way in only
  (`hadoop_injector.c:1542`); the resume of tasks takes the first YarnChild.
* `hadoop_injector network` is documented (`kvm_injection/README.md:58`) and
  called by `cluster_controller.c:251,259,345`, and does not exist: these
  choices change nothing.
* `cluster_controller`'s recover-all removes `/tmp/hdfs_disk_fill`, which nothing
  reachable writes (`disk_hog` is the real file), leaves a hung VM and safe mode, and waits on a
  stopped mysqld. `RecoverAllRestores` states what it does restore, from a menu
  on the master: on the Ubuntu host of the usage notes its `resume nn` finds no
  NameNode.
* `cloudstack_injector`: `db-lock` ends with the client that took the lock;
  `vm-create-fail` injects nothing; `network-clear` leaves rules with a
  port and one of two duplicates; `sysvm` faults take the first VM of any type;
  `vm-migrate-fail` and the API delay use the same root qdisc; the storage
  commands wait for the NFS server, which another command may have isolated.
* `cluster_manage.sh` hangs `NameNode` by `jps` and resumes by `ps | grep`,
  which also matches `SecondaryNameNode`.
* `kvm_injector`: all VMs share one quota; perf-clear does not stop a
  `cpulimit`; `cpu-offline 0` takes CPU 1 and `cpu-online 0` does not bring it
  back; `network_injector` flushes foreign OUTPUT rules; `fault_controller`'s
  `c` resumes the current target only. The quota of perf-delay overflows from
  2147484 ms on (`kvm_injector.c:235`, from `atoi` at `:518`): a build with `gcc -O2`
  gives 1295067296 us for 3000000 ms, more than twelve thousand CPUs, and prints
  that the machine slows down. Without `cpulimit` a delay that needs it is
  reported and does nothing (`:290`).
* `process_injector` may find a `fault_controller` that was started with the name,
  or another `process_injector`, before the target (`process_injector.c:18`): `hang`
  then stops a menu, and prints success.
* `reg_injector` tries for ever to attach to what it may not trace, to a zombie, and
  to a zombie that it traces itself (`reg_injector.c:260`); `-w 1000000`, the value
  that `fault_controller.c:176` suggests, is refused by `ualarm` (`:280`), and
  the tool then holds the process and waits until it dies.
* The timeouts of the console do not end a program under sudo: the kill raises a
  PermissionError and the call goes on waiting (`app.py:166`, `463-466`).
* `mem_injector` that exits by `die`, Ctrl-C or without a region leaves the
  target as the kernel leaves it, with the stop delivered; two equal bits of
  `flip2` change nothing.
* Of the victims: `net_prober` takes its baseline from its first three rounds or
  never, and then reports no delay at all; `memory_tester` without a baseline calls
  every later round critical; `udp_prober` does not compare the number in an
  echo, so that a late one counts for the next probe; the faults that
  `network_injector` puts on the default interface do not reach the loopback
  probes of `target_net`.
* The functional tests skip the range checks of the cards; the one-click recovery
  omits io-slow, yarn-unhealthy, safe mode and resume.
* `kvm测试方法.md:41` writes `/proc/cpu-reg-fi/signal`; the module creates
  `/proc/cpu-general-fi`.

## 7. Not modelled

* Page layout and unit tests: no state.
* The loading of kernel modules, the shared input buffer of the /proc writes
  (`resource.c:90`: nothing promises anything of two writers), the bit arithmetic
  of the faults in the kernel.
* Process creation inside the io-slow cgroup while it is emptied
  (`hadoop_injector.c:803`): the processes of a node are a fixed set of roles.
* Validation of values in the web console, its read-only checks and `/api/test`.
* `kvm_injector`'s soft errors and guest faults and the memory, register, CPU and
  leak entries of the `fault_controller` menu, which only collect the parameters
  of tools that are modelled in `PtraceInjectors` and `LoadVictims`.
* crash, hang and resume of the three CloudStack system VMs as processes, which
  are those of the other services.
* Process numbers that are given out again between look-up and signal, terminal
  output, timing in seconds.

What a continuation would take up: the safety half of liveness (for each program
a measure that every step of it decreases, so that only fairness is left to TLC),
and an abstract ledger of faults that all injectors implement.
