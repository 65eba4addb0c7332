------------------------ MODULE HadoopInjectorProofs ------------------------
(***************************************************************************)
(* Theorems about HadoopInjector, for every cluster, every set of commands *)
(* and every number of concurrent invocations.                             *)
(***************************************************************************)
EXTENDS HadoopInjector, SequenceTheorems, TLAPS

(***************************************************************************)
(* 1. The scripts of the injector consist of shell commands with operands  *)
(*    of the right kind.                                                   *)
(***************************************************************************)

\* A function on 1..n is a sequence.
LEMMA FunctionIsSeq ==
    ASSUME NEW S, NEW n \in Nat, NEW f \in [1..n -> S]
    PROVE  f \in Seq(S)
BY SeqDef

\* A step is a record of an operation and its operands.
LEMMA DoFields ==
    ASSUME NEW op, NEW what, NEW amt
    PROVE  /\ Do(op, what, amt).op = op
           /\ Do(op, what, amt).what = what
           /\ Do(op, what, amt).amt = amt
BY DEF Do

\* Which operands each shell command of the injector takes.
LEMMA StepKinds ==
    /\ \A r \in Rules : Do("drop", r, 0) \in Step
    /\ \A op \in {"qdisc-netem", "qdisc-child"}, k \in Kinds, a \in Nat :
          Do(op, k, a) \in Step
    /\ \A t \in Targets : Do("filter", t, 0) \in Step
    /\ \A op \in {"write", "rm"}, f \in FileNames : Do(op, f, 0) \in Step
    /\ \A P \in SUBSET Processes : Do("io-leave", P, 0) \in Step
    /\ \A op \in SignalOps \cup {"kill-task"}, t \in Targets : Do(op, t, 0) \in Step
    /\ \A op \in {"qdisc-del", "qdisc-prio", "flush", "io-mkdir", "io-max",
                  "io-enter", "io-list", "io-rmdir", "burn", "cool"} : Do(op, None, 0) \in Step
    /\ \A a \in Nat : Do("safemode", None, a) \in Step
BY DEF Do, Step

\* The steps that signal no component.
QuietSteps == {st \in Step : st.op \notin SignalOps}

\* Which operands those take.
LEMMA QuietKinds ==
    /\ \A r \in Rules : Do("drop", r, 0) \in QuietSteps
    /\ \A op \in {"qdisc-netem", "qdisc-child"}, k \in Kinds, a \in Nat :
          Do(op, k, a) \in QuietSteps
    /\ \A t \in Targets : Do("filter", t, 0) \in QuietSteps
    /\ \A op \in {"write", "rm"}, f \in FileNames : Do(op, f, 0) \in QuietSteps
    /\ \A P \in SUBSET Processes : Do("io-leave", P, 0) \in QuietSteps
    /\ \A t \in Targets : Do("kill-task", t, 0) \in QuietSteps
    /\ \A op \in {"qdisc-del", "qdisc-prio", "flush", "io-mkdir", "io-max",
                  "io-enter", "io-list", "io-rmdir", "burn", "cool"} : Do(op, None, 0) \in QuietSteps
    /\ \A a \in Nat : Do("safemode", None, a) \in QuietSteps
BY StepKinds, DoFields DEF QuietSteps, SignalOps

\* The fields of a command line.
LEMMA CommandFields ==
    ASSUME NEW c \in Commands
    PROVE  c.op \in STRING /\ c.target \in Targets /\ c.amount \in Nat
BY CommandLines

\* The targets include every component and "none".
LEMMA TargetMembers ==
    Slaves \subseteq Targets /\ Components \subseteq Targets /\ None \in Targets
BY DEF Targets

\* inject_network_delay, _loss and _reorder: what Shape runs.
LEMMA ShapeType ==
    ASSUME NEW kind \in Kinds, NEW peer \in Targets, NEW amt \in Nat
    PROVE  Shape(kind, peer, amt) \in Seq(QuietSteps)
<1>1. /\ Do("qdisc-del", None, 0) \in QuietSteps
      /\ Do("qdisc-prio", None, 0) \in QuietSteps
      /\ Do("qdisc-netem", kind, amt) \in QuietSteps
      /\ Do("qdisc-child", kind, amt) \in QuietSteps
      /\ Do("filter", peer, 0) \in QuietSteps
    BY QuietKinds
<1>2. <<Do("qdisc-del", None, 0)>> \in Seq(QuietSteps)
    BY <1>1
<1>3. (IF amt <= 0 THEN <<>>
       ELSE IF peer = None THEN <<Do("qdisc-netem", kind, amt)>>
       ELSE <<Do("qdisc-prio", None, 0), Do("qdisc-child", kind, amt),
              Do("filter", peer, 0)>>) \in Seq(QuietSteps)
    BY <1>1
<1> QED
    BY <1>2, <1>3, ConcatProperties DEF Shape

\* inject_network_fault: two rules, or none when the address cannot be parsed.
LEMMA PartitionType ==
    ASSUME NEW peer \in Targets, NEW port \in Nat
    PROVE  inject_network_fault(peer, port) \in Seq(QuietSteps)
<1>1. <<"INPUT", peer, port>> \in Rules /\ <<"OUTPUT", peer, port>> \in Rules
    BY DEF Rules
<1> QED
    BY <1>1, QuietKinds DEF inject_network_fault

DropSteps == {st \in QuietSteps : st.op = "drop"}

LEMMA DropKinds == \A r \in Rules : Do("drop", r, 0) \in DropSteps
BY QuietKinds, DoFields DEF DropSteps

\* isolate-local: one rule per port and chain.
LEMMA IsolateType ==
    ASSUME NEW port \in Nat
    PROVE  isolate_local(port) \in Seq(DropSteps)
<1>1. CASE port > 0
    <2>1. <<"INPUT", "dport", port>> \in Rules /\ <<"OUTPUT", "sport", port>> \in Rules
        BY DEF Rules
    <2> QED
        BY <1>1, <2>1, DropKinds DEF isolate_local
<1>2. CASE ~(port > 0)
    <2> DEFINE In  == [i \in 1..Len(InPorts) |->
                         Do("drop", <<"INPUT", "dport", InPorts[i]>>, 0)]
               Out == [i \in 1..Len(OutPorts) |->
                         Do("drop", <<"OUTPUT", "dport", OutPorts[i]>>, 0)]
    <2>1. InPorts \in Seq(Nat) /\ OutPorts \in Seq(Nat)
        BY DEF InPorts, OutPorts
    <2>2. \A i \in 1..Len(InPorts) :
              Do("drop", <<"INPUT", "dport", InPorts[i]>>, 0) \in DropSteps
        <3> SUFFICES ASSUME NEW i \in 1..Len(InPorts)
                     PROVE  Do("drop", <<"INPUT", "dport", InPorts[i]>>, 0) \in DropSteps
            OBVIOUS
        <3>1. InPorts[i] \in Nat
            BY <2>1, ElementOfSeq
        <3>2. <<"INPUT", "dport", InPorts[i]>> \in Rules
            BY <3>1 DEF Rules
        <3> QED
            BY <3>2, DropKinds
    <2>3. \A i \in 1..Len(OutPorts) :
              Do("drop", <<"OUTPUT", "dport", OutPorts[i]>>, 0) \in DropSteps
        <3> SUFFICES ASSUME NEW i \in 1..Len(OutPorts)
                     PROVE  Do("drop", <<"OUTPUT", "dport", OutPorts[i]>>, 0) \in DropSteps
            OBVIOUS
        <3>1. OutPorts[i] \in Nat
            BY <2>1, ElementOfSeq
        <3>2. <<"OUTPUT", "dport", OutPorts[i]>> \in Rules
            BY <3>1 DEF Rules
        <3> QED
            BY <3>2, DropKinds
    <2>4. Len(InPorts) \in Nat /\ Len(OutPorts) \in Nat
        BY <2>1, LenProperties
    <2>5. In \in [1..Len(InPorts) -> DropSteps] /\ Out \in [1..Len(OutPorts) -> DropSteps]
        BY <2>2, <2>3
    <2>6. In \in Seq(DropSteps) /\ Out \in Seq(DropSteps)
        BY <2>4, <2>5, FunctionIsSeq
    <2>7. In \o Out \in Seq(DropSteps)
        BY <2>6, ConcatProperties
    <2> QED
        BY <1>2, <2>7 DEF isolate_local
<1> QED
    BY <1>1, <1>2

\* main: every command but crash, hang and resume runs shell commands that
\* signal no component, with operands of the right kind.
LEMMA QuietScripts ==
    ASSUME NEW c \in Commands, NEW n \in Nodes, c.op \notin SignalOps
    PROVE  Script(c, n) \in Seq(QuietSteps)
<1>1. /\ c.op \in STRING /\ c.target \in Targets /\ c.amount \in Nat
      /\ Peer(c, n) \in Targets
    BY CommandFields, TargetMembers DEF Peer
<1>2. \A k \in Kinds, p \in Targets, a \in Nat : Shape(k, p, a) \in Seq(QuietSteps)
    BY ShapeType
<1>3. /\ inject_network_delay(Peer(c, n), c.amount) \in Seq(QuietSteps)
      /\ inject_network_loss(Peer(c, n), c.amount) \in Seq(QuietSteps)
      /\ inject_network_reorder(Peer(c, n), c.amount) \in Seq(QuietSteps)
      /\ inject_network_delay(None, 0) \in Seq(QuietSteps)
      /\ inject_network_loss(None, 0) \in Seq(QuietSteps)
      /\ inject_network_reorder(None, 0) \in Seq(QuietSteps)
    BY <1>1, <1>2, TargetMembers
       DEF inject_network_delay, inject_network_loss, inject_network_reorder, Kinds
<1>4. /\ inject_network_fault(c.target, c.amount) \in Seq(QuietSteps)
      /\ isolate_local(c.amount) \in Seq(QuietSteps)
    <2>1. DropSteps \subseteq QuietSteps
        BY DEF DropSteps
    <2> QED
        BY <1>1, <2>1, PartitionType, IsolateType, SeqMonotonic
<1>5. /\ inject_memory_stress(c.amount) \in Seq(QuietSteps)
      /\ inject_memory_stress(0) \in Seq(QuietSteps)
      /\ inject_yarn_fault(1) \in Seq(QuietSteps) /\ inject_yarn_fault(2) \in Seq(QuietSteps)
      /\ <<Do("write", "disk_hog", 0)>> \in Seq(QuietSteps)
      /\ <<Do("rm", "disk_hog", 0)>> \in Seq(QuietSteps)
    BY QuietKinds DEF inject_memory_stress, inject_yarn_fault, FileNames
<1>6. /\ inject_io_delay(c.amount) \in Seq(QuietSteps)
      /\ inject_cpu_stress \in Seq(QuietSteps)
      /\ inject_hdfs_fault(c.amount) \in Seq(QuietSteps)
      /\ <<Do("flush", None, 0)>> \in Seq(QuietSteps)
    BY <1>1, QuietKinds DEF inject_io_delay, inject_cpu_stress, inject_hdfs_fault
<1>7. /\ <<Do("kill-task", "map", 0)>> \in Seq(QuietSteps)
      /\ <<Do("kill-task", "reduce", 0)>> \in Seq(QuietSteps)
    <2>1. "map" \in Targets /\ "reduce" \in Targets
        BY TargetMembers DEF Components, SlaveComps
    <2> QED
        BY <2>1, QuietKinds
<1>8. <<>> \in Seq(QuietSteps)
    BY EmptySeq
<1> QED
    BY <1>3, <1>4, <1>5, <1>6, <1>7, <1>8 DEF Script

\* main: every command runs shell commands with operands of the right kind,
\* on whatever node it runs.
LEMMA ScriptType ==
    ASSUME NEW c \in Commands, NEW n \in Nodes
    PROVE  Script(c, n) \in Seq(Step)
<1>1. CASE c.op \notin SignalOps
    <2>1. Script(c, n) \in Seq(QuietSteps) /\ QuietSteps \subseteq Step
        BY <1>1, QuietScripts DEF QuietSteps
    <2> QED
        BY <2>1, SeqMonotonic
<1>2. CASE c.op \in SignalOps
    <2>1. Do(c.op, c.target, 0) \in Step
        BY <1>2, CommandFields, StepKinds
    <2>2. Script(c, n) = <<Do(c.op, c.target, 0)>>
        BY <1>2 DEF Script, SignalOps, FillOps, exec_local_process_fault
    <2> QED
        BY <2>1, <2>2
<1> QED
    BY <1>1, <1>2
-----------------------------------------------------------------------------
(***************************************************************************)
(* 2. Type correctness.  The type invariant alone is not inductive: a leg  *)
(*    runs the script of running[s], which must then be a command.         *)
(***************************************************************************)

\* A session that executes no command is on no node and has none to visit.
IdleRests == \A s \in Sessions : Idle(s) => here[s] = None /\ legs[s] = <<>>

TypeInv == TypeOK /\ IdleRests

\* The nodes a command visits.
LEMMA LegsType ==
    ASSUME NEW c \in Commands
    PROVE  Legs(c) \in Seq(Nodes)
<1>1. SlaveSeq \in Seq(Nodes)
    BY Topology, SeqMonotonic DEF Nodes
<1>2. <<Master>> \in Seq(Nodes) /\ <<>> \in Seq(Nodes)
    BY DEF Nodes
<1>3. c.target \in Slaves => <<c.target>> \in Seq(Nodes)
    BY DEF Nodes
<1>4. <<Master>> \o SlaveSeq \in Seq(Nodes)
    BY <1>1, <1>2, ConcatProperties
<1> QED
    BY <1>1, <1>2, <1>3, <1>4 DEF Legs

\* What a shell command finds when it runs: a node, and a rest of a script.
LEMMA ExecFacts ==
    ASSUME TypeInv, NEW s \in Sessions, NEW op, Exec(s, op)
    PROVE  /\ here[s] \in Nodes
           /\ Head(todo[s]) \in Step
           /\ Head(todo[s]).op = op
           /\ Tail(todo[s]) \in Seq(Step)
<1>1. todo[s] \in Seq(Step) /\ todo[s] # <<>>
    BY DEF TypeInv, TypeOK, CliType, Exec
<1>2. Head(todo[s]) \in Step /\ Tail(todo[s]) \in Seq(Step)
    BY <1>1, HeadTailProperties
<1> QED
    BY <1>2 DEF TypeInv, TypeOK, CliType, Exec

\* The operands of the shell commands that have some.
LEMMA Operands ==
    ASSUME NEW st \in Step
    PROVE  /\ st.op = "drop" => st.what \in Rules
           /\ st.op \in {"qdisc-netem", "qdisc-child"} =>
                 st.what \in Kinds /\ st.amt \in Nat
           /\ st.op = "filter" => st.what \in Targets
           /\ st.op \in {"write", "rm"} => st.what \in FileNames
           /\ st.op = "io-leave" => st.what \in SUBSET Processes
BY DEF Step, SignalOps

\* A shell command that pops itself keeps the invocations typed.
LEMMA PopKeeps ==
    ASSUME TypeInv, NEW s \in Sessions, NEW op, Exec(s, op), Pop(s)
    PROVE  CliType' /\ IdleRests'
<1>1. Tail(todo[s]) \in Seq(Step)
    BY ExecFacts
<1>2. todo' \in [Sessions -> Seq(Step)]
    BY <1>1 DEF Pop, TypeInv, TypeOK, CliType
<1> QED
    BY <1>2 DEF TypeInv, TypeOK, CliType, Exec, IdleRests, Idle

\* So does one that ends its script.
LEMMA QuitKeeps ==
    ASSUME TypeInv, NEW s \in Sessions, NEW op, Exec(s, op), Quit(s)
    PROVE  CliType' /\ IdleRests'
<1>1. todo' \in [Sessions -> Seq(Step)]
    BY EmptySeq DEF Quit, TypeInv, TypeOK, CliType
<1> QED
    BY <1>1 DEF TypeInv, TypeOK, CliType, Exec, IdleRests, Idle

LEMMA EmptyTree == NoQdisc \in Qdisc
BY DEF NoQdisc, Qdisc

\* The commands on the traffic control tree and on the filter table.
LEMMA NetSteps ==
    ASSUME TypeInv, NEW s \in Sessions,
           \/ QdiscDel(s) \/ QdiscNetem(s) \/ QdiscPrio(s) \/ QdiscChild(s)
           \/ FilterAdd(s) \/ Drop(s) \/ Flush(s)
    PROVE  TypeInv'
<1> USE DEF TypeInv, What, Amt
<1>0. \A n \in Nodes : qdisc[n] \in Qdisc /\ drops[n] \in SUBSET Rules
    BY DEF TypeOK, NetType
<1>a. ASSUME UNCHANGED hostVars, CliType', IdleRests', NetType'
      PROVE  TypeInv'
    BY <1>a DEF hostVars, HostType, TypeOK
<1>1. CASE QdiscDel(s)
    <2>1. CliType' /\ IdleRests'
        BY <1>1, PopKeeps DEF QdiscDel
    <2>2. NetType'
        BY <1>1, ExecFacts, EmptyTree DEF QdiscDel, TypeOK, NetType
    <2> QED
        BY <1>1, <1>a, <2>1, <2>2 DEF QdiscDel
<1>2. CASE QdiscNetem(s)
    <2>1. CliType' /\ IdleRests'
        BY <1>2, PopKeeps DEF QdiscNetem
    <2>2. here[s] \in Nodes /\ What(s) \in Kinds /\ Amt(s) \in Nat
        BY <1>2, ExecFacts, Operands DEF QdiscNetem
    <2>3. [NoQdisc EXCEPT !.root = "netem", !.kind = What(s), !.amt = Amt(s)] \in Qdisc
        BY <2>2 DEF NoQdisc, Qdisc
    <2>4. NetType'
        BY <1>2, <1>0, <2>2, <2>3 DEF QdiscNetem, TypeOK, NetType
    <2> QED
        BY <1>2, <1>a, <2>1, <2>4 DEF QdiscNetem
<1>3. CASE QdiscPrio(s)
    <2>1. CliType' /\ IdleRests'
        BY <1>3, PopKeeps DEF QdiscPrio
    <2>2. [NoQdisc EXCEPT !.root = "prio"] \in Qdisc
        BY DEF NoQdisc, Qdisc
    <2>3. NetType'
        BY <1>3, <1>0, <2>2, ExecFacts DEF QdiscPrio, TypeOK, NetType
    <2> QED
        BY <1>3, <1>a, <2>1, <2>3 DEF QdiscPrio
<1>4. CASE QdiscChild(s)
    <2>1. CliType' /\ IdleRests'
        BY <1>4, PopKeeps DEF QdiscChild
    <2>2. here[s] \in Nodes /\ What(s) \in Kinds /\ Amt(s) \in Nat
        BY <1>4, ExecFacts, Operands DEF QdiscChild
    <2>3. \A q \in Qdisc : [q EXCEPT !.kind = What(s), !.amt = Amt(s)] \in Qdisc
        BY <2>2 DEF Qdisc
    <2>4. NetType'
        BY <1>4, <1>0, <2>2, <2>3 DEF QdiscChild, TypeOK, NetType
    <2> QED
        BY <1>4, <1>a, <2>1, <2>4 DEF QdiscChild
<1>5. CASE FilterAdd(s)
    <2>1. CliType' /\ IdleRests'
        BY <1>5, PopKeeps DEF FilterAdd
    <2>2. here[s] \in Nodes /\ What(s) \in Targets
        BY <1>5, ExecFacts, Operands DEF FilterAdd
    <2>3. \A q \in Qdisc : [q EXCEPT !.flows = q.flows \cup {What(s)}] \in Qdisc
        BY <2>2 DEF Qdisc
    <2>4. NetType'
        BY <1>5, <1>0, <2>2, <2>3 DEF FilterAdd, TypeOK, NetType
    <2> QED
        BY <1>5, <1>a, <2>1, <2>4 DEF FilterAdd
<1>6. CASE Drop(s)
    <2>1. CliType' /\ IdleRests'
        BY <1>6, PopKeeps DEF Drop
    <2>2. NetType'
        BY <1>6, ExecFacts, Operands DEF Drop, TypeOK, NetType
    <2> QED
        BY <1>6, <1>a, <2>1, <2>2 DEF Drop
<1>7. CASE Flush(s)
    <2>1. CliType' /\ IdleRests'
        BY <1>7, PopKeeps DEF Flush
    <2>2. NetType'
        BY <1>7, ExecFacts DEF Flush, TypeOK, NetType
    <2> QED
        BY <1>7, <1>a, <2>1, <2>2 DEF Flush
<1> QED
    BY <1>1, <1>2, <1>3, <1>4, <1>5, <1>6, <1>7

\* A process that changes state keeps the table of processes typed.
LEMMA ProcUpdate ==
    ASSUME TypeInv, NEW n \in Nodes, NEW p \in Hosted[n], NEW state \in States,
           proc' = [proc EXCEPT ![n][p] = state]
    PROVE  /\ proc' \in [Nodes -> UNION {[Hosted[m] -> States] : m \in Nodes}]
           /\ \A m \in Nodes : proc'[m] \in [Hosted[m] -> States]
<1>1. /\ proc \in [Nodes -> UNION {[Hosted[m] -> States] : m \in Nodes}]
      /\ \A m \in Nodes : proc[m] \in [Hosted[m] -> States]
    BY DEF TypeInv, TypeOK, HostType
<1>2. [proc[n] EXCEPT ![p] = state] \in [Hosted[n] -> States]
    BY <1>1
<1> QED
    BY <1>1, <1>2

\* kill and find_hadoop_pid only touch processes of the node they run on.
LEMMA DiesType ==
    ASSUME TypeInv, NEW n \in Nodes, NEW p \in Hosted[n], Dies(n, p),
           UNCHANGED <<safemode, files, ioDir, burning>>
    PROVE  HostType'
<1>1. "absent" \in States
    BY DEF States
<1>2. limited' \in [Nodes -> SUBSET Processes]
    BY DEF Dies, TypeInv, TypeOK, HostType
<1> QED
    BY <1>1, <1>2, ProcUpdate DEF Dies, TypeInv, TypeOK, HostType

\* The commands on processes, files, cgroups and CPUs.
LEMMA HostSteps ==
    ASSUME TypeInv, NEW s \in Sessions,
           \/ Crash(s) \/ Hang(s) \/ Resume(s) \/ KillTask(s)
           \/ Safemode(s) \/ InterruptSafemode(s) \/ WriteFile(s) \/ RemoveFile(s)
           \/ IoMkdir(s) \/ IoMax(s) \/ IoEnter(s) \/ IoList(s) \/ IoLeave(s) \/ IoRmdir(s)
           \/ Burn(s) \/ Cool(s)
    PROVE  TypeInv'
<1>a. ASSUME UNCHANGED netVars, CliType', IdleRests', HostType'
      PROVE  TypeInv'
    BY <1>a DEF netVars, NetType, TypeOK, TypeInv
<1>b. \A n \in Nodes : Alive(n) \subseteq Hosted[n] /\ Alive(n) \subseteq Processes
    BY DEF Alive, Processes
<1>h. HostType
    BY DEF TypeInv, TypeOK
<1>1. CASE Crash(s)
    <2>1. CliType' /\ IdleRests' /\ here[s] \in Nodes
        BY <1>1, PopKeeps, ExecFacts DEF Crash
    <2>2. HostType'
        <3>1. CASE UNCHANGED <<proc, limited>>
            BY <1>1, <1>h, <3>1 DEF Crash, HostType
        <3>2. CASE \E p \in Alive(here[s]) : Dies(here[s], p)
            BY <1>1, <1>b, <2>1, <3>2, DiesType DEF Crash
        <3> QED
            BY <1>1, <3>1, <3>2 DEF Crash
    <2> QED
        BY <1>1, <1>a, <2>1, <2>2 DEF Crash
<1>2. CASE Hang(s) \/ Resume(s)
    <2>1. PICK op \in {"hang", "resume"}, state \in {"stopped", "running"} :
              Signal(s, op, state)
        BY <1>2 DEF Hang, Resume
    <2>2. CliType' /\ IdleRests' /\ here[s] \in Nodes /\ state \in States
        BY <2>1, PopKeeps, ExecFacts DEF Signal, States
    <2>3. HostType'
        <3>1. CASE UNCHANGED proc
            BY <2>1, <1>h, <3>1 DEF Signal, HostType
        <3>2. CASE \E p \in Alive(here[s]) : proc' = [proc EXCEPT ![here[s]][p] = state]
            BY <2>1, <2>2, <1>b, <1>h, <3>2, ProcUpdate DEF Signal, HostType
        <3> QED
            BY <2>1, <3>1, <3>2 DEF Signal
    <2> QED
        BY <1>a, <2>1, <2>2, <2>3 DEF Signal
<1>3. CASE KillTask(s)
    <2>1. CliType' /\ IdleRests' /\ here[s] \in Nodes
        BY <1>3, PopKeeps, ExecFacts DEF KillTask
    <2>2. HostType'
        <3>1. CASE UNCHANGED <<proc, limited>>
            BY <1>3, <1>h, <3>1 DEF KillTask, HostType
        <3>2. CASE \E p \in Alive(here[s]) : Dies(here[s], p)
            BY <1>3, <1>b, <2>1, <3>2, DiesType DEF KillTask
        <3> QED
            BY <1>3, <3>1, <3>2 DEF KillTask
    <2> QED
        BY <1>3, <1>a, <2>1, <2>2 DEF KillTask
<1>4. CASE Safemode(s)
    <2>1. CliType' /\ IdleRests'
        BY <1>4, PopKeeps DEF Safemode
    <2>2. HostType'
        BY <1>4, <1>h DEF Safemode, HostType
    <2> QED
        BY <1>4, <1>a, <2>1, <2>2 DEF Safemode
<1>5. CASE WriteFile(s)
    <2>1. CliType' /\ IdleRests' /\ here[s] \in Nodes /\ What(s) \in FileNames
        BY <1>5, PopKeeps, ExecFacts, Operands DEF WriteFile, What
    <2>2. HostType'
        BY <1>5, <1>h, <2>1 DEF WriteFile, HostType
    <2> QED
        BY <1>5, <1>a, <2>1, <2>2 DEF WriteFile
<1>6. CASE RemoveFile(s)
    <2>1. CliType' /\ IdleRests' /\ here[s] \in Nodes
        BY <1>6, PopKeeps, ExecFacts DEF RemoveFile
    <2>2. HostType'
        BY <1>6, <1>h, <2>1 DEF RemoveFile, HostType
    <2> QED
        BY <1>6, <1>a, <2>1, <2>2 DEF RemoveFile
<1>7. CASE IoMkdir(s)
    <2>1. CliType' /\ IdleRests' /\ here[s] \in Nodes
        BY <1>7, PopKeeps, ExecFacts DEF IoMkdir
    <2>2. HostType'
        BY <1>7, <1>h, <2>1 DEF IoMkdir, HostType
    <2> QED
        BY <1>7, <1>a, <2>1, <2>2 DEF IoMkdir
<1>14. CASE InterruptSafemode(s)
    <2>1. CliType' /\ IdleRests'
        BY <1>14, PopKeeps DEF InterruptSafemode
    <2> QED
        BY <1>14, <1>a, <1>h, <2>1 DEF InterruptSafemode, hostVars, HostType
<1>15. CASE IoMax(s)
    <2>1. here[s] \in Nodes
        BY <1>15, ExecFacts DEF IoMax
    <2>2. CliType' /\ IdleRests'
        BY <1>15, PopKeeps, QuitKeeps DEF IoMax
    <2>3. HostType'
        BY <1>15, <1>h, <2>1 DEF IoMax, HostType
    <2> QED
        BY <1>15, <1>a, <2>2, <2>3 DEF IoMax
<1>8. CASE IoEnter(s)
    <2>1. CliType' /\ IdleRests' /\ here[s] \in Nodes
        BY <1>8, PopKeeps, ExecFacts DEF IoEnter
    <2>2. HostType'
        BY <1>8, <1>b, <1>h, <2>1 DEF IoEnter, HostType
    <2> QED
        BY <1>8, <1>a, <2>1, <2>2 DEF IoEnter
<1>9. CASE IoList(s)
    <2>1. here[s] \in Nodes /\ Tail(todo[s]) \in Seq(Step)
        BY <1>9, ExecFacts DEF IoList
    <2>2. Do("io-leave", limited[here[s]], 0) \in Step
        BY <1>h, <2>1, StepKinds DEF HostType
    <2>3. <<Do("io-leave", limited[here[s]], 0)>> \o Tail(todo[s]) \in Seq(Step)
        BY <2>1, <2>2, ConcatProperties
    <2>4. CliType' /\ IdleRests'
        BY <1>9, <2>3 DEF IoList, Exec, TypeInv, TypeOK, CliType, IdleRests, Idle
    <2> QED
        BY <1>9, <1>a, <1>h, <2>4 DEF IoList, hostVars, HostType
<1>10. CASE IoLeave(s)
    <2>1. CliType' /\ IdleRests' /\ here[s] \in Nodes
        BY <1>10, PopKeeps, ExecFacts DEF IoLeave
    <2>2. HostType'
        BY <1>10, <1>h, <2>1 DEF IoLeave, HostType
    <2> QED
        BY <1>10, <1>a, <2>1, <2>2 DEF IoLeave
<1>11. CASE IoRmdir(s)
    <2>1. CliType' /\ IdleRests' /\ here[s] \in Nodes
        BY <1>11, PopKeeps, ExecFacts DEF IoRmdir
    <2>2. HostType'
        BY <1>11, <1>h, <2>1 DEF IoRmdir, HostType
    <2> QED
        BY <1>11, <1>a, <2>1, <2>2 DEF IoRmdir
<1>12. CASE Burn(s)
    <2>1. CliType' /\ IdleRests' /\ here[s] \in Nodes
        BY <1>12, PopKeeps, ExecFacts DEF Burn
    <2>2. HostType'
        BY <1>12, <1>h, <2>1 DEF Burn, HostType
    <2> QED
        BY <1>12, <1>a, <2>1, <2>2 DEF Burn
<1>13. CASE Cool(s)
    <2>1. CliType' /\ IdleRests' /\ here[s] \in Nodes
        BY <1>13, PopKeeps, ExecFacts DEF Cool
    <2>2. HostType'
        BY <1>13, <1>h, <2>1 DEF Cool, HostType
    <2> QED
        BY <1>13, <1>a, <2>1, <2>2 DEF Cool
<1> QED
    BY <1>1, <1>2, <1>3, <1>4, <1>5, <1>6, <1>7, <1>8, <1>9, <1>10, <1>11, <1>12, <1>13,
       <1>14, <1>15

\* What a command is to leave is a shaping that a node can have.
LEMMA WantedType ==
    ASSUME NEW c \in Commands
    PROVE  c.op \in ShapeOps \cup ShapeClears => Wanted(c) \in Qdisc
<1>1. c.amount \in Nat
    BY CommandFields
<1>2. c.op \in ShapeOps => KindOf(c) \in Kinds
    BY DEF ShapeOps, KindOf, Kinds
<1> QED
    BY <1>1, <1>2, EmptyTree DEF Wanted, Qdisc

\* The steps of an invocation between the shell commands.
LEMMA CliSteps ==
    ASSUME TypeInv, NEW s \in Sessions,
           \/ \E c \in Commands : Start(s, c)
           \/ EnterLeg(s) \/ MissLeg(s) \/ LeaveLeg(s) \/ Finish(s)
    PROVE  TypeInv'
<1>a. ASSUME UNCHANGED <<netVars, hostVars>>, CliType', IdleRests'
      PROVE  TypeInv'
    BY <1>a DEF netVars, hostVars, NetType, HostType, TypeOK, TypeInv
<1> USE DEF TypeInv, TypeOK, CliType
<1>1. ASSUME NEW c \in Commands, Start(s, c)
      PROVE  TypeInv'
    <2>1. Legs(c) \in Seq(Nodes) /\ c # None
        BY LegsType, Topology
    <2>2. alone' \in [Sessions -> BOOLEAN] /\ steady' = alone'
        BY <1>1 DEF Start
    <2>3. CliType'
        BY <1>1, <2>1, <2>2 DEF Start
    <2>4. IdleRests'
        BY <1>1, <2>1 DEF Start, IdleRests, Idle
    <2> QED
        BY <1>1, <1>a, <2>3, <2>4 DEF Start
<1>2. CASE EnterLeg(s)
    <2>1. Head(legs[s]) \in Nodes /\ Tail(legs[s]) \in Seq(Nodes)
        BY <1>2, HeadTailProperties DEF EnterLeg
    <2>2. running[s] \in Commands
        BY <1>2 DEF EnterLeg, IdleRests, Idle
    <2>3. Script(running[s], Head(legs[s])) \in Seq(Step)
        BY <2>1, <2>2, ScriptType
    <2>6. asked' \in [Slaves -> SUBSET Qdisc]
        <3>1. AskedWith(s, Head(legs[s])) \in [Slaves -> SUBSET Qdisc]
            <4>1. running[s].op \in ShapeOps \cup ShapeClears => Wanted(running[s]) \in Qdisc
                BY <2>2, WantedType
            <4> QED
                BY <4>1, <2>1 DEF AskedWith, Nodes
        <3> QED
            BY <1>2, <3>1 DEF EnterLeg
    <2>4. CliType'
        BY <1>2, <2>1, <2>3, <2>6 DEF EnterLeg
    <2>5. IdleRests'
        BY <1>2, <2>2, Topology DEF EnterLeg, IdleRests, Idle
    <2> QED
        BY <1>2, <1>a, <2>4, <2>5 DEF EnterLeg
<1>3. CASE MissLeg(s)
    <2>1. Head(legs[s]) \in Slaves /\ Tail(legs[s]) \in Seq(Nodes)
        BY <1>3, HeadTailProperties DEF MissLeg, Nodes
    <2>2. CliType'
        BY <1>3, <2>1 DEF MissLeg
    <2>3. IdleRests'
        BY <1>3, <2>1 DEF MissLeg, IdleRests, Idle
    <2> QED
        BY <1>3, <1>a, <2>2, <2>3 DEF MissLeg
<1>4. CASE LeaveLeg(s)
    <2>2. asked' \in [Slaves -> SUBSET Qdisc]
        BY <1>4 DEF LeaveLeg
    <2>1. CliType' /\ IdleRests'
        BY <1>4, <2>2 DEF LeaveLeg, IdleRests, Idle
    <2> QED
        BY <1>4, <1>a, <2>1 DEF LeaveLeg
<1>5. CASE Finish(s)
    <2>1. CliType' /\ IdleRests'
        BY <1>5 DEF Finish, IdleRests, Idle
    <2> QED
        BY <1>5, <1>a, <2>1 DEF Finish
<1> QED
    BY <1>1, <1>2, <1>3, <1>4, <1>5

\* A process that Hadoop starts again.
LEMMA RestartStep ==
    ASSUME TypeInv, NEW n \in Nodes, NEW p \in Hosted[n], Restart(n, p)
    PROVE  TypeInv'
<1>1. /\ proc' \in [Nodes -> UNION {[Hosted[m] -> States] : m \in Nodes}]
      /\ \A m \in Nodes : proc'[m] \in [Hosted[m] -> States]
    BY ProcUpdate DEF Restart, States
<1>2. limited' \in [Nodes -> SUBSET Processes]
    <2>1. limited \in [Nodes -> SUBSET Processes] /\ p \in Processes
        BY DEF TypeInv, TypeOK, HostType, Processes
    <2>2. \/ UNCHANGED limited
          \/ limited' = [limited EXCEPT ![n] = @ \cup {p}]
        BY DEF Restart
    <2> QED
        BY <2>1, <2>2
<1>3. HostType'
    BY <1>1, <1>2 DEF Restart, TypeInv, TypeOK, HostType
<1> QED
    BY <1>3 DEF Restart, TypeInv, TypeOK, NetType, CliType, netVars, cliVars, IdleRests, Idle

LEMMA TypeInit == Init => TypeInv
<1> SUFFICES ASSUME Init PROVE TypeInv
    OBVIOUS
<1>1. NetType
    BY EmptyTree DEF Init, NetType
<1>2. HostType
    <2>1. \A n \in Nodes : [p \in Hosted[n] |-> "running"] \in [Hosted[n] -> States]
        BY DEF States
    <2>2. /\ proc \in [Nodes -> UNION {[Hosted[n] -> States] : n \in Nodes}]
          /\ \A n \in Nodes : proc[n] \in [Hosted[n] -> States]
        BY <2>1 DEF Init
    <2> QED
        BY <2>2 DEF Init, HostType
<1>3. CliType /\ IdleRests
    BY DEF Init, CliType, IdleRests
<1> QED
    BY <1>1, <1>2, <1>3 DEF TypeInv, TypeOK

LEMMA TypeNext == TypeInv /\ [Next]_vars => TypeInv'
<1> SUFFICES ASSUME TypeInv, [Next]_vars PROVE TypeInv'
    OBVIOUS
<1>1. ASSUME NEW s \in Sessions, NEW c \in Commands, Start(s, c)
      PROVE  TypeInv'
    BY <1>1, CliSteps
<1>2. ASSUME NEW s \in Sessions, SessionStep(s)
      PROVE  TypeInv'
    BY <1>2, NetSteps, HostSteps, CliSteps DEF SessionStep, ShellStep
<1>3. ASSUME NEW n \in Nodes, NEW p \in Hosted[n], Restart(n, p)
      PROVE  TypeInv'
    BY <1>3, RestartStep
<1>4. CASE UNCHANGED vars
    BY <1>4 DEF vars, netVars, hostVars, cliVars, TypeInv, TypeOK, NetType,
                HostType, CliType, IdleRests, Idle
<1> QED
    BY <1>1, <1>2, <1>3, <1>4 DEF Next

\* Every variable keeps its type, and a session that is idle is nowhere.
THEOREM InvariantTypes == Spec => []TypeInv
BY TypeInit, TypeNext, PTL DEF Spec

\* The type of every variable (state kept by hadoop_injector.c and its nodes),
\* for every cluster and every set of commands.
THEOREM TypeCorrect == Spec => []TypeOK
<1>1. TypeInv => TypeOK
    BY DEF TypeInv
<1> QED
    BY <1>1, InvariantTypes, PTL
-----------------------------------------------------------------------------
\* A shell command leaves the other nodes alone, and the session where it is.
LEMMA Locality ==
    ASSUME TypeInv, NEW s \in Sessions, ShellStep(s),
           NEW n \in Nodes, n # here[s]
    PROVE  /\ here' = here
           /\ UNCHANGED <<qdisc[n], drops[n], files[n], ioDir[n], limited[n]>>
<1> USE DEF TypeInv, TypeOK, NetType, HostType, CliType
<1>1. CASE \/ QdiscDel(s) \/ QdiscNetem(s) \/ QdiscPrio(s) \/ QdiscChild(s)
          \/ FilterAdd(s) \/ Drop(s) \/ Flush(s)
    BY <1>1 DEF QdiscDel, QdiscNetem, QdiscPrio, QdiscChild, FilterAdd, Drop, Flush,
                Exec, Pop, hostVars
<1>2. CASE Crash(s) \/ KillTask(s)
    BY <1>2 DEF Crash, KillTask, Dies, Exec, Pop, netVars
<1>3. CASE Hang(s) \/ Resume(s) \/ Safemode(s) \/ InterruptSafemode(s)
    BY <1>3 DEF Hang, Resume, Signal, Safemode, InterruptSafemode, Exec, Pop, netVars,
                hostVars
<1>4. CASE WriteFile(s) \/ RemoveFile(s) \/ Burn(s) \/ Cool(s)
    BY <1>4 DEF WriteFile, RemoveFile, Burn, Cool, Exec, Pop, netVars
<1>5. CASE IoMkdir(s) \/ IoMax(s) \/ IoEnter(s) \/ IoList(s) \/ IoLeave(s) \/ IoRmdir(s)
    BY <1>5 DEF IoMkdir, IoMax, Quit, IoEnter, IoList, IoLeave, IoRmdir, Exec, Pop, netVars, hostVars
<1> QED
    BY <1>1, <1>2, <1>3, <1>4, <1>5 DEF ShellStep

-----------------------------------------------------------------------------
(***************************************************************************)
(* 3. Blast radius and reachability.  Neither is inductive: what a node    *)
(*    suffers next is what the shell commands still pending on it will do, *)
(*    and what is pending depends on why the session visits the node.  The *)
(*    invariant says that every node on a session's way is one its command *)
(*    concerns, and that every pending command is licensed by a command    *)
(*    line aimed at that node.                                             *)
(***************************************************************************)

SshRules == {<<"INPUT", "dport", 22>>, <<"OUTPUT", "sport", 22>>}

\* Command c concerns node n.
Visits(c, n) == n = Master \/ c.op \in ClearOps \cup SignalOps \/ c.target = n

\* Step st, on slave n, is what a command line aimed at n asks for.
Licensed(n, st) ==
    /\ st.op \notin {"qdisc-prio", "qdisc-child", "filter"}
    /\ st.op = "qdisc-netem" =>
          \E c \in Commands : /\ Asks(c, n, KindOps(st.what))
                              /\ c.amount = st.amt /\ c.amount > 0
    /\ st.op = "drop" =>
          \E c \in Commands : /\ Asks(c, n, {"isolate"})
                              /\ st.what \in SshRules => c.amount = 22
    /\ st.op = "write" /\ st.what = "disk_hog" =>
          \E c \in Commands : Asks(c, n, FillOps)
    /\ st.op = "write" /\ st.what = "hadoop_mem_stress" =>
          \E c \in Commands : Asks(c, n, {"mem-stress"}) /\ c.amount > 0
    /\ st.op = "write" /\ st.what = "yarn_node_health_check" =>
          \E c \in Commands : Asks(c, n, {"yarn-unhealthy"}) /\ c.amount = 1
    /\ st.op \in {"io-mkdir", "io-max", "io-enter"} =>
          \E c \in Commands : Asks(c, n, {"io-slow"}) /\ c.amount > 0

LicensedSteps(n) == {st \in Step : n \in Slaves => Licensed(n, st)}

Itinerary == \A s \in Sessions : legs[s] \in Seq({n \in Nodes : Visits(running[s], n)})

Pending == \A s \in Sessions :
              here[s] # None => todo[s] \in Seq(LicensedSteps(here[s]))

SshCutAimed(n) ==
    SshRules \cap drops[n] # {} =>
        \E c \in Commands : Asks(c, n, {"isolate"}) /\ c.amount = 22

\* What n suffers was asked for n, the loss of its ssh port included.
Accounted(n) == Aimed(n) /\ SshCutAimed(n)

AimInv == Itinerary /\ Pending /\ \A n \in Slaves : Accounted(n)

\* Steps that change nothing a slave is judged by need no licence.
LEMMA HarmlessSteps ==
    ASSUME NEW n \in Nodes, NEW st \in Step,
           st.op \in {"qdisc-del", "flush", "rm", "io-list", "io-leave", "io-rmdir",
                      "burn", "cool", "safemode", "kill-task"} \cup SignalOps
    PROVE  st \in LicensedSteps(n)
BY DEF LicensedSteps, Licensed, SignalOps

\* On the master anything goes: the licence is about slaves.
LEMMA MasterSteps == LicensedSteps(Master) = Step
BY Topology DEF LicensedSteps

\* main: a command is sent to the nodes it concerns and to no other.
LEMMA LegsVisit ==
    ASSUME NEW c \in Commands
    PROVE  Legs(c) \in Seq({n \in Nodes : Visits(c, n)})
<1> DEFINE V == {n \in Nodes : Visits(c, n)}
<1>1. Master \in V /\ <<Master>> \in Seq(V) /\ <<>> \in Seq(V)
    BY DEF Nodes, Visits
<1>2. ASSUME c.op \in ClearOps \cup SignalOps
      PROVE  SlaveSeq \in Seq(V) /\ <<Master>> \o SlaveSeq \in Seq(V)
    <2>1. Slaves \subseteq V
        BY <1>2 DEF Visits, Nodes
    <2>2. SlaveSeq \in Seq(V)
        BY <2>1, Topology, SeqMonotonic
    <2> QED
        BY <1>1, <2>2, ConcatProperties
<1>3. c.target \in Slaves => <<c.target>> \in Seq(V)
    BY DEF Visits, Nodes
<1> HIDE DEF V
<1>4. Legs(c) \in Seq(V)
    BY <1>1, <1>2, <1>3 DEF Legs
<1> QED
    BY <1>4 DEF V

\* A sequence of shaping commands on a slave: delete, then perhaps one netem.
LEMMA ShapeLicensed ==
    ASSUME NEW n \in Slaves, NEW kind \in Kinds, NEW amt \in Nat,
           amt > 0 => \E c \in Commands : Asks(c, n, KindOps(kind)) /\ c.amount = amt
    PROVE  Shape(kind, None, amt) \in Seq(LicensedSteps(n))
<1>1. Do("qdisc-del", None, 0) \in LicensedSteps(n)
    BY StepKinds, DoFields, HarmlessSteps DEF Nodes
<1>2. amt > 0 => Do("qdisc-netem", kind, amt) \in LicensedSteps(n)
    BY StepKinds, DoFields DEF LicensedSteps, Licensed
<1>3. <<Do("qdisc-del", None, 0)>> \in Seq(LicensedSteps(n))
    BY <1>1
<1>4. (IF amt <= 0 THEN <<>> ELSE <<Do("qdisc-netem", kind, amt)>>)
         \in Seq(LicensedSteps(n))
    BY <1>2
<1> QED
    BY <1>3, <1>4, ConcatProperties DEF Shape

\* isolate-local drops the ssh port only when it is the port that was named.
LEMMA IsolateLicensed ==
    ASSUME NEW n \in Slaves, NEW c \in Commands, Asks(c, n, {"isolate"})
    PROVE  isolate_local(c.amount) \in Seq(LicensedSteps(n))
<1> DEFINE Lic == LicensedSteps(n)
           In  == [i \in 1..Len(InPorts) |->
                     Do("drop", <<"INPUT", "dport", InPorts[i]>>, 0)]
           Out == [i \in 1..Len(OutPorts) |->
                     Do("drop", <<"OUTPUT", "dport", OutPorts[i]>>, 0)]
<1>1. \A port \in Nat, chain \in {"INPUT", "OUTPUT"}, match \in {"dport", "sport"} :
          (port = 22 => c.amount = 22) =>
             Do("drop", <<chain, match, port>>, 0) \in Lic
    <2> SUFFICES ASSUME NEW port \in Nat, NEW chain \in {"INPUT", "OUTPUT"},
                        NEW match \in {"dport", "sport"}, port = 22 => c.amount = 22
                 PROVE  Do("drop", <<chain, match, port>>, 0) \in Lic
        OBVIOUS
    <2>1. <<chain, match, port>> \in Rules
        BY DEF Rules
    <2>2. <<chain, match, port>> \in SshRules => port = 22
        BY DEF SshRules
    <2> QED
        BY <2>1, <2>2, StepKinds, DoFields DEF LicensedSteps, Licensed
<1>2. CASE c.amount > 0
    <2>1. c.amount \in Nat
        BY CommandFields
    <2>2. /\ Do("drop", <<"INPUT", "dport", c.amount>>, 0) \in Lic
          /\ Do("drop", <<"OUTPUT", "sport", c.amount>>, 0) \in Lic
        BY <1>1, <2>1
    <2> QED
        BY <1>2, <2>2 DEF isolate_local
<1>3. CASE ~(c.amount > 0)
    <2>1. InPorts \in Seq(Nat \ {22}) /\ OutPorts \in Seq(Nat \ {22})
        BY DEF InPorts, OutPorts
    <2>2. /\ \A i \in 1..Len(InPorts)  : InPorts[i] \in Nat /\ InPorts[i] # 22
          /\ \A i \in 1..Len(OutPorts) : OutPorts[i] \in Nat /\ OutPorts[i] # 22
        BY <2>1, ElementOfSeq
    <2>3. /\ \A i \in 1..Len(InPorts) :
                Do("drop", <<"INPUT", "dport", InPorts[i]>>, 0) \in Lic
          /\ \A i \in 1..Len(OutPorts) :
                Do("drop", <<"OUTPUT", "dport", OutPorts[i]>>, 0) \in Lic
        BY <1>1, <2>2
    <2>4. Len(InPorts) \in Nat /\ Len(OutPorts) \in Nat
        BY <2>1, LenProperties
    <2>5. In \in [1..Len(InPorts) -> Lic] /\ Out \in [1..Len(OutPorts) -> Lic]
        BY <2>3
    <2>6. In \in Seq(Lic) /\ Out \in Seq(Lic)
        BY <2>4, <2>5, FunctionIsSeq
    <2>7. In \o Out \in Seq(Lic)
        BY <2>6, ConcatProperties
    <2> QED
        BY <1>3, <2>7 DEF isolate_local
<1> QED
    BY <1>2, <1>3

\* What a session runs on a node its command concerns is licensed there.
LEMMA ScriptLicensed ==
    ASSUME NEW c \in Commands, NEW n \in Nodes, Visits(c, n)
    PROVE  Script(c, n) \in Seq(LicensedSteps(n))
<1>1. CASE n = Master
    BY <1>1, ScriptType, MasterSteps
<1>2. CASE n # Master
    <2> DEFINE Lic == LicensedSteps(n)
    <2>a. /\ n \in Slaves /\ Peer(c, n) = None
          /\ c.op \in ClearOps \cup SignalOps \/ c.target = n
          /\ c.op \in STRING /\ c.target \in Targets /\ c.amount \in Nat
        BY <1>2, CommandFields DEF Nodes, Visits, Peer
    <2>b. \A ops : c.target = n /\ c.op \in ops => Asks(c, n, ops)
        BY DEF Asks
    <2>1. <<>> \in Seq(Lic)
        BY EmptySeq
    <2>2. /\ inject_network_delay(None, 0) \in Seq(Lic)
          /\ inject_network_loss(None, 0) \in Seq(Lic)
          /\ inject_network_reorder(None, 0) \in Seq(Lic)
        BY <2>a, ShapeLicensed DEF inject_network_delay, inject_network_loss,
                                   inject_network_reorder, Kinds
    <2>3. ASSUME c.op \in {"delay", "heartbeat"}
          PROVE  inject_network_delay(Peer(c, n), c.amount) \in Seq(Lic)
        <3>1. c.target = n
            BY <2>3, <2>a DEF ClearOps, ShapeClears, SignalOps
        <3>2. Asks(c, n, KindOps("delay"))
            BY <2>3, <3>1 DEF Asks, KindOps
        <3> QED
            BY <2>a, <3>2, ShapeLicensed DEF inject_network_delay, Kinds
    <2>4. ASSUME c.op = "loss"
          PROVE  inject_network_loss(Peer(c, n), c.amount) \in Seq(Lic)
        <3>1. c.target = n
            BY <2>4, <2>a DEF ClearOps, ShapeClears, SignalOps
        <3>2. Asks(c, n, KindOps("loss"))
            BY <2>4, <3>1 DEF Asks, KindOps
        <3> QED
            BY <2>a, <3>2, ShapeLicensed DEF inject_network_loss, Kinds
    <2>5. ASSUME c.op = "reorder"
          PROVE  inject_network_reorder(Peer(c, n), c.amount) \in Seq(Lic)
        <3>1. c.target = n
            BY <2>5, <2>a DEF ClearOps, ShapeClears, SignalOps
        <3>2. Asks(c, n, KindOps("reorder"))
            BY <2>5, <3>1 DEF Asks, KindOps
        <3> QED
            BY <2>a, <3>2, ShapeLicensed DEF inject_network_reorder, Kinds
    <2>6. ASSUME c.op = "isolate"
          PROVE  isolate_local(c.amount) \in Seq(Lic)
        <3>1. c.target = n
            BY <2>6, <2>a DEF ClearOps, ShapeClears, SignalOps
        <3>2. Asks(c, n, {"isolate"})
            BY <2>6, <3>1 DEF Asks
        <3> QED
            BY <2>a, <3>2, IsolateLicensed
    <2>7. /\ <<Do("flush", None, 0)>> \in Seq(Lic)
          /\ <<Do("rm", "disk_hog", 0)>> \in Seq(Lic)
          /\ inject_memory_stress(0) \in Seq(Lic)
          /\ inject_yarn_fault(2) \in Seq(Lic)
          /\ inject_cpu_stress \in Seq(Lic)
          /\ inject_hdfs_fault(c.amount) \in Seq(Lic)
        <3>1. /\ Do("flush", None, 0) \in Lic /\ Do("rm", "disk_hog", 0) \in Lic
              /\ Do("rm", "hadoop_mem_stress", 0) \in Lic
              /\ Do("rm", "yarn_node_health_check", 0) \in Lic
            BY StepKinds, DoFields, HarmlessSteps DEF FileNames
        <3>2. /\ Do("burn", None, 0) \in Lic /\ Do("cool", None, 0) \in Lic
              /\ Do("safemode", None, c.amount) \in Lic
            BY <2>a, StepKinds, DoFields, HarmlessSteps
        <3> QED
            BY <3>1, <3>2 DEF inject_memory_stress, inject_yarn_fault,
                              inject_cpu_stress, inject_hdfs_fault
    <2>8. ASSUME c.op \in FillOps
          PROVE  <<Do("write", "disk_hog", 0)>> \in Seq(Lic)
        <3>1. Asks(c, n, FillOps)
            BY <2>8, <2>a, <2>b DEF ClearOps, ShapeClears, SignalOps, FillOps
        <3>2. Do("write", "disk_hog", 0) \in Step
            BY StepKinds DEF FileNames
        <3>3. Do("write", "disk_hog", 0) \in Lic
            BY <3>1, <3>2, DoFields DEF LicensedSteps, Licensed
        <3> QED
            BY <3>3
    <2>9. ASSUME c.op = "mem-stress"
          PROVE  inject_memory_stress(c.amount) \in Seq(Lic)
        <3>1. CASE c.amount <= 0
            BY <2>7, <3>1 DEF inject_memory_stress
        <3>2. CASE c.amount > 0
            <4>1. Asks(c, n, {"mem-stress"})
                BY <2>9, <2>a, <2>b DEF ClearOps, ShapeClears, SignalOps
            <4>2. Do("write", "hadoop_mem_stress", 0) \in Step
                BY StepKinds DEF FileNames
            <4>3. Do("write", "hadoop_mem_stress", 0) \in Lic
                BY <3>2, <4>1, <4>2, DoFields DEF LicensedSteps, Licensed
            <4> QED
                BY <3>2, <4>3, <2>a DEF inject_memory_stress
        <3> QED
            BY <2>a, <3>1, <3>2
    <2>10. ASSUME c.op = "yarn-unhealthy", c.amount = 1
           PROVE  inject_yarn_fault(1) \in Seq(Lic)
        <3>1. Asks(c, n, {"yarn-unhealthy"})
            BY <2>10, <2>a, <2>b DEF ClearOps, ShapeClears, SignalOps
        <3>2. Do("write", "yarn_node_health_check", 0) \in Step
            BY StepKinds DEF FileNames
        <3>3. Do("write", "yarn_node_health_check", 0) \in Lic
            BY <2>10, <3>1, <3>2, DoFields DEF LicensedSteps, Licensed
        <3> QED
            BY <3>3 DEF inject_yarn_fault
    <2>11. ASSUME c.op = "io-slow"
           PROVE  inject_io_delay(c.amount) \in Seq(Lic)
        <3>1. c.amount > 0 => /\ Do("io-mkdir", None, 0) \in Lic
                              /\ Do("io-max", None, 0) \in Lic
                              /\ Do("io-enter", None, 0) \in Lic
            <4>1. Asks(c, n, {"io-slow"})
                BY <2>11, <2>a, <2>b DEF ClearOps, ShapeClears, SignalOps
            <4>2. /\ Do("io-mkdir", None, 0) \in Step /\ Do("io-max", None, 0) \in Step
                  /\ Do("io-enter", None, 0) \in Step
                BY StepKinds
            <4> QED
                BY <4>1, <4>2, DoFields DEF LicensedSteps, Licensed
        <3>2. Do("io-list", None, 0) \in Lic /\ Do("io-rmdir", None, 0) \in Lic
            BY StepKinds, DoFields, HarmlessSteps
        <3> QED
            BY <3>1, <3>2 DEF inject_io_delay
    <2>12. /\ <<Do("kill-task", "map", 0)>> \in Seq(Lic)
           /\ <<Do("kill-task", "reduce", 0)>> \in Seq(Lic)
           /\ c.op \in SignalOps => exec_local_process_fault(c.op, c.target) \in Seq(Lic)
        <3>1. "map" \in Targets /\ "reduce" \in Targets
            BY TargetMembers DEF Components, SlaveComps
        <3>2. Do("kill-task", "map", 0) \in Lic /\ Do("kill-task", "reduce", 0) \in Lic
            BY <3>1, StepKinds, DoFields, HarmlessSteps
        <3>3. c.op \in SignalOps => Do(c.op, c.target, 0) \in Lic
            BY <2>a, StepKinds, DoFields, HarmlessSteps
        <3> QED
            BY <3>2, <3>3 DEF exec_local_process_fault
    <2> HIDE DEF Lic
    <2>13. c.op = "yarn-unhealthy" =>
              inject_yarn_fault(IF c.amount = 1 THEN 1 ELSE 2) \in Seq(Lic)
        BY <2>7, <2>10
    <2>14. Script(c, n) \in Seq(Lic)
        BY <1>2, <2>1, <2>2, <2>3, <2>4, <2>5, <2>6, <2>7, <2>8, <2>9, <2>11, <2>12, <2>13
           DEF Script
    <2> QED
        BY <2>14 DEF Lic
<1> QED
    BY <1>1, <1>2

\* What a shell command finds when it runs: a licensed step, and a licensed rest.
LEMMA LicensedFacts ==
    ASSUME TypeInv, Pending, NEW s \in Sessions, NEW op, Exec(s, op)
    PROVE  /\ here[s] \in Nodes /\ here[s] # None
           /\ Head(todo[s]) \in LicensedSteps(here[s])
           /\ Head(todo[s]).op = op
           /\ Tail(todo[s]) \in Seq(LicensedSteps(here[s]))
<1>1. todo[s] \in Seq(LicensedSteps(here[s])) /\ todo[s] # <<>>
    BY DEF Pending, Exec
<1> QED
    BY <1>1, HeadTailProperties, ExecFacts DEF Exec

\* A step that touches nothing that n is judged by.
LEMMA AccountedKept ==
    ASSUME NEW n, Accounted(n),
           UNCHANGED <<qdisc[n], drops[n], files[n], ioDir[n], limited[n]>>
    PROVE  Accounted(n)'
BY DEF Accounted, Aimed, SshCutAimed

\* The commands on the traffic control tree and the filter table, on slave n.
LEMMA NetAccounted ==
    ASSUME TypeInv, Pending, NEW s \in Sessions, NEW n \in Slaves, n = here[s],
           Accounted(n),
           \/ QdiscDel(s) \/ QdiscNetem(s) \/ QdiscPrio(s) \/ QdiscChild(s)
           \/ FilterAdd(s) \/ Drop(s) \/ Flush(s)
    PROVE  Accounted(n)'
<1> USE DEF Accounted, SshCutAimed, What, Amt
<1>a. /\ qdisc \in [Nodes -> Qdisc] /\ drops \in [Nodes -> SUBSET Rules] /\ n \in Nodes
    BY DEF TypeInv, TypeOK, NetType, Nodes
<1>1. CASE QdiscDel(s)
    <2>1. qdisc'[n] = NoQdisc /\ UNCHANGED <<drops, files, ioDir, limited>>
        BY <1>1, <1>a DEF QdiscDel, hostVars
    <2> QED
        BY <2>1 DEF Aimed
<1>2. CASE QdiscNetem(s)
    <2> DEFINE st == Head(todo[s])
    <2>1. Licensed(n, st) /\ st.op = "qdisc-netem"
        BY <1>2, LicensedFacts DEF QdiscNetem, LicensedSteps
    <2>2. PICK c \in Commands : /\ Asks(c, n, KindOps(st.what))
                                /\ c.amount = st.amt /\ c.amount > 0
        BY <2>1 DEF Licensed
    <2>3. CASE qdisc[n].root # "none"
        BY <1>2, <1>a, <2>3, AccountedKept DEF QdiscNetem, hostVars
    <2>4. CASE qdisc[n].root = "none"
        <3>1. qdisc'[n] = [NoQdisc EXCEPT !.root = "netem", !.kind = st.what,
                                          !.amt = st.amt]
            BY <1>2, <1>a, <2>4 DEF QdiscNetem
        <3>2. /\ qdisc'[n].root = "netem" /\ qdisc'[n].flows = {}
              /\ qdisc'[n].kind = st.what /\ qdisc'[n].amt = st.amt
            BY <3>1 DEF NoQdisc
        <3>3. UNCHANGED <<drops, files, ioDir, limited>>
            BY <1>2 DEF QdiscNetem, hostVars
        <3> QED
            BY <2>2, <3>2, <3>3 DEF Aimed
    <2> QED
        BY <2>3, <2>4
<1>3. CASE QdiscPrio(s) \/ QdiscChild(s) \/ FilterAdd(s)
    <2>1. Head(todo[s]).op \in {"qdisc-prio", "qdisc-child", "filter"}
        BY <1>3, LicensedFacts DEF QdiscPrio, QdiscChild, FilterAdd
    <2>2. Head(todo[s]) \in LicensedSteps(n)
        BY <1>3, LicensedFacts DEF QdiscPrio, QdiscChild, FilterAdd
    <2> QED
        BY <2>1, <2>2 DEF LicensedSteps, Licensed
<1>4. CASE Drop(s)
    <2> DEFINE st == Head(todo[s])
    <2>1. Licensed(n, st) /\ st.op = "drop"
        BY <1>4, LicensedFacts DEF Drop, LicensedSteps
    <2>2. PICK c \in Commands : /\ Asks(c, n, {"isolate"})
                                /\ st.what \in SshRules => c.amount = 22
        BY <2>1 DEF Licensed
    <2>3. drops'[n] = drops[n] \cup {st.what}
        BY <1>4, <1>a DEF Drop
    <2>4. UNCHANGED <<qdisc, files, ioDir, limited>>
        BY <1>4 DEF Drop, hostVars
    <2>5. \E d \in Commands : Asks(d, n, {"isolate"})
        BY <2>2
    <2>6. Aimed(n)'
        BY <2>4, <2>5 DEF Aimed
    <2>7. ASSUME SshRules \cap drops'[n] # {}
          PROVE  \E d \in Commands : Asks(d, n, {"isolate"}) /\ d.amount = 22
        <3>1. CASE st.what \in SshRules
            BY <2>2, <3>1
        <3>2. CASE st.what \notin SshRules
            BY <2>3, <2>7, <3>2
        <3> QED
            BY <3>1, <3>2
    <2> QED
        BY <2>6, <2>7
<1>5. CASE Flush(s)
    <2>1. drops'[n] = {} /\ UNCHANGED <<qdisc, files, ioDir, limited>>
        BY <1>5, <1>a DEF Flush, hostVars
    <2> QED
        BY <2>1 DEF Aimed
<1> QED
    BY <1>1, <1>2, <1>3, <1>4, <1>5

\* The commands on files, cgroups and processes, on slave n.
LEMMA HostAccounted ==
    ASSUME TypeInv, Pending, NEW s \in Sessions, NEW n \in Slaves, n = here[s],
           Accounted(n),
           \/ Crash(s) \/ Hang(s) \/ Resume(s) \/ KillTask(s)
           \/ Safemode(s) \/ InterruptSafemode(s) \/ WriteFile(s) \/ RemoveFile(s)
           \/ IoMkdir(s) \/ IoMax(s) \/ IoEnter(s) \/ IoList(s) \/ IoLeave(s) \/ IoRmdir(s)
           \/ Burn(s) \/ Cool(s)
    PROVE  Accounted(n)'
<1> USE DEF Accounted, SshCutAimed
<1>a. /\ files \in [Nodes -> SUBSET FileNames] /\ ioDir \in [Nodes -> {"absent", "plain", "slow"}]
      /\ limited \in [Nodes -> SUBSET Processes] /\ n \in Nodes
    BY DEF TypeInv, TypeOK, HostType, Nodes
<1>1. CASE Crash(s) \/ KillTask(s)
    <2>1. /\ UNCHANGED <<qdisc, drops, files, ioDir>>
          /\ limited'[n] # {} => limited[n] # {}
        BY <1>1, <1>a DEF Crash, KillTask, Dies, netVars
    <2> QED
        BY <2>1 DEF Aimed
<1>2. CASE \/ Hang(s) \/ Resume(s) \/ Safemode(s) \/ InterruptSafemode(s)
           \/ Burn(s) \/ Cool(s)
    <2>1. UNCHANGED <<qdisc, drops, files, ioDir, limited>>
        BY <1>2 DEF Hang, Resume, Signal, Safemode, InterruptSafemode, Burn, Cool,
                    netVars, hostVars
    <2> QED
        BY <2>1, AccountedKept
<1>3. CASE WriteFile(s)
    <2> DEFINE st == Head(todo[s])
    <2>1. Licensed(n, st) /\ st.op = "write"
        BY <1>3, LicensedFacts DEF WriteFile, LicensedSteps
    <2>2. files'[n] = files[n] \cup {st.what}
        BY <1>3, <1>a DEF WriteFile, What
    <2>3. UNCHANGED <<qdisc, drops, ioDir, limited>>
        BY <1>3 DEF WriteFile, netVars
    <2> QED
        BY <2>1, <2>2, <2>3 DEF Licensed, Aimed
<1>4. CASE RemoveFile(s)
    <2>1. /\ files'[n] \subseteq files[n]
          /\ UNCHANGED <<qdisc, drops, ioDir, limited>>
        BY <1>4, <1>a DEF RemoveFile, netVars
    <2> QED
        BY <2>1 DEF Aimed
<1>5. CASE IoMkdir(s) \/ IoMax(s) \/ IoEnter(s)
    <2>1. /\ Head(todo[s]).op \in {"io-mkdir", "io-max", "io-enter"}
          /\ Licensed(n, Head(todo[s]))
        BY <1>5, LicensedFacts DEF IoMkdir, IoMax, IoEnter, LicensedSteps
    <2>2. UNCHANGED <<qdisc, drops, files>>
        BY <1>5 DEF IoMkdir, IoMax, IoEnter, netVars
    <2> QED
        BY <2>1, <2>2 DEF Licensed, Aimed
<1>6. CASE IoList(s) \/ IoLeave(s) \/ IoRmdir(s)
    <2>1. /\ UNCHANGED <<qdisc, drops, files>>
          /\ limited'[n] # {} => limited[n] # {}
          /\ ioDir'[n] # "absent" => ioDir[n] # "absent"
        BY <1>6, <1>a DEF IoList, IoLeave, IoRmdir, netVars, hostVars
    <2> QED
        BY <2>1 DEF Aimed
<1> QED
    BY <1>1, <1>2, <1>3, <1>4, <1>5, <1>6

\* A shell command of session s keeps the invariant.
LEMMA AimShell ==
    ASSUME TypeInv, AimInv, NEW s \in Sessions, ShellStep(s)
    PROVE  AimInv'
<1>a. PICK op : Exec(s, op) /\ (Pop(s) \/ Quit(s) \/ IoList(s))
    BY DEF ShellStep, QdiscDel, QdiscNetem, QdiscPrio, QdiscChild, FilterAdd, Drop,
           Flush, Crash, Hang, Resume, Signal, KillTask, Safemode, InterruptSafemode,
           WriteFile, RemoveFile, IoMkdir, IoMax, IoEnter, IoList, IoLeave, IoRmdir, Burn, Cool
<1>b. /\ here[s] \in Nodes /\ here[s] # None
      /\ Tail(todo[s]) \in Seq(LicensedSteps(here[s]))
    BY <1>a, LicensedFacts DEF AimInv
<1>c. todo \in [Sessions -> Seq(Step)]
    BY DEF TypeInv, TypeOK, CliType
<1>1. Itinerary'
    BY <1>a DEF AimInv, Itinerary, Exec
<1>2. Pending'
    <2>1. CASE Pop(s)
        BY <1>a, <1>b, <1>c, <2>1 DEF AimInv, Pending, Exec, Pop
    <2>3. CASE Quit(s)
        BY <1>a, <1>b, <1>c, <2>3, EmptySeq DEF AimInv, Pending, Exec, Quit
    <2>2. CASE IoList(s)
        <3> DEFINE st == Do("io-leave", limited[here[s]], 0)
        <3>1. st \in Step
            BY <1>b, StepKinds DEF TypeInv, TypeOK, HostType
        <3>2. st \in LicensedSteps(here[s])
            BY <1>b, <3>1, DoFields, HarmlessSteps
        <3>3. <<st>> \o Tail(todo[s]) \in Seq(LicensedSteps(here[s]))
            BY <1>b, <3>2, ConcatProperties
        <3> QED
            BY <1>c, <2>2, <3>3 DEF AimInv, Pending, IoList, Exec
    <2> QED
        BY <1>a, <2>1, <2>2, <2>3
<1>3. ASSUME NEW n \in Slaves
      PROVE  Accounted(n)'
    <2>1. n \in Nodes /\ Accounted(n) /\ Pending
        BY DEF Nodes, AimInv
    <2>2. CASE n # here[s]
        BY <2>1, <2>2, Locality, AccountedKept
    <2>3. CASE n = here[s]
        BY <2>1, <2>3, NetAccounted, HostAccounted DEF ShellStep
    <2> QED
        BY <2>2, <2>3
<1> QED
    BY <1>1, <1>2, <1>3 DEF AimInv

\* The other steps of an invocation keep the invariant.
LEMMA AimCli ==
    ASSUME TypeInv, AimInv, NEW s \in Sessions,
           \/ \E c \in Commands : Start(s, c)
           \/ EnterLeg(s) \/ MissLeg(s) \/ LeaveLeg(s) \/ Finish(s)
    PROVE  AimInv'
<1>a. ASSUME UNCHANGED <<netVars, hostVars>>, Itinerary', Pending'
      PROVE  AimInv'
    BY <1>a, AccountedKept DEF netVars, hostVars, AimInv
<1>b. /\ legs \in [Sessions -> Seq(Nodes)] /\ here \in [Sessions -> Nodes \cup {None}]
      /\ todo \in [Sessions -> Seq(Step)]
      /\ running \in [Sessions -> Commands \cup {None}]
    BY DEF TypeInv, TypeOK, CliType
<1> DEFINE Way(c) == {n \in Nodes : Visits(c, n)}
<1>c. \A t \in Sessions : legs[t] \in Seq(Way(running[t]))
    BY DEF AimInv, Itinerary
<1>d. /\ Itinerary <=> \A t \in Sessions : legs[t] \in Seq(Way(running[t]))
      /\ Itinerary' <=> \A t \in Sessions : legs'[t] \in Seq(Way(running'[t]))
    BY DEF Itinerary
<1>e. \A c, n : n \in Way(c) <=> n \in Nodes /\ Visits(c, n)
    OBVIOUS
<1> HIDE DEF Way
<1>1. ASSUME NEW c \in Commands, Start(s, c)
      PROVE  AimInv'
    <2>1. Legs(c) \in Seq(Way(c))
        BY LegsVisit DEF Way
    <2>2. Itinerary'
        BY <1>1, <1>b, <1>c, <1>d, <2>1 DEF Start
    <2>3. Pending'
        BY <1>1 DEF Start, AimInv, Pending
    <2> QED
        BY <1>1, <1>a, <2>2, <2>3 DEF Start
<1>2. CASE EnterLeg(s)
    <2>1. /\ Head(legs[s]) \in Way(running[s])
          /\ Tail(legs[s]) \in Seq(Way(running[s]))
        BY <1>2, <1>c, HeadTailProperties DEF EnterLeg
    <2>2. running[s] \in Commands
        BY <1>2, <1>b DEF EnterLeg, TypeInv, IdleRests, Idle
    <2>3. Script(running[s], Head(legs[s])) \in Seq(LicensedSteps(Head(legs[s])))
        BY <2>1, <2>2, <1>e, ScriptLicensed
    <2>4. Itinerary'
        BY <1>2, <1>b, <1>c, <1>d, <2>1 DEF EnterLeg
    <2>5. Pending'
        BY <1>2, <1>b, <2>3 DEF EnterLeg, AimInv, Pending
    <2> QED
        BY <1>2, <1>a, <2>4, <2>5 DEF EnterLeg
<1>3. CASE MissLeg(s)
    <2>1. Tail(legs[s]) \in Seq(Way(running[s]))
        BY <1>3, <1>c, HeadTailProperties DEF MissLeg
    <2>2. Itinerary'
        BY <1>3, <1>b, <1>c, <1>d, <2>1 DEF MissLeg
    <2>3. Pending'
        BY <1>3 DEF MissLeg, AimInv, Pending
    <2> QED
        BY <1>3, <1>a, <2>2, <2>3 DEF MissLeg
<1>4. CASE LeaveLeg(s)
    <2>1. Itinerary'
        BY <1>4, <1>c, <1>d DEF LeaveLeg
    <2>2. Pending'
        BY <1>4, <1>b DEF LeaveLeg, AimInv, Pending
    <2> QED
        BY <1>4, <1>a, <2>1, <2>2 DEF LeaveLeg
<1>5. CASE Finish(s)
    <2>1. <<>> \in Seq(Way(None))
        BY EmptySeq
    <2>2. Itinerary'
        BY <1>5, <1>b, <1>c, <1>d, <2>1 DEF Finish
    <2>3. Pending'
        BY <1>5 DEF Finish, AimInv, Pending
    <2> QED
        BY <1>5, <1>a, <2>2, <2>3 DEF Finish
<1> QED
    BY <1>1, <1>2, <1>3, <1>4, <1>5

\* A restarted process joins a throttled cgroup only where there is one.
LEMMA AimRestart ==
    ASSUME TypeInv, AimInv, NEW m \in Nodes, NEW p \in Hosted[m], Restart(m, p)
    PROVE  AimInv'
<1>1. Itinerary' /\ Pending'
    BY DEF Restart, AimInv, Itinerary, Pending
<1>2. ASSUME NEW n \in Slaves
      PROVE  Accounted(n)'
    <2>1. n \in Nodes /\ Accounted(n) /\ limited \in [Nodes -> SUBSET Processes]
        BY DEF Nodes, AimInv, TypeInv, TypeOK, HostType
    <2>2. /\ UNCHANGED <<qdisc, drops, files, ioDir>>
          /\ limited'[n] # {} => limited[n] # {}
        BY <2>1 DEF Restart, netVars
    <2> QED
        BY <2>1, <2>2 DEF Accounted, Aimed, SshCutAimed
<1> QED
    BY <1>1, <1>2 DEF AimInv

LEMMA AimInit == Init => AimInv
<1> SUFFICES ASSUME Init PROVE AimInv
    OBVIOUS
<1>1. Itinerary
    BY EmptySeq DEF Init, Itinerary
<1>2. Pending
    BY DEF Init, Pending
<1>3. \A n \in Slaves : Accounted(n)
    BY DEF Init, Accounted, Aimed, SshCutAimed, Nodes
<1> QED
    BY <1>1, <1>2, <1>3 DEF AimInv

LEMMA AimNext == TypeInv /\ AimInv /\ [Next]_vars => AimInv'
<1> SUFFICES ASSUME TypeInv, AimInv, [Next]_vars PROVE AimInv'
    OBVIOUS
<1>1. ASSUME NEW s \in Sessions, NEW c \in Commands, Start(s, c)
      PROVE  AimInv'
    BY <1>1, AimCli
<1>2. ASSUME NEW s \in Sessions, SessionStep(s)
      PROVE  AimInv'
    BY <1>2, AimShell, AimCli DEF SessionStep
<1>3. ASSUME NEW n \in Nodes, NEW p \in Hosted[n], Restart(n, p)
      PROVE  AimInv'
    BY <1>3, AimRestart
<1>4. CASE UNCHANGED vars
    <2>1. UNCHANGED <<netVars, hostVars, cliVars>>
        BY <1>4 DEF vars
    <2>2. Itinerary' /\ Pending'
        BY <2>1 DEF cliVars, AimInv, Itinerary, Pending
    <2>3. \A n \in Slaves : Accounted(n)'
        BY <2>1, AccountedKept DEF netVars, hostVars, AimInv
    <2> QED
        BY <2>2, <2>3 DEF AimInv
<1> QED
    BY <1>1, <1>2, <1>3, <1>4 DEF Next

THEOREM InvariantAim == Spec => []AimInv
BY AimInit, AimNext, InvariantTypes, PTL DEF Spec

\* Blast radius: whatever a slave suffers, some command line asked for it on
\* that very slave, however the invocations interleave and whatever they miss.
THEOREM FaultsStayAimed == Spec => []FaultsAreAimed
<1>1. AimInv => FaultsAreAimed
    BY DEF AimInv, Accounted, FaultsAreAimed
<1> QED
    BY <1>1, InvariantAim, PTL

\* The master can at every moment reach every slave on which no command names
\* the ssh port or a total loss: the injector never locks itself out.
THEOREM SlavesStayReachable == Spec => []SlavesReachable
<1>1. AimInv => SlavesReachable
    <2> SUFFICES ASSUME AimInv, NEW n \in Slaves, SshSafe(n)
                 PROVE  Reachable(n)
        BY DEF SlavesReachable
    <2>1. Accounted(n)
        BY DEF AimInv
    <2>2. SshRules \cap drops[n] = {}
        BY <2>1 DEF Accounted, SshCutAimed, SshSafe, Asks
    <2>3. ASSUME qdisc[n].root = "netem", qdisc[n].kind = "loss", qdisc[n].amt >= 100
          PROVE  FALSE
        <3>1. qdisc[n] # NoQdisc
            BY <2>3 DEF NoQdisc
        <3>2. PICK c \in Commands : Asks(c, n, KindOps("loss")) /\ c.amount = qdisc[n].amt
            BY <2>1, <2>3, <3>1 DEF Accounted, Aimed
        <3>3. c.op = "loss" /\ c.amount < 100 /\ c.amount \in Nat
            BY <3>2, CommandFields DEF Asks, KindOps, SshSafe
        <3> QED
            BY <2>3, <3>2, <3>3
    <2> QED
        BY <2>2, <2>3 DEF Reachable, SshRules
<1> QED
    BY <1>1, InvariantAim, PTL
=============================================================================
