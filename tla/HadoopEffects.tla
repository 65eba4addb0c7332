---------------------------- MODULE HadoopEffects ----------------------------
(***************************************************************************)
(* What an invocation of the Hadoop injector that runs alone has achieved  *)
(* when it reports: theorems about HadoopInjector for every cluster, every *)
(* set of commands and every number of invocations before it.              *)
(***************************************************************************)
EXTENDS HadoopInjectorProofs

(***************************************************************************)
(* 1. What a command is meant to leave on a node, and the scripts of the   *)
(*    commands that are meant to leave something.                          *)
(***************************************************************************)

\* A target of resume is looked for on the slaves or on the master.
Right(comp, n) == comp \in SlaveComps <=> n \in Slaves

\* Every component is found at most once on a node.
OnePerComponent ==
    \A n \in Nodes, comp \in Components :
        \A p, q \in find_hadoop_pid(n, comp) : p = q

Awake(comp, n) == \A p \in {q \in Hosted[n] : q[1] = comp} : proc[n][p] # "stopped"

\* Command c is meant to leave something on node n.
Effectful(c, n) ==
    \/ c.op \in ClearOps
    \/ c.op = "resume" /\ Right(c.target, n)
    \/ /\ n \in Slaves /\ c.target = n
       /\ \/ c.op \in ShapeOps \cup {"yarn-unhealthy", "mem-stress"}
          \/ c.op = "isolate" /\ c.amount > 0

\* It is there.
Goal(c, n) ==
    /\ Swept(c, n)
    /\ n \in Slaves /\ c.target = n => InEffect(c, n)
    /\ c.op = "resume" /\ Right(c.target, n) /\ OnePerComponent => Awake(c.target, n)

\* One of two steps is done: the tree is clear, the first rule is there.
Half(c, n, rest) ==
    /\ c.amount > 0
    /\ \/ /\ c.op \in ShapeOps
          /\ rest = <<Do("qdisc-netem", KindOf(c), c.amount)>>
          /\ qdisc[n] = NoQdisc
       \/ /\ c.op = "isolate"
          /\ rest = <<Do("drop", <<"OUTPUT", "sport", c.amount>>, 0)>>
          /\ <<"INPUT", "dport", c.amount>> \in drops[n]

\* How far an invocation has come on node n when rest is left to run there.
Progress(c, n, rest) ==
    \/ rest = Script(c, n)
    \/ Half(c, n, rest)
    \/ rest = <<>> /\ Goal(c, n)

\* The effects of the commands that are no clear command exclude each other.
LEMMA OpsApart ==
    ASSUME NEW c, c.op \in ShapeOps \cup {"yarn-unhealthy", "mem-stress", "isolate", "resume"}
    PROVE  c.op \notin ClearOps
BY DEF ShapeOps, ClearOps, ShapeClears

\* A command that is meant to leave nothing on n leaves what it should.
LEMMA NothingMeant ==
    ASSUME NEW c \in Commands, NEW n \in Nodes, ~Effectful(c, n)
    PROVE  Goal(c, n)
<1>1. Swept(c, n)
    BY DEF Effectful, Swept, ClearOps
<1>2. n \in Slaves /\ c.target = n => InEffect(c, n)
    BY DEF Effectful, InEffect
<1>3. c.op = "resume" /\ Right(c.target, n) /\ OnePerComponent => Awake(c.target, n)
    BY DEF Effectful
<1> QED
    BY <1>1, <1>2, <1>3 DEF Goal

\* Two steps in a row are a sequence of two.
LEMMA PairOfSteps ==
    ASSUME NEW a, NEW b
    PROVE  <<a>> \o <<>> = <<a>> /\ <<a>> \o <<b>> = <<a, b>>
<1> DEFINE S == {a, b}
<1>1. <<a>> \in Seq(S) /\ <<b>> \in Seq(S) /\ <<a, b>> \in Seq(S)
    OBVIOUS
<1>2. Len(<<a>>) = 1 /\ Len(<<b>>) = 1 /\ Len(<<a, b>>) = 2
    OBVIOUS
<1>3. <<a>>[1] = a /\ <<b>>[1] = b /\ <<a, b>>[1] = a /\ <<a, b>>[2] = b
    OBVIOUS
<1> DEFINE u == <<a>>   v == <<b>>   w == <<a, b>>
<1>4. /\ u \in Seq(S) /\ v \in Seq(S) /\ w \in Seq(S)
      /\ Len(u) = 1 /\ Len(v) = 1 /\ Len(w) = 2
      /\ u[1] = a /\ v[1] = b /\ w[1] = a /\ w[2] = b
    BY <1>1, <1>2, <1>3
<1> HIDE DEF S, u, v, w
<1>5. u \o <<>> = u
    BY <1>4, ConcatEmptySeq
<1>6. /\ u \o v \in Seq(S) /\ Len(u \o v) = 2
      /\ (u \o v)[1] = a /\ (u \o v)[2] = b
    BY <1>4, ConcatProperties
<1>7. u \o v = w
    BY <1>4, <1>6, SeqEqual
<1> QED
    BY <1>5, <1>7 DEF u, v, w

\* The clear commands run one shell command, the same on every node.
LEMMA ClearScripts ==
    ASSUME NEW c \in Commands, NEW n \in Nodes
    PROVE  /\ c.op \in ShapeClears => Script(c, n) = <<Do("qdisc-del", None, 0)>>
           /\ c.op = "isolate-clear" => Script(c, n) = <<Do("flush", None, 0)>>
           /\ c.op = "mem-stress-clear" =>
                 Script(c, n) = <<Do("rm", "hadoop_mem_stress", 0)>>
           /\ c.op = "disk-fill-clear" => Script(c, n) = <<Do("rm", "disk_hog", 0)>>
<1>1. \A kind : Shape(kind, None, 0) = <<Do("qdisc-del", None, 0)>>
    BY DEF Shape
<1>2. c.op \in ShapeClears => Script(c, n) = <<Do("qdisc-del", None, 0)>>
    BY <1>1 DEF Script, FillOps, SignalOps, ShapeClears, inject_network_delay, inject_network_loss,
                inject_network_reorder
<1>3. c.op = "isolate-clear" => Script(c, n) = <<Do("flush", None, 0)>>
    BY DEF Script, FillOps, SignalOps
<1>4. c.op = "mem-stress-clear" => Script(c, n) = <<Do("rm", "hadoop_mem_stress", 0)>>
    BY DEF Script, inject_memory_stress, FillOps, SignalOps
<1>5. c.op = "disk-fill-clear" => Script(c, n) = <<Do("rm", "disk_hog", 0)>>
    BY DEF Script, FillOps, SignalOps
<1> QED
    BY <1>2, <1>3, <1>4, <1>5

\* The injections, on the slave they are aimed at.
LEMMA InjectionScripts ==
    ASSUME NEW c \in Commands, NEW n \in Slaves
    PROVE  /\ c.op \in ShapeOps =>
                 Script(c, n) = IF c.amount = 0 THEN <<Do("qdisc-del", None, 0)>>
                                ELSE <<Do("qdisc-del", None, 0),
                                       Do("qdisc-netem", KindOf(c), c.amount)>>
           /\ c.op = "isolate" /\ c.amount > 0 =>
                 Script(c, n) = <<Do("drop", <<"INPUT", "dport", c.amount>>, 0),
                                  Do("drop", <<"OUTPUT", "sport", c.amount>>, 0)>>
           /\ c.op = "mem-stress" =>
                 Script(c, n) = IF c.amount = 0
                                THEN <<Do("rm", "hadoop_mem_stress", 0)>>
                                ELSE <<Do("write", "hadoop_mem_stress", 0)>>
           /\ c.op = "yarn-unhealthy" =>
                 Script(c, n) = IF c.amount = 1
                                THEN <<Do("write", "yarn_node_health_check", 0)>>
                                ELSE <<Do("rm", "yarn_node_health_check", 0)>>
<1>1. c.amount \in Nat /\ n # Master /\ Peer(c, n) = None
    BY CommandFields, Topology DEF Peer
<1>2. \A kind : \A amt \in Nat :
          Shape(kind, None, amt) = IF amt = 0 THEN <<Do("qdisc-del", None, 0)>>
                                   ELSE <<Do("qdisc-del", None, 0),
                                          Do("qdisc-netem", kind, amt)>>
    <2> SUFFICES ASSUME NEW kind, NEW amt \in Nat
                 PROVE  Shape(kind, None, amt) =
                            IF amt = 0 THEN <<Do("qdisc-del", None, 0)>>
                            ELSE <<Do("qdisc-del", None, 0), Do("qdisc-netem", kind, amt)>>
        OBVIOUS
    <2>1. amt <= 0 <=> amt = 0
        OBVIOUS
    <2>2. CASE amt = 0
        <3>1. Shape(kind, None, amt) = <<Do("qdisc-del", None, 0)>> \o <<>>
            BY <2>2 DEF Shape
        <3> QED
            BY <2>2, <3>1, PairOfSteps
    <2>3. CASE amt # 0
        <3>1. Shape(kind, None, amt) =
                  <<Do("qdisc-del", None, 0)>> \o <<Do("qdisc-netem", kind, amt)>>
            BY <2>1, <2>3 DEF Shape
        <3> QED
            BY <2>3, <3>1, PairOfSteps
    <2> QED
        BY <2>2, <2>3
<1>3. c.op \in ShapeOps => Script(c, n) = Shape(KindOf(c), None, c.amount)
    BY <1>1 DEF Script, FillOps, SignalOps, ShapeOps, KindOf, inject_network_delay, inject_network_loss,
                inject_network_reorder
<1>4. c.op = "isolate" /\ c.amount > 0 =>
          Script(c, n) = <<Do("drop", <<"INPUT", "dport", c.amount>>, 0),
                           Do("drop", <<"OUTPUT", "sport", c.amount>>, 0)>>
    BY <1>1 DEF Script, FillOps, SignalOps, isolate_local
<1>5. c.op = "mem-stress" =>
          Script(c, n) = IF c.amount = 0 THEN <<Do("rm", "hadoop_mem_stress", 0)>>
                         ELSE <<Do("write", "hadoop_mem_stress", 0)>>
    BY <1>1 DEF Script, inject_memory_stress, FillOps, SignalOps
<1>6. c.op = "yarn-unhealthy" =>
          Script(c, n) = IF c.amount = 1
                         THEN <<Do("write", "yarn_node_health_check", 0)>>
                         ELSE <<Do("rm", "yarn_node_health_check", 0)>>
    BY <1>1 DEF Script, inject_yarn_fault, FillOps, SignalOps
<1>7. c.op \in ShapeOps =>
          Script(c, n) = IF c.amount = 0 THEN <<Do("qdisc-del", None, 0)>>
                         ELSE <<Do("qdisc-del", None, 0),
                                Do("qdisc-netem", KindOf(c), c.amount)>>
    BY <1>1, <1>2, <1>3
<1> QED
    BY <1>4, <1>5, <1>6, <1>7

\* The signals are sent by one step.
LEMMA SignalScripts ==
    ASSUME NEW c \in Commands, NEW n \in Nodes, c.op \in SignalOps
    PROVE  Script(c, n) = <<Do(c.op, c.target, 0)>>
BY DEF Script, SignalOps, FillOps, exec_local_process_fault

\* A command that is meant to leave something on n has something to do there.
LEMMA EffectNeedsWork ==
    ASSUME NEW c \in Commands, NEW n \in Nodes, Effectful(c, n)
    PROVE  Script(c, n) # <<>>
<1>1. \A a : <<a>> # <<>>
    OBVIOUS
<1>2. \A a, b : <<a, b>> # <<>>
    OBVIOUS
<1>3. CASE c.op \in ClearOps
    BY <1>1, <1>3, ClearScripts DEF ClearOps
<1>4. CASE c.op = "resume"
    BY <1>1, <1>4, SignalScripts DEF SignalOps
<1>5. CASE /\ n \in Slaves
           /\ \/ c.op \in ShapeOps \cup {"yarn-unhealthy", "mem-stress"}
              \/ c.op = "isolate" /\ c.amount > 0
    BY <1>1, <1>2, <1>5, InjectionScripts
<1> QED
    BY <1>3, <1>4, <1>5 DEF Effectful
-----------------------------------------------------------------------------
(***************************************************************************)
(* 2. What each shell command does to the node it runs on.                 *)
(***************************************************************************)

\* The step a shell command executes is the first of the script.
LEMMA StepNames ==
    ASSUME NEW s \in Sessions
    PROVE  /\ QdiscDel(s) => Exec(s, "qdisc-del")
           /\ QdiscNetem(s) => Exec(s, "qdisc-netem")
           /\ QdiscPrio(s) => Exec(s, "qdisc-prio")
           /\ QdiscChild(s) => Exec(s, "qdisc-child")
           /\ FilterAdd(s) => Exec(s, "filter")
           /\ Drop(s) => Exec(s, "drop")
           /\ Flush(s) => Exec(s, "flush")
           /\ Crash(s) => Exec(s, "crash")
           /\ Hang(s) => Exec(s, "hang")
           /\ Resume(s) => Exec(s, "resume")
           /\ KillTask(s) => Exec(s, "kill-task")
           /\ Safemode(s) => Exec(s, "safemode")
           /\ InterruptSafemode(s) => Exec(s, "safemode")
           /\ WriteFile(s) => Exec(s, "write")
           /\ RemoveFile(s) => Exec(s, "rm")
           /\ IoMkdir(s) => Exec(s, "io-mkdir")
           /\ IoMax(s) => Exec(s, "io-max")
           /\ IoEnter(s) => Exec(s, "io-enter")
           /\ IoList(s) => Exec(s, "io-list")
           /\ IoLeave(s) => Exec(s, "io-leave")
           /\ IoRmdir(s) => Exec(s, "io-rmdir")
           /\ Burn(s) => Exec(s, "burn")
           /\ Cool(s) => Exec(s, "cool")
BY DEF QdiscDel, QdiscNetem, QdiscPrio, QdiscChild, FilterAdd, Drop, Flush, Crash,
       Hang, Resume, Signal, KillTask, Safemode, InterruptSafemode, WriteFile,
       RemoveFile, IoMkdir, IoMax, IoEnter, IoList, IoLeave, IoRmdir, Burn, Cool

\* A shell command drops itself, or the rest of its script, or puts in the list
\* it has read.
LEMMA HowItGoesOn ==
    ASSUME NEW s \in Sessions, ShellStep(s)
    PROVE  \E op : Exec(s, op) /\ (Pop(s) \/ Quit(s) \/ IoList(s))
BY DEF ShellStep, QdiscDel, QdiscNetem, QdiscPrio, QdiscChild, FilterAdd, Drop,
       Flush, Crash, Hang, Resume, Signal, KillTask, Safemode, InterruptSafemode,
       WriteFile, RemoveFile, IoMkdir, IoMax, IoEnter, IoList, IoLeave, IoRmdir,
       Burn, Cool

\* The shell command that runs is the one its name says.
LEMMA NamedStep ==
    ASSUME NEW s \in Sessions, ShellStep(s)
    PROVE  LET op == Head(todo[s]).op IN
           /\ op = "qdisc-del" => QdiscDel(s)
           /\ op = "qdisc-netem" => QdiscNetem(s)
           /\ op = "drop" => Drop(s)
           /\ op = "flush" => Flush(s)
           /\ op = "hang" => Hang(s)
           /\ op = "resume" => Resume(s)
           /\ op = "write" => WriteFile(s)
           /\ op = "rm" => RemoveFile(s)
           /\ here[s] # None /\ todo[s] # <<>>
           /\ UNCHANGED <<running, legs, here, alone, missed, asked>>
<1> DEFINE op == Head(todo[s]).op
<1>1. \A x : Exec(s, x) => /\ op = x /\ here[s] # None /\ todo[s] # <<>>
                           /\ UNCHANGED <<running, legs, here, alone, missed, asked>>
    BY DEF Exec
<1> HIDE DEF op
<1>2. /\ op = "qdisc-del" => QdiscDel(s)
      /\ op = "qdisc-netem" => QdiscNetem(s)
      /\ op = "drop" => Drop(s)
      /\ op = "flush" => Flush(s)
      /\ op = "hang" => Hang(s)
      /\ op = "resume" => Resume(s)
      /\ op = "write" => WriteFile(s)
      /\ op = "rm" => RemoveFile(s)
    BY <1>1, StepNames DEF ShellStep
<1>3. /\ here[s] # None /\ todo[s] # <<>>
      /\ UNCHANGED <<running, legs, here, alone, missed, asked>>
    BY <1>1, StepNames DEF ShellStep
<1> QED
    BY <1>2, <1>3 DEF op

\* netem as the root of an empty tree.
LEMMA NetemTree ==
    ASSUME NEW k, NEW a
    PROVE  [NoQdisc EXCEPT !.root = "netem", !.kind = k, !.amt = a] =
               [root |-> "netem", kind |-> k, amt |-> a, flows |-> {}]
<1> DEFINE e == [NoQdisc EXCEPT !.root = "netem", !.kind = k, !.amt = a]
           R == [root : {"netem"}, kind : {k}, amt : {a}, flows : {{}}]
<1>1. e \in R
    BY DEF NoQdisc
<1>2. [root |-> "netem", kind |-> k, amt |-> a, flows |-> {}] \in R
    OBVIOUS
<1>3. \A x, y \in R : x = y
    OBVIOUS
<1> QED
    BY <1>1, <1>2, <1>3

\* The commands on the tree, the rules and the files of a node.
LEMMA NodeEffects ==
    ASSUME TypeInv, NEW s \in Sessions, ShellStep(s)
    PROVE  LET st == Head(todo[s])
               n  == here[s] IN
           /\ st.op \in {"qdisc-del", "qdisc-netem", "drop", "flush", "write", "rm"} =>
                 todo'[s] = Tail(todo[s])
           /\ st.op = "qdisc-del" => qdisc'[n] = NoQdisc
           /\ st.op = "qdisc-netem" /\ qdisc[n] = NoQdisc =>
                 qdisc'[n] = [root |-> "netem", kind |-> st.what, amt |-> st.amt,
                              flows |-> {}]
           /\ st.op = "drop" => drops'[n] = drops[n] \cup {st.what}
           /\ st.op = "flush" => drops'[n] = {}
           /\ st.op = "write" => files'[n] = files[n] \cup {st.what}
           /\ st.op = "rm" => files'[n] = files[n] \ {st.what}
<1> DEFINE st == Head(todo[s])
           n  == here[s]
<1>a. /\ n \in Nodes /\ qdisc \in [Nodes -> Qdisc] /\ drops \in [Nodes -> SUBSET Rules]
      /\ files \in [Nodes -> SUBSET FileNames] /\ todo \in [Sessions -> Seq(Step)]
    BY NamedStep DEF TypeInv, TypeOK, NetType, HostType, CliType
<1>1. CASE st.op = "qdisc-del"
    <2>1. QdiscDel(s)
        BY <1>1, NamedStep
    <2> QED
        BY <1>a, <1>1, <2>1 DEF QdiscDel, Pop
<1>2. CASE st.op = "qdisc-netem"
    <2>1. QdiscNetem(s)
        BY <1>2, NamedStep
    <2>2. todo'[s] = Tail(todo[s])
        BY <1>a, <2>1 DEF QdiscNetem, Pop
    <2>3. qdisc[n] = NoQdisc =>
              qdisc'[n] = [root |-> "netem", kind |-> st.what, amt |-> st.amt,
                           flows |-> {}]
        <3>1. NoQdisc.root = "none"
            BY DEF NoQdisc
        <3>2. [NoQdisc EXCEPT !.root = "netem", !.kind = st.what, !.amt = st.amt] =
                  [root |-> "netem", kind |-> st.what, amt |-> st.amt, flows |-> {}]
            BY NetemTree
        <3>3. qdisc[n] = NoQdisc =>
                  qdisc'[n] = [NoQdisc EXCEPT !.root = "netem", !.kind = st.what,
                                              !.amt = st.amt]
            BY <1>a, <2>1, <3>1 DEF QdiscNetem, What, Amt
        <3> QED
            BY <3>2, <3>3
    <2> QED
        BY <1>2, <2>2, <2>3
<1>3. CASE st.op = "drop"
    <2>1. Drop(s)
        BY <1>3, NamedStep
    <2> QED
        BY <1>a, <1>3, <2>1 DEF Drop, Pop, What
<1>4. CASE st.op = "flush"
    <2>1. Flush(s)
        BY <1>4, NamedStep
    <2> QED
        BY <1>a, <1>4, <2>1 DEF Flush, Pop
<1>5. CASE st.op = "write"
    <2>1. WriteFile(s)
        BY <1>5, NamedStep
    <2> QED
        BY <1>a, <1>5, <2>1 DEF WriteFile, Pop, What
<1>6. CASE st.op = "rm"
    <2>1. RemoveFile(s)
        BY <1>6, NamedStep
    <2> QED
        BY <1>a, <1>6, <2>1 DEF RemoveFile, Pop, What
<1> QED
    BY <1>1, <1>2, <1>3, <1>4, <1>5, <1>6

\* resume: where a component is found at most once, it is awake afterwards.
LEMMA ResumeEffect ==
    ASSUME TypeInv, OnePerComponent, NEW s \in Sessions, ShellStep(s),
           NEW n \in Nodes, here[s] = n, NEW comp,
           Head(todo[s]).op = "resume", Head(todo[s]).what = comp
    PROVE  Awake(comp, n)'
<1> DEFINE found == Alive(n) \cap find_hadoop_pid(n, comp)
<1>1. Signal(s, "resume", "running")
    BY NamedStep DEF Resume
<1>2. /\ proc \in [Nodes -> UNION {[Hosted[m] -> States] : m \in Nodes}]
      /\ proc[n] \in [Hosted[n] -> States]
    BY DEF TypeInv, TypeOK, HostType, CliType
<1>3. \/ found = {} /\ proc' = proc
      \/ \E p \in found : proc' = [proc EXCEPT ![n][p] = "running"]
    BY <1>1 DEF Signal, What
<1>4. SUFFICES ASSUME NEW q \in Hosted[n], q[1] = comp, proc'[n][q] = "stopped"
               PROVE  FALSE
    BY <1>2 DEF Awake
<1>5. q \in find_hadoop_pid(n, comp) /\ comp \in Components
    BY <1>4, Placement DEF find_hadoop_pid
<1>6. CASE found = {} /\ proc' = proc
    BY <1>4, <1>5, <1>6 DEF Alive
<1>7. ASSUME NEW p \in found, proc' = [proc EXCEPT ![n][p] = "running"]
      PROVE  FALSE
    <2>1. p \in find_hadoop_pid(n, comp) /\ p \in Hosted[n]
        BY DEF Alive
    <2>2. p = q
        BY <1>2, <1>5, <2>1 DEF OnePerComponent
    <2> QED
        BY <1>2, <1>4, <1>7, <2>1, <2>2
<1> QED
    BY <1>3, <1>6, <1>7
-----------------------------------------------------------------------------
(***************************************************************************)
(* 3. One shell command further on a node.                                 *)
(***************************************************************************)

LEMMA FirstAndRest ==
    /\ \A a : <<a>> # <<>> /\ Head(<<a>>) = a /\ Tail(<<a>>) = <<>>
    /\ \A a, b : <<a, b>> # <<>> /\ Head(<<a, b>>) = a /\ Tail(<<a, b>>) = <<b>>
<1>1. \A a : <<a>> # <<>> /\ Head(<<a>>) = a /\ Tail(<<a>>) = <<>>
    OBVIOUS
<1>2. \A a, b : <<a, b>> # <<>> /\ Head(<<a, b>>) = a /\ Tail(<<a, b>>) = <<b>>
    OBVIOUS
<1> QED
    BY <1>1, <1>2

\* A clear command, on whatever node: its only step does all of its work.
LEMMA ClearProgress ==
    ASSUME TypeInv, NEW s \in Sessions, ShellStep(s),
           NEW c \in Commands, NEW n \in Nodes, here[s] = n,
           c.op \in ClearOps, Progress(c, n, todo[s])
    PROVE  todo'[s] = <<>> /\ Goal(c, n)'
<1>a. todo[s] # <<>>
    BY NamedStep
<1>b. todo[s] = Script(c, n)
    BY <1>a DEF Progress, Half, ClearOps, ShapeClears, ShapeOps
<1>c. c.op # "resume" /\ (n \in Slaves /\ c.target = n => InEffect(c, n)')
    BY DEF ClearOps, ShapeClears, InEffect, ShapeOps
<1>d. ASSUME Swept(c, n)' PROVE Goal(c, n)'
    BY <1>c, <1>d DEF Goal
<1>1. CASE c.op \in ShapeClears
    <2>1. todo[s] = <<Do("qdisc-del", None, 0)>>
        BY <1>1, <1>b, ClearScripts
    <2>2. /\ Head(todo[s]) = Do("qdisc-del", None, 0) /\ Tail(todo[s]) = <<>>
          /\ Head(todo[s]).op = "qdisc-del"
        BY <2>1, FirstAndRest, DoFields
    <2>3. todo'[s] = <<>> /\ qdisc'[n] = NoQdisc
        BY <2>2, NodeEffects
    <2>4. Swept(c, n)'
        BY <1>1, <2>3 DEF Swept, ShapeClears
    <2> QED
        BY <1>d, <2>3, <2>4
<1>2. CASE c.op = "isolate-clear"
    <2>1. todo[s] = <<Do("flush", None, 0)>>
        BY <1>2, <1>b, ClearScripts
    <2>2. /\ Head(todo[s]) = Do("flush", None, 0) /\ Tail(todo[s]) = <<>>
          /\ Head(todo[s]).op = "flush"
        BY <2>1, FirstAndRest, DoFields
    <2>3. todo'[s] = <<>> /\ drops'[n] = {}
        BY <2>2, NodeEffects
    <2>4. Swept(c, n)'
        BY <1>2, <2>3 DEF Swept, ShapeClears
    <2> QED
        BY <1>d, <2>3, <2>4
<1>3. CASE c.op = "mem-stress-clear"
    <2>1. todo[s] = <<Do("rm", "hadoop_mem_stress", 0)>>
        BY <1>3, <1>b, ClearScripts
    <2>2. /\ Tail(todo[s]) = <<>> /\ Head(todo[s]).op = "rm"
          /\ Head(todo[s]).what = "hadoop_mem_stress"
        BY <2>1, FirstAndRest, DoFields
    <2>3. todo'[s] = <<>> /\ files'[n] = files[n] \ {"hadoop_mem_stress"}
        BY <2>2, NodeEffects
    <2>4. Swept(c, n)'
        BY <1>3, <2>3 DEF Swept, ShapeClears
    <2> QED
        BY <1>d, <2>3, <2>4
<1>4. CASE c.op = "disk-fill-clear"
    <2>1. todo[s] = <<Do("rm", "disk_hog", 0)>>
        BY <1>4, <1>b, ClearScripts
    <2>2. /\ Tail(todo[s]) = <<>> /\ Head(todo[s]).op = "rm"
          /\ Head(todo[s]).what = "disk_hog"
        BY <2>1, FirstAndRest, DoFields
    <2>3. todo'[s] = <<>> /\ files'[n] = files[n] \ {"disk_hog"}
        BY <2>2, NodeEffects
    <2>4. Swept(c, n)'
        BY <1>4, <2>3 DEF Swept, ShapeClears
    <2> QED
        BY <1>d, <2>3, <2>4
<1> QED
    BY <1>1, <1>2, <1>3, <1>4 DEF ClearOps

\* The shaping commands, on their slave: delete, and add when there is an amount.
LEMMA ShapeProgress ==
    ASSUME TypeInv, NEW s \in Sessions, ShellStep(s),
           NEW c \in Commands, NEW n \in Slaves, here[s] = n,
           c.op \in ShapeOps, c.target = n, Progress(c, n, todo[s])
    PROVE  \/ todo'[s] = <<>> /\ Goal(c, n)'
           \/ /\ c.amount > 0 /\ qdisc'[n] = NoQdisc
              /\ todo'[s] = <<Do("qdisc-netem", KindOf(c), c.amount)>>
<1>a. todo[s] # <<>> /\ n \in Nodes /\ c.amount \in Nat
    BY NamedStep, CommandFields DEF Nodes
<1>b. /\ Swept(c, n)' /\ c.op # "resume" /\ c.op # "isolate" /\ c.op # "yarn-unhealthy"
      /\ c.op # "mem-stress"
    BY DEF ShapeOps, Swept, ShapeClears
<1>1. CASE todo[s] = Script(c, n) /\ c.amount = 0
    <2>1. todo[s] = <<Do("qdisc-del", None, 0)>>
        BY <1>1, InjectionScripts
    <2>2. Tail(todo[s]) = <<>> /\ Head(todo[s]).op = "qdisc-del"
        BY <2>1, FirstAndRest, DoFields
    <2>3. todo'[s] = <<>> /\ qdisc'[n] = NoQdisc
        BY <2>2, NodeEffects
    <2>4. InEffect(c, n)'
        BY <1>1, <1>b, <2>3 DEF InEffect, Wanted
    <2> QED
        BY <1>b, <2>3, <2>4 DEF Goal
<1>2. CASE todo[s] = Script(c, n) /\ c.amount # 0
    <2>1. todo[s] = <<Do("qdisc-del", None, 0), Do("qdisc-netem", KindOf(c), c.amount)>>
        BY <1>2, InjectionScripts
    <2>2. /\ Tail(todo[s]) = <<Do("qdisc-netem", KindOf(c), c.amount)>>
          /\ Head(todo[s]).op = "qdisc-del"
        BY <2>1, FirstAndRest, DoFields
    <2>3. todo'[s] = <<Do("qdisc-netem", KindOf(c), c.amount)>> /\ qdisc'[n] = NoQdisc
        BY <2>2, NodeEffects
    <2> QED
        BY <1>a, <1>2, <2>3
<1>3. CASE /\ todo[s] = <<Do("qdisc-netem", KindOf(c), c.amount)>>
           /\ c.amount > 0 /\ qdisc[n] = NoQdisc
    <2>1. /\ Tail(todo[s]) = <<>> /\ Head(todo[s]).op = "qdisc-netem"
          /\ Head(todo[s]).what = KindOf(c) /\ Head(todo[s]).amt = c.amount
        BY <1>3, FirstAndRest, DoFields
    <2>2. /\ todo'[s] = <<>>
          /\ qdisc'[n] = [root |-> "netem", kind |-> KindOf(c), amt |-> c.amount,
                          flows |-> {}]
        BY <1>3, <2>1, NodeEffects
    <2>3. InEffect(c, n)'
        BY <1>a, <1>3, <1>b, <2>2 DEF InEffect, Wanted, ShapeOps, ShapeClears
    <2> QED
        BY <1>b, <2>2, <2>3 DEF Goal
<1> QED
    BY <1>a, <1>1, <1>2, <1>3, <1>b DEF Progress, Half

\* isolate with a port, on its slave: one rule for each direction.
LEMMA IsolateProgress ==
    ASSUME TypeInv, NEW s \in Sessions, ShellStep(s),
           NEW c \in Commands, NEW n \in Slaves, here[s] = n,
           c.op = "isolate", c.amount > 0, c.target = n, Progress(c, n, todo[s])
    PROVE  \/ todo'[s] = <<>> /\ Goal(c, n)'
           \/ /\ <<"INPUT", "dport", c.amount>> \in drops'[n]
              /\ todo'[s] = <<Do("drop", <<"OUTPUT", "sport", c.amount>>, 0)>>
<1>a. todo[s] # <<>> /\ n \in Nodes /\ c.amount \in Nat
    BY NamedStep, CommandFields DEF Nodes
<1>b. Swept(c, n)' /\ c.op # "resume" /\ c.op \notin ShapeOps
    BY DEF ShapeOps, Swept, ShapeClears
<1> DEFINE in  == <<"INPUT", "dport", c.amount>>
           out == <<"OUTPUT", "sport", c.amount>>
<1>c. {in, out} \subseteq drops'[n] => Goal(c, n)'
    BY <1>b DEF Goal, InEffect
<1>d. Script(c, n) = <<Do("drop", in, 0), Do("drop", out, 0)>>
    BY InjectionScripts
<1>e. Half(c, n, todo[s]) => todo[s] = <<Do("drop", out, 0)>> /\ in \in drops[n]
    BY <1>b DEF Half
<1> HIDE DEF in, out
<1>1. CASE todo[s] = Script(c, n)
    <2>1. todo[s] = <<Do("drop", in, 0), Do("drop", out, 0)>>
        BY <1>1, <1>d
    <2>2. /\ Tail(todo[s]) = <<Do("drop", out, 0)>> /\ Head(todo[s]).op = "drop"
          /\ Head(todo[s]).what = in
        BY <2>1, FirstAndRest, DoFields
    <2>3. todo'[s] = <<Do("drop", out, 0)>> /\ in \in drops'[n]
        BY <2>2, NodeEffects
    <2> QED
        BY <2>3 DEF in, out
<1>2. CASE todo[s] = <<Do("drop", out, 0)>> /\ in \in drops[n]
    <2>1. Tail(todo[s]) = <<>> /\ Head(todo[s]).op = "drop" /\ Head(todo[s]).what = out
        BY <1>2, FirstAndRest, DoFields
    <2>2. todo'[s] = <<>> /\ drops'[n] = drops[n] \cup {out}
        BY <2>1, NodeEffects
    <2> QED
        BY <1>2, <1>c, <2>2
<1> QED
    BY <1>a, <1>1, <1>2, <1>e DEF Progress

\* The injections that write or remove a file, on their slave.
LEMMA FileProgress ==
    ASSUME TypeInv, NEW s \in Sessions, ShellStep(s),
           NEW c \in Commands, NEW n \in Slaves, here[s] = n,
           c.op \in {"yarn-unhealthy", "mem-stress"}, c.target = n,
           Progress(c, n, todo[s])
    PROVE  todo'[s] = <<>> /\ Goal(c, n)'
<1>a. todo[s] # <<>> /\ n \in Nodes /\ c.amount \in Nat
    BY NamedStep, CommandFields DEF Nodes
<1>b. /\ Swept(c, n)' /\ c.op # "resume" /\ c.op # "isolate" /\ c.op \notin ShapeOps
    BY DEF ShapeOps, Swept, ShapeClears
<1>c. todo[s] = Script(c, n)
    BY <1>a, <1>b DEF Progress, Half
<1>d. ASSUME NEW op \in {"write", "rm"}, NEW f, todo[s] = <<Do(op, f, 0)>>
      PROVE  todo'[s] = <<>> /\ (f \in files'[n] <=> op = "write")
    <2>1. /\ Tail(todo[s]) = <<>> /\ Head(todo[s]).op = op /\ Head(todo[s]).what = f
        BY <1>d, FirstAndRest, DoFields
    <2>2. CASE op = "write"
        BY <2>1, <2>2, NodeEffects
    <2>3. CASE op = "rm"
        BY <2>1, <2>3, NodeEffects
    <2> QED
        BY <2>2, <2>3
<1>1. CASE c.op = "yarn-unhealthy"
    <2>1. \/ c.amount = 1 /\ todo[s] = <<Do("write", "yarn_node_health_check", 0)>>
          \/ c.amount # 1 /\ todo[s] = <<Do("rm", "yarn_node_health_check", 0)>>
        BY <1>1, <1>c, InjectionScripts
    <2>2. todo'[s] = <<>> /\ ("yarn_node_health_check" \in files'[n] <=> c.amount = 1)
        BY <1>d, <2>1
    <2> QED
        BY <1>1, <1>b, <2>2 DEF Goal, InEffect
<1>2. CASE c.op = "mem-stress"
    <2>a. c.amount > 0 <=> c.amount # 0
        BY <1>a
    <2>1. \/ c.amount > 0 /\ todo[s] = <<Do("write", "hadoop_mem_stress", 0)>>
          \/ ~(c.amount > 0) /\ todo[s] = <<Do("rm", "hadoop_mem_stress", 0)>>
        BY <1>2, <2>a, <1>c, InjectionScripts
    <2>2. todo'[s] = <<>> /\ ("hadoop_mem_stress" \in files'[n] <=> c.amount > 0)
        BY <1>d, <2>1
    <2> QED
        BY <1>2, <1>b, <2>2 DEF Goal, InEffect
<1> QED
    BY <1>1, <1>2

\* resume, on a node where its component is looked for.
LEMMA ResumeProgress ==
    ASSUME TypeInv, NEW s \in Sessions, ShellStep(s),
           NEW c \in Commands, NEW n \in Nodes, here[s] = n,
           c.op = "resume", Progress(c, n, todo[s])
    PROVE  todo'[s] = <<>> /\ Goal(c, n)'
<1>a. todo[s] # <<>>
    BY NamedStep
<1>b. todo[s] = <<Do("resume", c.target, 0)>>
    BY <1>a, SignalScripts DEF Progress, Half, ShapeOps, SignalOps
<1>1. /\ Tail(todo[s]) = <<>> /\ Head(todo[s]).op = "resume"
      /\ Head(todo[s]).what = c.target
    BY <1>b, FirstAndRest, DoFields
<1>2. todo'[s] = <<>>
    <2>1. Resume(s) /\ todo \in [Sessions -> Seq(Step)]
        BY <1>1, NamedStep DEF TypeInv, TypeOK, CliType
    <2> QED
        BY <1>1, <2>1 DEF Resume, Signal, Pop
<1>3. OnePerComponent => Awake(c.target, n)'
    BY <1>1, ResumeEffect
<1>4. Swept(c, n)' /\ InEffect(c, n)'
    BY DEF Swept, InEffect, ShapeClears, ShapeOps
<1> QED
    BY <1>2, <1>3, <1>4 DEF Goal
-----------------------------------------------------------------------------
(***************************************************************************)
(* 4. An invocation that runs alone.  That it has done its work when it    *)
(*    reports is not inductive: the invariant says, of every node that the *)
(*    command is meant for, that it was missed, is still on the way, is    *)
(*    half done exactly as far as the rest of the script says, or is done, *)
(*    and that nobody else has been at work meanwhile.                     *)
(***************************************************************************)

On(q, n) == \E i \in 1..Len(q) : q[i] = n

Visit(s) ==
    /\ \A t \in Sessions : t # s => Idle(t)
    /\ \A n \in Nodes : Effectful(running[s], n) =>
          /\ here[s] = n => Progress(running[s], n, todo[s])
          /\ here[s] # n =>
                n \in missed[s] \/ On(legs[s], n) \/ Goal(running[s], n)

EffectInv == \A s \in Sessions : alone[s] /\ ~Idle(s) => Visit(s)

\* A sequence of nodes is its first node and the rest.
LEMMA OnHeadTail ==
    ASSUME NEW q \in Seq(Nodes), q # <<>>, NEW n, On(q, n)
    PROVE  n = Head(q) \/ On(Tail(q), n)
<1>1. PICK i \in 1..Len(q) : q[i] = n
    BY DEF On
<1>2. CASE i = 1
    BY <1>1, <1>2
<1>3. CASE i # 1
    <2>1. /\ Len(q) \in Nat /\ Len(Tail(q)) = Len(q) - 1
          /\ \A j \in 1..Len(Tail(q)) : Tail(q)[j] = q[j + 1]
        BY HeadTailProperties, LenProperties
    <2>2. i - 1 \in 1..Len(Tail(q))
        BY <1>3, <2>1
    <2>3. Tail(q)[i - 1] = q[(i - 1) + 1]
        BY <2>1, <2>2
    <2>4. (i - 1) + 1 = i
        OBVIOUS
    <2> QED
        BY <1>1, <2>2, <2>3, <2>4 DEF On
<1> QED
    BY <1>2, <1>3

\* main: a command visits every node that it is meant for.
LEMMA LegsCover ==
    ASSUME NEW c \in Commands, NEW n \in Nodes, Effectful(c, n)
    PROVE  On(Legs(c), n)
<1>1. \A x : On(<<x>>, x)
    BY DEF On
<1>2. n \in Slaves => On(SlaveSeq, n)
    <2>1. SlaveSeq \in Seq(Slaves)
        BY Topology
    <2> QED
        BY <2>1, LenProperties DEF Slaves, On
<1>3. On(<<Master>> \o SlaveSeq, n)
    <2> DEFINE q == <<Master>>
    <2>1. q \in Seq(Nodes) /\ Len(q) = 1 /\ q[1] = Master
        BY DEF Nodes
    <2>2. SlaveSeq \in Seq(Nodes)
        BY Topology, SeqMonotonic DEF Nodes
    <2> HIDE DEF q
    <2>3. /\ Len(q \o SlaveSeq) = 1 + Len(SlaveSeq) /\ Len(SlaveSeq) \in Nat
          /\ \A i \in 1..(1 + Len(SlaveSeq)) :
                (q \o SlaveSeq)[i] = IF i <= 1 THEN q[i] ELSE SlaveSeq[i - 1]
        <3>1. Len(SlaveSeq) \in Nat
            BY <2>2, LenProperties
        <3>2. /\ Len(q \o SlaveSeq) = Len(q) + Len(SlaveSeq)
              /\ \A i \in 1..(Len(q) + Len(SlaveSeq)) :
                    (q \o SlaveSeq)[i] = IF i <= Len(q) THEN q[i] ELSE SlaveSeq[i - Len(q)]
            BY Zenon, <2>1, <2>2, ConcatProperties
        <3> QED
            BY <2>1, <3>1, <3>2
    <2>4. CASE n = Master
        BY <2>1, <2>3, <2>4 DEF On, q
    <2>5. CASE n \in Slaves
        <3>1. PICK i \in 1..Len(SlaveSeq) : SlaveSeq[i] = n
            BY <1>2, <2>5 DEF On
        <3>2. /\ i + 1 \in 1..(1 + Len(SlaveSeq)) /\ ~(i + 1 <= 1)
              /\ (i + 1) - 1 = i
            BY <2>3
        <3>3. (q \o SlaveSeq)[i + 1] = n
            BY <2>3, <3>1, <3>2
        <3> QED
            BY <2>3, <3>2, <3>3 DEF On, q
    <2> QED
        BY <2>4, <2>5 DEF Nodes
<1>4. CASE c.op \in ClearOps
    <2>1. Legs(c) = <<Master>> \o SlaveSeq
        BY <1>4 DEF Legs, ClearOps, ShapeClears, SignalOps, TargetedOps, ShapeOps,
                    FillOps, SlaveOnly
    <2> QED
        BY <1>3, <2>1
<1>5. CASE c.op = "resume" /\ Right(c.target, n)
    <2>1. c.op \in SignalOps /\ c.op \notin ClearOps
        BY <1>5 DEF SignalOps, ClearOps, ShapeClears
    <2>2. Legs(c) = IF c.target \in SlaveComps THEN SlaveSeq ELSE <<Master>>
        BY <2>1 DEF Legs, SignalOps, TargetedOps, ShapeOps, FillOps, SlaveOnly
    <2> QED
        BY <1>1, <1>2, <1>5, <2>2 DEF Right, Nodes
<1>6. CASE /\ n \in Slaves /\ c.target = n
           /\ c.op \in ShapeOps \cup {"yarn-unhealthy", "mem-stress", "isolate"}
    <2>1. Legs(c) = <<n>>
        BY <1>6 DEF Legs, ClearOps, ShapeClears, SignalOps, TargetedOps, ShapeOps,
                    FillOps, SlaveOnly
    <2> QED
        BY <1>1, <2>1
<1> QED
    BY <1>4, <1>5, <1>6 DEF Effectful

\* A shell command brings its node one step further.
LEMMA ProgressStep ==
    ASSUME TypeInv, NEW s \in Sessions, ShellStep(s),
           NEW c \in Commands, NEW n \in Nodes, here[s] = n,
           Effectful(c, n), Progress(c, n, todo[s])
    PROVE  Progress(c, n, todo[s])'
<1>1. CASE c.op \in ClearOps
    BY <1>1, ClearProgress DEF Progress
<1>2. CASE c.op = "resume"
    BY <1>2, ResumeProgress DEF Progress
<1>3. CASE n \in Slaves /\ c.target = n /\ c.op \in ShapeOps
    BY <1>3, ShapeProgress DEF Progress, Half
<1>4. CASE n \in Slaves /\ c.target = n /\ c.op = "isolate" /\ c.amount > 0
    BY <1>4, IsolateProgress DEF Progress, Half
<1>5. CASE n \in Slaves /\ c.target = n /\ c.op \in {"yarn-unhealthy", "mem-stress"}
    BY <1>5, FileProgress DEF Progress
<1> QED
    BY <1>1, <1>2, <1>3, <1>4, <1>5 DEF Effectful

\* ... and leaves what was achieved on the others.
LEMMA OthersKept ==
    ASSUME TypeInv, NEW s \in Sessions, ShellStep(s),
           NEW c, NEW n \in Nodes, here[s] # n, Goal(c, n)
    PROVE  Goal(c, n)'
<1>1. UNCHANGED <<qdisc[n], drops[n], files[n]>>
    BY Locality
<1>2. proc'[n] = proc[n]
    <2>1. proc \in [Nodes -> UNION {[Hosted[m] -> States] : m \in Nodes}]
        BY DEF TypeInv, TypeOK, HostType
    <2>2. \A p : Dies(here[s], p) => proc'[n] = proc[n]
        BY <2>1 DEF Dies
    <2>3. CASE Crash(s) \/ KillTask(s)
        BY <2>2, <2>3 DEF Crash, KillTask
    <2>4. CASE Hang(s) \/ Resume(s)
        BY <2>1, <2>4 DEF Hang, Resume, Signal
    <2>5. CASE \/ QdiscDel(s) \/ QdiscNetem(s) \/ QdiscPrio(s) \/ QdiscChild(s)
               \/ FilterAdd(s) \/ Drop(s) \/ Flush(s) \/ IoList(s)
               \/ InterruptSafemode(s)
        BY <2>5 DEF QdiscDel, QdiscNetem, QdiscPrio, QdiscChild, FilterAdd, Drop, Flush,
                    IoList, InterruptSafemode, hostVars
    <2>6. CASE \/ Safemode(s) \/ WriteFile(s) \/ RemoveFile(s) \/ IoMkdir(s)
               \/ IoMax(s) \/ IoEnter(s) \/ IoLeave(s) \/ IoRmdir(s) \/ Burn(s) \/ Cool(s)
        BY <2>6 DEF Safemode, WriteFile, RemoveFile, IoMkdir, IoMax, IoEnter, IoLeave,
                    IoRmdir, Burn, Cool
    <2> QED
        BY <2>3, <2>4, <2>5, <2>6 DEF ShellStep
<1> QED
    BY <1>1, <1>2 DEF Goal, Swept, InEffect, Awake

\* The nodes are as they were.
LEMMA GoalKept ==
    ASSUME NEW c, NEW n, Goal(c, n), UNCHANGED <<netVars, hostVars>>
    PROVE  Goal(c, n)'
BY DEF Goal, Swept, InEffect, Awake, netVars, hostVars

\* A session that is at work is the only one, or does not run alone.
LEMMA OnlyOne ==
    ASSUME TypeInv, EffectInv, NEW s \in Sessions, NEW u \in Sessions,
           ~Idle(s), alone[u], ~Idle(u)
    PROVE  u = s
BY DEF EffectInv, Visit

\* A command starts.
LEMMA EffectStart ==
    ASSUME TypeInv, EffectInv, NEW s \in Sessions, NEW c \in Commands, Start(s, c)
    PROVE  EffectInv'
<1>1. SUFFICES ASSUME NEW u \in Sessions, alone'[u], ~Idle(u)' PROVE Visit(u)'
    BY DEF EffectInv
<1>2. u = s /\ \A t \in Sessions : Idle(t)
    BY <1>1 DEF Start
<1>3. /\ running' = [running EXCEPT ![s] = c] /\ legs' = [legs EXCEPT ![s] = Legs(c)]
      /\ here' = here /\ here[s] = None
      /\ running \in [Sessions -> Commands \cup {None}]
      /\ legs \in [Sessions -> Seq(Nodes)]
    BY <1>2 DEF Start, TypeInv, TypeOK, CliType, IdleRests
<1>4. /\ running'[s] = c /\ legs'[s] = Legs(c) /\ here'[s] = None
      /\ \A t \in Sessions : t # s => Idle(t)'
    BY <1>2, <1>3 DEF Idle
<1>5. \A n \in Nodes : n # None /\ (Effectful(c, n) => On(Legs(c), n))
    BY LegsCover, Topology
<1> QED
    BY <1>2, <1>4, <1>5 DEF Visit

\* A shell command runs.
LEMMA EffectShell ==
    ASSUME TypeInv, EffectInv, NEW s \in Sessions, ShellStep(s)
    PROVE  EffectInv'
<1>1. SUFFICES ASSUME NEW u \in Sessions, alone'[u], ~Idle(u)' PROVE Visit(u)'
    BY DEF EffectInv
<1>2. /\ UNCHANGED <<running, legs, here, alone, missed, asked>> /\ here[s] # None
    BY NamedStep
<1>3. ~Idle(s) /\ alone[u] /\ ~Idle(u) /\ here[s] \in Nodes
    BY <1>1, <1>2 DEF TypeInv, TypeOK, CliType, IdleRests, Idle
<1>4. u = s
    BY <1>3, OnlyOne
<1>5. running[s] \in Commands
    BY <1>3 DEF TypeInv, TypeOK, CliType, Idle
<1>6. PICK c \in Commands : c = running[s]
    BY <1>5
<1>7. PICK h \in Nodes : h = here[s]
    BY <1>3
<1>8. Visit(s)
    BY <1>3, <1>4 DEF EffectInv
<1>9. ASSUME NEW n \in Nodes, Effectful(c, n), h = n
      PROVE  Progress(c, n, todo[s])'
    BY <1>6, <1>7, <1>8, <1>9, ProgressStep DEF Visit
<1>10. ASSUME NEW n \in Nodes, Effectful(c, n), h # n
       PROVE  n \in missed[s] \/ On(legs[s], n) \/ Goal(c, n)'
    BY <1>6, <1>7, <1>8, <1>10, OthersKept DEF Visit
<1>11. \A t \in Sessions : t # s => Idle(t)'
    BY <1>2, <1>8 DEF Visit, Idle
<1>12. /\ running'[s] = c /\ here'[s] = h /\ legs'[s] = legs[s]
       /\ missed'[s] = missed[s]
    BY <1>2, <1>6, <1>7
<1> QED
    BY <1>4, <1>9, <1>10, <1>11, <1>12 DEF Visit

\* The steps of an invocation between the shell commands.
LEMMA EffectCli ==
    ASSUME TypeInv, EffectInv, NEW s \in Sessions,
           EnterLeg(s) \/ MissLeg(s) \/ LeaveLeg(s) \/ Finish(s)
    PROVE  EffectInv'
<1>1. SUFFICES ASSUME NEW u \in Sessions, alone'[u], ~Idle(u)' PROVE Visit(u)'
    BY DEF EffectInv
<1>2. /\ legs \in [Sessions -> Seq(Nodes)] /\ here \in [Sessions -> Nodes \cup {None}]
      /\ todo \in [Sessions -> Seq(Step)] /\ alone \in [Sessions -> BOOLEAN]
      /\ running \in [Sessions -> Commands \cup {None}]
      /\ missed \in [Sessions -> SUBSET Slaves]
    BY DEF TypeInv, TypeOK, CliType
<1>3. ~Idle(s)
    BY DEF EnterLeg, MissLeg, LeaveLeg, Finish, TypeInv, IdleRests
<1>4. alone[u] /\ ~Idle(u) /\ ~Finish(s)
    <2>1. CASE Finish(s)
        <3>1. ~alone'[s] /\ (u # s => alone[u] /\ ~Idle(u))
            BY <1>1, <1>2, <2>1 DEF Finish, Idle
        <3> QED
            BY <1>1, <1>3, <3>1, OnlyOne
    <2>2. CASE EnterLeg(s) \/ MissLeg(s) \/ LeaveLeg(s)
        BY <1>1, <1>3, <2>2 DEF EnterLeg, MissLeg, LeaveLeg, Finish, Idle
    <2> QED
        BY <2>1, <2>2
<1>5. u = s
    BY <1>3, <1>4, OnlyOne
<1>6. Visit(s) /\ running[s] \in Commands /\ running' = running
    BY <1>2, <1>4, <1>5 DEF EffectInv, Idle, EnterLeg, MissLeg, LeaveLeg
<1>7. PICK c \in Commands : c = running[s]
    BY <1>6
<1>8. \A t \in Sessions : t # s => Idle(t)'
    BY <1>6 DEF Visit, Idle
<1>9. UNCHANGED <<netVars, hostVars>>
    BY <1>4 DEF EnterLeg, MissLeg, LeaveLeg
<1>10. \A n \in Nodes : n # None
    BY Topology
<1>11. SUFFICES ASSUME NEW n \in Nodes, Effectful(c, n)
                PROVE  /\ here'[s] = n => Progress(c, n, todo[s])'
                       /\ here'[s] # n =>
                             n \in missed'[s] \/ On(legs'[s], n) \/ Goal(c, n)'
    BY <1>5, <1>6, <1>7, <1>8 DEF Visit
<1>12. Goal(c, n) => Goal(c, n)'
    BY <1>9, GoalKept
<1>13. /\ here[s] = n => Progress(c, n, todo[s])
       /\ here[s] # n => n \in missed[s] \/ On(legs[s], n) \/ Goal(c, n)
    BY <1>6, <1>7, <1>11 DEF Visit
<1>a. CASE EnterLeg(s)
    <2>1. /\ here'[s] = Head(legs[s]) /\ here[s] = None /\ legs[s] # <<>>
          /\ todo'[s] = Script(c, Head(legs[s])) /\ legs'[s] = Tail(legs[s])
          /\ missed'[s] = missed[s]
        BY <1>2, <1>7, <1>a DEF EnterLeg
    <2>2. here'[s] = n => Progress(c, n, todo[s])'
        BY <2>1 DEF Progress
    <2>3. On(legs[s], n) => n = Head(legs[s]) \/ On(Tail(legs[s]), n)
        BY <1>2, <2>1, OnHeadTail
    <2> QED
        BY <1>10, <1>12, <1>13, <2>1, <2>2, <2>3
<1>b. CASE MissLeg(s)
    <2>1. /\ here'[s] = None /\ here[s] = None /\ legs[s] # <<>>
          /\ legs'[s] = Tail(legs[s]) /\ missed'[s] = missed[s] \cup {Head(legs[s])}
        BY <1>2, <1>b DEF MissLeg
    <2>2. On(legs[s], n) => n = Head(legs[s]) \/ On(Tail(legs[s]), n)
        BY <1>2, <2>1, OnHeadTail
    <2> QED
        BY <1>10, <1>12, <1>13, <2>1, <2>2
<1>c. CASE LeaveLeg(s)
    <2>1. /\ here'[s] = None /\ todo[s] = <<>>
          /\ legs'[s] = legs[s] /\ missed'[s] = missed[s]
        BY <1>2, <1>c DEF LeaveLeg
    <2>2. here[s] = n => Goal(c, n)
        <3>1. Script(c, n) # <<>>
            BY <1>11, EffectNeedsWork
        <3>2. ~Half(c, n, <<>>)
            BY FirstAndRest DEF Half
        <3> QED
            BY <1>13, <2>1, <3>1, <3>2 DEF Progress
    <2> QED
        BY <1>10, <1>12, <1>13, <2>1, <2>2
<1> QED
    BY <1>4, <1>a, <1>b, <1>c

\* A process that Hadoop starts again is awake.
LEMMA EffectRestart ==
    ASSUME TypeInv, EffectInv, NEW m \in Nodes, NEW p \in Hosted[m], Restart(m, p)
    PROVE  EffectInv'
<1>1. UNCHANGED <<netVars, files, running, legs, here, todo, alone, missed>>
    BY DEF Restart
<1>2. \A comp : \A n \in Nodes : Awake(comp, n) => Awake(comp, n)'
    <2>1. /\ proc \in [Nodes -> UNION {[Hosted[k] -> States] : k \in Nodes}]
          /\ \A k \in Nodes : proc[k] \in [Hosted[k] -> States]
        BY DEF TypeInv, TypeOK, HostType
    <2>2. \A n \in Nodes : \A q : proc'[n][q] = "stopped" => proc[n][q] = "stopped"
        BY <2>1 DEF Restart
    <2> QED
        BY <2>2 DEF Awake
<1>3. ASSUME NEW c, NEW n \in Nodes, Goal(c, n)
      PROVE  Goal(c, n)'
    BY <1>1, <1>2, <1>3 DEF Goal, Swept, InEffect, netVars
<1>4. ASSUME NEW c, NEW n \in Nodes, NEW s \in Sessions, Progress(c, n, todo[s])
      PROVE  Progress(c, n, todo[s])'
    BY <1>1, <1>3, <1>4 DEF Progress, Half, netVars
<1>5. ASSUME NEW s \in Sessions, Visit(s)
      PROVE  Visit(s)'
    BY <1>1, <1>3, <1>4, <1>5 DEF Visit, Idle
<1> QED
    BY <1>1, <1>5 DEF EffectInv, Idle

LEMMA EffectInit == Init => EffectInv
BY DEF Init, EffectInv, Idle

LEMMA EffectNext == TypeInv /\ EffectInv /\ [Next]_vars => EffectInv'
<1> SUFFICES ASSUME TypeInv, EffectInv, [Next]_vars PROVE EffectInv'
    OBVIOUS
<1>1. ASSUME NEW s \in Sessions, NEW c \in Commands, Start(s, c)
      PROVE  EffectInv'
    BY <1>1, EffectStart
<1>2. ASSUME NEW s \in Sessions, SessionStep(s)
      PROVE  EffectInv'
    BY <1>2, EffectShell, EffectCli DEF SessionStep
<1>3. ASSUME NEW n \in Nodes, NEW p \in Hosted[n], Restart(n, p)
      PROVE  EffectInv'
    BY <1>3, EffectRestart
<1>4. CASE UNCHANGED vars
    <2>1. UNCHANGED <<netVars, hostVars, cliVars>>
        BY <1>4 DEF vars
    <2>2. ASSUME NEW c, NEW n, NEW s \in Sessions, Progress(c, n, todo[s])
          PROVE  Progress(c, n, todo[s])'
        BY <2>1, <2>2, GoalKept DEF Progress, Half, netVars, cliVars
    <2>3. ASSUME NEW s \in Sessions, Visit(s)
          PROVE  Visit(s)'
        BY <2>1, <2>2, <2>3, GoalKept DEF Visit, cliVars, Idle
    <2> QED
        BY <2>1, <2>3 DEF EffectInv, cliVars, Idle
<1> QED
    BY <1>1, <1>2, <1>3, <1>4 DEF Next

\* An invocation that runs alone is, on every node that it is meant for, exactly
\* as far as its script says.
THEOREM InvariantEffect == Spec => []EffectInv
BY EffectInit, EffectNext, InvariantTypes, PTL DEF Spec

\* What holds when it reports.
LEMMA DoneGoal ==
    ASSUME TypeInv, EffectInv, NEW s \in Sessions, Done(s), alone[s],
           NEW n \in Nodes, n \notin missed[s]
    PROVE  Goal(running[s], n)
<1>1. Visit(s) /\ here[s] # n /\ running[s] \in Commands /\ legs[s] = <<>>
    BY Topology DEF Done, EffectInv, TypeInv, TypeOK, CliType, Idle
<1>2. ~On(<<>>, n)
    BY DEF On
<1>3. CASE Effectful(running[s], n)
    BY <1>1, <1>2, <1>3 DEF Visit
<1>4. CASE ~Effectful(running[s], n)
    BY <1>1, <1>4, NothingMeant
<1> QED
    BY <1>3, <1>4

\* A clear command that ran alone leaves nothing of its kind on the master or
\* on any slave that it reached, whatever the commands before it have done.
THEOREM ClearsSweep == Spec => []ClearSweeps
<1>1. TypeInv /\ EffectInv => ClearSweeps
    BY DoneGoal DEF ClearSweeps, Goal
<1> QED
    BY <1>1, InvariantTypes, InvariantEffect, PTL

\* An injection that ran alone and reached its slave is in effect there when it
\* reports, whatever shaping, rules or files the slave had before.
THEOREM InjectionsTakeEffect == Spec => []InjectionTakesEffect
<1>1. TypeInv /\ EffectInv => InjectionTakesEffect
    <2>1. \A n : n \notin {}
        OBVIOUS
    <2>2. Slaves \subseteq Nodes
        BY DEF Nodes
    <2> QED
        BY <2>1, <2>2, DoneGoal DEF InjectionTakesEffect, Goal
<1> QED
    BY <1>1, InvariantTypes, InvariantEffect, PTL
-----------------------------------------------------------------------------
(***************************************************************************)
(* 5. resume.  It looks for a component on the nodes where a component of  *)
(*    that kind belongs, and nowhere else: that nothing is left stopped    *)
(*    needs that hang, whenever it ran and whatever ran beside it, looked  *)
(*    on those nodes only.                                                 *)
(***************************************************************************)

FitSteps(n) == {st \in Step : st.op = "hang" => Right(st.what, n)}

\* A hang is on its way to the right nodes, runs on a right node, and what is
\* stopped was stopped there.
HangWay == \A s \in Sessions : running[s] # None /\ running[s].op = "hang" =>
               legs[s] \in Seq({n \in Nodes : Right(running[s].target, n)})

HangHere == \A s \in Sessions : here[s] # None => todo[s] \in Seq(FitSteps(here[s]))

StoppedRight ==
    \A n \in Nodes : \A p \in Hosted[n] : proc[n][p] = "stopped" => Right(p[1], n)

StopInv == HangWay /\ HangHere /\ StoppedRight

\* main: hang goes to every slave, or to the master.
LEMMA HangLegs ==
    ASSUME NEW c \in Commands, c.op = "hang"
    PROVE  Legs(c) \in Seq({n \in Nodes : Right(c.target, n)})
<1> DEFINE R == {n \in Nodes : Right(c.target, n)}
<1>1. Legs(c) = IF c.target \in SlaveComps THEN SlaveSeq ELSE <<Master>>
    BY DEF Legs, ClearOps, ShapeClears, SignalOps, TargetedOps, ShapeOps, FillOps, SlaveOnly
<1>2. CASE c.target \in SlaveComps
    <2>1. Slaves \subseteq R
        BY <1>2 DEF Right, Nodes
    <2>2. SlaveSeq \in Seq(R)
        BY <2>1, Topology, SeqMonotonic
    <2> QED
        BY <1>1, <1>2, <2>2
<1>3. CASE c.target \notin SlaveComps
    <2>1. Master \in R
        BY <1>3, Topology DEF Right, Nodes
    <2>2. <<Master>> \in Seq(R)
        BY <2>1
    <2> QED
        BY <1>1, <1>3, <2>2
<1> QED
    BY <1>2, <1>3

\* What a session runs on a node fits there.
LEMMA ScriptFits ==
    ASSUME NEW c \in Commands, NEW n \in Nodes, c.op = "hang" => Right(c.target, n)
    PROVE  Script(c, n) \in Seq(FitSteps(n))
<1>1. CASE c.op \notin SignalOps
    <2>1. Script(c, n) \in Seq(QuietSteps) /\ QuietSteps \subseteq FitSteps(n)
        BY <1>1, QuietScripts DEF QuietSteps, FitSteps, SignalOps
    <2> QED
        BY <2>1, SeqMonotonic
<1>2. CASE c.op \in SignalOps
    <2>1. Do(c.op, c.target, 0) \in Step
        BY <1>2, CommandFields, StepKinds
    <2>2. Do(c.op, c.target, 0) \in FitSteps(n)
        BY <2>1, DoFields DEF FitSteps
    <2>3. <<Do(c.op, c.target, 0)>> \in Seq(FitSteps(n))
        BY <2>2
    <2> QED
        BY <1>2, <2>3, SignalScripts
<1> QED
    BY <1>1, <1>2

\* One process of one node changes its state.
LEMMA OneProcess ==
    ASSUME TypeInv, NEW h \in Nodes, NEW q \in Hosted[h], NEW state,
           proc' = [proc EXCEPT ![h][q] = state],
           NEW n \in Nodes, NEW p \in Hosted[n]
    PROVE  proc'[n][p] = IF n = h /\ p = q THEN state ELSE proc[n][p]
<1>1. /\ proc \in [Nodes -> UNION {[Hosted[m] -> States] : m \in Nodes}]
      /\ \A m \in Nodes : proc[m] \in [Hosted[m] -> States]
    BY DEF TypeInv, TypeOK, HostType
<1>2. CASE n = h
    BY <1>1, <1>2
<1>3. CASE n # h
    BY <1>1, <1>3
<1> QED
    BY <1>2, <1>3

\* Which processes a shell command can stop.
LEMMA WhoIsStopped ==
    ASSUME TypeInv, NEW s \in Sessions, ShellStep(s),
           NEW n \in Nodes, NEW p \in Hosted[n], proc'[n][p] = "stopped"
    PROVE  \/ proc[n][p] = "stopped"
           \/ /\ n = here[s] /\ Head(todo[s]).op = "hang"
              /\ p \in find_hadoop_pid(n, Head(todo[s]).what)
<1>a. /\ proc \in [Nodes -> UNION {[Hosted[m] -> States] : m \in Nodes}]
      /\ \A m \in Nodes : proc[m] \in [Hosted[m] -> States]
      /\ here[s] \in Nodes
    BY NamedStep DEF TypeInv, TypeOK, HostType, CliType
<1>1. CASE Crash(s) \/ KillTask(s)
    <2>1. \A q : Dies(here[s], q) => proc[n][p] = "stopped"
        BY <1>a DEF Dies
    <2> QED
        BY <1>1, <2>1 DEF Crash, KillTask
<1>2. CASE Resume(s)
    <2>1. \/ proc' = proc
          \/ \E q \in Hosted[here[s]] : proc' = [proc EXCEPT ![here[s]][q] = "running"]
        BY <1>2 DEF Resume, Signal, Alive
    <2>2. ASSUME NEW q \in Hosted[here[s]], proc' = [proc EXCEPT ![here[s]][q] = "running"]
          PROVE  proc[n][p] = "stopped"
        <3>1. proc'[n][p] = IF n = here[s] /\ p = q THEN "running" ELSE proc[n][p]
            BY <1>a, <2>2, OneProcess
        <3> QED
            BY <3>1
    <2> QED
        BY <2>1, <2>2
<1>3. CASE Hang(s)
    <2> DEFINE comp == Head(todo[s]).what
    <2>1. Exec(s, "hang")
        BY <1>3, StepNames
    <2>2. \/ proc' = proc
          \/ \E q \in find_hadoop_pid(here[s], comp) :
                proc' = [proc EXCEPT ![here[s]][q] = "stopped"]
        BY <1>3 DEF Hang, Signal, What
    <2> HIDE DEF comp
    <2>3. proc[n][p] = "stopped" \/ (n = here[s] /\ p \in find_hadoop_pid(n, comp))
        <3>1. ASSUME NEW q \in find_hadoop_pid(here[s], comp),
                     proc' = [proc EXCEPT ![here[s]][q] = "stopped"]
              PROVE  proc[n][p] = "stopped" \/ (n = here[s] /\ p = q)
            <4>1. q \in Hosted[here[s]]
                BY DEF find_hadoop_pid
            <4>2. proc'[n][p] = IF n = here[s] /\ p = q THEN "stopped" ELSE proc[n][p]
                BY <1>a, <3>1, <4>1, OneProcess
            <4> QED
                BY <4>2
        <3> QED
            BY <2>2, <3>1
    <2> QED
        BY <2>1, <2>3 DEF Exec, comp
<1>4. CASE \/ QdiscDel(s) \/ QdiscNetem(s) \/ QdiscPrio(s) \/ QdiscChild(s)
           \/ FilterAdd(s) \/ Drop(s) \/ Flush(s) \/ IoList(s) \/ InterruptSafemode(s)
    BY <1>4 DEF QdiscDel, QdiscNetem, QdiscPrio, QdiscChild, FilterAdd, Drop, Flush,
                IoList, InterruptSafemode, hostVars
<1>5. CASE \/ Safemode(s) \/ WriteFile(s) \/ RemoveFile(s) \/ IoMkdir(s)
           \/ IoMax(s) \/ IoEnter(s) \/ IoLeave(s) \/ IoRmdir(s) \/ Burn(s) \/ Cool(s)
    BY <1>5 DEF Safemode, WriteFile, RemoveFile, IoMkdir, IoMax, IoEnter, IoLeave,
                IoRmdir, Burn, Cool
<1> QED
    BY <1>1, <1>2, <1>3, <1>4, <1>5 DEF ShellStep

\* A shell command runs.
LEMMA StopShell ==
    ASSUME TypeInv, StopInv, NEW s \in Sessions, ShellStep(s)
    PROVE  StopInv'
<1>1. /\ UNCHANGED <<running, legs, here>> /\ here[s] # None /\ todo[s] # <<>>
    BY NamedStep
<1>2. /\ todo[s] \in Seq(FitSteps(here[s])) /\ here[s] \in Nodes
      /\ todo \in [Sessions -> Seq(Step)]
    BY <1>1 DEF StopInv, HangHere, TypeInv, TypeOK, CliType
<1>3. Head(todo[s]) \in FitSteps(here[s]) /\ Tail(todo[s]) \in Seq(FitSteps(here[s]))
    BY <1>1, <1>2, HeadTailProperties
<1>4. HangWay'
    BY <1>1 DEF StopInv, HangWay
<1>5. HangHere'
    <2>1. PICK op : Exec(s, op) /\ (Pop(s) \/ Quit(s) \/ IoList(s))
        BY HowItGoesOn
    <2>2. CASE Pop(s)
        BY <1>1, <1>2, <1>3, <2>2 DEF StopInv, HangHere, Pop
    <2>4. CASE Quit(s)
        BY <1>1, <1>2, <2>4, EmptySeq DEF StopInv, HangHere, Quit
    <2>3. CASE IoList(s)
        <3> DEFINE st == Do("io-leave", limited[here[s]], 0)
        <3>1. st \in Step
            BY <1>2, StepKinds DEF TypeInv, TypeOK, HostType
        <3>2. st \in FitSteps(here[s])
            BY <3>1, DoFields DEF FitSteps
        <3>3. <<st>> \o Tail(todo[s]) \in Seq(FitSteps(here[s]))
            BY <1>3, <3>2, ConcatProperties
        <3> QED
            BY <1>1, <1>2, <2>3, <3>3 DEF StopInv, HangHere, IoList
    <2> QED
        BY <2>1, <2>2, <2>3, <2>4
<1>6. ASSUME NEW n \in Nodes, NEW p \in Hosted[n], proc'[n][p] = "stopped"
      PROVE  Right(p[1], n)
    <2>1. CASE proc[n][p] = "stopped"
        BY <2>1 DEF StopInv, StoppedRight
    <2>2. CASE /\ n = here[s] /\ Head(todo[s]).op = "hang"
               /\ p \in find_hadoop_pid(n, Head(todo[s]).what)
        <3>1. Right(Head(todo[s]).what, n)
            BY <1>3, <2>2 DEF FitSteps
        <3>2. p[1] \in SlaveComps <=> Head(todo[s]).what \in SlaveComps
            BY <2>2 DEF find_hadoop_pid, SlaveComps
        <3> QED
            BY <3>1, <3>2 DEF Right
    <2> QED
        BY <1>6, <2>1, <2>2, WhoIsStopped
<1> QED
    BY <1>4, <1>5, <1>6 DEF StopInv, StoppedRight

\* The other steps of an invocation.
LEMMA StopCli ==
    ASSUME TypeInv, StopInv, NEW s \in Sessions,
           \/ \E c \in Commands : Start(s, c)
           \/ EnterLeg(s) \/ MissLeg(s) \/ LeaveLeg(s) \/ Finish(s)
    PROVE  StopInv'
<1> DEFINE Way(c) == {n \in Nodes : Right(c.target, n)}
<1>a. /\ legs \in [Sessions -> Seq(Nodes)] /\ here \in [Sessions -> Nodes \cup {None}]
      /\ todo \in [Sessions -> Seq(Step)]
      /\ running \in [Sessions -> Commands \cup {None}]
    BY DEF TypeInv, TypeOK, CliType
<1>b. StoppedRight'
    BY DEF Start, EnterLeg, MissLeg, LeaveLeg, Finish, hostVars, StopInv, StoppedRight
<1>c. /\ HangWay  <=> \A t \in Sessions : running[t] # None /\ running[t].op = "hang" =>
                          legs[t] \in Seq(Way(running[t]))
      /\ HangWay' <=> \A t \in Sessions : running'[t] # None /\ running'[t].op = "hang" =>
                          legs'[t] \in Seq(Way(running'[t]))
    BY DEF HangWay
<1>d. \A c, n : n \in Way(c) => Right(c.target, n)
    OBVIOUS
<1>e. HangWay /\ HangHere
    BY DEF StopInv
<1> HIDE DEF Way
<1>1. ASSUME NEW c \in Commands, Start(s, c)
      PROVE  StopInv'
    <2>1. c.op = "hang" => Legs(c) \in Seq(Way(c))
        BY HangLegs DEF Way
    <2>2. HangWay'
        BY <1>1, <1>a, <1>c, <1>e, <2>1 DEF Start
    <2>3. HangHere'
        BY <1>1, <1>e DEF Start, HangHere
    <2> QED
        BY <1>b, <2>2, <2>3 DEF StopInv
<1>2. CASE EnterLeg(s)
    <2>1. running[s] \in Commands
        BY <1>2, <1>a DEF EnterLeg, TypeInv, IdleRests, Idle
    <2>2. running[s].op = "hang" => /\ Head(legs[s]) \in Way(running[s])
                                    /\ Tail(legs[s]) \in Seq(Way(running[s]))
        <3>1. running[s].op = "hang" => legs[s] \in Seq(Way(running[s]))
            BY <1>c, <1>e, <2>1, Topology
        <3> QED
            BY <1>2, <3>1, HeadTailProperties DEF EnterLeg
    <2>3. Head(legs[s]) \in Nodes
        BY <1>2, <1>a, HeadTailProperties DEF EnterLeg
    <2>4. Script(running[s], Head(legs[s])) \in Seq(FitSteps(Head(legs[s])))
        BY <1>d, <2>1, <2>2, <2>3, ScriptFits
    <2>5. HangWay'
        BY <1>2, <1>a, <1>c, <1>e, <2>2 DEF EnterLeg
    <2>6. HangHere'
        BY <1>2, <1>a, <1>e, <2>4 DEF EnterLeg, HangHere
    <2> QED
        BY <1>b, <2>5, <2>6 DEF StopInv
<1>3. CASE MissLeg(s)
    <2>1. running[s] # None /\ running[s].op = "hang" =>
              Tail(legs[s]) \in Seq(Way(running[s]))
        BY <1>3, <1>c, <1>e, HeadTailProperties DEF MissLeg
    <2>2. HangWay'
        BY <1>3, <1>a, <1>c, <1>e, <2>1 DEF MissLeg
    <2>3. HangHere'
        BY <1>3, <1>e DEF MissLeg, HangHere
    <2> QED
        BY <1>b, <2>2, <2>3 DEF StopInv
<1>4. CASE LeaveLeg(s)
    <2>1. HangWay'
        BY <1>4, <1>c, <1>e DEF LeaveLeg
    <2>2. HangHere'
        BY <1>4, <1>a, <1>e DEF LeaveLeg, HangHere
    <2> QED
        BY <1>b, <2>1, <2>2 DEF StopInv
<1>5. CASE Finish(s)
    <2>1. HangWay'
        BY <1>5, <1>a, <1>c, <1>e DEF Finish
    <2>2. HangHere'
        BY <1>5, <1>e DEF Finish, HangHere
    <2> QED
        BY <1>b, <2>1, <2>2 DEF StopInv
<1> QED
    BY <1>1, <1>2, <1>3, <1>4, <1>5

LEMMA StopRestart ==
    ASSUME TypeInv, StopInv, NEW m \in Nodes, NEW p \in Hosted[m], Restart(m, p)
    PROVE  StopInv'
<1>1. HangWay' /\ HangHere'
    BY DEF Restart, StopInv, HangWay, HangHere
<1>2. /\ proc \in [Nodes -> UNION {[Hosted[k] -> States] : k \in Nodes}]
      /\ \A k \in Nodes : proc[k] \in [Hosted[k] -> States]
    BY DEF TypeInv, TypeOK, HostType
<1>3. \A n \in Nodes : \A q \in Hosted[n] :
          proc'[n][q] = "stopped" => proc[n][q] = "stopped"
    BY <1>2 DEF Restart
<1> QED
    BY <1>1, <1>3 DEF StopInv, StoppedRight

LEMMA StopInit == Init => StopInv
<1> SUFFICES ASSUME Init PROVE StopInv
    OBVIOUS
<1>1. HangWay /\ HangHere
    BY DEF Init, HangWay, HangHere
<1>2. StoppedRight
    BY DEF Init, StoppedRight
<1> QED
    BY <1>1, <1>2 DEF StopInv

LEMMA StopNext == TypeInv /\ StopInv /\ [Next]_vars => StopInv'
<1> SUFFICES ASSUME TypeInv, StopInv, [Next]_vars PROVE StopInv'
    OBVIOUS
<1>1. ASSUME NEW s \in Sessions, NEW c \in Commands, Start(s, c)
      PROVE  StopInv'
    BY <1>1, StopCli
<1>2. ASSUME NEW s \in Sessions, SessionStep(s)
      PROVE  StopInv'
    BY <1>2, StopShell, StopCli DEF SessionStep
<1>3. ASSUME NEW n \in Nodes, NEW p \in Hosted[n], Restart(n, p)
      PROVE  StopInv'
    BY <1>3, StopRestart
<1>4. CASE UNCHANGED vars
    BY <1>4 DEF vars, hostVars, cliVars, StopInv, HangWay, HangHere, StoppedRight
<1> QED
    BY <1>1, <1>2, <1>3, <1>4 DEF Next

\* What is stopped was stopped where resume will look for it.
THEOREM InvariantStop == Spec => []StopInv
BY StopInit, StopNext, InvariantTypes, PTL DEF Spec

\* Where a component is found at most once on a node, a resume that ran alone
\* leaves nothing of its component stopped on any node it reached.  (One resume
\* wakes one process: of two tasks on a slave the other would stay stopped.)
THEOREM ResumesWakeAll ==
    ASSUME OnePerComponent
    PROVE  Spec => []ResumeWakesAll
<1>1. TypeInv /\ EffectInv /\ StopInv => ResumeWakesAll
    <2> SUFFICES ASSUME TypeInv, EffectInv, StopInv,
                        NEW s \in Sessions, Done(s), alone[s], running[s].op = "resume",
                        NEW n \in Nodes, n \notin missed[s],
                        NEW p \in Hosted[n], p[1] = running[s].target,
                        proc[n][p] = "stopped"
                 PROVE  FALSE
        BY DEF ResumeWakesAll
    <2>1. Right(running[s].target, n)
        BY DEF StopInv, StoppedRight
    <2>2. Goal(running[s], n)
        BY DoneGoal
    <2> QED
        BY <2>1, <2>2 DEF Goal, Awake
<1> QED
    BY <1>1, InvariantTypes, InvariantEffect, InvariantStop, PTL
-----------------------------------------------------------------------------
(***************************************************************************)
(* 6. Races.  The commands of several invocations on one slave interleave. *)
(*    What the slave is left with is not inductive: the invariant says how *)
(*    far each of them is, and that the tree is one that was asked for, or *)
(*    is about to be deleted, or is empty and about to be filled.          *)
(***************************************************************************)

Shapers == ShapeOps \cup ShapeClears
Del     == Do("qdisc-del", None, 0)
Netem(c) == Do("qdisc-netem", KindOf(c), c.amount)

\* The command adds a tree of its own after it has deleted what it found.
Adds(c) == c.op \notin ShapeClears /\ c.amount # 0

\* Session s has yet to delete the root of n, or to add its own.
ToDelete(s, n) == /\ Shaping(s, n) /\ todo[s] # <<>> /\ Head(todo[s]) = Del
                  /\ Tail(todo[s]) = IF Adds(running[s]) THEN <<Netem(running[s])>>
                                                         ELSE <<>>
ToAdd(s, n) == /\ Shaping(s, n) /\ Adds(running[s])
               /\ todo[s] = <<Netem(running[s])>>

OtherSteps == {st \in Step : st.op \notin {"qdisc-del", "qdisc-netem"}}

\* How far the sessions on n are.
RaceStages(n) ==
    \A s \in Sessions :
        /\ Shaping(s, n) => /\ Wanted(running[s]) \in asked[n]
                            /\ ToDelete(s, n) \/ ToAdd(s, n) \/ todo[s] = <<>>
        /\ here[s] = n /\ ~Shaping(s, n) => todo[s] \in Seq(OtherSteps)

\* What the tree of n is.
RaceTree(n) ==
    (\E s \in Sessions : Shaping(s, n)) =>
        \/ qdisc[n] \in asked[n]
        \/ \E s \in Sessions : ToDelete(s, n)
        \/ qdisc[n] = NoQdisc /\ \E s \in Sessions : ToAdd(s, n)

RaceInv == \A n \in Slaves : RaceStages(n) /\ RaceTree(n)

\* The scripts of the shaping commands on a slave.
LEMMA RaceScript ==
    ASSUME NEW c \in Commands, NEW n \in Slaves, c.op \in Shapers
    PROVE  /\ Script(c, n) # <<>> /\ Head(Script(c, n)) = Del
           /\ Tail(Script(c, n)) = IF Adds(c) THEN <<Netem(c)>> ELSE <<>>
<1>1. n \in Nodes
    BY DEF Nodes
<1>2. \/ ~Adds(c) /\ Script(c, n) = <<Del>>
      \/ Adds(c) /\ Script(c, n) = <<Del, Netem(c)>>
    BY <1>1, ClearScripts, InjectionScripts
       DEF Shapers, Adds, Del, Netem, ShapeClears, ShapeOps
<1> QED
    BY <1>2, FirstAndRest

\* What a command wants is an empty tree, unless it adds one.
LEMMA RaceWanted ==
    ASSUME NEW c
    PROVE  /\ ~Adds(c) => Wanted(c) = NoQdisc
           /\ Adds(c) => Wanted(c) = [root |-> "netem", kind |-> KindOf(c),
                                      amt |-> c.amount, flows |-> {}]
BY DEF Adds, Wanted

\* No other command touches the root of the tree of a slave.
LEMMA OtherScripts ==
    ASSUME NEW c \in Commands, NEW n \in Slaves, c.op \notin Shapers
    PROVE  Script(c, n) \in Seq(OtherSteps)
<1>a. /\ n \in Nodes /\ n # Master /\ c.amount \in Nat /\ c.target \in Targets
    BY CommandFields, Topology DEF Nodes
<1>b. \A op, what, amt : Do(op, what, amt) \in Step /\ op \notin {"qdisc-del", "qdisc-netem"}
          => Do(op, what, amt) \in OtherSteps
    BY DoFields DEF OtherSteps
<1>c. \A st \in OtherSteps : <<st>> \in Seq(OtherSteps)
    OBVIOUS
<1>1. isolate_local(c.amount) \in Seq(OtherSteps)
    <2>1. DropSteps \subseteq OtherSteps
        BY DEF DropSteps, QuietSteps, OtherSteps
    <2> QED
        BY <1>a, <2>1, IsolateType, SeqMonotonic
<1>2. /\ \A op \in {"write", "rm"}, f \in FileNames : <<Do(op, f, 0)>> \in Seq(OtherSteps)
      /\ \A op \in {"flush", "io-mkdir", "io-max", "io-enter", "io-list", "io-rmdir",
                    "burn", "cool"} : Do(op, None, 0) \in OtherSteps
      /\ Do("safemode", None, c.amount) \in OtherSteps
    BY <1>a, <1>b, <1>c, StepKinds
<1>3. /\ inject_memory_stress(c.amount) \in Seq(OtherSteps)
      /\ inject_memory_stress(0) \in Seq(OtherSteps)
      /\ inject_yarn_fault(IF c.amount = 1 THEN 1 ELSE 2) \in Seq(OtherSteps)
      /\ <<Do("write", "disk_hog", 0)>> \in Seq(OtherSteps)
      /\ <<Do("rm", "disk_hog", 0)>> \in Seq(OtherSteps)
    BY <1>2 DEF inject_memory_stress, inject_yarn_fault, FileNames
<1>4. /\ inject_io_delay(c.amount) \in Seq(OtherSteps)
      /\ inject_cpu_stress \in Seq(OtherSteps)
      /\ inject_hdfs_fault(c.amount) \in Seq(OtherSteps)
      /\ <<Do("flush", None, 0)>> \in Seq(OtherSteps)
    BY <1>2 DEF inject_io_delay, inject_cpu_stress, inject_hdfs_fault
<1>5. /\ <<Do("kill-task", "map", 0)>> \in Seq(OtherSteps)
      /\ <<Do("kill-task", "reduce", 0)>> \in Seq(OtherSteps)
    <2>1. "map" \in Targets /\ "reduce" \in Targets
        BY TargetMembers DEF Components, SlaveComps
    <2>2. Do("kill-task", "map", 0) \in Step /\ Do("kill-task", "reduce", 0) \in Step
        BY <2>1, StepKinds
    <2> QED
        BY <1>b, <2>2
<1>6. c.op \in SignalOps => exec_local_process_fault(c.op, c.target) \in Seq(OtherSteps)
    <2>1. c.op \in SignalOps => Do(c.op, c.target, 0) \in Step
        BY <1>a, StepKinds
    <2>2. c.op \in SignalOps => Do(c.op, c.target, 0) \in OtherSteps
        BY <1>b, <2>1 DEF SignalOps
    <2> QED
        BY <2>2 DEF exec_local_process_fault
<1>7. <<>> \in Seq(OtherSteps)
    BY EmptySeq
<1>8. /\ c.op \notin {"delay", "heartbeat", "loss", "reorder", "delay-clear",
                      "loss-clear", "reorder-clear"}
    BY DEF Shapers, ShapeOps, ShapeClears
<1> QED
    BY <1>a, <1>1, <1>3, <1>4, <1>5, <1>6, <1>7, <1>8 DEF Script

\* A shell command on a slave that is not one of the two leaves its tree alone.
LEMMA TreeKept ==
    ASSUME TypeInv, AimInv, NEW s \in Sessions, ShellStep(s), NEW n \in Slaves,
           here[s] = n => Head(todo[s]).op \notin {"qdisc-del", "qdisc-netem"}
    PROVE  qdisc'[n] = qdisc[n]
<1>1. CASE here[s] # n
    BY <1>1, Locality DEF Nodes
<1>2. CASE here[s] = n
    <2>1. ASSUME NEW op, Exec(s, op)
          PROVE  op \notin {"qdisc-prio", "qdisc-child", "filter"}
        BY <1>2, <2>1, LicensedFacts DEF AimInv, LicensedSteps, Licensed
    <2>2. ~ (QdiscPrio(s) \/ QdiscChild(s) \/ FilterAdd(s))
        BY <2>1, StepNames
    <2>3. ~ (QdiscDel(s) \/ QdiscNetem(s))
        BY <1>2, StepNames DEF Exec
    <2>4. qdisc' = qdisc
        BY <2>2, <2>3
           DEF ShellStep, Drop, Flush, Crash, Hang, Resume, Signal, KillTask, Safemode,
               InterruptSafemode, WriteFile, RemoveFile, IoMkdir, IoMax, IoEnter, IoList,
               IoLeave, IoRmdir, Burn, Cool, netVars
    <2> QED
        BY <2>4
<1> QED
    BY <1>1, <1>2

\* The script of a session that shapes nothing goes on shaping nothing.
LEMMA OtherGoesOn ==
    ASSUME TypeInv, NEW s \in Sessions, ShellStep(s), todo[s] \in Seq(OtherSteps)
    PROVE  /\ todo'[s] \in Seq(OtherSteps)
           /\ Head(todo[s]).op \notin {"qdisc-del", "qdisc-netem"}
<1>1. here[s] # None /\ todo[s] # <<>>
    BY NamedStep
<1>2. Head(todo[s]) \in OtherSteps /\ Tail(todo[s]) \in Seq(OtherSteps)
    BY <1>1, HeadTailProperties
<1>3. here[s] \in Nodes /\ todo \in [Sessions -> Seq(Step)]
    BY <1>1 DEF TypeInv, TypeOK, CliType
<1>4. PICK op : Exec(s, op) /\ (Pop(s) \/ Quit(s) \/ IoList(s))
    BY HowItGoesOn
<1>5. CASE Pop(s)
    BY <1>2, <1>3, <1>5 DEF Pop, OtherSteps
<1>6. CASE Quit(s)
    BY <1>2, <1>3, <1>6, EmptySeq DEF Quit, OtherSteps
<1>7. CASE IoList(s)
    <2> DEFINE st == Do("io-leave", limited[here[s]], 0)
    <2>1. st \in Step
        BY <1>3, StepKinds DEF TypeInv, TypeOK, HostType
    <2>2. st \in OtherSteps
        BY <2>1, DoFields DEF OtherSteps
    <2>3. <<st>> \o Tail(todo[s]) \in Seq(OtherSteps)
        BY <1>2, <2>2, ConcatProperties
    <2> QED
        BY <1>2, <1>3, <1>7, <2>3 DEF IoList, OtherSteps
<1> QED
    BY <1>4, <1>5, <1>6, <1>7

\* The script of one session goes on, those of the others stay.
LEMMA OneGoesOn ==
    ASSUME TypeInv, NEW s \in Sessions, ShellStep(s)
    PROVE  /\ \A t \in Sessions \ {s} : todo'[t] = todo[t]
           /\ UNCHANGED <<running, here, asked>>
           /\ \A t \in Sessions : \A n : Shaping(t, n)' <=> Shaping(t, n)
<1>1. UNCHANGED <<running, here, asked>>
    BY NamedStep
<1>2. PICK op : Exec(s, op) /\ (Pop(s) \/ Quit(s) \/ IoList(s))
    BY HowItGoesOn
<1>3. todo \in [Sessions -> Seq(Step)]
    BY DEF TypeInv, TypeOK, CliType
<1>4. \A t \in Sessions \ {s} : todo'[t] = todo[t]
    BY <1>2, <1>3 DEF Pop, Quit, IoList
<1> QED
    BY <1>1, <1>4 DEF Shaping

\* A shell command on n of a session that shapes n: the delete or the add.
LEMMA RaceShaper ==
    ASSUME TypeInv, AimInv, NEW s \in Sessions, ShellStep(s), NEW n \in Slaves,
           Shaping(s, n), RaceStages(n), RaceTree(n)
    PROVE  RaceStages(n)' /\ RaceTree(n)'
<1> DEFINE c == running[s]
<1>a. /\ n \in Nodes /\ here[s] = n /\ todo[s] # <<>> /\ Wanted(c) \in asked[n]
      /\ ToDelete(s, n) \/ ToAdd(s, n)
    BY NamedStep DEF Nodes, Shaping, RaceStages
<1>b. /\ \A t \in Sessions \ {s} : todo'[t] = todo[t]
      /\ UNCHANGED <<running, here, asked>>
      /\ \A t \in Sessions : Shaping(t, n)' <=> Shaping(t, n)
    BY OneGoesOn
<1>c. /\ qdisc[n] # NoQdisc => qdisc[n].root # "none"
      /\ qdisc \in [Nodes -> Qdisc] /\ todo \in [Sessions -> Seq(Step)]
    BY DEF AimInv, Accounted, Aimed, TypeInv, TypeOK, NetType, CliType
<1>d. \A t \in Sessions \ {s} : /\ ToDelete(t, n)' <=> ToDelete(t, n)
                                /\ ToAdd(t, n)' <=> ToAdd(t, n)
    BY <1>b DEF ToDelete, ToAdd
<1>e. ASSUME todo'[s] = <<>> \/ ToAdd(s, n)'
      PROVE  RaceStages(n)'
    BY <1>b, <1>d, <1>e DEF RaceStages
<1>1. CASE ToDelete(s, n)
    <2>1. /\ Head(todo[s]).op = "qdisc-del"
          /\ Tail(todo[s]) = IF Adds(c) THEN <<Netem(c)>> ELSE <<>>
        BY <1>1, DoFields DEF ToDelete, Del
    <2>2. qdisc'[n] = NoQdisc /\ todo'[s] = Tail(todo[s])
        BY <1>a, <2>1, NodeEffects
    <2>3. CASE Adds(c)
        <3>1. ToAdd(s, n)'
            BY <1>b, <2>1, <2>2, <2>3, <1>1 DEF ToAdd, ToDelete
        <3> QED
            BY <1>e, <2>2, <3>1 DEF RaceTree
    <2>4. CASE ~Adds(c)
        <3>1. Wanted(c) = NoQdisc /\ todo'[s] = <<>>
            BY <2>1, <2>2, <2>4, RaceWanted
        <3> QED
            BY <1>a, <1>b, <1>e, <2>2, <3>1 DEF RaceTree
    <2> QED
        BY <2>3, <2>4
<1>2. CASE ToAdd(s, n)
    <2>1. /\ Head(todo[s]).op = "qdisc-netem" /\ Tail(todo[s]) = <<>>
          /\ Head(todo[s]).what = KindOf(c) /\ Head(todo[s]).amt = c.amount
        BY <1>2, FirstAndRest, DoFields DEF ToAdd, Netem
    <2>2. todo'[s] = <<>>
        BY <1>a, <2>1, NodeEffects
    <2>3. CASE qdisc[n] = NoQdisc
        <3>1. qdisc'[n] = Wanted(c)
            BY <1>a, <1>2, <2>1, <2>3, NodeEffects, RaceWanted DEF ToAdd
        <3> QED
            BY <1>a, <1>b, <1>e, <2>2, <3>1 DEF RaceTree
    <2>4. CASE qdisc[n] # NoQdisc
        <3>1. qdisc'[n] = qdisc[n]
            <4>1. QdiscNetem(s)
                BY <2>1, NamedStep
            <4> QED
                BY <1>a, <1>c, <2>4, <4>1 DEF QdiscNetem
        <3>2. ~ToDelete(s, n)
            BY <2>1, DoFields DEF ToDelete, Del
        <3>3. qdisc[n] \in asked[n] \/ \E t \in Sessions \ {s} : ToDelete(t, n)
            BY <1>2, <2>4, <3>2 DEF RaceTree, ToAdd
        <3> QED
            BY <1>b, <1>d, <1>e, <2>2, <3>1, <3>3 DEF RaceTree
    <2> QED
        BY <2>3, <2>4
<1> QED
    BY <1>a, <1>1, <1>2

\* Any shell command.
LEMMA RaceShell ==
    ASSUME TypeInv, AimInv, RaceInv, NEW s \in Sessions, ShellStep(s)
    PROVE  RaceInv'
<1> SUFFICES ASSUME NEW n \in Slaves PROVE RaceStages(n)' /\ RaceTree(n)'
    BY DEF RaceInv
<1>a. RaceStages(n) /\ RaceTree(n)
    BY DEF RaceInv
<1>1. CASE Shaping(s, n)
    BY <1>a, <1>1, RaceShaper
<1>2. CASE ~Shaping(s, n)
    <2>1. /\ \A t \in Sessions \ {s} : todo'[t] = todo[t]
          /\ UNCHANGED <<running, here, asked>>
          /\ \A t \in Sessions : Shaping(t, n)' <=> Shaping(t, n)
        BY OneGoesOn
    <2>2. here[s] = n => /\ todo'[s] \in Seq(OtherSteps)
                         /\ Head(todo[s]).op \notin {"qdisc-del", "qdisc-netem"}
        BY <1>a, <1>2, OtherGoesOn DEF RaceStages
    <2>3. qdisc'[n] = qdisc[n]
        BY <2>2, TreeKept
    <2>4. \A t \in Sessions : /\ ToDelete(t, n)' <=> ToDelete(t, n)
                              /\ ToAdd(t, n)' <=> ToAdd(t, n)
        BY <1>2, <2>1 DEF ToDelete, ToAdd
    <2>5. RaceStages(n)'
        BY <1>a, <1>2, <2>1, <2>2, <2>4 DEF RaceStages
    <2>6. RaceTree(n)'
        BY <1>a, <2>1, <2>3, <2>4 DEF RaceTree
    <2> QED
        BY <2>5, <2>6
<1> QED
    BY <1>1, <1>2

\* Nobody comes to n, leaves it or goes on there.
LEMMA RaceKept ==
    ASSUME NEW n, RaceStages(n), RaceTree(n),
           qdisc'[n] = qdisc[n], asked'[n] = asked[n],
           \A t \in Sessions : here[t] = n \/ here'[t] = n =>
               here'[t] = here[t] /\ running'[t] = running[t] /\ todo'[t] = todo[t]
    PROVE  RaceStages(n)' /\ RaceTree(n)'
<1>1. \A t \in Sessions : /\ Shaping(t, n)' <=> Shaping(t, n)
                          /\ ToDelete(t, n)' <=> ToDelete(t, n)
                          /\ ToAdd(t, n)' <=> ToAdd(t, n)
    BY DEF Shaping, ToDelete, ToAdd
<1>2. RaceStages(n)'
    BY <1>1 DEF RaceStages, Shaping
<1>3. RaceTree(n)'
    BY <1>1 DEF RaceTree
<1> QED
    BY <1>2, <1>3

\* A session comes to n.
LEMMA RaceEnter ==
    ASSUME TypeInv, NEW s \in Sessions, EnterLeg(s), NEW n \in Slaves,
           RaceStages(n), RaceTree(n)
    PROVE  RaceStages(n)' /\ RaceTree(n)'
<1> DEFINE c == running[s]
<1>a. /\ legs[s] \in Seq(Nodes) /\ here \in [Sessions -> Nodes \cup {None}]
      /\ todo \in [Sessions -> Seq(Step)] /\ running \in [Sessions -> Commands \cup {None}]
      /\ asked \in [Slaves -> SUBSET Qdisc] /\ n # None /\ n # Master
    BY Topology DEF TypeInv, TypeOK, CliType, Nodes
<1>b. /\ here[s] = None /\ legs[s] # <<>> /\ UNCHANGED <<netVars, running>>
      /\ here' = [here EXCEPT ![s] = Head(legs[s])]
      /\ todo' = [todo EXCEPT ![s] = Script(c, Head(legs[s]))]
      /\ asked' = AskedWith(s, Head(legs[s]))
    BY DEF EnterLeg
<1>c. Head(legs[s]) \in Nodes /\ c \in Commands /\ qdisc' = qdisc
    BY <1>a, <1>b, HeadTailProperties DEF TypeInv, IdleRests, Idle, netVars
<1>1. CASE Head(legs[s]) # n
    <2>1. asked'[n] = asked[n]
        BY <1>a, <1>b, <1>1 DEF AskedWith
    <2> QED
        BY <1>a, <1>b, <1>c, <1>1, <2>1, RaceKept
<1>2. CASE Head(legs[s]) = n
    <2>1. /\ here'[s] = n /\ todo'[s] = Script(c, n) /\ running'[s] = c
          /\ \A t \in Sessions \ {s} : here'[t] = here[t] /\ todo'[t] = todo[t]
        BY <1>a, <1>b, <1>2
    <2>2. \A t \in Sessions \ {s} : /\ Shaping(t, n)' <=> Shaping(t, n)
                                    /\ ToDelete(t, n)' <=> ToDelete(t, n)
                                    /\ ToAdd(t, n)' <=> ToAdd(t, n)
        BY <1>b, <2>1 DEF Shaping, ToDelete, ToAdd
    <2>3. Shaping(s, n)' <=> c.op \in Shapers
        BY <1>a, <1>c, <2>1, Topology DEF Shaping, Shapers
    <2>4. asked'[n] = IF c.op \in Shapers THEN asked[n] \cup {Wanted(c)} ELSE asked[n]
        BY <1>a, <1>b, <1>2 DEF AskedWith, Shapers
    <2>5. CASE c.op \in Shapers
        <3>1. ToDelete(s, n)'
            BY <1>c, <2>1, <2>3, <2>5, RaceScript DEF ToDelete
        <3>2. Wanted(c)' = Wanted(c)
            BY <1>b DEF Wanted
        <3>3. asked'[n] = asked[n] \cup {Wanted(c)} /\ Shaping(s, n)'
            BY <2>3, <2>4, <2>5
        <3>4. Wanted(running[s])' \in asked'[n]
            BY <2>1, <3>2, <3>3 DEF Wanted
        <3>5. ASSUME NEW t \in Sessions \ {s}
              PROVE  /\ Shaping(t, n)' => /\ Wanted(running[t])' \in asked'[n]
                                          /\ ToDelete(t, n)' \/ ToAdd(t, n)' \/ todo'[t] = <<>>
                     /\ here'[t] = n /\ ~Shaping(t, n)' => todo'[t] \in Seq(OtherSteps)
            <4>1. Wanted(running[t])' = Wanted(running[t])
                BY <1>b DEF Wanted
            <4> QED
                BY <2>1, <2>2, <3>3, <4>1 DEF RaceStages
        <3>6. RaceStages(n)'
            BY <3>1, <3>3, <3>4, <3>5 DEF RaceStages
        <3> QED
            BY <3>1, <3>6 DEF RaceTree
    <2>6. CASE c.op \notin Shapers
        <3>1. Script(c, n) \in Seq(OtherSteps) /\ ~Shaping(s, n)' /\ ~Shaping(s, n)
            BY <1>a, <1>b, <1>c, <2>3, <2>6, OtherScripts DEF Shaping
        <3>2. RaceStages(n)'
            BY <1>b, <2>1, <2>2, <2>4, <2>6, <3>1 DEF RaceStages
        <3>3. ~ToDelete(s, n) /\ ~ToAdd(s, n)
            BY <3>1 DEF ToDelete, ToAdd
        <3> QED
            BY <1>c, <2>2, <2>4, <2>6, <3>1, <3>2, <3>3 DEF RaceTree
    <2> QED
        BY <2>5, <2>6
<1> QED
    BY <1>1, <1>2

\* A session leaves a node: it has run all its commands there.
LEMMA RaceLeave ==
    ASSUME TypeInv, NEW s \in Sessions, LeaveLeg(s), NEW n \in Slaves,
           RaceStages(n), RaceTree(n)
    PROVE  RaceStages(n)' /\ RaceTree(n)'
<1>a. /\ here \in [Sessions -> Nodes \cup {None}] /\ n # None
    BY Topology DEF TypeInv, TypeOK, CliType, Nodes
<1>b. /\ todo[s] = <<>> /\ UNCHANGED <<qdisc, running, todo>>
      /\ here'[s] = None /\ \A t \in Sessions \ {s} : here'[t] = here[t]
      /\ asked'[n] = IF \E t \in Sessions \ {s} : Shaping(t, n) THEN asked[n] ELSE {}
    BY <1>a DEF LeaveLeg, netVars
<1>1. /\ \A t \in Sessions \ {s} : /\ Shaping(t, n)' <=> Shaping(t, n)
                                   /\ ToDelete(t, n)' <=> ToDelete(t, n)
                                   /\ ToAdd(t, n)' <=> ToAdd(t, n)
      /\ ~Shaping(s, n)' /\ ~ToDelete(s, n) /\ ~ToAdd(s, n)
    BY <1>a, <1>b, FirstAndRest DEF Shaping, ToDelete, ToAdd
<1>2. RaceStages(n)'
    BY <1>a, <1>b, <1>1 DEF RaceStages
<1>3. RaceTree(n)'
    BY <1>b, <1>1 DEF RaceTree
<1> QED
    BY <1>2, <1>3

LEMMA RaceInit == Init => RaceInv
BY Topology DEF Init, RaceInv, RaceStages, RaceTree, Shaping, Nodes

LEMMA RaceNext == TypeInv /\ AimInv /\ RaceInv /\ [Next]_vars => RaceInv'
<1> SUFFICES ASSUME TypeInv, AimInv, RaceInv, [Next]_vars PROVE RaceInv'
    OBVIOUS
<1>a. ASSUME NEW n \in Slaves
      PROVE  RaceStages(n) /\ RaceTree(n) /\ n # None
    BY Topology DEF RaceInv, Nodes
<1>b. ASSUME UNCHANGED <<qdisc, asked, here, todo>>,
             \A t \in Sessions : here[t] = None \/ running'[t] = running[t]
      PROVE  RaceInv'
    <2>1. ASSUME NEW n \in Slaves
          PROVE  RaceStages(n)' /\ RaceTree(n)'
        BY <1>a, <1>b, RaceKept
    <2> QED
        BY <2>1 DEF RaceInv
<1>c. running \in [Sessions -> Commands \cup {None}]
    BY DEF TypeInv, TypeOK, CliType
<1>1. ASSUME NEW s \in Sessions, NEW c \in Commands, Start(s, c)
      PROVE  RaceInv'
    BY <1>1, <1>b, <1>c DEF Start, netVars, TypeInv, IdleRests
<1>2. ASSUME NEW s \in Sessions, ShellStep(s)
      PROVE  RaceInv'
    BY <1>2, RaceShell
<1>3. ASSUME NEW s \in Sessions, EnterLeg(s)
      PROVE  RaceInv'
    BY <1>3, <1>a, RaceEnter DEF RaceInv
<1>4. ASSUME NEW s \in Sessions, LeaveLeg(s)
      PROVE  RaceInv'
    BY <1>4, <1>a, RaceLeave DEF RaceInv
<1>5. ASSUME NEW s \in Sessions, MissLeg(s) \/ Finish(s)
      PROVE  RaceInv'
    BY <1>5, <1>b, <1>c DEF MissLeg, Finish, netVars
<1>6. ASSUME NEW n \in Nodes, NEW p \in Hosted[n], Restart(n, p)
      PROVE  RaceInv'
    BY <1>6, <1>b DEF Restart, netVars
<1>7. CASE UNCHANGED vars
    BY <1>7, <1>b DEF vars, netVars, cliVars
<1> QED
    BY <1>1, <1>2, <1>3, <1>4, <1>5, <1>6, <1>7 DEF Next, SessionStep

\* However shaping commands interleave on a slave, its tree is one that one of
\* them asked for, or one of them has its delete or its add still to do.
THEOREM InvariantRace == Spec => []RaceInv
BY RaceInit, RaceNext, InvariantTypes, InvariantAim, PTL DEF Spec

\* When all that overlapped on a slave have run their commands, the slave has
\* the shaping of one of them: no blend, nothing older, nothing lost.
THEOREM RacesLeaveOne == Spec => []RacesLeaveOneShaping
<1>1. RaceInv => RacesLeaveOneShaping
    <2> SUFFICES ASSUME NEW n \in Slaves, RaceTree(n), NEW s \in Sessions, Shaping(s, n),
                        \A t \in Sessions : Shaping(t, n) => todo[t] = <<>>
                 PROVE  qdisc[n] \in asked[n]
        BY DEF RaceInv, RacesLeaveOneShaping
    <2>1. \A t \in Sessions : ~ToDelete(t, n) /\ ~ToAdd(t, n)
        BY FirstAndRest DEF ToDelete, ToAdd
    <2> QED
        BY <2>1 DEF RaceTree
<1> QED
    BY <1>1, InvariantRace, PTL
=============================================================================
