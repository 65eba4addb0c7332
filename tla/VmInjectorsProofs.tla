-------------------------- MODULE VmInjectorsProofs --------------------------
(***************************************************************************)
(* Theorems about VmInjectors, for any number of virtual machines, CPUs,   *)
(* shells and menus.  The plan of a command is described step by step:     *)
(* what each step belongs to, what follows it and what may end the plan,   *)
(* so that the invariants need only the first step that is left.           *)
(***************************************************************************)
EXTENDS VmInjectors, FiniteSetTheorems, SequenceTheorems, TLAPS

(***************************************************************************)
(* 1. The plans.                                                           *)
(***************************************************************************)

Top == Cardinality(CPUs) - 1

Found == [what : {"target"}, of : {Nothing}] \cup [what : {"menu"}, of : Menus]
         \cup [what : {"tool"}, of : Runners]
Plain == [do : {"qdisc_del", "flush_OUTPUT", "drop", "mkdir", "rmdir", "pkill_cpulimit"}]
Adds == [do : {"qdisc_add"}, type : {1, 2, 4}]
Finds == [do : {"find"}, vm : VMs, action : 1 .. 3]
Kills == [do : {"kill"}, vm : VMs, action : 1 .. 3, who : Found]
OnVm == [do : {"leave", "enter", "return", "cpulimit"}, vm : VMs]
Quotas == [do : {"quota"}, vm : VMs, ms : Int]
Switches == [do : {"cpu"}, cpu : CPUs \ {0}, on : BOOLEAN]
Steps == Plain \cup Adds \cup Finds \cup Kills \cup OnVm \cup Quotas \cup Switches

\* Step e belongs to command c.
Of(c, e) ==
    /\ e.do \in {"qdisc_del", "flush_OUTPUT"} => c.op \in {"network", "c"}
    /\ e.do = "qdisc_add" => c.op = "network" /\ c.n = e.type
    /\ e.do = "drop" => c.op = "network" /\ c.n = 3
    /\ e.do \in {"find", "kill"} =>
          c.op \in {"process", "c"} /\ c.vm = e.vm /\ (c.op = "c" => e.action = 3)
    /\ e.do = "mkdir" => c.op = "perf-delay" /\ HasCgroup
    /\ e.do \in {"quota", "enter", "cpulimit", "return"} => c.op = "perf-delay" /\ c.vm = e.vm
    /\ e.do = "leave" => c.op \in {"perf-delay", "perf-clear"} /\ c.vm = e.vm
    /\ e.do = "cpu" => \/ c.op \in {"cpu-offline", "cpu-online"}
                       \/ c.op = "clear" /\ e.on
    /\ e.do \in {"rmdir", "pkill_cpulimit"} => c.op = "clear"

\* Step f comes right after step e of c.
Follows(c, e, f) ==
    /\ e.do \notin {"qdisc_add", "drop", "find", "kill", "return", "leave", "pkill_cpulimit"}
    /\ e.do = "qdisc_del" => f.do = "flush_OUTPUT"
    /\ e.do = "flush_OUTPUT" => f.do \in {"qdisc_add", "drop", "find"}
    /\ e.do = "mkdir" => f.do = "quota"
    /\ e.do = "quota" => f.do = "enter"
    /\ e.do \in {"enter", "cpulimit"} => f.do = "return"
    /\ e.do = "rmdir" => \/ f.do = "cpu" /\ f.cpu = 1
                         \/ f.do = "pkill_cpulimit" /\ Top = 0
    /\ e.do = "cpu" => \/ f.do = "cpu" /\ f.cpu = e.cpu + 1
                       \/ f.do = "pkill_cpulimit" /\ e.cpu = Top

\* Step e may be the last one of c.
Final(c, e) ==
    /\ e.do \notin {"qdisc_del", "mkdir", "quota", "enter", "cpulimit", "rmdir"}
    /\ e.do = "flush_OUTPUT" => c.op = "network" /\ c.n = 0
    /\ e.do = "cpu" => c.op # "clear"

PlanOK(c, s) ==
    /\ s \in Seq(Steps)
    /\ \A i \in 1 .. Len(s) : Of(c, s[i])
    /\ \A i \in 1 .. Len(s) - 1 : Follows(c, s[i], s[i + 1])
    /\ s # <<>> => Final(c, s[Len(s)])

\* The CPUs are numbered from 0 to Top.
LEMMA TopLemma == Top \in Nat /\ CPUs = 0 .. Top
<1>1. Cardinality(CPUs) \in Nat
  BY CpuAssumption, FS_CardinalityType
<1>2. QED
  BY <1>1, CpuAssumption DEF Top

\* The empty plan, and the plans of one to four steps.
LEMMA Plan0 == ASSUME NEW c PROVE PlanOK(c, <<>>)
BY DEF PlanOK

LEMMA Plan1 ==
    ASSUME NEW c, NEW e1 \in Steps, Of(c, e1), Final(c, e1)
    PROVE  PlanOK(c, <<e1>>)
BY DEF PlanOK

LEMMA Plan2 ==
    ASSUME NEW c, NEW e1 \in Steps, NEW e2 \in Steps, Of(c, e1), Of(c, e2),
           Follows(c, e1, e2), Final(c, e2)
    PROVE  PlanOK(c, <<e1, e2>>)
BY DEF PlanOK

LEMMA Plan3 ==
    ASSUME NEW c, NEW e1 \in Steps, NEW e2 \in Steps, NEW e3 \in Steps,
           Of(c, e1), Of(c, e2), Of(c, e3),
           Follows(c, e1, e2), Follows(c, e2, e3), Final(c, e3)
    PROVE  PlanOK(c, <<e1, e2, e3>>)
BY DEF PlanOK

LEMMA Plan4 ==
    ASSUME NEW c, NEW e1 \in Steps, NEW e2 \in Steps, NEW e3 \in Steps, NEW e4 \in Steps,
           Of(c, e1), Of(c, e2), Of(c, e3), Of(c, e4),
           Follows(c, e1, e2), Follows(c, e2, e3), Follows(c, e3, e4), Final(c, e4)
    PROVE  PlanOK(c, <<e1, e2, e3, e4>>)
BY DEF PlanOK

\* What the first step of a plan is, and what the rest is.
LEMMA PlanHead ==
    ASSUME NEW c, NEW s, PlanOK(c, s), s # <<>>
    PROVE  Head(s) \in Steps /\ Of(c, Head(s))
<1>1. s \in Seq(Steps) /\ Len(s) \in Nat /\ Len(s) > 0
  BY DEF PlanOK
<1>2. Head(s) = s[1] /\ s[1] \in Steps
  BY <1>1
<1>3. QED
  BY <1>1, <1>2 DEF PlanOK

LEMMA PlanTail ==
    ASSUME NEW c, NEW s, PlanOK(c, s), s # <<>>
    PROVE  /\ PlanOK(c, Tail(s))
           /\ Tail(s) = <<>> => Final(c, Head(s))
           /\ Tail(s) # <<>> => Follows(c, Head(s), Head(Tail(s)))
<1>1. s \in Seq(Steps) /\ Len(s) \in Nat /\ Len(s) > 0 /\ Head(s) = s[1]
  BY DEF PlanOK
<1> DEFINE t == Tail(s)
<1>2. t \in Seq(Steps) /\ Len(t) = Len(s) - 1 /\ \A i \in 1 .. Len(t) : t[i] = s[i + 1]
  BY <1>1
<1>3. t = <<>> <=> Len(s) = 1
  BY <1>1, <1>2
<1>4. t # <<>> => Head(t) = s[2]
  BY <1>1, <1>2
<1> HIDE DEF t
<1>5. \A i \in 1 .. Len(t) : Of(c, t[i])
  BY <1>1, <1>2 DEF PlanOK
<1>6. \A i \in 1 .. Len(t) - 1 : Follows(c, t[i], t[i + 1])
  BY <1>1, <1>2 DEF PlanOK
<1>7. t # <<>> => Final(c, t[Len(t)])
  BY <1>1, <1>2, <1>3 DEF PlanOK
<1>8. PlanOK(c, t)
  BY <1>2, <1>5, <1>6, <1>7 DEF PlanOK
<1>9. t = <<>> => Final(c, Head(s))
  BY <1>1, <1>3 DEF PlanOK
<1>10. t # <<>> => Follows(c, Head(s), Head(t))
  BY <1>1, <1>2, <1>3, <1>4 DEF PlanOK
<1>11. QED
  BY <1>8, <1>9, <1>10 DEF t

(***************************************************************************)
(* 2. The tools make such plans.                                           *)
(***************************************************************************)

\* The command lines of the shells, and the choices of a menu.
IsCommand(c) ==
    /\ c.op \in Ops \cup {"c"}
    /\ c.n \in Int
    /\ c.op = "network" => c.n \in 0 .. 4
    /\ c.op = "process" => c.n \in 1 .. 3
    /\ c.op \in {"process", "c", "perf-delay", "perf-clear"} => c.vm \in VMs

\* How a command starts.
Starts(c, e) ==
    /\ c.op \in {"network", "c"} => e.do = "qdisc_del"
    /\ c.op = "process" => e.do = "find"
    /\ c.op = "perf-delay" => e.do \in {"leave", "mkdir", "cpulimit"}
    /\ c.op = "perf-delay" /\ c.n > 0 /\ HasCgroup => e.do = "mkdir"
    /\ c.op = "clear" => e.do = "rmdir"
First(c, s) ==
    /\ c.op \notin {"cpu-offline", "cpu-online"} => s # <<>>
    /\ s # <<>> => Starts(c, Head(s))

LEMMA Joined ==
    ASSUME NEW a, NEW b, NEW c
    PROVE  /\ <<a, b>> \o <<>> = <<a, b>> /\ <<a, b>> \o <<c>> = <<a, b, c>>
           /\ Head(<<a>>) = a /\ Head(<<a, b>>) = a /\ Head(<<a, b, c>>) = a
           /\ <<a>> # <<>> /\ <<a, b>> # <<>> /\ <<a, b, c>> # <<>>
<1>1. <<a, b>> \o <<>> = <<a, b>>
  <2>1. <<a, b>> \in Seq({a, b})
    OBVIOUS
  <2>2. QED
    BY <2>1, ConcatEmptySeq
<1>2. <<a, b>> \o <<c>> = <<a, b, c>>
  <2> DEFINE T == {a, b, c}
             u == <<a, b>>
             w == <<c>>
             x == <<a, b, c>>
  <2>1. u \in Seq(T) /\ w \in Seq(T) /\ x \in Seq(T)
    OBVIOUS
  <2>2. /\ Len(u) = 2 /\ u[1] = a /\ u[2] = b /\ Len(w) = 1 /\ w[1] = c
        /\ Len(x) = 3 /\ x[1] = a /\ x[2] = b /\ x[3] = c
    OBVIOUS
  <2> HIDE DEF T, u, w, x
  <2>3. /\ u \o w \in Seq(T) /\ Len(u \o w) = Len(x)
        /\ \A i \in 1 .. Len(u \o w) : (u \o w)[i] = x[i]
    <3>1. /\ u \o w \in Seq(T) /\ Len(u \o w) = Len(u) + Len(w)
          /\ \A i \in 1 .. Len(u) + Len(w) :
                 (u \o w)[i] = IF i <= Len(u) THEN u[i] ELSE w[i - Len(u)]
      BY <2>1, ConcatProperties
    <3>2. \A i \in 1 .. 3 : (u \o w)[i] = x[i]
      <4>1. (u \o w)[1] = x[1] /\ (u \o w)[2] = x[2] /\ (u \o w)[3] = x[3]
        BY <2>2, <3>1
      <4>2. \A i \in 1 .. 3 : i = 1 \/ i = 2 \/ i = 3
        OBVIOUS
      <4>3. QED
        BY <4>1, <4>2
    <3>3. QED
      BY <2>2, <3>1, <3>2
  <2>4. u \o w = x
    BY <2>1, <2>3, SeqEqual
  <2>5. QED
    BY <2>4 DEF u, w, x
<1>3. Head(<<a>>) = a /\ Head(<<a, b>>) = a /\ Head(<<a, b, c>>) = a
  OBVIOUS
<1>4. <<a>> # <<>> /\ <<a, b>> # <<>> /\ <<a, b, c>> # <<>>
  OBVIOUS
<1>5. QED
  BY <1>1, <1>2, <1>3, <1>4

\* The sets of steps, kind by kind.
LEMMA PlainSteps ==
    /\ [do |-> "qdisc_del"] \in Steps /\ [do |-> "flush_OUTPUT"] \in Steps
    /\ [do |-> "drop"] \in Steps /\ [do |-> "mkdir"] \in Steps
    /\ [do |-> "rmdir"] \in Steps /\ [do |-> "pkill_cpulimit"] \in Steps
<1>1. /\ [do |-> "qdisc_del"] \in Plain /\ [do |-> "flush_OUTPUT"] \in Plain
      /\ [do |-> "drop"] \in Plain /\ [do |-> "mkdir"] \in Plain
      /\ [do |-> "rmdir"] \in Plain /\ [do |-> "pkill_cpulimit"] \in Plain
  BY DEF Plain
<1>2. QED
  BY <1>1 DEF Steps

LEMMA AddStep == ASSUME NEW t \in {1, 2, 4} PROVE [do |-> "qdisc_add", type |-> t] \in Steps
<1>1. [do |-> "qdisc_add", type |-> t] \in Adds
  BY DEF Adds
<1>2. QED
  BY <1>1 DEF Steps

LEMMA FindStep ==
    ASSUME NEW v \in VMs, NEW a \in 1 .. 3
    PROVE  [do |-> "find", vm |-> v, action |-> a] \in Steps
<1>1. [do |-> "find", vm |-> v, action |-> a] \in Finds
  BY DEF Finds
<1>2. QED
  BY <1>1 DEF Steps

LEMMA KillStep ==
    ASSUME NEW v \in VMs, NEW a \in 1 .. 3, NEW w \in Found
    PROVE  [do |-> "kill", vm |-> v, action |-> a, who |-> w] \in Steps
<1>1. [do |-> "kill", vm |-> v, action |-> a, who |-> w] \in Kills
  BY DEF Kills
<1>2. QED
  BY <1>1 DEF Steps

LEMMA OnVmStep ==
    ASSUME NEW v \in VMs, NEW what \in {"leave", "enter", "return", "cpulimit"}
    PROVE  [do |-> what, vm |-> v] \in Steps
<1>1. [do |-> what, vm |-> v] \in OnVm
  BY DEF OnVm
<1>2. QED
  BY <1>1 DEF Steps

LEMMA QuotaStep ==
    ASSUME NEW v \in VMs, NEW ms \in Int
    PROVE  [do |-> "quota", vm |-> v, ms |-> ms] \in Steps
<1>1. [do |-> "quota", vm |-> v, ms |-> ms] \in Quotas
  BY DEF Quotas
<1>2. QED
  BY <1>1 DEF Steps

LEMMA SwitchStep ==
    ASSUME NEW k \in CPUs \ {0}, NEW on \in BOOLEAN
    PROVE  [do |-> "cpu", cpu |-> k, on |-> on] \in Steps
<1>1. [do |-> "cpu", cpu |-> k, on |-> on] \in Switches
  BY DEF Switches
<1>2. QED
  BY <1>1 DEF Steps

LEMMA NetworkTool ==
    ASSUME NEW c, IsCommand(c), c.op = "network"
    PROVE  PlanOK(c, Tool(c)) /\ First(c, Tool(c))
<1> DEFINE d == [do |-> "qdisc_del"]
           f == [do |-> "flush_OUTPUT"]
           p == [do |-> "drop"]
           q == [do |-> "qdisc_add", type |-> c.n]
<1>1. c.n \in 0 .. 4
  BY DEF IsCommand
<1>2. d \in Steps /\ f \in Steps /\ p \in Steps /\ (c.n \in {1, 2, 4} => q \in Steps)
  BY PlainSteps, AddStep
<1>3. /\ Of(c, d) /\ Of(c, f) /\ (c.n = 3 => Of(c, p)) /\ Of(c, q)
      /\ Follows(c, d, f) /\ Follows(c, f, p) /\ Follows(c, f, q)
      /\ (c.n = 0 => Final(c, f)) /\ Final(c, p) /\ Final(c, q) /\ Starts(c, d)
  BY DEF Of, Follows, Final, Starts
<1>4. Tool(c) = <<d, f>> \o (CASE c.n = 0 -> <<>> [] c.n = 3 -> <<p>> [] OTHER -> <<q>>)
  <2>1. Tool(c) = inject_network(c.n)
    BY DEF Tool
  <2>2. QED
    BY <2>1 DEF inject_network
<1> HIDE DEF d, f, p, q
<1>5. CASE c.n = 0
  <2>1. Tool(c) = <<d, f>>
    BY <1>4, <1>5, Joined
  <2>2. PlanOK(c, <<d, f>>)
    BY <1>2, <1>3, <1>5, Plan2
  <2>3. QED
    BY <1>3, <2>1, <2>2, Joined DEF First
<1>6. CASE c.n = 3
  <2>1. Tool(c) = <<d, f, p>>
    BY <1>4, <1>6, Joined
  <2>2. PlanOK(c, <<d, f, p>>)
    BY <1>2, <1>3, <1>6, Plan3
  <2>3. QED
    BY <1>3, <2>1, <2>2, Joined DEF First
<1>7. CASE c.n \in {1, 2, 4}
  <2>1. Tool(c) = <<d, f, q>>
    BY <1>4, <1>7, Joined
  <2>2. PlanOK(c, <<d, f, q>>)
    BY <1>2, <1>3, <1>7, Plan3
  <2>3. QED
    BY <1>3, <2>1, <2>2, Joined DEF First
<1>8. QED
  BY <1>1, <1>5, <1>6, <1>7

LEMMA ProcessTool ==
    ASSUME NEW c, IsCommand(c), c.op \in {"process", "c"}
    PROVE  PlanOK(c, Tool(c)) /\ First(c, Tool(c))
<1> DEFINE d == [do |-> "qdisc_del"]
           f == [do |-> "flush_OUTPUT"]
           p == [do |-> "find", vm |-> c.vm, action |-> IF c.op = "c" THEN 3 ELSE c.n]
<1>1. d \in Steps /\ f \in Steps /\ p \in Steps
  <2>1. c.vm \in VMs /\ (IF c.op = "c" THEN 3 ELSE c.n) \in 1 .. 3
    BY DEF IsCommand
  <2>2. QED
    BY <2>1, PlainSteps, FindStep
<1>2. /\ (c.op = "c" => Of(c, d) /\ Of(c, f)) /\ Of(c, p)
      /\ Follows(c, d, f) /\ Follows(c, f, p) /\ Final(c, p)
      /\ (c.op = "process" => Starts(c, p)) /\ (c.op = "c" => Starts(c, d))
  BY DEF Of, Follows, Final, Starts
<1>3. c.op = "process" => Tool(c) = <<p>>
  BY DEF Tool, inject_process
<1>4. c.op = "c" => Tool(c) = (<<d, f>> \o <<>>) \o <<p>>
  <2>1. c.op = "c" => Tool(c) = inject_network(0) \o inject_process(c.vm, 3)
    BY DEF Tool
  <2>2. inject_network(0) = <<d, f>> \o <<>>
    <3> DEFINE x == << [do |-> "drop"] >>
               y == << [do |-> "qdisc_add", type |-> 0] >>
    <3>1. inject_network(0) = <<d, f>> \o (CASE 0 = 0 -> <<>> [] 0 = 3 -> x [] OTHER -> y)
      BY Zenon DEF inject_network
    <3> HIDE DEF x, y
    <3>2. (CASE 0 = 0 -> <<>> [] 0 = 3 -> x [] OTHER -> y) = <<>>
      OBVIOUS
    <3>3. QED
      BY <3>1, <3>2
  <2>3. c.op = "c" => inject_process(c.vm, 3) = <<p>>
    BY DEF inject_process
  <2>4. QED
    BY <2>1, <2>2, <2>3
<1> HIDE DEF d, f, p
<1>5. CASE c.op = "process"
  <2>1. PlanOK(c, <<p>>)
    BY <1>1, <1>2, Plan1
  <2>2. QED
    BY <1>2, <1>3, <1>5, <2>1, Joined DEF First
<1>6. CASE c.op = "c"
  <2>1. Tool(c) = <<d, f, p>>
    BY <1>4, <1>6, Joined
  <2>2. PlanOK(c, <<d, f, p>>)
    BY <1>1, <1>2, <1>6, Plan3
  <2>3. QED
    BY <1>2, <1>6, <2>1, <2>2, Joined DEF First
<1>7. QED
  BY <1>5, <1>6

\* The low bits of a number are those of an int.
LEMMA WrapLemma == \A x \in Int : Wrap(x) \in Ints
<1> DEFINE m == 2 * (MaxInt + 1)
<1>1. m \in Nat \ {0} /\ MaxInt \in Nat
  BY IntAssumption
<1>2. ASSUME NEW y \in Int PROVE y % m \in 0 .. m - 1
  BY <1>1
<1> HIDE DEF m
<1>3. ASSUME NEW x \in Int PROVE (x + MaxInt + 1) % m \in 0 .. m - 1
  BY <1>1, <1>2
<1>4. QED
  BY <1>1, <1>3 DEF m, Wrap, Ints

\* The quota of a delay is at least 10% of a CPU, and an int.
LEMMA QuotaLemma == \A ms \in Int : \A us \in Quota(ms) : QuotaOK(us)
<1> SUFFICES ASSUME NEW ms \in Int, NEW us \in Quota(ms) PROVE QuotaOK(us)
  OBVIOUS
<1>1. Wrap(Period - ms * 1000) \in Ints
  BY WrapLemma DEF Period
<1>2. us = Least \/ us = Greatest(Wrap(Period - ms * 1000), Least)
  BY DEF Quota
<1>3. MaxInt \in Nat /\ Least \in Int /\ Least <= MaxInt
  BY IntAssumption DEF Least, Period
<1>4. QED
  BY <1>1, <1>2, <1>3 DEF QuotaOK, Greatest, Ints

LEMMA PeriodOK == QuotaOK(Period)
BY SMT, IntAssumption DEF QuotaOK, Least, Period

LEMMA PerfTool ==
    ASSUME NEW c, IsCommand(c), c.op \in {"perf-delay", "perf-clear"}
    PROVE  PlanOK(c, Tool(c)) /\ First(c, Tool(c))
<1> DEFINE k == [do |-> "mkdir"]
           q == [do |-> "quota", vm |-> c.vm, ms |-> c.n]
           e == [do |-> "enter", vm |-> c.vm]
           r == [do |-> "return", vm |-> c.vm]
           l == [do |-> "leave", vm |-> c.vm]
           m == [do |-> "cpulimit", vm |-> c.vm]
<1>1. c.vm \in VMs /\ c.n \in Int
  BY DEF IsCommand
<1>2. /\ k \in Steps /\ q \in Steps /\ e \in Steps /\ r \in Steps
      /\ l \in Steps /\ m \in Steps
  <2>1. k \in Steps
    BY PlainSteps
  <2>2. q \in Steps
    BY <1>1, QuotaStep
  <2>3. e \in Steps /\ r \in Steps /\ l \in Steps /\ m \in Steps
    BY <1>1, OnVmStep
  <2>4. QED
    BY <2>1, <2>2, <2>3
<1>3. /\ Of(c, l) /\ (c.op = "perf-delay" => (HasCgroup => Of(c, k)) /\ Of(c, q) /\ Of(c, e) /\ Of(c, r) /\ Of(c, m))
      /\ Follows(c, k, q) /\ Follows(c, q, e) /\ Follows(c, e, r) /\ Follows(c, m, r)
      /\ Final(c, r) /\ Final(c, l)
      /\ (c.op = "perf-clear" \/ c.n <= 0 => Starts(c, l)) /\ Starts(c, k)
      /\ (~ HasCgroup => Starts(c, m))
  BY <1>1 DEF Of, Follows, Final, Starts
<1>4. Tool(c) = IF c.op = "perf-clear" \/ c.n <= 0 THEN <<l>>
                ELSE IF HasCgroup THEN <<k, q, e, r>> ELSE <<m, r>>
  <2>1. /\ c.op = "perf-clear" => Tool(c) = inject_performance_fault(c.vm, 0)
        /\ c.op = "perf-delay" => Tool(c) = inject_performance_fault(c.vm, c.n)
    BY DEF Tool
  <2>2. \A ms : inject_performance_fault(c.vm, ms) =
                    IF ms <= 0 THEN <<l>>
                    ELSE IF HasCgroup THEN <<k, [q EXCEPT !.ms = ms], e, r>> ELSE <<m, r>>
    BY DEF inject_performance_fault
  <2>3. [q EXCEPT !.ms = c.n] = q
    OBVIOUS
  <2>4. \/ c.op = "perf-delay" /\ c.op # "perf-clear"
        \/ c.op = "perf-clear" /\ c.op # "perf-delay"
    OBVIOUS
  <2> HIDE DEF k, q, e, r, l, m
  <2>5. inject_performance_fault(c.vm, 0) = <<l>>
    <3>1. 0 <= 0
      OBVIOUS
    <3>2. QED
      BY <2>2, <3>1, Zenon
  <2>6. inject_performance_fault(c.vm, c.n) =
           IF c.n <= 0 THEN <<l>> ELSE IF HasCgroup THEN <<k, q, e, r>> ELSE <<m, r>>
    BY <2>2, <2>3
  <2>7. QED
    BY <2>1, <2>4, <2>5, <2>6
<1> HIDE DEF k, q, e, r, l, m
<1>5. CASE c.op = "perf-clear" \/ c.n <= 0
  <2>1. PlanOK(c, <<l>>)
    BY <1>2, <1>3, Plan1
  <2>2. QED
    BY <1>3, <1>4, <1>5, <2>1, Joined DEF First
<1>6. CASE c.op = "perf-delay" /\ c.n > 0 /\ HasCgroup
  <2>1. PlanOK(c, <<k, q, e, r>>)
    BY <1>2, <1>3, <1>6, Plan4
  <2>2. Tool(c) = <<k, q, e, r>>
    BY <1>1, <1>4, <1>6
  <2>3. <<k, q, e, r>> # <<>> /\ Head(<<k, q, e, r>>) = k
    OBVIOUS
  <2>4. QED
    BY <1>3, <1>6, <2>1, <2>2, <2>3 DEF First
<1>7. CASE c.op = "perf-delay" /\ c.n > 0 /\ ~ HasCgroup
  <2>1. PlanOK(c, <<m, r>>)
    BY <1>2, <1>3, <1>7, Plan2
  <2>2. Tool(c) = <<m, r>>
    BY <1>1, <1>4, <1>7
  <2>3. QED
    BY <1>3, <1>7, <2>1, <2>2, Joined DEF First
<1>8. QED
  BY <1>1, <1>5, <1>6, <1>7

LEMMA CpuTool ==
    ASSUME NEW c, IsCommand(c), c.op \in {"cpu-offline", "cpu-online"}
    PROVE  PlanOK(c, Tool(c)) /\ First(c, Tool(c))
<1>1. \/ Tool(c) = <<>>
      \/ \E cpu \in CPUs \ {0}, on \in BOOLEAN : Tool(c) = <<[do |-> "cpu", cpu |-> cpu, on |-> on]>>
  BY DEF Tool, inject_cpu_hotplug_fault
<1>2. ASSUME NEW cpu \in CPUs \ {0}, NEW on \in BOOLEAN
      PROVE  PlanOK(c, <<[do |-> "cpu", cpu |-> cpu, on |-> on]>>)
  <2> DEFINE e == [do |-> "cpu", cpu |-> cpu, on |-> on]
  <2>1. e \in Steps
    BY SwitchStep
  <2>2. Of(c, e) /\ Final(c, e)
    BY DEF Of, Final
  <2> HIDE DEF e
  <2>3. PlanOK(c, <<e>>)
    BY <2>1, <2>2, Plan1
  <2>4. QED
    BY <2>3 DEF e
<1>3. PlanOK(c, Tool(c))
  BY <1>1, <1>2, Plan0
<1>4. \A e : Starts(c, e)
  BY DEF Starts
<1>5. QED
  BY <1>3, <1>4 DEF First

LEMMA ClearTool ==
    ASSUME NEW c, c.op = "clear"
    PROVE  PlanOK(c, Tool(c)) /\ First(c, Tool(c))
<1> DEFINE d == [do |-> "rmdir"]
           o == [k \in 1 .. Top |-> [do |-> "cpu", cpu |-> k, on |-> TRUE]]
           p == [do |-> "pkill_cpulimit"]
           s == <<d>> \o o \o <<p>>
<1>1. Top \in Nat /\ CPUs = 0 .. Top
  BY TopLemma
<1>2. d \in Steps /\ p \in Steps /\ \A k \in 1 .. Top : o[k] \in Steps
  <2>1. d \in Steps /\ p \in Steps
    BY PlainSteps
  <2>2. ASSUME NEW k \in 1 .. Top PROVE o[k] \in Steps
    <3>1. k \in CPUs \ {0} /\ o[k] = [do |-> "cpu", cpu |-> k, on |-> TRUE]
      BY <1>1
    <3> HIDE DEF o
    <3>2. [do |-> "cpu", cpu |-> k, on |-> TRUE] \in Steps
      BY <3>1, SwitchStep
    <3>3. QED
      BY <3>1, <3>2
  <2>3. QED
    BY <2>1, <2>2
<1>3. o \in Seq(Steps) /\ Len(o) = Top
  <2>1. o \in [1 .. Top -> Steps]
    BY <1>2
  <2> HIDE DEF o
  <2>2. QED
    BY <1>1, <2>1
<1>4. Tool(c) = s
  BY DEF Tool, clear_all_faults, CpusOnline, Top
<1>5. /\ Of(c, d) /\ Of(c, p) /\ \A k \in 1 .. Top : Of(c, o[k])
      /\ Top > 0 => Follows(c, d, o[1]) /\ Follows(c, o[Top], p)
      /\ Top = 0 => Follows(c, d, p)
      /\ \A k \in 1 .. Top - 1 : Follows(c, o[k], o[k + 1])
      /\ Final(c, p) /\ Starts(c, d)
  <2>1. Of(c, d) /\ Of(c, p) /\ Final(c, p) /\ Starts(c, d)
    BY DEF Of, Final, Starts
  <2> DEFINE w(k) == [do |-> "cpu", cpu |-> k, on |-> TRUE]
  <2>a. \A k \in 1 .. Top : o[k] = w(k)
    BY <1>1
  <2>b. Follows(c, d, w(1)) /\ (Top = 0 => Follows(c, d, p))
    BY DEF Follows
  <2>c. ASSUME NEW k \in Int PROVE Follows(c, w(k), w(k + 1)) /\ (k = Top => Follows(c, w(k), p))
    BY DEF Follows
  <2>d. \A k \in Int : Of(c, w(k))
    BY DEF Of
  <2> HIDE DEF w, d, o, p
  <2>2. ASSUME NEW k \in 1 .. Top PROVE Of(c, o[k])
    BY <1>1, <2>a, <2>d
  <2>3. ASSUME Top > 0 PROVE Follows(c, d, o[1]) /\ Follows(c, o[Top], p)
    <3>1. o[1] = w(1) /\ o[Top] = w(Top) /\ Top \in Int
      BY <1>1, <2>a, <2>3
    <3>2. QED
      BY <2>b, <2>c, <3>1
  <2>4. ASSUME Top = 0 PROVE Follows(c, d, p)
    BY <2>b, <2>4
  <2>5. ASSUME NEW k \in 1 .. Top - 1 PROVE Follows(c, o[k], o[k + 1])
    <3>1. o[k] = w(k) /\ o[k + 1] = w(k + 1) /\ k \in Int
      BY <1>1, <2>a
    <3>2. QED
      BY <2>c, <3>1
  <2>6. QED
    BY <2>1, <2>2, <2>3, <2>4, <2>5
<1> HIDE DEF d, o, p
<1>6. /\ s \in Seq(Steps) /\ Len(s) = Top + 2
      /\ s[1] = d /\ s[Top + 2] = p /\ \A k \in 1 .. Top : s[k + 1] = o[k]
  <2>1. <<d>> \o o \in Seq(Steps) /\ Len(<<d>> \o o) = Top + 1
    BY <1>1, <1>2, <1>3
  <2>2. (<<d>> \o o)[1] = d /\ \A k \in 1 .. Top : (<<d>> \o o)[k + 1] = o[k]
    BY <1>1, <1>2, <1>3
  <2> DEFINE u == <<d>> \o o
  <2> HIDE DEF u
  <2>3. u \o <<p>> \in Seq(Steps) /\ Len(u \o <<p>>) = Top + 2
    BY <1>1, <1>2, <2>1 DEF u
  <2>4. (u \o <<p>>)[Top + 2] = p /\ \A k \in 1 .. Top + 1 : (u \o <<p>>)[k] = u[k]
    BY <1>1, <1>2, <2>1 DEF u
  <2>5. QED
    BY <1>1, <2>2, <2>3, <2>4 DEF u
<1> HIDE DEF s
<1>7. \A i \in 1 .. Len(s) : i = 1 \/ i = Top + 2 \/ (i - 1 \in 1 .. Top /\ s[i] = o[i - 1])
  BY <1>1, <1>6
<1>8. \A i \in 1 .. Len(s) : Of(c, s[i])
  BY <1>5, <1>6, <1>7
<1>9. \A i \in 1 .. Len(s) - 1 : Follows(c, s[i], s[i + 1])
  <2> SUFFICES ASSUME NEW i \in 1 .. Top + 1 PROVE Follows(c, s[i], s[i + 1])
    BY <1>1, <1>6
  <2>1. CASE i = 1
    <3>1. CASE Top = 0
      BY <1>5, <1>6, <2>1, <3>1
    <3>2. CASE Top > 0
      BY <1>1, <1>5, <1>6, <2>1, <3>2
    <3>3. QED
      BY <1>1, <3>1, <3>2
  <2>2. CASE i > 1 /\ i = Top + 1
    <3>1. s[i] = o[Top] /\ s[i + 1] = p /\ Top > 0
      BY <1>1, <1>6, <2>2
    <3>2. QED
      BY <1>5, <3>1
  <2>3. CASE i > 1 /\ i < Top + 1
    <3>1. i - 1 \in 1 .. Top - 1 /\ s[i] = o[i - 1] /\ s[i + 1] = o[(i - 1) + 1]
      BY <1>1, <1>6, <2>3
    <3>2. QED
      BY <1>5, <3>1
  <2>4. QED
    BY <1>1, <2>1, <2>2, <2>3
<1>10. s # <<>> /\ Head(s) = d /\ Final(c, s[Len(s)])
  BY <1>1, <1>5, <1>6
<1>11. PlanOK(c, s) /\ First(c, s)
  BY <1>5, <1>6, <1>8, <1>9, <1>10 DEF PlanOK, First
<1>12. QED
  BY <1>4, <1>11

LEMMA ToolLemma ==
    ASSUME NEW c, IsCommand(c)
    PROVE  PlanOK(c, Tool(c)) /\ First(c, Tool(c))
BY NetworkTool, ProcessTool, PerfTool, CpuTool, ClearTool DEF IsCommand, Ops

(***************************************************************************)
(* 3. Types, and the shape of what is left of every command.               *)
(***************************************************************************)

\* A tool that a signal has hit is a process_injector: it looks for a process,
\* has found one, or has signalled it.
Signals(r) ==
    /\ last[r].op \in {"process", "c"}
    /\ todo[r] # <<>> => Head(todo[r]).do \in {"find", "kill"}
Idle(r) == tool[r] # "running" => Signals(r)

Shape ==
    /\ TypeOK
    /\ \A r \in Runners : PlanOK(last[r], todo[r])
    /\ \A r \in Runners : Idle(r)

\* The step of a runner that is not done yet belongs to its command.
LEMMA HeadLemma ==
    ASSUME Shape, NEW r \in Runners, Busy(r)
    PROVE  Next1(r) \in Steps /\ Of(last[r], Next1(r))
BY PlanHead DEF Shape, Busy, Next1

\* The fields of a step, by its kind.
LEMMA Fields ==
    ASSUME NEW e \in Steps
    PROVE  /\ e.do = "qdisc_add" => e.type \in {1, 2, 4}
           /\ e.do \in {"find", "kill"} => e.vm \in VMs /\ e.action \in 1 .. 3
           /\ e.do = "kill" => e.who \in Found
           /\ e.do \in {"leave", "enter", "return", "cpulimit", "quota"} => e.vm \in VMs
           /\ e.do = "quota" => e.ms \in Int
           /\ e.do = "cpu" => e.cpu \in CPUs \ {0} /\ e.on \in BOOLEAN
<1>1. CASE e \in Plain
  BY <1>1 DEF Plain
<1>2. CASE e \in Adds
  BY <1>2 DEF Adds
<1>3. CASE e \in Finds
  BY <1>3 DEF Finds
<1>4. CASE e \in Kills
  BY <1>4 DEF Kills
<1>5. CASE e \in OnVm
  BY <1>5 DEF OnVm
<1>6. CASE e \in Quotas
  BY <1>6 DEF Quotas
<1>7. CASE e \in Switches
  BY <1>7 DEF Switches
<1>8. QED
  BY <1>1, <1>2, <1>3, <1>4, <1>5, <1>6, <1>7 DEF Steps

\* What one command of a tool does to the runners.
Moves(r) ==
    /\ Busy(r)
    /\ todo' = [todo EXCEPT ![r] = todo'[r]]
    /\ PlanOK(last[r], todo'[r])
    /\ UNCHANGED <<last, target, alone, net>>

\* After a command: how the plan goes on.
GoesOn(r) ==
    /\ todo'[r] = Tail(todo[r])
    /\ todo'[r] = <<>> => Final(last[r], Next1(r))
    /\ todo'[r] # <<>> => /\ Follows(last[r], Next1(r), Head(todo'[r]))
                          /\ Of(last[r], Head(todo'[r]))

LEMMA PopLemma ==
    ASSUME Shape, NEW r \in Runners, Busy(r), Pop(r)
    PROVE  PlanOK(last[r], todo'[r]) /\ GoesOn(r) /\ todo' = [todo EXCEPT ![r] = todo'[r]]
<1>1. DOMAIN todo = Runners /\ PlanOK(last[r], todo[r]) /\ todo[r] # <<>>
  BY DEF Shape, TypeOK, Busy
<1>2. todo' = [todo EXCEPT ![r] = Tail(todo[r])] /\ todo'[r] = Tail(todo[r])
  BY <1>1 DEF Pop
<1>3. /\ PlanOK(last[r], Tail(todo[r]))
      /\ Tail(todo[r]) = <<>> => Final(last[r], Head(todo[r]))
      /\ Tail(todo[r]) # <<>> => Follows(last[r], Head(todo[r]), Head(Tail(todo[r])))
  BY <1>1, PlanTail
<1>4. Tail(todo[r]) # <<>> => Of(last[r], Head(Tail(todo[r])))
  BY <1>3, PlanHead
<1>5. QED
  BY <1>2, <1>3, <1>4 DEF GoesOn, Next1

\* The commands that only go on to the next one.
Simple(r) == \/ QdiscDel(r) \/ Flush(r) \/ QdiscAdd(r) \/ Drop(r)
             \/ Mkdir(r) \/ CpuLimit(r) \/ Return(r) \/ Leave(r)
             \/ Rmdir(r) \/ Cpu(r) \/ PkillCpulimit(r)

LEMMA SimpleMoves ==
    ASSUME Shape, NEW r \in Runners, Simple(r)
    PROVE  Moves(r) /\ GoesOn(r)
<1>1. Busy(r) /\ Pop(r) /\ UNCHANGED <<last, target, alone, net>>
  <2>1. CASE QdiscDel(r)
    BY <2>1, SMT DEF QdiscDel, Doing, Keep
  <2>2. CASE Flush(r)
    BY <2>2, SMT DEF Flush, Doing, Keep
  <2>3. CASE QdiscAdd(r)
    BY <2>3, SMT DEF QdiscAdd, Doing, Keep
  <2>4. CASE Drop(r)
    BY <2>4, SMT DEF Drop, Doing, Keep
  <2>5. CASE Mkdir(r)
    BY <2>5, SMT DEF Mkdir, Doing, Keep
  <2>6. CASE CpuLimit(r)
    BY <2>6, SMT DEF CpuLimit, Doing, Keep
  <2>7. CASE Return(r)
    BY <2>7, SMT DEF Return, Doing, Keep
  <2>8. CASE Leave(r)
    BY <2>8, SMT DEF Leave, Doing, Keep
  <2>9. CASE Rmdir(r)
    BY <2>9, SMT DEF Rmdir, Doing, Keep
  <2>10. CASE Cpu(r)
    BY <2>10, SMT DEF Cpu, Doing, Keep
  <2>11. CASE PkillCpulimit(r)
    BY <2>11, SMT DEF PkillCpulimit, Doing, Keep
  <2>12. QED
    BY <2>1, <2>2, <2>3, <2>4, <2>5, <2>6, <2>7, <2>8, <2>9, <2>10, <2>11 DEF Simple
<1>2. QED
  BY <1>1, PopLemma DEF Moves

\* What is found is a process.
LEMMA FoundLemma ==
    ASSUME NEW r \in Runners, NEW v, NEW w \in get_vm_pid(r, v)
    PROVE  w \in Found
<1>1. NamedMenus(v) \subseteq Menus /\ Left(v) \subseteq Runners /\ Tools(v) \subseteq Runners
  BY DEF NamedMenus, Left, Tools
<1>2. \/ w \in [what : {"menu"}, of : NamedMenus(v)] \/ w \in [what : {"tool"}, of : Tools(v) \cup {r}]
      \/ w \in [what : {"tool"}, of : Left(v)] \/ w = [what |-> "target", of |-> Nothing]
  BY DEF get_vm_pid
<1>3. QED
  BY <1>1, <1>2 DEF Found

KillOf(r, w) == [do |-> "kill", vm |-> Next1(r).vm, action |-> Next1(r).action, who |-> w]

LEMMA FindMoves ==
    ASSUME Shape, NEW r \in Runners, Find(r)
    PROVE  /\ Moves(r)
           /\ \/ todo'[r] = <<>> /\ last[r].op = "c" /\ state[r] = "dead"
              \/ \E w \in get_vm_pid(r, Next1(r).vm) : todo'[r] = << KillOf(r, w) >>
<1>1. Busy(r) /\ Next1(r).do = "find" /\ UNCHANGED <<last, target, alone, net>>
  BY DEF Find, Doing, Keep
<1>2. DOMAIN todo = Runners /\ PlanOK(last[r], todo[r]) /\ todo[r] # <<>>
  BY <1>1 DEF Shape, TypeOK, Busy
<1>3. Tail(todo[r]) = <<>>
  <2>1. Tail(todo[r]) # <<>> => Follows(last[r], Next1(r), Head(Tail(todo[r])))
    BY <1>2, PlanTail DEF Next1
  <2>2. QED
    BY <1>1, <2>1 DEF Follows
<1>4. CASE last[r].op = "c" /\ state[r] = "dead"
  <2>1. Pop(r)
    BY <1>4 DEF Find
  <2>2. todo'[r] = <<>>
    BY <1>2, <1>3, <2>1 DEF Pop
  <2>3. QED
    BY <1>1, <1>4, <2>1, <2>2, PopLemma DEF Moves
<1>5. CASE ~ (last[r].op = "c" /\ state[r] = "dead")
  <2>1. PICK w \in get_vm_pid(r, Next1(r).vm) :
            todo' = [todo EXCEPT ![r] = << KillOf(r, w) >> \o Tail(todo[r])]
    BY <1>5 DEF Find, KillOf
  <2> DEFINE k == KillOf(r, w)
  <2>2. todo' = [todo EXCEPT ![r] = <<k>>]
    <3>1. <<k>> \o <<>> = <<k>>
      <4>1. <<k>> \in Seq({k})
        OBVIOUS
      <4>2. QED
        BY <4>1, ConcatEmptySeq
    <3>2. QED
      BY <1>3, <2>1, <3>1
  <2>3. k \in Steps /\ Of(last[r], k) /\ Final(last[r], k)
    <3>1. Next1(r) \in Steps /\ Of(last[r], Next1(r))
      BY <1>1, HeadLemma
    <3>2. Next1(r).vm \in VMs /\ Next1(r).action \in 1 .. 3
      BY <1>1, <3>1, Fields
    <3>3. w \in Found
      BY <2>1, FoundLemma
    <3>4. k \in Steps
      BY <3>2, <3>3, KillStep DEF KillOf
    <3>5. QED
      BY <1>1, <3>1, <3>4 DEF Of, Final, KillOf
  <2> HIDE DEF k
  <2>4. PlanOK(last[r], <<k>>)
    BY <2>3, Plan1
  <2>5. todo'[r] = <<k>> /\ todo' = [todo EXCEPT ![r] = todo'[r]]
    BY <1>2, <2>2
  <2>6. Moves(r)
    BY <1>1, <2>4, <2>5 DEF Moves
  <2>7. QED
    BY <2>1, <2>5, <2>6 DEF k
<1>6. QED
  BY <1>4, <1>5

LEMMA KillMoves ==
    ASSUME Shape, NEW r \in Runners, Kill(r)
    PROVE  Moves(r) /\ todo'[r] = <<>> /\ Next1(r).do = "kill"
<1>1. Busy(r) /\ Pop(r) /\ Next1(r).do = "kill" /\ UNCHANGED <<last, target, alone, net>>
  BY DEF Kill, Doing, Keep
<1>2. PlanOK(last[r], todo'[r]) /\ GoesOn(r) /\ todo' = [todo EXCEPT ![r] = todo'[r]]
  BY <1>1, PopLemma
<1>3. todo'[r] = <<>>
  BY <1>1, <1>2 DEF GoesOn, Follows
<1>4. QED
  BY <1>1, <1>2, <1>3 DEF Moves

\* The two writes of the chain: on, or the fallback.
LEMMA ChainMoves ==
    ASSUME Shape, NEW r \in Runners, WriteQuota(r) \/ Enter(r)
    PROVE  /\ Moves(r) /\ todo'[r] # <<>>
           /\ \/ GoesOn(r) /\ (Enter(r) => dir /\ vm[Next1(r).vm] # "dead")
              \/ Head(todo'[r]).do = "cpulimit" /\ (WriteQuota(r) => ~ dir)
<1>1. /\ Busy(r) /\ Next1(r).do \in {"quota", "enter"}
      /\ UNCHANGED <<last, target, alone, net>>
  BY DEF WriteQuota, Enter, Doing, Keep
<1>2. DOMAIN todo = Runners
  BY DEF Shape, TypeOK
<1>3. Next1(r) \in Steps /\ Of(last[r], Next1(r))
  BY <1>1, HeadLemma
<1>4. CASE Pop(r) /\ (Enter(r) => dir /\ vm[Next1(r).vm] # "dead")
  <2>1. PlanOK(last[r], todo'[r]) /\ GoesOn(r) /\ todo' = [todo EXCEPT ![r] = todo'[r]]
    BY <1>1, <1>4, PopLemma
  <2>2. todo'[r] # <<>>
    BY <1>1, <2>1, SMT DEF GoesOn, Final
  <2>3. QED
    BY <1>1, <1>4, <2>1, <2>2 DEF Moves
<1>5. CASE Fallback(r, Next1(r).vm) /\ (WriteQuota(r) => ~ dir)
  <2> DEFINE m == [do |-> "cpulimit", vm |-> Next1(r).vm]
             e == [do |-> "return", vm |-> Next1(r).vm]
  <2>1. Next1(r).vm \in VMs
    BY <1>1, <1>3, Fields
  <2>2. m \in Steps /\ e \in Steps
    BY <2>1, OnVmStep
  <2>3. Of(last[r], m) /\ Of(last[r], e) /\ Follows(last[r], m, e) /\ Final(last[r], e) /\ m.do = "cpulimit"
    BY <1>1, <1>3 DEF Of, Follows, Final
  <2>4. todo' = [todo EXCEPT ![r] = <<m, e>>]
    BY <1>5 DEF Fallback
  <2> HIDE DEF m, e
  <2>5. PlanOK(last[r], <<m, e>>)
    BY <2>2, <2>3, Plan2
  <2>6. todo'[r] = <<m, e>> /\ todo' = [todo EXCEPT ![r] = todo'[r]]
    BY <1>2, <2>4
  <2>7. todo'[r] # <<>> /\ Head(todo'[r]) = m
    BY <2>6, Joined
  <2>8. QED
    BY <1>1, <1>5, <2>3, <2>5, <2>6, <2>7 DEF Moves
<1>6. QED
  <2>1. CASE WriteQuota(r)
    <3>1. ~ Enter(r)
      BY <2>1 DEF WriteQuota, Enter, Doing
    <3>2. Pop(r) \/ (~ dir /\ Fallback(r, Next1(r).vm))
      BY <2>1 DEF WriteQuota
    <3>3. QED
      BY <1>4, <1>5, <3>1, <3>2
  <2>2. CASE Enter(r)
    <3>1. ~ WriteQuota(r)
      BY <2>2 DEF WriteQuota, Enter, Doing
    <3>2. (Pop(r) /\ dir /\ vm[Next1(r).vm] # "dead") \/ Fallback(r, Next1(r).vm)
      BY <2>2 DEF Enter
    <3>3. QED
      BY <1>4, <1>5, <3>1, <3>2
  <2>3. QED
    BY <2>1, <2>2

LEMMA StepMoves ==
    ASSUME Shape, NEW r \in Runners, Step(r)
    PROVE  Moves(r)
<1>1. CASE Simple(r)
  BY <1>1, SimpleMoves
<1>2. CASE Find(r)
  BY <1>2, FindMoves
<1>3. CASE Kill(r)
  BY <1>3, KillMoves
<1>4. CASE WriteQuota(r) \/ Enter(r)
  BY <1>4, ChainMoves
<1>5. QED
  BY <1>1, <1>2, <1>3, <1>4 DEF Step, Simple

\* Whom a kill hits.
LEMMA KillHits ==
    ASSUME Shape, NEW r \in Runners, Kill(r)
    PROVE  /\ Next1(r).vm \in VMs /\ Next1(r).action \in 1 .. 3 /\ Next1(r).who \in Found
           /\ UNCHANGED <<qdisc, drops, young, online>>
           /\ \/ /\ Next1(r).who.what = "target"
                 /\ vm' = [vm EXCEPT ![Next1(r).vm] = Signalled(@, Next1(r).action)]
                 /\ IF Next1(r).action = 1 THEN Dead(Next1(r).vm) ELSE UNCHANGED <<throttle, owed>>
                 /\ UNCHANGED <<state, tool>>
              \/ /\ Next1(r).who.what = "menu" /\ Next1(r).who.of \in Menus
                 /\ \/ UNCHANGED state
                    \/ state' = [state EXCEPT ![Next1(r).who.of] = Signalled(@, Next1(r).action)]
                 /\ UNCHANGED <<vm, throttle, owed, tool>>
              \/ /\ Next1(r).who.what = "tool" /\ Next1(r).who.of \in Runners
                 /\ \/ UNCHANGED tool
                    \/ /\ Next1(r).who.of \in Tools(Next1(r).vm)
                       /\ tool' = [tool EXCEPT ![Next1(r).who.of] = Signalled(@, Next1(r).action)]
                 /\ UNCHANGED <<vm, throttle, owed, state>>
<1>1. Next1(r).do = "kill" /\ Busy(r)
  BY DEF Kill, Doing
<1>2. Next1(r).vm \in VMs /\ Next1(r).action \in 1 .. 3 /\ Next1(r).who \in Found
  BY <1>1, HeadLemma, Fields
<1>3. \/ Next1(r).who.what = "target"
      \/ Next1(r).who.what = "menu" /\ Next1(r).who.of \in Menus
      \/ Next1(r).who.what = "tool" /\ Next1(r).who.of \in Runners
  BY <1>2 DEF Found
<1>4. UNCHANGED <<qdisc, drops, young, online>>
  BY DEF Kill, network
<1>5. CASE Next1(r).who.what = "target"
  BY <1>2, <1>4, <1>5 DEF Kill
<1>6. CASE Next1(r).who.what = "menu" /\ Next1(r).who.of \in Menus
  BY <1>2, <1>4, <1>6 DEF Kill
<1>7. CASE Next1(r).who.what = "tool" /\ Next1(r).who.of \in Runners
  BY <1>2, <1>4, <1>7 DEF Kill
<1>8. QED
  BY <1>3, <1>5, <1>6, <1>7

Processes == {"running", "stopped", "dead"}

LEMMA SignalledType == ASSUME NEW x \in Processes, NEW a PROVE Signalled(x, a) \in Processes
BY DEF Signalled, Processes

\* The tools that a signal has hit stay process_injectors.
LEMMA IdleStep ==
    ASSUME Shape, NEW r \in Runners, Step(r)
    PROVE  /\ state' \in [Menus -> Processes] /\ tool' \in [Runners -> Processes]
           /\ \A q \in Runners : Idle(q)'
<1>1. Moves(r) /\ TypeOK
  BY StepMoves DEF Shape
<1>2. state \in [Menus -> Processes] /\ tool \in [Runners -> Processes] /\ \A q \in Runners : Idle(q)
  BY <1>1 DEF TypeOK, Processes, Shape
<1>3. last' = last /\ \A q \in Runners \ {r} : todo'[q] = todo[q]
  BY <1>1 DEF Moves, TypeOK
<1>4. Busy(r) /\ Of(last[r], Next1(r)) /\ Head(todo[r]) = Next1(r)
  BY <1>1, HeadLemma DEF Moves, Next1
<1>5. CASE Kill(r)
  <2>1. todo'[r] = <<>> /\ Next1(r).do = "kill"
    BY <1>5, KillMoves
  <2>2. Signals(r)'
    BY <1>3, <1>4, <2>1 DEF Signals, Of
  <2>3. state' \in [Menus -> Processes] /\ tool' \in [Runners -> Processes]
    BY <1>2, <1>5, KillHits, SignalledType
  <2>4. \A q \in Runners : tool'[q] = tool[q] \/ q \in Tools(Next1(r).vm)
    BY <1>2, <1>5, KillHits
  <2>5. ASSUME NEW q \in Runners, q \in Tools(Next1(r).vm) PROVE Signals(q)
    <3>1. CASE q \in Left(Next1(r).vm)
      BY <1>2, <3>1 DEF Left, Idle
    <3>2. CASE Busy(q) /\ Next1(q).do \in {"find", "kill"}
      BY <3>2, HeadLemma DEF Of, Signals, Next1
    <3>3. QED
      BY <2>5, <3>1, <3>2 DEF Tools
  <2>6. ASSUME NEW q \in Runners \ {r} PROVE Idle(q)'
    BY <1>2, <1>3, <2>4, <2>5 DEF Idle, Signals
  <2>7. QED
    BY <2>2, <2>3, <2>6 DEF Idle
<1>6. CASE ~ Kill(r)
  <2>1. UNCHANGED <<state, tool>>
    BY <1>6 DEF Step, QdiscDel, Flush, QdiscAdd, Drop, Find, Mkdir, WriteQuota, Enter,
                CpuLimit, Return, Leave, Rmdir, Cpu, PkillCpulimit
  <2>2. CASE Find(r)
    <3>1. Next1(r).do = "find"
      BY <2>2 DEF Find, Doing
    <3>2. todo'[r] = <<>> \/ \E w : todo'[r] = <<KillOf(r, w)>>
      BY <2>2, FindMoves
    <3>3. ASSUME NEW w PROVE Head(<<KillOf(r, w)>>).do = "kill"
      BY DEF KillOf
    <3>4. Signals(r)'
      BY <1>3, <1>4, <3>1, <3>2, <3>3 DEF Signals, Of
    <3>5. QED
      BY <1>2, <1>3, <2>1, <3>4 DEF Idle, Signals
  <2>3. CASE ~ Find(r)
    <3>1. Next1(r).do \notin {"find", "kill"}
      BY <1>6, <2>3 DEF Step, QdiscDel, Flush, QdiscAdd, Drop, Mkdir, WriteQuota, Enter,
                CpuLimit, Return, Leave, Rmdir, Cpu, PkillCpulimit, Doing
    <3>2. tool[r] = "running"
      BY <1>2, <1>4, <3>1 DEF Idle, Signals, Busy
    <3>3. QED
      BY <1>2, <1>3, <2>1, <3>2 DEF Idle, Signals
  <2>4. QED
    BY <2>2, <2>3
<1>7. QED
  BY <1>5, <1>6

\* The types of what a command of a tool changes besides its runner.
HostTypes ==
    /\ qdisc \in {0, 1, 2, 4} /\ drops \subseteq {"port"}
    /\ vm \in [VMs -> {"running", "stopped", "dead"}]
    /\ young \subseteq VMs /\ members \subseteq VMs /\ limited \subseteq VMs
    /\ dir \in BOOLEAN /\ QuotaOK(quota)
    /\ online \subseteq CPUs /\ 0 \in online
    /\ owed \subseteq VMs

LEMMA HostTypesStep ==
    ASSUME Shape, NEW r \in Runners, Step(r)
    PROVE  HostTypes'
<1>1. HostTypes
  BY DEF Shape, TypeOK, HostTypes
<1>2. Busy(r)
  BY StepMoves DEF Moves
<1>3. Next1(r) \in Steps /\ Of(last[r], Next1(r))
  BY <1>2, HeadLemma
<1>4. CASE QdiscDel(r)
  BY <1>1, <1>4 DEF HostTypes, QdiscDel, throttle
<1>5. CASE Flush(r)
  BY <1>1, <1>5 DEF HostTypes, Flush, throttle
<1>6. CASE QdiscAdd(r)
  <2>1. Next1(r).type \in {1, 2, 4}
    BY <1>3, <1>6, Fields DEF QdiscAdd, Doing
  <2>2. QED
    BY <1>1, <1>6, <2>1 DEF HostTypes, QdiscAdd, throttle
<1>7. CASE Drop(r)
  BY <1>1, <1>7 DEF HostTypes, Drop, throttle
<1>8. CASE Find(r)
  BY <1>1, <1>8 DEF HostTypes, Find, network, throttle
<1>9. CASE Kill(r)
  <2>1. Next1(r).vm \in VMs /\ UNCHANGED <<qdisc, drops, young, online>>
    BY <1>9, KillHits
  <2>2. vm' \in [VMs -> {"running", "stopped", "dead"}]
    BY <1>1, <1>9, KillHits, SignalledType DEF HostTypes, Processes
  <2>3. members' \subseteq VMs /\ limited' \subseteq VMs /\ owed' \subseteq VMs /\ UNCHANGED <<dir, quota>>
    BY <1>1, <1>9, KillHits DEF HostTypes, Dead, throttle
  <2>4. QED
    BY <1>1, <2>1, <2>2, <2>3 DEF HostTypes
<1>10. CASE Mkdir(r)
  BY <1>1, <1>10, PeriodOK DEF HostTypes, Mkdir, network
<1>11. CASE WriteQuota(r)
  <2>1. Next1(r).ms \in Int
    BY <1>3, <1>11, Fields DEF WriteQuota, Doing
  <2>2. QuotaOK(quota') /\ owed' \subseteq VMs
    BY <1>1, <1>11, <2>1, QuotaLemma DEF HostTypes, WriteQuota
  <2>3. QED
    BY <1>1, <1>11, <2>2 DEF HostTypes, WriteQuota, network
<1>12. CASE Enter(r)
  <2>1. Next1(r).vm \in VMs
    BY <1>3, <1>12, Fields DEF Enter, Doing
  <2>2. QED
    BY <1>1, <1>12, <2>1 DEF HostTypes, Enter, network
<1>13. CASE CpuLimit(r)
  <2>1. Next1(r).vm \in VMs
    BY <1>3, <1>13, Fields DEF CpuLimit, Doing
  <2>2. QED
    BY <1>1, <1>13, <2>1 DEF HostTypes, CpuLimit, network
<1>14. CASE Return(r)
  BY <1>1, <1>14 DEF HostTypes, Return, network, throttle
<1>15. CASE Leave(r)
  BY <1>1, <1>15 DEF HostTypes, Leave, network
<1>16. CASE Rmdir(r)
  BY <1>1, <1>16 DEF HostTypes, Rmdir, network
<1>17. CASE Cpu(r)
  <2>1. Next1(r).cpu \in CPUs \ {0}
    BY <1>3, <1>17, Fields DEF Cpu, Doing
  <2>2. QED
    BY <1>1, <1>17, <2>1 DEF HostTypes, Cpu, network, throttle
<1>18. CASE PkillCpulimit(r)
  BY <1>1, <1>18 DEF HostTypes, PkillCpulimit, network
<1>19. QED
  BY <1>4, <1>5, <1>6, <1>7, <1>8, <1>9, <1>10, <1>11, <1>12, <1>13, <1>14, <1>15, <1>16, <1>17,
     <1>18 DEF Step

LEMMA ShapeStep ==
    ASSUME Shape, NEW r \in Runners, Step(r)
    PROVE  Shape'
<1>1. Moves(r) /\ HostTypes'
  BY StepMoves, HostTypesStep
<1>2. TypeOK
  BY DEF Shape
<1>3. todo' = [todo EXCEPT ![r] = todo'[r]] /\ DOMAIN todo' = Runners /\ last' = last
  BY <1>1, <1>2 DEF Moves, TypeOK
<1>4. /\ state' \in [Menus -> {"running", "stopped", "dead"}]
      /\ tool' \in [Runners -> {"running", "stopped", "dead"}]
      /\ \A q \in Runners : Idle(q)'
  BY IdleStep DEF Processes
<1>5. TypeOK'
  BY <1>1, <1>2, <1>3, <1>4 DEF Moves, TypeOK, HostTypes
<1>6. ASSUME NEW q \in Runners PROVE PlanOK(last'[q], todo'[q])
  BY <1>1, <1>2, <1>3 DEF Moves, Shape, TypeOK
<1>7. QED
  BY <1>4, <1>5, <1>6 DEF Shape

LEMMA ShapeLaunch ==
    ASSUME Shape, NEW r \in Runners, NEW c, IsCommand(c), Launch(r, c)
    PROVE  Shape'
<1>1. TypeOK
  BY DEF Shape
<1>2. /\ todo' = [todo EXCEPT ![r] = Tool(c)]
      /\ last' = [q \in Runners |-> IF q = r THEN c
                                    ELSE IF Busy(q) \/ tool[q] # "running" THEN last[q] ELSE NoCommand]
      /\ UNCHANGED <<qdisc, drops, vm, young, dir, quota, members, limited, online, state, tool, target>>
      /\ tool[r] = "running"
  BY DEF Launch, network, throttle
<1>3. DOMAIN todo' = Runners /\ todo'[r] = Tool(c) /\ \A q \in Runners \ {r} : todo'[q] = todo[q]
  BY <1>1, <1>2 DEF TypeOK
<1>4. /\ DOMAIN last' = Runners /\ last'[r] = c
      /\ \A q \in Runners \ {r} :
             last'[q] = last[q] \/ (todo[q] = <<>> /\ tool[q] = "running" /\ last'[q] = NoCommand)
  BY <1>2 DEF Busy
<1>5. owed' \subseteq VMs
  BY <1>1 DEF Launch, TypeOK, IsCommand
<1>6. net'.type \in 0 .. 4 /\ net'.raced \in BOOLEAN
  <2>1. CASE c.op \in {"network", "c"}
    <3>1. net' = [type |-> IF c.op = "c" THEN 0 ELSE c.n, raced |-> \E q \in Runners : Networking(q)]
      BY <2>1 DEF Launch
    <3>2. c.op = "c" \/ c.n \in 0 .. 4
      BY <2>1 DEF IsCommand
    <3>3. net'.type \in 0 .. 4
      BY <3>1, <3>2
    <3>4. net'.raced = \E q \in Runners : Networking(q)
      BY <3>1, Zenon
    <3>5. QED
      BY <3>3, <3>4, Zenon
  <2>2. CASE c.op \notin {"network", "c"}
    BY <1>1, <2>2 DEF Launch, TypeOK
  <2>3. QED
    BY <2>1, <2>2
<1>7. alone' \in [Runners -> BOOLEAN]
  BY DEF Launch
<1>8. TypeOK'
  BY <1>1, <1>2, <1>3, <1>4, <1>5, <1>6, <1>7 DEF TypeOK
<1>9. ASSUME NEW q \in Runners PROVE PlanOK(last'[q], todo'[q])
  BY <1>3, <1>4, ToolLemma, Plan0 DEF Shape
<1>10. ASSUME NEW q \in Runners PROVE Idle(q)'
  BY <1>2, <1>3, <1>4 DEF Shape, Idle, Signals
<1>11. QED
  BY <1>8, <1>9, <1>10 DEF Shape

\* The steps of nobody's command.
Other == \/ \E r \in Menus : Switch(r)
         \/ \E v \in VMs : Reboot(v) \/ Wake(v)

LEMMA OtherShape ==
    ASSUME Shape, Other
    PROVE  Shape' /\ UNCHANGED <<todo, last, tool, network, throttle, online, net, owed>>
<1>1. TypeOK
  BY DEF Shape
<1>2. CASE \E r \in Menus : Switch(r)
  <2>1. PICK r \in Menus : Switch(r)
    BY <1>2
  <2>2. UNCHANGED <<todo, last, network, throttle, online, net, owed, vm, young, state, tool, alone>>
    BY <2>1 DEF Switch
  <2>3. target' \in [Menus -> VMs]
    BY <1>1, <2>1 DEF Switch, TypeOK
  <2>4. QED
    BY <1>1, <2>2, <2>3 DEF Shape, TypeOK, Idle, Signals, network, throttle
<1>3. CASE \E v \in VMs : Reboot(v) \/ Wake(v)
  <2>1. PICK v \in VMs : Reboot(v) \/ Wake(v)
    BY <1>3
  <2>2. UNCHANGED <<todo, last, network, throttle, online, net, owed, target, state, tool>>
    BY <2>1 DEF Reboot, Wake, runners
  <2>3. /\ vm' \in [VMs -> {"running", "stopped", "dead"}] /\ young' \subseteq VMs
        /\ alone' \in [Runners -> BOOLEAN]
    <3>1. CASE Reboot(v)
      <4>1. /\ vm' = [vm EXCEPT ![v] = "running"] /\ young' = young \cup {v}
            /\ alone' = [r \in Runners |-> FALSE]
        BY <3>1 DEF Reboot
      <4>2. QED
        BY <1>1, <4>1 DEF TypeOK
    <3>2. CASE Wake(v)
      <4>1. vm' = [vm EXCEPT ![v] = "running"] /\ young' = young /\ alone' = alone
        BY <3>2 DEF Wake, runners
      <4>2. QED
        BY <1>1, <4>1 DEF TypeOK
    <3>3. QED
      BY <2>1, <3>1, <3>2
  <2>4. QED
    BY <1>1, <2>2, <2>3 DEF Shape, TypeOK, Idle, Signals, network, throttle
<1>4. QED
  BY <1>2, <1>3 DEF Other

\* A tool that a signal has hit is over.
LEMMA UnblockShape ==
    ASSUME Shape, NEW r \in Runners, Unblock(r)
    PROVE  /\ Shape' /\ Signals(r) /\ tool[r] # "running" /\ todo'[r] = <<>>
           /\ \A q \in Runners \ {r} : todo'[q] = todo[q] /\ tool'[q] = tool[q]
           /\ UNCHANGED <<last, network, throttle, online, net, owed, vm, young, target, alone, state>>
<1>1. TypeOK /\ tool[r] # "running" /\ Signals(r)
  BY DEF Shape, Idle, Unblock
<1>2. /\ todo' = [todo EXCEPT ![r] = <<>>] /\ tool' = [tool EXCEPT ![r] = "running"]
      /\ UNCHANGED <<last, network, throttle, online, net, owed, vm, young, target, alone, state>>
  BY DEF Unblock
<1>3. /\ DOMAIN todo' = Runners /\ todo'[r] = <<>> /\ tool'[r] = "running"
      /\ \A q \in Runners \ {r} : todo'[q] = todo[q] /\ tool'[q] = tool[q]
      /\ tool' \in [Runners -> {"running", "stopped", "dead"}]
  BY <1>1, <1>2 DEF TypeOK
<1>4. TypeOK'
  BY <1>1, <1>2, <1>3 DEF TypeOK, network, throttle
<1>5. ASSUME NEW q \in Runners PROVE PlanOK(last[q], todo[q])' /\ Idle(q)'
  BY <1>2, <1>3, Plan0 DEF Shape, Idle, Signals
<1>6. QED
  BY <1>1, <1>2, <1>3, <1>4, <1>5 DEF Shape

\* The steps of the specification.
LEMMA Cases ==
    ASSUME Shape, Next
    PROVE  \/ \E r \in Runners, c \in Commands : IsCommand(c) /\ r \in Shells /\ Launch(r, c)
           \/ \E r \in Menus : \E c : IsCommand(c) /\ Launch(r, c)
           \/ \E r \in Runners : Step(r)
           \/ \E r \in Runners : Unblock(r)
           \/ Other
<1>1. CASE \E r \in Shells : Shell(r)
  <2>1. PICK r \in Shells, c \in Commands : Launch(r, c)
    BY <1>1 DEF Shell
  <2>2. IsCommand(c)
    BY CommandLines, IntAssumption DEF IsCommand, Ops, Ints
  <2>3. QED
    BY <2>1, <2>2 DEF Runners
<1>2. CASE \E r \in Menus : Choose(r)
  <2>1. PICK r \in Menus : Choose(r)
    BY <1>2
  <2>2. target[r] \in VMs
    BY DEF Shape, TypeOK
  <2>3. ASSUME NEW type \in NetTypes PROVE IsCommand([op |-> "network", vm |-> Nothing, n |-> type])
    BY CommandLines DEF IsCommand, Ops
  <2>4. ASSUME NEW a \in 1 .. 3 PROVE IsCommand([op |-> "process", vm |-> target[r], n |-> a])
    BY <2>2 DEF IsCommand, Ops
  <2>5. IsCommand([op |-> "c", vm |-> target[r], n |-> 0])
    BY <2>2 DEF IsCommand
  <2>6. QED
    BY <2>1, <2>3, <2>4, <2>5 DEF Choose
<1>3. QED
  BY <1>1, <1>2 DEF Next, Other

LEMMA InitShape == Init => Shape
<1> SUFFICES ASSUME Init PROVE Shape
  OBVIOUS
<1>1. CPUs \subseteq CPUs /\ 0 \in CPUs
  BY CpuAssumption
<1>2. /\ vm \in [VMs -> {"running", "stopped", "dead"}]
      /\ state \in [Menus -> {"running", "stopped", "dead"}]
      /\ tool \in [Runners -> {"running", "stopped", "dead"}]
      /\ target \in [Menus -> VMs]
      /\ alone \in [Runners -> BOOLEAN]
  BY DEF Init
<1>4. qdisc \in {0, 1, 2, 4} /\ drops \subseteq {"port"} /\ net.type \in 0 .. 4 /\ net.raced \in BOOLEAN
  BY DEF Init
<1>5. TypeOK
  <2>1. young = {} /\ members = {} /\ limited = {} /\ owed = {} /\ online = CPUs /\ dir = FALSE
    BY DEF Init
  <2>4. DOMAIN todo = Runners /\ DOMAIN last = Runners
    BY DEF Init
  <2>2. QuotaOK(quota)
    BY PeriodOK DEF Init
  <2>3. /\ young \subseteq VMs /\ members \subseteq VMs /\ limited \subseteq VMs /\ owed \subseteq VMs
        /\ online \subseteq CPUs /\ 0 \in online /\ dir \in BOOLEAN
    BY <1>1, <2>1
  <2>5. QED
    BY <1>2, <1>4, <2>4, <2>2, <2>3, Zenon DEF TypeOK
<1>3. \A r \in Runners : todo[r] = <<>> /\ tool[r] = "running"
  BY DEF Init
<1>6. QED
  BY <1>5, <1>3, Plan0 DEF Shape, Idle

LEMMA ShapeNext == Shape /\ [Next]_vars => Shape'
<1> SUFFICES ASSUME Shape, [Next]_vars PROVE Shape'
  OBVIOUS
<1>1. CASE Next
  BY <1>1, Cases, ShapeLaunch, ShapeStep, UnblockShape, OtherShape DEF Runners
<1>2. CASE UNCHANGED vars
  BY <1>2 DEF vars, runners, network, throttle, Shape, TypeOK, Idle, Signals
<1>3. QED
  BY <1>1, <1>2

\* Every variable keeps its type: in particular the quota of the cgroup never
\* falls below 10% of a CPU, even for a delay that overflows an int, and CPU 0
\* stays online, whatever commands interleave (kvm_injector.c:
\* inject_performance_fault, inject_cpu_hotplug_fault).
THEOREM TypeCorrect == Spec => []TypeOK
<1>1. Shape => TypeOK
  BY DEF Shape
<1>2. QED
  BY InitShape, ShapeNext, <1>1, PTL DEF Spec

(***************************************************************************)
(* 4. The network: what a command that did not overlap with another one    *)
(*    has cleared, and who still works on it.                              *)
(***************************************************************************)

\* The type of the fault command c asks for, and what the host suffers of it.
NetOf(c) == IF c.op = "c" THEN 0 ELSE c.n
Suffers(type) ==
    /\ qdisc = IF type = 3 THEN 0 ELSE type
    /\ drops = IF type = 3 THEN {"port"} ELSE {}

Cleared(e) ==
    /\ e.do # "qdisc_del" => qdisc = 0
    /\ e.do \notin {"qdisc_del", "flush_OUTPUT"} => drops = {}

NetInv ==
    ~ net.raced =>
        /\ \A r, q \in Runners : Networking(r) /\ Networking(q) => r = q
        /\ \A r \in Runners : Networking(r) => net.type = NetOf(last[r]) /\ Cleared(Head(todo[r]))
        /\ (\A r \in Runners : ~ Networking(r)) => Suffers(net.type)

\* What a command of a tool does to the interface, seen from its runner.
NetEffect(r) ==
    /\ last[r].op \notin {"network", "c"} => UNCHANGED network
    /\ last[r].op \in {"network", "c"} /\ Cleared(Head(todo[r])) =>
          /\ todo'[r] # <<>> => /\ Head(todo'[r]).do # "qdisc_del" => qdisc' = 0
                                /\ Head(todo'[r]).do \notin {"qdisc_del", "flush_OUTPUT"} => drops' = {}
          /\ todo'[r] = <<>> =>
                LET type == NetOf(last[r])
                IN  /\ qdisc' = IF type = 3 THEN 0 ELSE type
                    /\ drops' = IF type = 3 THEN {"port"} ELSE {}

LEMMA NetEffectLemma ==
    ASSUME Shape, NEW r \in Runners, Step(r)
    PROVE  NetEffect(r)
<1>1. Moves(r)
  BY StepMoves
<1>2. Next1(r) \in Steps /\ Of(last[r], Next1(r)) /\ Head(todo[r]) = Next1(r)
  BY <1>1, HeadLemma DEF Moves, Next1
<1>3. CASE QdiscDel(r)
  <2>1. Next1(r).do = "qdisc_del" /\ qdisc' = 0 /\ drops' = drops
    BY <1>3 DEF QdiscDel, Doing
  <2>2. GoesOn(r)
    BY <1>3, SimpleMoves DEF Simple
  <2>3. todo'[r] # <<>> /\ Head(todo'[r]).do = "flush_OUTPUT"
    BY <2>1, <2>2 DEF GoesOn, Final, Follows
  <2>4. last[r].op \in {"network", "c"}
    BY <1>2, <2>1 DEF Of
  <2>5. QED
    BY <2>1, <2>3, <2>4 DEF NetEffect
<1>4. CASE Flush(r)
  <2>1. Next1(r).do = "flush_OUTPUT" /\ qdisc' = qdisc /\ drops' = {}
    BY <1>4 DEF Flush, Doing
  <2>2. GoesOn(r)
    BY <1>4, SimpleMoves DEF Simple
  <2>3. todo'[r] = <<>> => last[r].op = "network" /\ last[r].n = 0
    BY <2>1, <2>2 DEF GoesOn, Final
  <2>4. last[r].op \in {"network", "c"}
    BY <1>2, <2>1 DEF Of
  <2>5. QED
    BY <1>2, <2>1, <2>3, <2>4 DEF NetEffect, Cleared, NetOf
<1>5. CASE QdiscAdd(r)
  <2>1. /\ Next1(r).do = "qdisc_add" /\ drops' = drops
        /\ qdisc' = IF qdisc = 0 THEN Next1(r).type ELSE qdisc
    BY <1>5 DEF QdiscAdd, Doing
  <2>2. GoesOn(r)
    BY <1>5, SimpleMoves DEF Simple
  <2>3. todo'[r] = <<>>
    BY <2>1, <2>2 DEF GoesOn, Follows
  <2>4. last[r].op = "network" /\ last[r].n = Next1(r).type /\ Next1(r).type \in {1, 2, 4}
    BY <1>2, <2>1, Fields DEF Of
  <2>5. QED
    BY <1>2, <2>1, <2>3, <2>4 DEF NetEffect, Cleared, NetOf
<1>6. CASE Drop(r)
  <2>1. Next1(r).do = "drop" /\ drops' = {"port"} /\ qdisc' = qdisc
    BY <1>6 DEF Drop, Doing
  <2>2. GoesOn(r)
    BY <1>6, SimpleMoves DEF Simple
  <2>3. todo'[r] = <<>>
    BY <2>1, <2>2 DEF GoesOn, Follows
  <2>4. last[r].op = "network" /\ last[r].n = 3
    BY <1>2, <2>1 DEF Of
  <2>5. QED
    BY <1>2, <2>1, <2>3, <2>4 DEF NetEffect, Cleared, NetOf
<1>7. CASE Find(r) \/ Kill(r)
  <2>1. Next1(r).do \in {"find", "kill"} /\ UNCHANGED <<qdisc, drops>>
    BY <1>7 DEF Find, Kill, Doing, network
  <2>2. last[r].op \in {"process", "c"}
    BY <1>2, <2>1 DEF Of
  <2>3. QED
    BY <1>2, <2>1, <2>2 DEF NetEffect, Cleared, NetOf, network
<1>8. CASE \/ Mkdir(r) \/ WriteQuota(r) \/ Enter(r) \/ CpuLimit(r) \/ Return(r) \/ Leave(r)
           \/ Rmdir(r) \/ Cpu(r) \/ PkillCpulimit(r)
  <2>1. /\ Next1(r).do \in {"mkdir", "quota", "enter", "cpulimit", "return", "leave", "rmdir", "cpu",
                            "pkill_cpulimit"}
        /\ UNCHANGED network
    <3>1. CASE Mkdir(r) \/ WriteQuota(r) \/ Enter(r)
      BY <3>1 DEF Mkdir, WriteQuota, Enter, Doing
    <3>2. CASE CpuLimit(r) \/ Return(r) \/ Leave(r)
      BY <3>2 DEF CpuLimit, Return, Leave, Doing
    <3>3. CASE Rmdir(r) \/ Cpu(r) \/ PkillCpulimit(r)
      BY <3>3 DEF Rmdir, Cpu, PkillCpulimit, Doing
    <3>4. QED
      BY <1>8, <3>1, <3>2, <3>3
  <2>2. last[r].op \notin {"network", "c"}
    BY <1>2, <2>1 DEF Of
  <2>3. QED
    BY <2>1, <2>2 DEF NetEffect
<1>9. QED
  BY <1>3, <1>4, <1>5, <1>6, <1>7, <1>8 DEF Step

\* The other runners do not move.
LEMMA Others ==
    ASSUME Shape, NEW r \in Runners, Moves(r)
    PROVE  \A q \in Runners \ {r} : todo'[q] = todo[q] /\ last'[q] = last[q]
BY DEF Moves, Shape, TypeOK

LEMMA NetStep ==
    ASSUME Shape, NetInv, NEW r \in Runners, Step(r)
    PROVE  NetInv'
<1>1. Moves(r) /\ NetEffect(r)
  BY StepMoves, NetEffectLemma
<1>2. net' = net /\ last' = last /\ Busy(r)
  BY <1>1 DEF Moves
<1>3. ASSUME NEW q \in Runners \ {r} PROVE (Networking(q)' <=> Networking(q)) /\ todo'[q] = todo[q]
  BY <1>1, <1>2, Others DEF Networking, Busy
<1> SUFFICES ASSUME ~ net.raced
             PROVE  /\ \A p, q \in Runners : Networking(p)' /\ Networking(q)' => p = q
                    /\ \A q \in Runners : Networking(q)' => net.type = NetOf(last[q]) /\ Cleared(Head(todo[q]))'
                    /\ (\A q \in Runners : ~ Networking(q)') => Suffers(net.type)'
  BY <1>2 DEF NetInv
<1>4. CASE last[r].op \notin {"network", "c"}
  <2>1. ~ Networking(r) /\ ~ Networking(r)' /\ UNCHANGED <<qdisc, drops>>
    BY <1>1, <1>2, <1>4 DEF Networking, NetEffect, network
  <2>2. \A q \in Runners : (Networking(q)' <=> Networking(q)) /\ (Networking(q) => todo'[q] = todo[q])
    BY <1>3, <2>1
  <2>3. QED
    BY <1>2, <2>1, <2>2 DEF NetInv, Cleared, Suffers
<1>5. CASE last[r].op \in {"network", "c"}
  <2>1. Networking(r) /\ net.type = NetOf(last[r]) /\ Cleared(Head(todo[r]))
    BY <1>2, <1>5 DEF Networking, NetInv
  <2>2. \A q \in Runners \ {r} : ~ Networking(q)'
    BY <1>3, <2>1 DEF NetInv
  <2>3. Networking(r)' <=> todo'[r] # <<>>
    BY <1>2, <1>5 DEF Networking, Busy
  <2>4. CASE todo'[r] = <<>>
    <3>1. Suffers(net.type)'
      BY <1>1, <1>2, <1>5, <2>1, <2>4 DEF NetEffect, Suffers
    <3>2. QED
      BY <2>2, <2>3, <2>4, <3>1
  <2>5. CASE todo'[r] # <<>>
    <3>1. Cleared(Head(todo[r]))'
      BY <1>1, <1>5, <2>1, <2>5 DEF NetEffect, Cleared
    <3>2. QED
      BY <2>1, <2>2, <2>3, <2>5, <3>1
  <2>6. QED
    BY <2>4, <2>5
<1>6. QED
  BY <1>4, <1>5

LEMMA NetLaunch ==
    ASSUME Shape, NetInv, NEW r \in Runners, NEW c, IsCommand(c), Launch(r, c)
    PROVE  NetInv'
<1>1. /\ ~ Busy(r) /\ UNCHANGED <<qdisc, drops>>
      /\ todo' = [todo EXCEPT ![r] = Tool(c)]
      /\ last' = [q \in Runners |-> IF q = r THEN c
                                    ELSE IF Busy(q) \/ tool[q] # "running" THEN last[q] ELSE NoCommand]
  BY DEF Launch, network
<1>2. /\ todo'[r] = Tool(c) /\ last'[r] = c
      /\ \A q \in Runners \ {r} : todo'[q] = todo[q] /\ (Busy(q) => last'[q] = last[q])
  BY <1>1 DEF Shape, TypeOK
<1>3. \A q \in Runners \ {r} : (Networking(q)' <=> Networking(q))
  BY <1>2 DEF Networking, Busy
<1>4. ~ Networking(r)
  BY <1>1 DEF Networking
<1>5. CASE c.op \in {"network", "c"}
  <2>1. net' = [type |-> IF c.op = "c" THEN 0 ELSE c.n, raced |-> \E q \in Runners : Networking(q)]
    BY <1>5 DEF Launch
  <2>2. net'.type = NetOf(c)
    BY <2>1 DEF NetOf
  <2>3. net'.raced = \E q \in Runners : Networking(q)
    BY <2>1, Zenon
  <2>4. Networking(r)' /\ Head(todo'[r]).do = "qdisc_del"
    BY <1>2, <1>5, ToolLemma DEF First, Starts, Networking, Busy
  <2>5. Cleared(Head(todo[r]))'
    BY <2>4 DEF Cleared
  <2>6. ~ net'.raced => \A q \in Runners \ {r} : ~ Networking(q)'
    BY <1>3, <2>3
  <2>7. QED
    BY <1>2, <2>2, <2>4, <2>5, <2>6 DEF NetInv
<1>6. CASE c.op \notin {"network", "c"}
  <2>1. net' = net
    BY <1>6 DEF Launch
  <2>2. ~ Networking(r)'
    BY <1>2, <1>6 DEF Networking
  <2>3. \A q \in Runners : (Networking(q)' <=> Networking(q))
    BY <1>3, <1>4, <2>2
  <2>4. \A q \in Runners : Networking(q) => todo'[q] = todo[q] /\ last'[q] = last[q]
    BY <1>2, <1>4 DEF Networking
  <2>5. QED
    BY <1>1, <2>1, <2>3, <2>4 DEF NetInv, Cleared, Suffers
<1>7. QED
  BY <1>5, <1>6

LEMMA NetSame ==
    ASSUME NetInv, UNCHANGED <<last, qdisc, drops, net>>, \A q \in Runners : todo'[q] = todo[q]
    PROVE  NetInv'
<1>1. \A q \in Runners : (Networking(q)' <=> Networking(q))
  BY DEF Networking, Busy
<1>2. QED
  BY <1>1 DEF NetInv, Cleared, Suffers

LEMMA NetUnblock ==
    ASSUME Shape, NetInv, NEW r \in Runners, Unblock(r)
    PROVE  NetInv'
<1>1. /\ Signals(r) /\ todo'[r] = <<>> /\ \A q \in Runners \ {r} : todo'[q] = todo[q]
      /\ UNCHANGED <<last, qdisc, drops, net>>
  BY UnblockShape DEF network
<1>2. ~ Networking(r)' /\ \A q \in Runners \ {r} : (Networking(q)' <=> Networking(q))
  BY <1>1 DEF Networking, Busy
<1>3. CASE Networking(r)
  <2>1. last[r].op = "c" /\ Head(todo[r]).do \in {"find", "kill"}
    BY <1>1, <1>3 DEF Networking, Busy, Signals
  <2>2. ~ net.raced =>
            /\ net.type = 0 /\ qdisc = 0 /\ drops = {}
            /\ \A q \in Runners \ {r} : ~ Networking(q)'
    BY <1>2, <1>3, <2>1 DEF NetInv, NetOf, Cleared
  <2>3. QED
    BY <1>1, <1>2, <2>2 DEF NetInv, Suffers
<1>4. CASE ~ Networking(r)
  BY <1>1, <1>2, <1>4 DEF NetInv, Cleared, Suffers, Networking
<1>5. QED
  BY <1>3, <1>4

LEMMA NetNext == Shape /\ NetInv /\ [Next]_vars => NetInv'
<1> SUFFICES ASSUME Shape, NetInv, [Next]_vars PROVE NetInv'
  OBVIOUS
<1>1. CASE Next
  <2>1. CASE Other
    BY <2>1, OtherShape, NetSame DEF network
  <2>2. QED
    BY <1>1, <2>1, Cases, NetLaunch, NetStep, NetUnblock DEF Runners
<1>2. CASE UNCHANGED vars
  BY <1>2, NetSame DEF vars, runners, network
<1>3. QED
  BY <1>1, <1>2

\* When network commands do not overlap, the host suffers exactly the fault of
\* the last one, of whatever runner (network_injector.c: inject_network).
THEOREM LastFaultOnly == Spec => []LastNetworkFaultOnly
<1>1. Init => NetInv
  <2> SUFFICES ASSUME Init PROVE NetInv
    OBVIOUS
  <2>1. \A r \in Runners : ~ Networking(r)
    BY DEF Init, Networking, Busy
  <2>2. Suffers(net.type)
    BY DEF Init, Suffers
  <2>3. QED
    BY <2>1, <2>2 DEF NetInv
<1>2. NetInv => LastNetworkFaultOnly
  BY DEF NetInv, LastNetworkFaultOnly, Suffers
<1>3. QED
  BY InitShape, ShapeNext, NetNext, <1>1, <1>2, PTL DEF Spec

(***************************************************************************)
(* 5. The delay: until a perf-delay is over, one of its steps that limit   *)
(*    the target is still to come.                                         *)
(***************************************************************************)

Limiting(r, v) ==
    Busy(r) /\ last[r].op = "perf-delay" /\ last[r].vm = v /\ Head(todo[r]).do # "return"

DelayInv ==
    \A v \in VMs :
        v \in owed =>
            /\ vm[v] # "dead"
            /\ HasCpulimit => v \in members \cup limited \/ \E r \in Runners : Limiting(r, v)

\* What a command of a tool does to target v that a delay is owed to.
Kept(r, v) ==
    v \in owed' =>
        /\ v \in owed
        /\ vm[v] # "dead" => vm'[v] # "dead"
        /\ v \in members \cup limited => v \in members' \cup limited'
        /\ HasCpulimit /\ vm[v] # "dead" /\ Limiting(r, v) =>
              v \in members' \cup limited' \/ Limiting(r, v)'

LEMMA KeptLemma ==
    ASSUME Shape, NEW r \in Runners, Step(r), NEW v \in VMs
    PROVE  Kept(r, v)
<1>1. Moves(r) /\ TypeOK
  BY StepMoves DEF Shape
<1>2. Next1(r) \in Steps /\ Of(last[r], Next1(r)) /\ Head(todo[r]) = Next1(r)
  BY <1>1, HeadLemma DEF Moves, Next1
<1>3. last' = last
  BY <1>1 DEF Moves
<1>4. Limiting(r, v) => last[r].op = "perf-delay" /\ last[r].vm = v /\ Next1(r).do # "return"
  BY <1>2 DEF Limiting
<1>5. (todo'[r] # <<>> /\ Head(todo'[r]).do # "return" /\ Limiting(r, v)) => Limiting(r, v)'
  BY <1>3 DEF Limiting, Busy
<1>6. CASE \/ QdiscDel(r) \/ Flush(r) \/ QdiscAdd(r) \/ Drop(r) \/ Find(r) \/ Rmdir(r) \/ Cpu(r)
  <2>1. Next1(r).do \in {"qdisc_del", "flush_OUTPUT", "qdisc_add", "drop", "find", "rmdir", "cpu"}
    BY <1>6 DEF QdiscDel, Flush, QdiscAdd, Drop, Find, Rmdir, Cpu, Doing
  <2>2. UNCHANGED <<vm, members, limited, owed>>
    BY <1>6 DEF QdiscDel, Flush, QdiscAdd, Drop, Find, Rmdir, Cpu, throttle
  <2>3. last[r].op # "perf-delay"
    BY <1>2, <2>1 DEF Of
  <2>4. QED
    BY <1>4, <2>2, <2>3 DEF Kept
<1>7. CASE Kill(r)
  <2>1. Next1(r).do = "kill" /\ Next1(r).vm \in VMs
    BY <1>2, <1>7, Fields DEF Kill, Doing
  <2>2. last[r].op # "perf-delay"
    BY <1>2, <2>1 DEF Of
  <2>3. CASE Next1(r).who.what = "target"
    <3>1. vm' = [vm EXCEPT ![Next1(r).vm] = Signalled(@, Next1(r).action)]
      BY <1>7, <2>3, KillHits
    <3>2. vm'[v] = IF v = Next1(r).vm THEN Signalled(vm[v], Next1(r).action) ELSE vm[v]
      BY <1>1, <2>1, <3>1 DEF TypeOK
    <3>3. CASE Next1(r).action = 1
      <4>1. members' = members \ {Next1(r).vm} /\ limited' = limited \ {Next1(r).vm} /\ owed' = owed \ {Next1(r).vm}
        BY <1>7, <2>3, <3>3, KillHits DEF Dead
      <4>2. QED
        BY <1>4, <2>2, <3>2, <4>1 DEF Kept
    <3>4. CASE Next1(r).action # 1
      <4>1. UNCHANGED <<members, limited, owed>>
        BY <1>7, <2>3, <3>4, KillHits DEF throttle
      <4>2. vm[v] # "dead" => vm'[v] # "dead"
        BY <3>2, <3>4 DEF Signalled
      <4>3. QED
        BY <1>4, <2>2, <4>1, <4>2 DEF Kept
    <3>5. QED
      BY <3>3, <3>4
  <2>4. CASE Next1(r).who.what # "target"
    <3>1. UNCHANGED <<vm, members, limited, owed>>
      BY <1>7, <2>4, KillHits DEF throttle
    <3>2. QED
      BY <1>4, <2>2, <3>1 DEF Kept
  <2>5. QED
    BY <2>3, <2>4
<1>8. CASE Mkdir(r)
  <2>1. Next1(r).do = "mkdir" /\ UNCHANGED <<vm, members, limited, owed>>
    BY <1>8 DEF Mkdir, Doing
  <2>2. GoesOn(r)
    BY <1>8, SimpleMoves DEF Simple
  <2>3. todo'[r] # <<>> /\ Head(todo'[r]).do # "return"
    BY <2>1, <2>2 DEF GoesOn, Final, Follows
  <2>4. QED
    BY <1>5, <2>1, <2>3 DEF Kept
<1>9. CASE WriteQuota(r)
  <2>1. Next1(r).do = "quota" /\ UNCHANGED <<vm, members, limited>> /\ owed' \subseteq owed
    BY <1>9 DEF WriteQuota, Doing
  <2>2. todo'[r] # <<>> /\ (GoesOn(r) \/ Head(todo'[r]).do = "cpulimit")
    BY <1>9, ChainMoves
  <2>3. Head(todo'[r]).do # "return"
    BY <2>1, <2>2 DEF GoesOn, Follows
  <2>4. QED
    BY <1>5, <2>1, <2>2, <2>3 DEF Kept
<1>10. CASE Enter(r)
  <2>1. Next1(r).do = "enter" /\ UNCHANGED <<vm, limited, owed>>
    BY <1>10 DEF Enter, Doing
  <2>2. /\ todo'[r] # <<>>
        /\ (dir /\ vm[Next1(r).vm] # "dead") \/ Head(todo'[r]).do = "cpulimit"
    BY <1>10, ChainMoves
  <2>3. members' = IF dir /\ vm[Next1(r).vm] # "dead" THEN members \cup {Next1(r).vm} ELSE members
    BY <1>10 DEF Enter
  <2>4. last[r].vm = Next1(r).vm
    BY <1>2, <2>1 DEF Of
  <2>5. QED
    BY <1>4, <1>5, <2>1, <2>2, <2>3, <2>4 DEF Kept
<1>11. CASE CpuLimit(r)
  <2>1. /\ Next1(r).do = "cpulimit" /\ UNCHANGED <<vm, members, owed>>
        /\ limited' = limited \cup {w \in {Next1(r).vm} : HasCpulimit /\ vm[w] # "dead"}
    BY <1>11 DEF CpuLimit, Doing
  <2>2. last[r].vm = Next1(r).vm
    BY <1>2, <2>1 DEF Of
  <2>3. QED
    BY <1>4, <2>1, <2>2 DEF Kept
<1>12. CASE Return(r)
  <2>1. Next1(r).do = "return" /\ UNCHANGED <<vm, members, limited, owed>>
    BY <1>12 DEF Return, Doing, throttle
  <2>2. QED
    BY <1>4, <2>1 DEF Kept
<1>13. CASE Leave(r)
  <2>1. /\ Next1(r).do = "leave" /\ UNCHANGED <<vm, limited>>
        /\ members' = members \ {Next1(r).vm} /\ owed' = owed \ {Next1(r).vm}
    BY <1>13 DEF Leave, Doing
  <2>2. last[r].vm = Next1(r).vm
    BY <1>2, <2>1 DEF Of
  <2>3. QED
    BY <1>4, <2>1, <2>2 DEF Kept
<1>14. CASE PkillCpulimit(r)
  <2>1. /\ Next1(r).do = "pkill_cpulimit" /\ UNCHANGED <<vm, members>>
        /\ limited' = {} /\ owed' = owed \ limited
    BY <1>14 DEF PkillCpulimit, Doing
  <2>2. last[r].op # "perf-delay"
    BY <1>2, <2>1 DEF Of
  <2>3. QED
    BY <1>4, <2>1, <2>2 DEF Kept
<1>15. QED
  BY <1>6, <1>7, <1>8, <1>9, <1>10, <1>11, <1>12, <1>13, <1>14 DEF Step

LEMMA DelayStep ==
    ASSUME Shape, DelayInv, NEW r \in Runners, Step(r)
    PROVE  DelayInv'
<1> SUFFICES ASSUME NEW v \in VMs, v \in owed'
             PROVE  /\ vm'[v] # "dead"
                    /\ HasCpulimit =>
                           v \in members' \cup limited' \/ \E q \in Runners : Limiting(q, v)'
  BY DEF DelayInv
<1>1. Kept(r, v)
  BY KeptLemma
<1>2. \A q \in Runners \ {r} : Limiting(q, v) => Limiting(q, v)'
  BY StepMoves, Others DEF Limiting, Busy
<1>3. /\ v \in owed /\ vm[v] # "dead"
      /\ HasCpulimit => v \in members \cup limited \/ \E q \in Runners : Limiting(q, v)
  BY <1>1 DEF Kept, DelayInv
<1>4. CASE v \in members \cup limited
  BY <1>1, <1>3, <1>4 DEF Kept
<1>5. CASE \E q \in Runners : Limiting(q, v)
  BY <1>1, <1>2, <1>3, <1>5 DEF Kept
<1>6. CASE ~ HasCpulimit
  BY <1>1, <1>3, <1>6 DEF Kept
<1>7. QED
  BY <1>3, <1>4, <1>5, <1>6

LEMMA DelayLaunch ==
    ASSUME Shape, DelayInv, NEW r \in Runners, NEW c, IsCommand(c), Launch(r, c)
    PROVE  DelayInv'
<1>1. /\ ~ Busy(r) /\ UNCHANGED <<vm, members, limited>>
      /\ todo' = [todo EXCEPT ![r] = Tool(c)]
      /\ last' = [q \in Runners |-> IF q = r THEN c
                                    ELSE IF Busy(q) \/ tool[q] # "running" THEN last[q] ELSE NoCommand]
      /\ owed' = IF c.op = "perf-delay" /\ c.n > 0 /\ vm[c.vm] # "dead" THEN owed \cup {c.vm} ELSE owed
  BY DEF Launch, throttle
<1>2. /\ todo'[r] = Tool(c) /\ last'[r] = c
      /\ \A q \in Runners \ {r} : todo'[q] = todo[q] /\ (Busy(q) => last'[q] = last[q])
  BY <1>1 DEF Shape, TypeOK
<1>3. ASSUME NEW v \in VMs, NEW q \in Runners, Limiting(q, v) PROVE Limiting(q, v)'
  BY <1>1, <1>2, <1>3 DEF Limiting, Busy
<1>4. ASSUME c.op = "perf-delay" PROVE Limiting(r, c.vm)'
  BY <1>2, <1>4, ToolLemma DEF First, Starts, Limiting, Busy
<1>5. QED
  BY <1>1, <1>3, <1>4 DEF DelayInv

LEMMA DelaySame ==
    ASSUME DelayInv, UNCHANGED <<last, members, limited, owed>>, \A q \in Runners : todo'[q] = todo[q],
           \A v \in VMs : vm[v] # "dead" => vm'[v] # "dead"
    PROVE  DelayInv'
<1>1. \A q \in Runners, v \in VMs : Limiting(q, v) => Limiting(q, v)'
  BY DEF Limiting, Busy
<1>2. QED
  BY <1>1 DEF DelayInv

LEMMA DelayUnblock ==
    ASSUME Shape, DelayInv, NEW r \in Runners, Unblock(r)
    PROVE  DelayInv'
<1>1. /\ Signals(r) /\ \A q \in Runners \ {r} : todo'[q] = todo[q]
      /\ UNCHANGED <<last, vm, members, limited, owed>>
  BY UnblockShape DEF throttle
<1>2. ASSUME NEW q \in Runners, NEW v \in VMs, Limiting(q, v) PROVE Limiting(q, v)'
  <2>1. q # r
    BY <1>1, <1>2 DEF Limiting, Signals
  <2>2. QED
    BY <1>1, <1>2, <2>1 DEF Limiting, Busy
<1>3. QED
  BY <1>1, <1>2 DEF DelayInv

\* Nobody else's step kills a target.
LEMMA OtherVms ==
    ASSUME Shape, Other
    PROVE  \A v \in VMs : vm[v] # "dead" => vm'[v] # "dead"
<1>1. vm' = vm \/ \E v \in VMs : vm' = [vm EXCEPT ![v] = "running"]
  BY DEF Other, Switch, Reboot, Wake
<1>2. vm \in [VMs -> {"running", "stopped", "dead"}]
  BY DEF Shape, TypeOK
<1>3. QED
  BY <1>1, <1>2

LEMMA DelayNext == Shape /\ DelayInv /\ [Next]_vars => DelayInv'
<1> SUFFICES ASSUME Shape, DelayInv, [Next]_vars PROVE DelayInv'
  OBVIOUS
<1>1. CASE Next
  <2>1. CASE Other
    BY <2>1, OtherShape, OtherVms, DelaySame DEF throttle
  <2>2. QED
    BY <1>1, <2>1, Cases, DelayLaunch, DelayStep, DelayUnblock DEF Runners
<1>2. CASE UNCHANGED vars
  BY <1>2, DelaySame DEF vars, runners, throttle
<1>3. QED
  BY <1>1, <1>2

\* The quota that is in force while the cgroup holds a target: less than a CPU,
\* or one that a perf-delay at work is about to write.
Setting(r) == Busy(r) /\ Head(todo[r]).do \in {"mkdir", "quota"}

QuotaInv ==
    /\ dir => HasCgroup
    /\ ~ dir => members = {}
    /\ \A v \in owed \ limited : dir => quota < Period \/ \E r \in Runners : Setting(r)

\* The commands that concern neither the cgroup nor those it is owed to.
LEMMA QuotaSame ==
    ASSUME QuotaInv, UNCHANGED <<dir, quota>>, members' \subseteq members,
           owed' \ limited' \subseteq owed \ limited,
           \A q \in Runners : Setting(q) => Setting(q)'
    PROVE  QuotaInv'
BY DEF QuotaInv

LEMMA QuotaStep1 ==
    ASSUME Shape, QuotaInv, NEW r \in Runners, Step(r)
    PROVE  QuotaInv'
<1>1. Moves(r)
  BY StepMoves
<1>2. Next1(r) \in Steps /\ Of(last[r], Next1(r)) /\ Head(todo[r]) = Next1(r)
  BY <1>1, HeadLemma DEF Moves, Next1
<1>3. \A q \in Runners \ {r} : Setting(q)' <=> Setting(q)
  BY <1>1, Others DEF Setting, Busy
<1>4. Setting(r) => Next1(r).do \in {"mkdir", "quota"}
  BY <1>2 DEF Setting
<1>5. CASE Mkdir(r)
  <2>1. /\ Next1(r).do = "mkdir" /\ dir' = TRUE /\ quota' = (IF dir THEN quota ELSE Period)
        /\ UNCHANGED <<members, limited, owed>>
    BY <1>5 DEF Mkdir, Doing
  <2>2. GoesOn(r)
    BY <1>5, SimpleMoves DEF Simple
  <2>3. todo'[r] # <<>> /\ Head(todo'[r]).do \in {"quota", "enter"}
    BY <2>1, <2>2 DEF GoesOn, Final, Follows
  <2>4. Head(todo'[r]).do = "quota"
    BY <2>1, <2>2, <2>3 DEF GoesOn, Follows
  <2>5. Setting(r)' /\ HasCgroup
    BY <1>2, <2>1, <2>3, <2>4 DEF Setting, Busy, Of
  <2>6. QED
    BY <2>1, <2>5 DEF QuotaInv
<1>6. CASE WriteQuota(r)
  <2>1. UNCHANGED <<dir, members, limited>>
    BY <1>6 DEF WriteQuota
  <2>2. CASE dir
    <3>1. /\ quota' \in Quota(Next1(r).ms)
          /\ owed' = IF quota' < Period THEN owed ELSE owed \cap limited
      BY <1>6, <2>2 DEF WriteQuota
    <3>2. QED
      BY <2>1, <2>2, <3>1 DEF QuotaInv
  <2>3. CASE ~ dir
    BY <2>1, <2>3 DEF QuotaInv
  <2>4. QED
    BY <2>2, <2>3
<1>7. CASE Enter(r)
  <2>1. /\ Next1(r).do = "enter" /\ UNCHANGED <<dir, quota, limited, owed>>
        /\ members' # members => dir
    BY <1>7 DEF Enter, Doing
  <2>2. ~ Setting(r)
    BY <1>4, <2>1
  <2>3. QED
    BY <1>3, <2>1, <2>2 DEF QuotaInv
<1>8. CASE Rmdir(r)
  <2>1. /\ Next1(r).do = "rmdir" /\ UNCHANGED <<quota, members, limited, owed>>
        /\ dir' = (dir /\ members # {})
    BY <1>8 DEF Rmdir, Doing
  <2>2. ~ Setting(r)
    BY <1>4, <2>1
  <2>3. QED
    BY <1>3, <2>1, <2>2 DEF QuotaInv
<1>9. CASE \/ QdiscDel(r) \/ Flush(r) \/ QdiscAdd(r) \/ Drop(r) \/ Find(r) \/ Kill(r)
           \/ CpuLimit(r) \/ Return(r) \/ Leave(r) \/ Cpu(r) \/ PkillCpulimit(r)
  <2>1. Next1(r).do \notin {"mkdir", "quota"}
    BY <1>9 DEF QdiscDel, Flush, QdiscAdd, Drop, Find, Kill, CpuLimit, Return, Leave, Cpu,
                PkillCpulimit, Doing
  <2>2. \A q \in Runners : Setting(q) => Setting(q)'
    BY <1>3, <1>4, <2>1
  <2>3. CASE Kill(r)
    BY <2>2, <2>3, KillHits, QuotaSame DEF Dead, throttle
  <2>4. CASE CpuLimit(r) \/ Leave(r) \/ PkillCpulimit(r)
    BY <2>2, <2>4, QuotaSame DEF CpuLimit, Leave, PkillCpulimit
  <2>5. CASE QdiscDel(r) \/ Flush(r) \/ QdiscAdd(r) \/ Drop(r) \/ Find(r) \/ Return(r) \/ Cpu(r)
    <3>1. UNCHANGED <<dir, quota, members, limited, owed>>
      BY <2>5 DEF QdiscDel, Flush, QdiscAdd, Drop, Find, Return, Cpu, throttle
    <3>2. QED
      BY <2>2, <3>1, QuotaSame
  <2>6. QED
    BY <1>9, <2>3, <2>4, <2>5
<1>10. QED
  BY <1>5, <1>6, <1>7, <1>8, <1>9 DEF Step

LEMMA QuotaLaunch ==
    ASSUME Shape, QuotaInv, NEW r \in Runners, NEW c, IsCommand(c), Launch(r, c)
    PROVE  QuotaInv'
<1>1. /\ ~ Busy(r) /\ UNCHANGED <<dir, quota, members, limited>>
      /\ todo' = [todo EXCEPT ![r] = Tool(c)]
      /\ owed' = IF c.op = "perf-delay" /\ c.n > 0 /\ vm[c.vm] # "dead" THEN owed \cup {c.vm} ELSE owed
  BY DEF Launch, throttle
<1>2. todo'[r] = Tool(c) /\ \A q \in Runners \ {r} : todo'[q] = todo[q]
  BY <1>1 DEF Shape, TypeOK
<1>3. \A q \in Runners : Setting(q) => Setting(q)'
  BY <1>1, <1>2 DEF Setting, Busy
<1>4. CASE c.op = "perf-delay" /\ c.n > 0 /\ HasCgroup
  <2>1. Setting(r)'
    BY <1>2, <1>4, ToolLemma DEF First, Starts, Setting, Busy
  <2>2. QED
    BY <1>1, <1>4, <2>1 DEF QuotaInv
<1>5. CASE ~ HasCgroup
  BY <1>1, <1>5 DEF QuotaInv
<1>6. CASE ~ (c.op = "perf-delay" /\ c.n > 0)
  BY <1>1, <1>3, <1>6, QuotaSame
<1>7. QED
  BY <1>4, <1>5, <1>6

LEMMA QuotaNext == Shape /\ QuotaInv /\ [Next]_vars => QuotaInv'
<1> SUFFICES ASSUME Shape, QuotaInv, [Next]_vars PROVE QuotaInv'
  OBVIOUS
<1>1. CASE Other \/ UNCHANGED vars
  <2>1. UNCHANGED <<todo, dir, quota, members, limited, owed>>
    BY <1>1, OtherShape DEF vars, runners, throttle
  <2>2. QED
    BY <2>1, QuotaSame DEF Setting, Busy
<1>2. ASSUME NEW r \in Runners, Unblock(r) PROVE QuotaInv'
  <2>1. /\ Signals(r) /\ \A q \in Runners \ {r} : todo'[q] = todo[q]
        /\ UNCHANGED <<dir, quota, members, limited, owed>>
    BY <1>2, UnblockShape DEF throttle
  <2>2. \A q \in Runners : Setting(q) => Setting(q)'
    BY <2>1 DEF Setting, Busy, Signals
  <2>3. QED
    BY <2>1, <2>2, QuotaSame
<1>3. QED
  BY <1>1, <1>2, Cases, QuotaLaunch, QuotaStep1 DEF Runners

\* With cpulimit installed, a perf-delay on a live target limits it, through the
\* cgroup or through cpulimit, whatever else removes the cgroup under it, until
\* something undoes it; and once no perf-delay is at work, the cgroup allows it
\* less than a CPU (kvm_injector.c: inject_performance_fault).
THEOREM DelaysLimit == Spec => []DelayTakesEffect
<1>1. Init => DelayInv /\ QuotaInv
  BY DEF Init, DelayInv, QuotaInv
<1>2. Shape /\ DelayInv /\ QuotaInv => DelayTakesEffect
  <2> SUFFICES ASSUME Shape, DelayInv, QuotaInv, HasCpulimit, NEW v \in owed
               PROVE  /\ ~ Delaying(v) => v \in members \cup limited
                      /\ (\A r \in Runners : Busy(r) => last[r].op # "perf-delay") =>
                             v \in limited \/ quota < Period
    BY DEF DelayTakesEffect
  <2>1. v \in VMs
    BY DEF Shape, TypeOK
  <2>2. ~ Delaying(v) => v \in members \cup limited
    BY <2>1 DEF DelayInv, Delaying, Limiting
  <2>3. \A r \in Runners : Setting(r) => last[r].op = "perf-delay"
    BY HeadLemma DEF Setting, Next1, Of
  <2>4. ASSUME \A r \in Runners : Busy(r) => last[r].op # "perf-delay"
        PROVE  v \in limited \/ quota < Period
    BY <2>2, <2>3, <2>4 DEF Delaying, Setting, QuotaInv
  <2>5. QED
    BY <2>2, <2>4
<1>3. QED
  BY InitShape, ShapeNext, DelayNext, QuotaNext, <1>1, <1>2, PTL DEF Spec

(***************************************************************************)
(* 6. The two "clear": what the steps of one that runs alone have restored. *)
(***************************************************************************)

AloneInv == \A r \in Runners : alone[r] => \A q \in Runners \ {r} : ~ Busy(q)

\* What a menu found for its "clear all" is not the target only if the target
\* is dead, or was started again after another process with its name.
FoundOK(r, e) ==
    \/ e.who.what = "target" \/ vm[e.vm] = "dead"
    \/ e.vm \in young /\ \/ \E m \in Menus : Named[m] = e.vm
                          \/ \E q \in Runners \ {r} : last[q].vm = e.vm

Mistaken(r) ==
    /\ last[r].vm \in young
    /\ \/ \E m \in Menus : Named[m] = last[r].vm
       \/ \E q \in Runners \ {r} : last[q].vm = last[r].vm

MenuInv ==
    \A r \in Menus :
        alone[r] /\ last[r].op = "c" =>
            /\ last[r].vm \in VMs /\ state[r] = "running" /\ tool[r] = "running"
            /\ Busy(r) => Cleared(Head(todo[r])) /\ (Head(todo[r]).do = "kill" => FoundOK(r, Head(todo[r])))
            /\ ~ Busy(r) => /\ qdisc = 0 /\ drops = {}
                            /\ vm[last[r].vm] = "stopped" => Mistaken(r)

\* The CPUs below that of the next step are online.
Restored(e) ==
    /\ e.do # "rmdir" => (members = {} => ~ dir)
    /\ e.do = "cpu" => \A j \in CPUs : j < e.cpu => j \in online
    /\ e.do = "pkill_cpulimit" => online = CPUs

KvmInv ==
    \A r \in Runners :
        alone[r] /\ last[r].op = "clear" =>
            /\ Busy(r) => Restored(Head(todo[r]))
            /\ ~ Busy(r) => online = CPUs /\ limited = {} /\ (members = {} => ~ dir)

LEMMA AloneNext == Shape /\ AloneInv /\ [Next]_vars => AloneInv'
<1> SUFFICES ASSUME Shape, AloneInv, [Next]_vars PROVE AloneInv'
  OBVIOUS
<1>1. ASSUME NEW r \in Runners, NEW c, Launch(r, c) PROVE AloneInv'
  <2>1. /\ todo' = [todo EXCEPT ![r] = Tool(c)]
        /\ alone' = [q \in Runners |-> q = r /\ \A u \in Runners \ {r} : ~ Busy(u)]
    BY <1>1 DEF Launch
  <2>2. \A q \in Runners \ {r} : todo'[q] = todo[q]
    BY <2>1 DEF Shape, TypeOK
  <2>3. QED
    BY <2>1, <2>2 DEF AloneInv, Busy
<1>2. ASSUME NEW r \in Runners, Step(r) PROVE AloneInv'
  <2>1. Moves(r)
    BY <1>2, StepMoves
  <2>2. Busy(r) /\ alone' = alone /\ \A q \in Runners \ {r} : todo'[q] = todo[q]
    BY <2>1, Others DEF Moves
  <2>3. QED
    BY <2>2 DEF AloneInv, Busy
<1>3. CASE Other
  <2>1. todo' = todo
    BY <1>3, OtherShape
  <2>2. \A q \in Runners : alone'[q] => alone[q]
    BY <1>3 DEF Other, Switch, Reboot, Wake, runners
  <2>3. QED
    BY <2>1, <2>2 DEF AloneInv, Busy
<1>4. ASSUME NEW r \in Runners, Unblock(r) PROVE AloneInv'
  <2>1. \A q \in Runners : Busy(q)' => Busy(q)
    BY <1>4, UnblockShape DEF Busy
  <2>2. QED
    BY <1>4, <2>1 DEF AloneInv, Unblock
<1>5. CASE UNCHANGED vars
  BY <1>5 DEF vars, runners, AloneInv, Busy
<1>6. QED
  BY <1>1, <1>2, <1>3, <1>4, <1>5, Cases DEF Runners

\* A command that starts has nothing to show yet.
LEMMA ClearLaunch ==
    ASSUME Shape, NEW r \in Runners, NEW c, IsCommand(c), Launch(r, c)
    PROVE  MenuInv' /\ KvmInv'
<1>1. /\ todo' = [todo EXCEPT ![r] = Tool(c)] /\ UNCHANGED <<state, tool>>
      /\ (r \in Menus => state[r] = "running") /\ tool[r] = "running"
      /\ last' = [q \in Runners |-> IF q = r THEN c
                                    ELSE IF Busy(q) \/ tool[q] # "running" THEN last[q] ELSE NoCommand]
      /\ alone' = [q \in Runners |-> q = r /\ \A u \in Runners \ {r} : ~ Busy(u)]
  BY DEF Launch, Acts
<1>2. todo'[r] = Tool(c) /\ last'[r] = c /\ \A q \in Runners \ {r} : ~ alone'[q]
  BY <1>1 DEF Shape, TypeOK
<1>3. c.op = "c" => Busy(r)' /\ Head(todo'[r]).do = "qdisc_del"
  BY <1>2, ToolLemma DEF First, Starts, Busy
<1>4. c.op = "clear" => Busy(r)' /\ Head(todo'[r]).do = "rmdir"
  BY <1>2, ToolLemma DEF First, Starts, Busy
<1>5. MenuInv'
  <2>1. c.op = "c" => Cleared(Head(todo[r]))'
    BY <1>3 DEF Cleared
  <2>2. QED
    BY <1>1, <1>2, <1>3, <2>1 DEF MenuInv, Runners, IsCommand
<1>6. KvmInv'
  <2>1. c.op = "clear" => Restored(Head(todo[r]))'
    BY <1>4 DEF Restored
  <2>2. QED
    BY <1>2, <1>4, <2>1 DEF KvmInv
<1>7. QED
  BY <1>5, <1>6

LEMMA MenuStep ==
    ASSUME Shape, AloneInv, MenuInv, NEW r \in Runners, Step(r)
    PROVE  MenuInv'
<1>1. Moves(r) /\ NetEffect(r) /\ TypeOK
  BY StepMoves, NetEffectLemma DEF Shape
<1>2. UNCHANGED <<last, alone>> /\ Busy(r)
  BY <1>1 DEF Moves
<1>3. \A q \in Runners \ {r} : ~ alone[q]
  BY <1>2 DEF AloneInv
<1> SUFFICES ASSUME r \in Menus, alone[r], last[r].op = "c"
             PROVE  /\ last[r].vm \in VMs /\ state'[r] = "running" /\ tool'[r] = "running"
                    /\ Busy(r)' => /\ Cleared(Head(todo[r]))'
                                   /\ Head(todo'[r]).do = "kill" => FoundOK(r, Head(todo[r]))'
                    /\ ~ Busy(r)' => /\ qdisc' = 0 /\ drops' = {}
                                     /\ vm'[last[r].vm] = "stopped" => Mistaken(r)'
  BY <1>2, <1>3 DEF MenuInv, Runners
<1>4. /\ Next1(r) \in Steps /\ Of(last[r], Next1(r)) /\ Head(todo[r]) = Next1(r)
      /\ last[r].vm \in VMs /\ state[r] = "running" /\ tool[r] = "running"
  BY <1>2, HeadLemma DEF Next1, MenuInv
<1>5. Cleared(Head(todo[r])) /\ (Next1(r).do = "kill" => FoundOK(r, Next1(r)))
  BY <1>2, <1>4 DEF MenuInv
<1>6. /\ todo'[r] # <<>> => Cleared(Head(todo[r]))'
      /\ todo'[r] = <<>> => qdisc' = 0 /\ drops' = {}
  BY <1>1, <1>5 DEF NetEffect, Cleared, NetOf
<1>7. Next1(r).do \in {"qdisc_del", "flush_OUTPUT", "find", "kill"}
  <2>1. Next1(r).do \notin {"qdisc_add", "drop", "mkdir", "quota", "enter", "cpulimit", "return", "leave",
                           "cpu", "rmdir", "pkill_cpulimit"}
    BY <1>4 DEF Of
  <2>2. QED
    BY <1>1, <2>1 DEF Step, QdiscDel, Flush, QdiscAdd, Drop, Find, Kill, Mkdir, WriteQuota, Enter,
                      CpuLimit, Return, Leave, Rmdir, Cpu, PkillCpulimit, Doing
<1>8. CASE Next1(r).do \in {"qdisc_del", "flush_OUTPUT"}
  <2>1. QdiscDel(r) \/ Flush(r)
    BY <1>8 DEF Step, QdiscDel, Flush, QdiscAdd, Drop, Find, Kill, Mkdir, WriteQuota, Enter,
                CpuLimit, Return, Leave, Rmdir, Cpu, PkillCpulimit, Doing
  <2>2. GoesOn(r) /\ UNCHANGED <<state, tool>>
    BY <2>1, SimpleMoves DEF Simple, QdiscDel, Flush
  <2>3. todo'[r] # <<>> /\ Head(todo'[r]).do # "kill"
    BY <1>8, <2>2 DEF GoesOn, Final, Follows
  <2>4. QED
    BY <1>4, <1>6, <2>2, <2>3 DEF Busy
<1>9. CASE Next1(r).do = "find"
  <2>1. Find(r)
    BY <1>9 DEF Step, QdiscDel, Flush, QdiscAdd, Drop, Find, Kill, Mkdir, WriteQuota, Enter,
                CpuLimit, Return, Leave, Rmdir, Cpu, PkillCpulimit, Doing
  <2>2. UNCHANGED <<vm, young, state, tool>>
    BY <2>1 DEF Find
  <2>3. PICK w \in get_vm_pid(r, Next1(r).vm) : todo'[r] = << KillOf(r, w) >>
    BY <1>4, <2>1, FindMoves
  <2> DEFINE k == KillOf(r, w)
  <2>4. FoundOK(r, k)
    <3>1. k.who = w /\ k.vm = Next1(r).vm
      BY DEF KillOf
    <3>2. r \notin Left(k.vm)
      BY <1>2 DEF Left
    <3>3. \/ w.what = "target" \/ vm[k.vm] = "dead"
          \/ k.vm \in young /\ (NamedMenus(k.vm) # {} \/ Left(k.vm) # {})
      BY <2>3, <3>1 DEF get_vm_pid
    <3>4. /\ NamedMenus(k.vm) # {} => \E m \in Menus : Named[m] = k.vm
          /\ Left(k.vm) # {} => \E q \in Runners \ {r} : last[q].vm = k.vm
      BY <3>2 DEF NamedMenus, Left
    <3>5. QED
      BY <3>1, <3>3, <3>4 DEF FoundOK
  <2> HIDE DEF k
  <2>5. todo'[r] # <<>> /\ Head(todo'[r]) = k
    BY <2>3, Joined DEF k
  <2>6. FoundOK(r, Head(todo[r]))'
    BY <1>2, <2>2, <2>4, <2>5 DEF FoundOK
  <2>7. QED
    BY <1>4, <1>6, <2>2, <2>5, <2>6 DEF Busy
<1>10. CASE Next1(r).do = "kill"
  <2>1. Kill(r)
    BY <1>10 DEF Step, QdiscDel, Flush, QdiscAdd, Drop, Find, Kill, Mkdir, WriteQuota, Enter,
                 CpuLimit, Return, Leave, Rmdir, Cpu, PkillCpulimit, Doing
  <2>2. todo'[r] = <<>>
    BY <2>1, KillMoves
  <2>3. Next1(r).action = 3 /\ Next1(r).vm = last[r].vm /\ Next1(r).vm \in VMs
    BY <1>4, <1>10, Fields DEF Of
  <2>4. young' = young
    BY <2>1, KillHits
  <2>5. state'[r] = "running" /\ tool'[r] = "running"
    <3>1. /\ state \in [Menus -> Processes] /\ tool \in [Runners -> Processes]
          /\ Signalled("running", 3) = "running"
      BY <1>1 DEF TypeOK, Processes, Signalled
    <3>2. \A f, x, y : f[x] = "running" => [f EXCEPT ![y] = Signalled(@, 3)][x] \in {f[x], Signalled(f[x], 3)}
      OBVIOUS
    <3>3. QED
      BY <1>4, <2>1, <2>3, <3>1, <3>2, KillHits
  <2>6. CASE Next1(r).who.what = "target"
    <3>1. vm' = [vm EXCEPT ![Next1(r).vm] = Signalled(@, Next1(r).action)]
      BY <2>1, <2>6, KillHits
    <3>2. vm'[last[r].vm] = Signalled(vm[last[r].vm], 3)
      BY <1>1, <2>3, <3>1 DEF TypeOK
    <3>3. vm'[last[r].vm] # "stopped"
      BY <3>2 DEF Signalled
    <3>4. QED
      BY <1>4, <1>6, <2>2, <2>5, <3>3 DEF Busy
  <2>7. CASE Next1(r).who.what # "target"
    <3>1. vm' = vm
      BY <2>1, <2>7, KillHits
    <3>2. vm[last[r].vm] = "dead" \/ Mistaken(r)
      BY <1>5, <1>10, <2>3, <2>7 DEF FoundOK, Mistaken
    <3>3. Mistaken(r) => Mistaken(r)'
      BY <1>2, <2>4 DEF Mistaken
    <3>4. QED
      BY <1>4, <1>6, <2>2, <2>5, <3>1, <3>2, <3>3 DEF Busy
  <2>8. QED
    BY <2>6, <2>7
<1>11. QED
  BY <1>7, <1>8, <1>9, <1>10

LEMMA KvmStep ==
    ASSUME Shape, AloneInv, KvmInv, NEW r \in Runners, Step(r)
    PROVE  KvmInv'
<1>1. Moves(r) /\ TypeOK
  BY StepMoves DEF Shape
<1>2. UNCHANGED <<last, alone>> /\ Busy(r)
  BY <1>1 DEF Moves
<1>3. \A q \in Runners \ {r} : ~ alone[q]
  BY <1>2 DEF AloneInv
<1> SUFFICES ASSUME alone[r], last[r].op = "clear"
             PROVE  /\ Busy(r)' => Restored(Head(todo[r]))'
                    /\ ~ Busy(r)' => online' = CPUs /\ limited' = {} /\ (members' = {} => ~ dir')
  BY <1>2, <1>3 DEF KvmInv
<1>4. Next1(r) \in Steps /\ Of(last[r], Next1(r)) /\ Head(todo[r]) = Next1(r)
  BY <1>2, HeadLemma DEF Next1
<1>5. Restored(Next1(r))
  BY <1>2, <1>4 DEF KvmInv
<1>6. Top \in Nat /\ CPUs = 0 .. Top /\ online \subseteq CPUs /\ 0 \in online
  BY <1>1, TopLemma DEF TypeOK
<1>7. CASE Rmdir(r)
  <2>1. Next1(r).do = "rmdir" /\ dir' = (dir /\ members # {}) /\ UNCHANGED <<members, online>>
    BY <1>7 DEF Rmdir, Doing
  <2>2. GoesOn(r)
    BY <1>7, SimpleMoves DEF Simple
  <2>3. /\ todo'[r] # <<>>
        /\ \/ Head(todo'[r]).do = "cpu" /\ Head(todo'[r]).cpu = 1
           \/ Head(todo'[r]).do = "pkill_cpulimit" /\ Top = 0
    BY <2>1, <2>2 DEF GoesOn, Final, Follows
  <2>4. members' = {} => ~ dir'
    BY <2>1
  <2>5. \A j \in CPUs : j < 1 => j \in online
    BY <1>6
  <2>6. Top = 0 => online = CPUs
    <3>1. \A j \in CPUs : Top = 0 => j = 0
      BY <1>6
    <3>2. QED
      BY <1>6, <3>1
  <2>7. QED
    BY <2>1, <2>3, <2>4, <2>5, <2>6 DEF Restored, Busy
<1>8. CASE Cpu(r)
  <2>1. /\ Next1(r).do = "cpu" /\ UNCHANGED <<dir, members>>
        /\ online' = IF Next1(r).on THEN online \cup {Next1(r).cpu} ELSE online \ {Next1(r).cpu}
    BY <1>8 DEF Cpu, Doing, throttle
  <2>2. GoesOn(r)
    BY <1>8, SimpleMoves DEF Simple
  <2>3. Next1(r).on /\ Next1(r).cpu \in CPUs \ {0}
    BY <1>4, <2>1, Fields DEF Of
  <2>4. /\ todo'[r] # <<>>
        /\ \/ Head(todo'[r]).do = "cpu" /\ Head(todo'[r]).cpu = Next1(r).cpu + 1
           \/ Head(todo'[r]).do = "pkill_cpulimit" /\ Next1(r).cpu = Top
    BY <2>1, <2>2 DEF GoesOn, Final, Follows
  <2>5. online' = online \cup {Next1(r).cpu}
    BY <2>1, <2>3
  <2>6. \A j \in CPUs : j < Next1(r).cpu + 1 => j \in online'
    BY <1>5, <1>6, <2>1, <2>3, <2>5 DEF Restored
  <2>7. Next1(r).cpu = Top => online' = CPUs
    <3>1. online' \subseteq CPUs
      BY <1>6, <2>3, <2>5
    <3>2. \A j \in CPUs : Next1(r).cpu = Top => j < Next1(r).cpu + 1
      BY <1>6
    <3>3. QED
      BY <2>6, <3>1, <3>2
  <2>8. members' = {} => ~ dir'
    BY <1>5, <2>1 DEF Restored
  <2>9. QED
    BY <2>4, <2>6, <2>7, <2>8 DEF Restored, Busy
<1>9. CASE PkillCpulimit(r)
  <2>1. Next1(r).do = "pkill_cpulimit" /\ limited' = {} /\ UNCHANGED <<dir, members, online>>
    BY <1>9 DEF PkillCpulimit, Doing
  <2>2. GoesOn(r)
    BY <1>9, SimpleMoves DEF Simple
  <2>3. todo'[r] = <<>>
    BY <2>1, <2>2 DEF GoesOn, Follows
  <2>4. online = CPUs /\ (members = {} => ~ dir)
    BY <1>5, <2>1 DEF Restored
  <2>5. QED
    BY <2>1, <2>3, <2>4 DEF Busy
<1>10. Rmdir(r) \/ Cpu(r) \/ PkillCpulimit(r)
  <2>1. Next1(r).do \in {"rmdir", "cpu", "pkill_cpulimit"}
    <3>1. Next1(r).do \notin {"qdisc_del", "flush_OUTPUT", "qdisc_add", "drop", "find", "kill", "mkdir",
                             "quota", "enter", "cpulimit", "return", "leave"}
      BY <1>4 DEF Of
    <3>2. QED
      BY <3>1 DEF Step, QdiscDel, Flush, QdiscAdd, Drop, Find, Kill, Mkdir, WriteQuota, Enter,
                  CpuLimit, Return, Leave, Rmdir, Cpu, PkillCpulimit, Doing
  <2>2. QED
    BY <2>1 DEF Step, QdiscDel, Flush, QdiscAdd, Drop, Find, Kill, Mkdir, WriteQuota, Enter,
                CpuLimit, Return, Leave, Rmdir, Cpu, PkillCpulimit, Doing
<1>11. QED
  BY <1>7, <1>8, <1>9, <1>10

\* Nobody else's step undoes a "clear": a machine that starts ends the claim,
\* and cpulimit only wakes its target up.
LEMMA ClearOther ==
    ASSUME Shape, MenuInv, KvmInv, Other
    PROVE  MenuInv' /\ KvmInv'
<1>1. /\ UNCHANGED <<last, tool, qdisc, drops, dir, members, limited, online, todo>>
      /\ \A q \in Runners : (Busy(q)' <=> Busy(q))
  BY OtherShape DEF network, throttle, Busy
<1>2. \/ alone' = [r \in Runners |-> FALSE]
      \/ /\ UNCHANGED <<alone, young, state>>
         /\ vm' = vm \/ \E v \in VMs : vm[v] = "stopped" /\ vm' = [vm EXCEPT ![v] = "running"]
  BY DEF Other, Switch, Reboot, Wake, runners
<1>3. CASE alone' = [r \in Runners |-> FALSE]
  BY <1>3 DEF MenuInv, KvmInv, Runners
<1>4. CASE /\ UNCHANGED <<alone, young, state>>
           /\ vm' = vm \/ \E v \in VMs : vm[v] = "stopped" /\ vm' = [vm EXCEPT ![v] = "running"]
  <2>1. DOMAIN vm = VMs
    BY DEF Shape, TypeOK
  <2>2. \A v \in VMs : (vm[v] = "dead" => vm'[v] = "dead") /\ (vm'[v] = "stopped" => vm[v] = "stopped")
    BY <1>4, <2>1
  <2>3. ASSUME NEW r \in Menus, Busy(r), Head(todo[r]).do = "kill", FoundOK(r, Head(todo[r]))
        PROVE  FoundOK(r, Head(todo[r]))'
    <3>1. Next1(r) \in Steps /\ Head(todo[r]) = Next1(r) /\ todo'[r] = todo[r]
      BY <1>1, <2>3, HeadLemma DEF Next1, Runners
    <3>2. Next1(r).vm \in VMs
      BY <2>3, <3>1, Fields
    <3>3. QED
      BY <1>1, <1>4, <2>2, <2>3, <3>1, <3>2 DEF FoundOK
  <2>4. MenuInv'
    BY <1>1, <1>4, <2>2, <2>3 DEF MenuInv, Mistaken, Cleared, Runners
  <2>5. KvmInv'
    BY <1>1, <1>4 DEF KvmInv, Restored
  <2>6. QED
    BY <2>4, <2>5
<1>5. QED
  BY <1>2, <1>3, <1>4

\* A tool that a signal has hit is not one that works alone on a "clear".
LEMMA ClearUnblock ==
    ASSUME Shape, MenuInv, KvmInv, NEW r \in Runners, Unblock(r)
    PROVE  MenuInv' /\ KvmInv'
<1>1. /\ Signals(r) /\ tool[r] # "running"
      /\ \A q \in Runners \ {r} : todo'[q] = todo[q] /\ tool'[q] = tool[q]
      /\ UNCHANGED <<last, qdisc, drops, dir, members, limited, online, vm, young, alone, state>>
  BY UnblockShape DEF network, throttle
<1>2. \A q \in Runners \ {r} : (Busy(q)' <=> Busy(q))
  BY <1>1 DEF Busy
<1>3. ~ (r \in Menus /\ alone[r] /\ last[r].op = "c") /\ last[r].op # "clear"
  BY <1>1 DEF MenuInv, Signals
<1>4. MenuInv'
  BY <1>1, <1>2, <1>3 DEF MenuInv, Mistaken, Cleared, FoundOK, Runners
<1>5. KvmInv'
  BY <1>1, <1>2, <1>3 DEF KvmInv, Restored
<1>6. QED
  BY <1>4, <1>5

LEMMA ClearNext == Shape /\ AloneInv /\ MenuInv /\ KvmInv /\ [Next]_vars => MenuInv' /\ KvmInv'
<1> SUFFICES ASSUME Shape, AloneInv, MenuInv, KvmInv, [Next]_vars PROVE MenuInv' /\ KvmInv'
  OBVIOUS
<1>1. CASE Next
  BY <1>1, Cases, ClearLaunch, MenuStep, KvmStep, ClearUnblock, ClearOther DEF Runners
<1>2. CASE UNCHANGED vars
  <2>1. UNCHANGED <<todo, last, state, tool, alone, qdisc, drops, vm, young, dir, members, limited, online>>
    BY <1>2 DEF vars, runners, network, throttle
  <2>2. MenuInv'
    BY <2>1 DEF MenuInv, Mistaken, Cleared, FoundOK, Busy
  <2>3. KvmInv'
    BY <2>1 DEF KvmInv, Restored, Busy
  <2>4. QED
    BY <2>2, <2>3
<1>3. QED
  BY <1>1, <1>2

LEMMA ClearInit == Init => AloneInv /\ MenuInv /\ KvmInv
BY DEF Init, AloneInv, MenuInv, KvmInv, Runners

\* "c" of a menu, run alone, leaves no network fault and wakes the target up,
\* unless the target was started again after a menu with its name, or after a
\* process_injector that had found nothing else and hung itself
\* (fault_controller.c: main, process_injector.c: get_vm_pid).
THEOREM MenuClears == Spec => []MenuClearRestores
<1>1. MenuInv => MenuClearRestores
  BY DEF MenuInv, Mistaken, MenuClearRestores, Ended
<1>2. QED
  BY InitShape, ShapeNext, ClearInit, AloneNext, ClearNext, <1>1, PTL DEF Spec

\* A kvm_injector clear that ran alone brings every CPU back, ends every
\* cpulimit, and removes the cgroup once perf-clear has emptied it
\* (kvm_injector.c: clear_all_faults).
THEOREM KvmClears == Spec => []KvmClearAfterPerfClear
<1>1. KvmInv => KvmClearAfterPerfClear
  BY DEF KvmInv, KvmClearAfterPerfClear, Ended, Runners
<1>2. QED
  BY InitShape, ShapeNext, ClearInit, AloneNext, ClearNext, <1>1, PTL DEF Spec
=============================================================================
