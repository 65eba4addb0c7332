---------------------------- MODULE ClusterProofs ----------------------------
(***************************************************************************)
(* Theorems about CloudStackInjector and ClusterController, for any number *)
(* of runners, slaves and addresses, any menu and any command lines.  A    *)
(* runner that is alone is followed through its script by the number of    *)
(* steps it has executed.                                                  *)
(***************************************************************************)
EXTENDS ClusterController, SequenceTheorems, TLAPS

(***************************************************************************)
(* 1. Scripts: their steps, kind by kind, and their rests.                 *)
(***************************************************************************)

Bare == {Do(op, None) : op \in {"qdisc-del", "prio", "filter", "dd", "rm",
             "storage-umount", "storage-ro", "storage-rw", "storage-fill", "storage-clean"}}
Shapes == {Do("netem", kind) : kind \in {"delay", "delay-loss", "loss"}} \cup {Do("child", "delay")}
Filters == {Do(op, u) : op \in {"append", "delete"}, u \in Rules}
Flushes == {Do("flush", chain) : chain \in {"INPUT", "OUTPUT"}}
OnServices == {Do(op, s) : op \in Signals, s \in Services}
Guests == {Do("virsh", op) : op \in {"sysvm-crash", "sysvm-hang", "sysvm-resume"}}
Limits == {Do("sql", limit) : limit \in {0, 5, 151}}
OnHadoop == {Do("hadoop", <<op, comp>>) : op \in Signals, comp \in Components}
Places == ({Master} \cup Slaves) \X Components
OnHosts == {Do("manage", <<op, where>>) : op \in Signals, where \in Places}
OnQemu == {Do("qemu", op) : op \in Signals}
Modes == {Do("safemode", mode) : mode \in {"enter", "leave"}}
Groups == {{"nn", "snn", "dn"}, {"rm", "nm"}}
Batches == {Do(op, group) : op \in {"start", "stop"}, group \in Groups}

\* Every step but the two of the CPU stress.
Steps == Bare \cup Shapes \cup Filters \cup Flushes \cup OnServices \cup Guests \cup Limits
         \cup OnHadoop \cup OnHosts \cup OnQemu \cup Modes \cup Batches

Cooling == <<Do("cool", None)>>
Scripts == Seq(Steps) \cup {inject_cs_cpu_stress, Cooling}

\* What a step says to do it with.
Typed(e) ==
    /\ e.op \in {"netem", "child"} => e.what \in {"delay", "delay-loss", "loss"}
    /\ e.op \in {"append", "delete"} => e.what \in Rules
    /\ e.op = "sql" => e.what \in {0, 5, 151}
    /\ e.op = "qemu" => e.what \in Signals
    /\ e.op \in {"hadoop", "manage"} => e.what[1] \in Signals
    /\ e.op \notin {"burn", "cool"}

LEMMA DoFields == ASSUME NEW op, NEW what PROVE Do(op, what).op = op /\ Do(op, what).what = what
BY DEF Do

LEMMA StepsTyped == \A e \in Steps : Typed(e)
<1>1. \A e \in Bare : Typed(e)
  BY DoFields DEF Bare, Typed
<1>2. \A e \in Shapes : Typed(e)
  BY DoFields DEF Shapes, Typed
<1>3. \A e \in Filters : Typed(e)
  BY DoFields DEF Filters, Typed
<1>4. \A e \in Flushes : Typed(e)
  BY DoFields DEF Flushes, Typed
<1>5. \A e \in OnServices : Typed(e)
  BY DoFields DEF OnServices, Signals, Typed
<1>6. \A e \in Guests : Typed(e)
  BY DoFields DEF Guests, Typed
<1>7. \A e \in Limits : Typed(e)
  BY DoFields DEF Limits, Typed
<1>8. ASSUME NEW e \in OnHadoop PROVE Typed(e)
  <2>1. PICK op \in Signals, comp \in Components : e = Do("hadoop", <<op, comp>>)
    BY <1>8 DEF OnHadoop
  <2>2. e.op = "hadoop" /\ e.what = <<op, comp>>
    BY <2>1, DoFields
  <2>3. QED
    BY <2>2 DEF Typed
<1>9. ASSUME NEW e \in OnHosts PROVE Typed(e)
  <2>1. PICK op \in Signals, where \in Places : e = Do("manage", <<op, where>>)
    BY <1>9 DEF OnHosts
  <2>2. e.op = "manage" /\ e.what = <<op, where>>
    BY <2>1, DoFields
  <2>3. QED
    BY <2>2 DEF Typed
<1>10. \A e \in OnQemu : Typed(e)
  BY DoFields DEF OnQemu, Typed
<1>11. \A e \in Modes : Typed(e)
  BY DoFields DEF Modes, Typed
<1>12. \A e \in Batches : Typed(e)
  BY DoFields DEF Batches, Typed
<1>13. QED
  BY <1>1, <1>2, <1>3, <1>4, <1>5, <1>6, <1>7, <1>8, <1>9, <1>10, <1>11, <1>12 DEF Steps

\* The first step of a script and the rest of it.
LEMMA ScriptHead ==
    ASSUME NEW s \in Scripts, s # <<>>
    PROVE  /\ Typed(Head(s)) \/ Head(s).op \in {"burn", "cool"}
           /\ Head(s).op = "burn" => s = inject_cs_cpu_stress /\ Tail(s) = Cooling
           /\ Head(s).op = "cool" => s = Cooling /\ Tail(s) = <<>>
           /\ Head(s).op \notin {"burn", "cool"} => s \in Seq(Steps) /\ Tail(s) \in Seq(Steps)
           /\ Tail(s) \in Scripts
<1>1. CASE s \in Seq(Steps)
  <2>1. Head(s) \in Steps /\ Tail(s) \in Seq(Steps)
    BY <1>1
  <2>2. Typed(Head(s)) /\ Head(s).op \notin {"burn", "cool"}
    BY <2>1, StepsTyped DEF Typed
  <2>3. QED
    BY <1>1, <2>1, <2>2 DEF Scripts
<1>2. CASE s = inject_cs_cpu_stress
  <2> DEFINE a == Do("burn", None)
             b == Do("cool", None)
  <2>1. a.op = "burn"
    BY DoFields
  <2> HIDE DEF a, b
  <2>2. s = <<a, b>>
    BY <1>2 DEF inject_cs_cpu_stress, a, b
  <2>3. Head(s) = a /\ Tail(s) = <<b>>
    BY <2>2
  <2>4. Tail(s) = Cooling
    BY <2>3 DEF Cooling, b
  <2>5. QED
    BY <1>2, <2>1, <2>3, <2>4 DEF Scripts
<1>3. CASE s = Cooling
  <2> DEFINE b == Do("cool", None)
  <2>1. b.op = "cool"
    BY DoFields
  <2> HIDE DEF b
  <2>2. s = <<b>>
    BY <1>3 DEF Cooling, b
  <2>3. Head(s) = b /\ Tail(s) = <<>>
    BY <2>2
  <2>4. <<>> \in Seq(Steps)
    OBVIOUS
  <2>5. QED
    BY <1>3, <2>1, <2>3, <2>4 DEF Scripts
<1>4. QED
  BY <1>1, <1>2, <1>3 DEF Scripts

\* What is left of the script s after n steps.
Rest(s, n) == [i \in 1 .. (Len(s) - n) |-> s[i + n]]

LEMMA RestFacts ==
    ASSUME NEW S, NEW s \in Seq(S), NEW n \in 0 .. Len(s)
    PROVE  /\ Rest(s, n) \in Seq(S)
           /\ Rest(s, n) = <<>> <=> n = Len(s)
           /\ n < Len(s) => Head(Rest(s, n)) = s[n + 1] /\ Tail(Rest(s, n)) = Rest(s, n + 1)
           /\ Rest(s, 0) = s
<1>1. Len(s) \in Nat /\ n \in Nat /\ n <= Len(s)
  OBVIOUS
<1>2. Rest(s, n) \in Seq(S) /\ Len(Rest(s, n)) = Len(s) - n
  BY <1>1 DEF Rest
<1>3. Rest(s, n) = <<>> <=> n = Len(s)
  BY <1>1, <1>2
<1>4. ASSUME n < Len(s) PROVE Head(Rest(s, n)) = s[n + 1] /\ Tail(Rest(s, n)) = Rest(s, n + 1)
  <2>1. Rest(s, n)[1] = s[n + 1]
    BY <1>1, <1>4 DEF Rest
  <2>2. Head(Rest(s, n)) = s[n + 1]
    BY <1>1, <1>2, <1>3, <1>4, <2>1
  <2> DEFINE t == Tail(Rest(s, n))
             u == Rest(s, n + 1)
  <2>3. /\ t \in Seq(S) /\ Len(t) = Len(s) - n - 1
        /\ \A i \in 1 .. Len(t) : t[i] = Rest(s, n)[i + 1]
    BY <1>1, <1>2, <1>3, <1>4
  <2>4. u \in Seq(S) /\ Len(u) = Len(s) - n - 1
    BY <1>1, <1>4 DEF Rest
  <2>5. \A i \in 1 .. Len(s) - n - 1 : u[i] = s[i + n + 1] /\ Rest(s, n)[i + 1] = s[i + n + 1]
    BY <1>1, <1>4 DEF Rest
  <2> HIDE DEF t, u
  <2>6. t = u
    BY <2>3, <2>4, <2>5, SeqEqual
  <2>7. QED
    BY <2>2, <2>6 DEF t, u
<1>5. Rest(s, 0) = s
  <2>1. Rest(s, 0) \in Seq(S) /\ Len(Rest(s, 0)) = Len(s) /\ \A i \in 1 .. Len(s) : Rest(s, 0)[i] = s[i]
    BY <1>1 DEF Rest
  <2>2. QED
    BY <2>1, SeqEqual
<1>6. QED
  BY <1>2, <1>3, <1>4, <1>5

LEMMA RestStart == ASSUME NEW s \in Seq(Steps) PROVE Rest(s, 0) = s
<1>1. 0 \in 0 .. Len(s)
  OBVIOUS
<1>2. QED
  BY <1>1, RestFacts

LEMMA Glue ==
    ASSUME NEW S, NEW a \in Seq(S), NEW b \in Seq(S)
    PROVE  /\ a \o b \in Seq(S) /\ Len(a \o b) = Len(a) + Len(b)
           /\ \A i \in 1 .. Len(a) : (a \o b)[i] = a[i]
           /\ \A i \in 1 .. Len(b) : (a \o b)[Len(a) + i] = b[i]
<1>1. /\ a \o b \in Seq(S) /\ Len(a \o b) = Len(a) + Len(b)
      /\ \A i \in 1 .. Len(a) + Len(b) :
             (a \o b)[i] = IF i <= Len(a) THEN a[i] ELSE b[i - Len(a)]
  BY ConcatProperties
<1>2. Len(a) \in Nat /\ Len(b) \in Nat
  OBVIOUS
<1>3. QED
  BY <1>1, <1>2

(***************************************************************************)
(* 2. The tools make such scripts.                                         *)
(***************************************************************************)

LEMMA BareStep ==
    ASSUME NEW op \in {"qdisc-del", "prio", "filter", "dd", "rm", "storage-umount",
                       "storage-ro", "storage-rw", "storage-fill", "storage-clean"}
    PROVE  Do(op, None) \in Steps
<1>1. Do(op, None) \in Bare
  BY DEF Bare
<1>2. QED
  BY <1>1 DEF Steps

LEMMA ShapeStep ==
    /\ \A kind \in {"delay", "delay-loss", "loss"} : Do("netem", kind) \in Steps
    /\ Do("child", "delay") \in Steps
<1>1. /\ \A kind \in {"delay", "delay-loss", "loss"} : Do("netem", kind) \in Shapes
      /\ Do("child", "delay") \in Shapes
  BY DEF Shapes
<1>2. QED
  BY <1>1 DEF Steps

LEMMA FilterStep ==
    ASSUME NEW chain \in {"INPUT", "OUTPUT"}, NEW a \in Addresses \cup {None}, NEW port \in Ports
    PROVE  /\ <<chain, a, port>> \in Rules
           /\ Do("append", <<chain, a, port>>) \in Steps
           /\ Do("delete", <<chain, a, port>>) \in Steps
<1>1. <<chain, a, port>> \in Rules
  BY DEF Rules
<1>2. \A u \in Rules : Do("append", u) \in Filters /\ Do("delete", u) \in Filters
  BY DEF Filters
<1>3. QED
  BY <1>1, <1>2 DEF Steps

LEMMA FlushStep == Do("flush", "INPUT") \in Steps /\ Do("flush", "OUTPUT") \in Steps
<1>1. Do("flush", "INPUT") \in Flushes /\ Do("flush", "OUTPUT") \in Flushes
  BY DEF Flushes
<1>2. QED
  BY <1>1 DEF Steps

LEMMA ServiceStep == \A op \in Signals, s \in Services : Do(op, s) \in Steps
<1>1. \A op \in Signals, s \in Services : Do(op, s) \in OnServices
  BY DEF OnServices
<1>2. QED
  BY <1>1 DEF Steps

LEMMA GuestStep ==
    \A op \in {"sysvm-crash", "sysvm-hang", "sysvm-resume"} : Do("virsh", op) \in Steps
<1>1. \A op \in {"sysvm-crash", "sysvm-hang", "sysvm-resume"} : Do("virsh", op) \in Guests
  BY DEF Guests
<1>2. QED
  BY <1>1 DEF Steps

LEMMA LimitStep == \A limit \in {0, 5, 151} : Do("sql", limit) \in Steps
<1>1. \A limit \in {0, 5, 151} : Do("sql", limit) \in Limits
  BY DEF Limits
<1>2. QED
  BY <1>1 DEF Steps

LEMMA SignalStep ==
    ASSUME NEW op \in Signals
    PROVE  /\ \A comp \in Components : Do("hadoop", <<op, comp>>) \in Steps
           /\ \A where \in Places : Do("manage", <<op, where>>) \in Steps
           /\ Do("qemu", op) \in Steps
<1>1. /\ \A comp \in Components : Do("hadoop", <<op, comp>>) \in OnHadoop
      /\ \A where \in Places : Do("manage", <<op, where>>) \in OnHosts
      /\ Do("qemu", op) \in OnQemu
  BY DEF OnHadoop, OnHosts, OnQemu
<1>2. QED
  BY <1>1 DEF Steps

LEMMA MasterStep ==
    /\ \A mode \in {"enter", "leave"} : Do("safemode", mode) \in Steps
    /\ \A op \in {"start", "stop"}, group \in Groups : Do(op, group) \in Steps
<1>1. /\ \A mode \in {"enter", "leave"} : Do("safemode", mode) \in Modes
      /\ \A op \in {"start", "stop"}, group \in Groups : Do(op, group) \in Batches
  BY DEF Modes, Batches
<1>2. QED
  BY <1>1 DEF Steps

LEMMA Lists ==
    /\ <<>> \in Seq(Steps)
    /\ \A a \in Steps : <<a>> \in Seq(Steps)
    /\ \A a, b \in Steps : <<a, b>> \in Seq(Steps)
    /\ \A a, b, c \in Steps : <<a, b, c>> \in Seq(Steps)
    /\ \A s, t \in Seq(Steps) : s \o t \in Seq(Steps)
<1>1. <<>> \in Seq(Steps) /\ \A a, b, c \in Steps : <<a>> \in Seq(Steps)
                                /\ <<a, b>> \in Seq(Steps) /\ <<a, b, c>> \in Seq(Steps)
  OBVIOUS
<1>2. \A s, t \in Seq(Steps) : s \o t \in Seq(Steps)
  BY Glue
<1>3. QED
  BY <1>1, <1>2

LEMMA FunctionsOfTheInjector ==
    /\ \A action \in {0, 1} : inject_api_fault(action) \in Seq(Steps)
    /\ \A a \in Addresses \cup {None}, port \in Ports, action \in {0, 1} :
           inject_cs_network_fault(a, port, action) \in Seq(Steps)
    /\ \A a \in Addresses \cup {None}, type \in {1, 2} :
           inject_agent_fault(type, a) \in Seq(Steps)
    /\ \A limit \in {0, 5, 151} : inject_db_fault(limit) \in Seq(Steps)
    /\ \A mb \in {0, 1} : inject_cs_memory_stress(mb) \in Seq(Steps)
    /\ \A type \in 1 .. 3 : inject_vm_operation_fault(type) \in Seq(Steps)
<1>0. 0 \in Ports /\ AgentPort \in Ports
  BY DEF Ports
<1>1. ASSUME NEW action \in {0, 1} PROVE inject_api_fault(action) \in Seq(Steps)
  <2>1. /\ <<Do("qdisc-del", None)>> \in Seq(Steps)
        /\ <<Do("prio", None), Do("child", "delay"), Do("filter", None)>> \in Seq(Steps)
    BY BareStep, ShapeStep, Lists
  <2>2. QED
    BY <2>1, Lists DEF inject_api_fault
<1>2. ASSUME NEW a \in Addresses \cup {None}, NEW port \in Ports, NEW action \in {0, 1}
      PROVE  inject_cs_network_fault(a, port, action) \in Seq(Steps)
  <2>1. /\ <<Do("delete", <<"INPUT", a, 0>>), Do("delete", <<"OUTPUT", a, 0>>)>> \in Seq(Steps)
        /\ <<Do("append", <<"INPUT", a, port>>), Do("append", <<"OUTPUT", a, port>>)>> \in Seq(Steps)
    BY <1>0, FilterStep, Lists
  <2>2. QED
    BY <2>1 DEF inject_cs_network_fault
<1>3. ASSUME NEW a \in Addresses \cup {None}, NEW type \in {1, 2}
      PROVE  inject_agent_fault(type, a) \in Seq(Steps)
  <2>1. /\ <<Do("delete", <<"OUTPUT", a, AgentPort>>)>> \in Seq(Steps)
        /\ <<Do("append", <<"OUTPUT", a, AgentPort>>)>> \in Seq(Steps)
    BY <1>0, FilterStep, Lists
  <2>2. QED
    BY <2>1 DEF inject_agent_fault
<1>4. \A limit \in {0, 5, 151} : inject_db_fault(limit) \in Seq(Steps)
  BY LimitStep, Lists DEF inject_db_fault
<1>5. ASSUME NEW mb \in {0, 1} PROVE inject_cs_memory_stress(mb) \in Seq(Steps)
  <2>1. <<Do("rm", None)>> \in Seq(Steps) /\ <<Do("dd", None)>> \in Seq(Steps)
    BY BareStep, Lists
  <2>2. QED
    BY <2>1 DEF inject_cs_memory_stress
<1>6. \A type \in 1 .. 3 : inject_vm_operation_fault(type) \in Seq(Steps)
  <2>1. /\ <<Do("netem", "delay-loss")>> \in Seq(Steps) /\ <<Do("qdisc-del", None)>> \in Seq(Steps)
        /\ <<>> \in Seq(Steps)
    BY BareStep, ShapeStep, Lists
  <2>2. \A type \in 1 .. 3 : type = 1 \/ type = 2 \/ type = 3
    OBVIOUS
  <2>3. QED
    BY <2>1, <2>2 DEF inject_vm_operation_fault
<1>7. QED
  BY <1>1, <1>2, <1>3, <1>4, <1>5, <1>6

LEMMA CsScriptOK ==
    ASSUME NEW c, c.arg \in CsArgument(c.op), c.port \in Ports
    PROVE  CsScript(c) \in Scripts
<1> USE FunctionsOfTheInjector, Lists DEF CsScript, Scripts
<1>1. CASE c.op \in {"crash", "hang", "resume"}
  <2>1. CsScript(c) = <<Do(c.op, c.arg)>> /\ c.op \in Signals /\ c.arg \in Services
    BY <1>1 DEF CsArgument, Signals
  <2>2. QED
    BY <2>1, ServiceStep
<1>2. CASE c.op \in {"sysvm-crash", "sysvm-hang", "sysvm-resume"}
  <2>1. CsScript(c) = <<Do("virsh", c.op)>>
    BY <1>2
  <2>2. QED
    BY <1>2, <2>1, GuestStep
<1>3. CASE c.op \in {"api-delay", "api-delay-clear"}
  BY <1>3
<1>4. CASE c.op \in {"network", "network-clear"}
  <2>1. c.arg \in Addresses
    BY <1>4 DEF CsArgument
  <2>2. CsScript(c) = inject_cs_network_fault(c.arg, c.port, 1)
        \/ CsScript(c) = inject_cs_network_fault(c.arg, 0, 0)
    BY <1>4
  <2>3. 0 \in Ports
    BY DEF Ports
  <2>4. /\ inject_cs_network_fault(c.arg, c.port, 1) \in Seq(Steps)
        /\ inject_cs_network_fault(c.arg, 0, 0) \in Seq(Steps)
    BY <2>1, <2>3
  <2>5. QED
    BY <2>2, <2>4
<1>5. CASE c.op \in {"agent-disconnect", "agent-reconnect"}
  <2>1. c.arg \in Addresses \cup {None}
    BY <1>5 DEF CsArgument
  <2>2. CsScript(c) \in {inject_agent_fault(1, c.arg), inject_agent_fault(2, c.arg)}
    BY <1>5
  <2>3. QED
    BY <2>1, <2>2
<1>6. CASE c.op \in {"db-limit", "db-restore", "db-unlock"}
  BY <1>6
<1>7. CASE c.op \in {"storage-umount", "storage-ro", "storage-rw", "storage-fill", "storage-clean"}
  <2>1. CsScript(c) = <<Do(c.op, None)>>
    BY <1>7
  <2>2. QED
    BY <1>7, <2>1, BareStep
<1>8. CASE c.op = "cpu-stress"
  BY <1>8
<1>9. CASE c.op \in {"mem-stress", "mem-stress-clear"}
  BY <1>9
<1>10. CASE c.op \in {"vm-create-fail", "vm-migrate-fail", "vm-op-clear"}
  <2>1. CsScript(c) \in {inject_vm_operation_fault(type) : type \in 1 .. 3}
    BY <1>10
  <2>2. QED
    BY <2>1
<1>11. CASE c.op \notin {"crash", "hang", "resume", "sysvm-crash", "sysvm-hang", "sysvm-resume",
           "api-delay", "api-delay-clear", "network", "network-clear", "agent-disconnect",
           "agent-reconnect", "db-limit", "db-restore", "db-unlock", "storage-umount", "storage-ro",
           "storage-rw", "storage-fill", "storage-clean", "cpu-stress", "mem-stress",
           "mem-stress-clear", "vm-create-fail", "vm-migrate-fail", "vm-op-clear"}
  <2>1. CsScript(c) = <<>>
    BY <1>11
  <2>2. QED
    BY <2>1
<1>12. QED
  BY <1>1, <1>2, <1>3, <1>4, <1>5, <1>6, <1>7, <1>8, <1>9, <1>10, <1>11

LEMMA NetworkInjectorOK ==
    \A kind \in {"none", "delay", "delay-loss", "loss"} : network_injector(kind) \in Seq(Steps)
<1>1. <<Do("qdisc-del", None), Do("flush", "OUTPUT")>> \in Seq(Steps)
  BY BareStep, FlushStep, Lists
<1>2. \A kind \in {"delay", "delay-loss", "loss"} : <<Do("netem", kind)>> \in Seq(Steps)
  BY ShapeStep, Lists
<1>3. QED
  BY <1>1, <1>2, Lists DEF network_injector

LEMMA HadoopInjectorOK ==
    \A op \in Signals, comp \in Components : hadoop_injector(op, comp) \in Seq(Steps)
BY SignalStep, Lists DEF hadoop_injector

LEMMA ClearAllOK == ClearAll \in Seq(Steps)
<1>1. "resume" \in Signals /\ {"nn", "dn", "rm", "nm"} \subseteq Components
  BY DEF Signals, Components
<1>2. network_injector("none") \in Seq(Steps)
  BY NetworkInjectorOK
<1>3. <<Do("flush", "INPUT"), Do("flush", "OUTPUT")>> \in Seq(Steps)
  BY FlushStep, Lists
<1>4. \A comp \in {"nn", "dn", "rm", "nm"} : hadoop_injector("resume", comp) \in Seq(Steps)
  BY <1>1, HadoopInjectorOK
<1>5. <<Do("resume", "ms"), Do("resume", "agent")>> \in Seq(Steps)
  BY <1>1, ServiceStep, Lists DEF Services
<1>6. inject_api_fault(0) \in Seq(Steps) /\ inject_db_fault(151) \in Seq(Steps)
  BY FunctionsOfTheInjector
<1>7. QED
  BY <1>2, <1>3, <1>4, <1>5, <1>6, Lists DEF ClearAll

LEMMA CascadeOK == Cascade \in Seq(Steps)
<1>1. hadoop_injector("hang", "dn") \in Seq(Steps) /\ hadoop_injector("resume", "dn") \in Seq(Steps)
  BY HadoopInjectorOK DEF Signals, Components
<1>2. network_injector("none") \in Seq(Steps) /\ network_injector("delay") \in Seq(Steps)
  BY NetworkInjectorOK
<1>3. QED
  BY <1>1, <1>2, Lists DEF Cascade

LEMMA MenuScriptOK ==
    ASSUME NEW c \in Menu
    PROVE  MenuScript(c) \in Scripts
<1>0. c.arg \in MenuArgument(c.op) /\ c.port \in Ports
  BY CommandLines
<1>1. CASE c.op = "qemu"
  <2>1. MenuScript(c) = <<Do("qemu", c.arg)>>
    BY <1>1 DEF MenuScript
  <2>2. c.arg \in Signals
    BY <1>0, <1>1 DEF MenuArgument
  <2>3. QED
    BY <2>1, <2>2, SignalStep, Lists DEF Scripts
<1>2. CASE c.op = "vm-network"
  <2>1. MenuScript(c) = network_injector(c.arg)
    BY <1>2 DEF MenuScript
  <2>2. c.arg \in {"none", "delay", "loss"}
    BY <1>0, <1>2 DEF MenuArgument
  <2>3. QED
    BY <2>1, <2>2, NetworkInjectorOK DEF Scripts
<1>3. CASE c.op \in {"hadoop-crash", "hadoop-hang", "hadoop-resume"}
  <2>1. \/ MenuScript(c) = hadoop_injector("crash", c.arg)
        \/ MenuScript(c) = hadoop_injector("hang", c.arg)
        \/ MenuScript(c) = hadoop_injector("resume", c.arg)
    BY <1>3 DEF MenuScript
  <2>2. c.arg \in Components
    BY <1>0, <1>3 DEF MenuArgument
  <2>3. QED
    BY <2>1, <2>2, HadoopInjectorOK DEF Scripts, Signals
<1>4. CASE c.op = "hdfs-safe"
  <2>1. MenuScript(c) = <<Do("safemode", c.arg)>>
    BY <1>4 DEF MenuScript
  <2>2. c.arg \in {"enter", "leave"}
    BY <1>0, <1>4 DEF MenuArgument
  <2>3. QED
    BY <2>1, <2>2, MasterStep, Lists DEF Scripts
<1>5. CASE c.op \in {"hadoop-network", "hadoop-network-clear", "partition"}
  <2>1. MenuScript(c) = <<>>
    BY <1>5 DEF MenuScript
  <2>2. QED
    BY <2>1, Lists DEF Scripts
<1>6. CASE c.op = "cascade"
  <2>1. MenuScript(c) = Cascade
    BY <1>6 DEF MenuScript
  <2>2. QED
    BY <2>1, CascadeOK DEF Scripts
<1>7. CASE c.op = "exhaust"
  <2>1. MenuScript(c) = inject_cs_cpu_stress
    BY <1>7 DEF MenuScript
  <2>2. QED
    BY <2>1 DEF Scripts
<1>8. CASE c.op = "recover-all"
  <2>1. MenuScript(c) = ClearAll
    BY <1>8 DEF MenuScript
  <2>2. QED
    BY <2>1, ClearAllOK DEF Scripts
<1>9. CASE c.op \notin {"qemu", "vm-network", "hadoop-crash", "hadoop-hang", "hadoop-resume",
          "hdfs-safe", "hadoop-network", "hadoop-network-clear", "partition", "cascade",
          "exhaust", "recover-all"}
  <2>1. MenuScript(c) = CsScript(c)
    BY <1>9 DEF MenuScript
  <2>2. c.arg \in CsArgument(c.op)
    BY <1>0, <1>9 DEF MenuArgument
  <2>3. QED
    BY <1>0, <2>1, <2>2, CsScriptOK
<1>10. QED
  BY <1>1, <1>2, <1>3, <1>4, <1>5, <1>6, <1>7, <1>8, <1>9

LEMMA ManageScriptOK ==
    ASSUME NEW c \in Commands
    PROVE  ManageScript(c) \in Scripts
<1>0. c.arg \in ManageArgument(c.op) /\ c.port \in Ports
  BY CommandLines
<1>1. CASE c.op \in {"inject-network", "clear-network"}
  <2>1. c.arg \in Addresses \cup {None}
    BY <1>0, <1>1 DEF ManageArgument
  <2>2. \/ ManageScript(c) = inject_cs_network_fault(c.arg, 0, 1)
        \/ ManageScript(c) = inject_cs_network_fault(c.arg, 0, 0)
        \/ ManageScript(c) = <<Do("flush", "INPUT"), Do("flush", "OUTPUT")>>
    BY <1>1 DEF ManageScript
  <2>3. <<Do("flush", "INPUT"), Do("flush", "OUTPUT")>> \in Seq(Steps)
    BY FlushStep, Lists
  <2>4. 0 \in Ports
    BY DEF Ports
  <2>5. /\ inject_cs_network_fault(c.arg, 0, 1) \in Seq(Steps)
        /\ inject_cs_network_fault(c.arg, 0, 0) \in Seq(Steps)
    BY <2>1, <2>4, FunctionsOfTheInjector
  <2>6. QED
    BY <2>2, <2>3, <2>5 DEF Scripts
<1>2. CASE c.op \in {"inject-delay", "clear-delay"}
  <2>1. \/ ManageScript(c) = <<Do("qdisc-del", None), Do("netem", "delay")>>
        \/ ManageScript(c) = <<Do("qdisc-del", None)>>
    BY <1>2 DEF ManageScript
  <2>2. Do("qdisc-del", None) \in Steps /\ Do("netem", "delay") \in Steps
    BY BareStep, ShapeStep
  <2>3. QED
    BY <2>1, <2>2, Lists DEF Scripts
<1>3. CASE c.op \in {"inject-crash", "inject-hang", "resume-process"}
  <2>1. \/ ManageScript(c) = <<Do("manage", <<"crash", c.arg>>)>>
        \/ ManageScript(c) = <<Do("manage", <<"hang", c.arg>>)>>
        \/ ManageScript(c) = <<Do("manage", <<"resume", c.arg>>)>>
    BY <1>3 DEF ManageScript
  <2>2. c.arg \in Places
    BY <1>0, <1>3 DEF ManageArgument, Places
  <2>3. \A op \in Signals : <<Do("manage", <<op, c.arg>>)>> \in Seq(Steps)
    BY <2>2, SignalStep, Lists
  <2>4. QED
    BY <2>1, <2>3 DEF Scripts, Signals
<1>4. CASE c.op \in {"start", "stop"}
  <2> DEFINE hdfs == {"nn", "snn", "dn"}
             yarn == {"rm", "nm"}
  <2>1. hdfs \in Groups /\ yarn \in Groups
    BY DEF Groups
  <2>2. \/ ManageScript(c) = <<Do("start", hdfs), Do("start", yarn)>>
        \/ ManageScript(c) = <<Do("stop", yarn), Do("stop", hdfs)>>
    BY <1>4 DEF ManageScript
  <2> HIDE DEF hdfs, yarn
  <2>3. \A op \in {"start", "stop"} : Do(op, hdfs) \in Steps /\ Do(op, yarn) \in Steps
    BY <2>1, MasterStep
  <2>4. QED
    BY <2>2, <2>3, Lists DEF Scripts
<1>5. CASE c.op \notin {"inject-network", "clear-network", "inject-delay", "clear-delay",
          "inject-crash", "inject-hang", "resume-process", "start", "stop"}
  <2>1. ManageScript(c) = CsScript(c)
    BY <1>5 DEF ManageScript
  <2>2. c.arg \in CsArgument(c.op)
    BY <1>0, <1>5 DEF ManageArgument
  <2>3. QED
    BY <1>0, <2>1, <2>2, CsScriptOK
<1>6. QED
  BY <1>1, <1>2, <1>3, <1>4, <1>5

(***************************************************************************)
(* 3. Types.                                                               *)
(***************************************************************************)

States == {"running", "stopped", "absent"}
Trees == [root : {"none", "prio", "netem"}, filter : BOOLEAN,
          kind : {"none", "delay", "delay-loss", "loss"}]
Guest == [name : SystemVMNames, paused : BOOLEAN]

\* The parts of TypeOK: the network, the host, the cluster and the runners.
QdiscOK == qdisc \in Trees
RulesOK == rules \in [Rules -> Nat]
ServicesOK == svc \in [Services -> States]
GuestsOK == vms \in Seq(Guest)
LimitOK == dbMax \in {5, 151}
StorageOK == mount \in {"rw", "ro", "gone"} /\ fill \subseteq {"export", "local"}
BallastOK == ballast \subseteq {"starting", "file"}
ClusterOK ==
    daemon \in [Daemons -> States] /\ qemu \in States /\ safemode \in BOOLEAN
WorldOK == QdiscOK /\ RulesOK /\ ServicesOK /\ GuestsOK /\ LimitOK /\ StorageOK
           /\ BallastOK /\ ClusterOK

\* A script that is left belongs to a command, and the CPU workers of a
\* runner run between the two steps of its stress only.
RunnersOK ==
    /\ running \in [Runners -> Menu \cup Commands \cup {None}]
    /\ todo \in [Runners -> Scripts]
    /\ \A r \in Runners : todo[r] # <<>> => ~Idle(r)
    /\ burning \subseteq Runners /\ \A r \in burning : todo[r] = Cooling
    /\ left \in 0 .. MaxRuns /\ alone \in [Runners -> BOOLEAN]

TypeInv == WorldOK /\ RunnersOK

LEMMA CoolingLemma ==
    Cooling # <<>> /\ inject_cs_cpu_stress # <<>>
    /\ Tail(inject_cs_cpu_stress) = Cooling /\ Tail(Cooling) = <<>>
    /\ Head(Cooling).op = "cool"
<1> DEFINE a == Do("burn", None)
           b == Do("cool", None)
<1>1. b.op = "cool"
  BY DoFields
<1> HIDE DEF a, b
<1>2. Cooling = <<b>> /\ inject_cs_cpu_stress = <<a, b>>
  BY DEF Cooling, inject_cs_cpu_stress, a, b
<1>3. QED
  BY <1>1, <1>2

LEMMA TypeInvImplies == TypeInv => TypeOK
<1> SUFFICES ASSUME TypeInv PROVE TypeOK
  OBVIOUS
<1>1. burning \subseteq {r \in Runners : ~Idle(r)}
  BY CoolingLemma DEF TypeInv, RunnersOK
<1>2. CsTypeOK
  BY <1>1 DEF TypeInv, WorldOK, QdiscOK, Trees, RulesOK, ServicesOK, GuestsOK, LimitOK,
              StorageOK, BallastOK, RunnersOK, States, Guest, CsTypeOK
<1>3. QED
  BY <1>2 DEF TypeInv, WorldOK, ClusterOK, States, TypeOK

LEMMA InitType == Init => TypeInv
<1> SUFFICES ASSUME Init PROVE TypeInv
  OBVIOUS
<1>1. QdiscOK /\ RulesOK /\ LimitOK /\ StorageOK /\ BallastOK
  BY DEF Init, CsInit, QdiscOK, Trees, NoQdisc, RulesOK, LimitOK, StorageOK, BallastOK
<1>2. ServicesOK
  BY DEF Init, CsInit, ServicesOK, States
<1>3. GuestsOK
  <2>1. /\ Len(SystemVMs) \in Nat /\ DOMAIN SystemVMs = 1 .. Len(SystemVMs)
        /\ \A i \in DOMAIN SystemVMs : SystemVMs[i] \in SystemVMNames
    BY Bounds
  <2>2. vms \in [1 .. Len(SystemVMs) -> Guest]
    BY <2>1 DEF Init, CsInit, Guest
  <2>3. QED
    BY <2>1, <2>2 DEF GuestsOK
<1>4. ClusterOK
  BY DEF Init, ClusterOK, States
<1>5. <<>> \in Scripts
  BY Lists DEF Scripts
<1>6. RunnersOK
  BY <1>5, Bounds DEF Init, CsInit, RunnersOK, Idle
<1>7. QED
  BY <1>1, <1>2, <1>3, <1>4, <1>6 DEF TypeInv, WorldOK

\* What a step of a script does to the runners.
Advances(r) ==
    /\ r \in Runners /\ todo[r] # <<>> /\ UNCHANGED cliVars
    /\ \/ todo' = [todo EXCEPT ![r] = Tail(todo[r])]
       \/ /\ Head(todo[r]).op = "filter"
          /\ todo' = [todo EXCEPT ![r] = <<Do("netem", "delay")>> \o Tail(todo[r])]
    /\ \/ UNCHANGED burning
       \/ Head(todo[r]).op = "burn" /\ burning' = burning \cup {r}
       \/ Head(todo[r]).op = "cool" /\ burning' = burning \ {r}
    /\ Head(todo[r]).op = "cool" => burning' = burning \ {r}

LEMMA ShellAdvances ==
    ASSUME NEW r \in Runners, ShellStep(r)
    PROVE  Advances(r)
<1> USE DEF Exec, Pop, Advances, hostVars
<1>1. CASE QdiscDel(r)
  BY <1>1 DEF QdiscDel
<1>2. CASE QdiscNetem(r)
  BY <1>2 DEF QdiscNetem
<1>3. CASE QdiscPrio(r)
  BY <1>3 DEF QdiscPrio
<1>4. CASE QdiscChild(r)
  BY <1>4 DEF QdiscChild
<1>5. CASE FilterAdd(r)
  BY <1>5 DEF FilterAdd
<1>6. CASE AddRule(r)
  BY <1>6 DEF AddRule
<1>7. CASE DeleteRule(r)
  BY <1>7 DEF DeleteRule
<1>8. CASE Flush(r)
  BY <1>8 DEF Flush
<1>9. CASE SignalService(r)
  BY <1>9 DEF SignalService
<1>10. CASE Virsh(r)
  BY <1>10 DEF Virsh
<1>11. CASE Sql(r)
  BY <1>11 DEF Sql
<1>12. CASE Storage(r)
  BY <1>12 DEF Storage
<1>13. CASE StartBallast(r)
  BY <1>13 DEF StartBallast
<1>14. CASE RemoveBallast(r)
  BY <1>14 DEF RemoveBallast
<1>15. CASE Burn(r)
  BY <1>15 DEF Burn
<1>16. CASE Cool(r)
  BY <1>16 DEF Cool
<1>17. QED
  BY <1>1, <1>2, <1>3, <1>4, <1>5, <1>6, <1>7, <1>8, <1>9, <1>10, <1>11, <1>12, <1>13,
     <1>14, <1>15, <1>16 DEF ShellStep

LEMMA ToolAdvances ==
    ASSUME NEW r \in Runners, ToolStep(r)
    PROVE  Advances(r)
<1> USE DEF Exec, Pop, Advances, hostVars
<1>1. CASE HadoopSignal(r)
  BY <1>1 DEF HadoopSignal
<1>2. CASE ManageSignal(r)
  BY <1>2 DEF ManageSignal
<1>3. CASE StartStop(r)
  BY <1>3 DEF StartStop
<1>4. CASE Safemode(r)
  BY <1>4 DEF Safemode
<1>5. CASE SignalQemu(r)
  BY <1>5 DEF SignalQemu
<1>6. QED
  BY <1>1, <1>2, <1>3, <1>4, <1>5 DEF ToolStep

\* The first step of a runner that advances.
LEMMA HeadOK ==
    ASSUME TypeInv, NEW r \in Runners, todo[r] # <<>>
    PROVE  /\ todo[r] \in Scripts
           /\ Head(todo[r]).op \notin {"burn", "cool"} => Typed(Head(todo[r]))
           /\ Tail(todo[r]) \in Scripts
           /\ Head(todo[r]).op = "filter" => <<Do("netem", "delay")>> \o Tail(todo[r]) \in Seq(Steps)
<1>1. todo[r] \in Scripts
  BY DEF TypeInv, RunnersOK
<1>2. <<Do("netem", "delay")>> \in Seq(Steps)
  BY ShapeStep, Lists
<1>3. ASSUME Head(todo[r]).op = "filter"
      PROVE  <<Do("netem", "delay")>> \o Tail(todo[r]) \in Seq(Steps)
  <2>1. Tail(todo[r]) \in Seq(Steps)
    BY <1>1, <1>3, ScriptHead
  <2>2. QED
    BY <1>2, <2>1, Lists
<1>4. QED
  BY <1>1, <1>3, ScriptHead

LEMMA AdvancesOK ==
    ASSUME TypeInv, NEW r \in Runners, Advances(r)
    PROVE  RunnersOK'
<1> USE DEF Advances, cliVars
<1>1. todo[r] # <<>> /\ running' = running /\ left' = left /\ alone' = alone
  OBVIOUS
<1>2. todo' \in [Runners -> Scripts]
  BY <1>1, HeadOK DEF TypeInv, RunnersOK, Scripts
<1>3. \A q \in Runners : todo'[q] # <<>> => ~Idle(q)'
  BY <1>1 DEF TypeInv, RunnersOK, Idle
<1>4. burning' \subseteq Runners
  BY DEF TypeInv, RunnersOK
<1>5. ASSUME NEW q \in burning' PROVE todo'[q] = Cooling
  <2>1. q \in Runners /\ todo \in [Runners -> Scripts]
    BY <1>4, <1>5 DEF TypeInv, RunnersOK
  <2>2. CASE q # r
    <3>1. q \in burning
      BY <1>5, <2>2
    <3>2. todo'[q] = todo[q]
      BY <2>1, <2>2
    <3>3. QED
      BY <3>1, <3>2 DEF TypeInv, RunnersOK
  <2>3. CASE q = r
    <3>1. Head(todo[r]).op = "burn"
      <4>1. r \in burning => Head(todo[r]).op = "cool"
        BY CoolingLemma DEF TypeInv, RunnersOK
      <4>2. Head(todo[r]).op # "cool"
        BY <1>5, <2>3
      <4>3. r \notin burning
        BY <4>1, <4>2
      <4>4. QED
        BY <1>5, <2>3, <4>3
    <3>2. todo'[r] = Tail(todo[r])
      BY <2>1, <3>1
    <3>3. QED
      BY <1>1, <2>1, <2>3, <3>1, <3>2, ScriptHead
  <2>4. QED
    BY <2>2, <2>3
<1>6. QED
  BY <1>1, <1>2, <1>3, <1>4, <1>5 DEF TypeInv, RunnersOK

LEMMA TreeLemma ==
    /\ NoQdisc \in Trees
    /\ \A kind \in {"delay", "delay-loss", "loss"} :
           [NoQdisc EXCEPT !.root = "netem", !.kind = kind] \in Trees
    /\ [NoQdisc EXCEPT !.root = "prio"] \in Trees
    /\ \A tree \in Trees, kind \in {"delay", "delay-loss", "loss"} :
           [tree EXCEPT !.kind = kind] \in Trees
    /\ \A tree \in Trees : [tree EXCEPT !.filter = TRUE] \in Trees
<1>1. NoQdisc \in Trees
  BY DEF NoQdisc, Trees
<1>2. \A kind \in {"delay", "delay-loss", "loss"} :
          [NoQdisc EXCEPT !.root = "netem", !.kind = kind] \in Trees
  BY DEF NoQdisc, Trees
<1>3. [NoQdisc EXCEPT !.root = "prio"] \in Trees
  BY DEF NoQdisc, Trees
<1>4. \A tree \in Trees, kind \in {"delay", "delay-loss", "loss"} :
          [tree EXCEPT !.kind = kind] \in Trees
  BY DEF Trees
<1>5. \A tree \in Trees : [tree EXCEPT !.filter = TRUE] \in Trees
  BY DEF Trees
<1>6. QED
  BY <1>1, <1>2, <1>3, <1>4, <1>5

LEMMA ShellWorld ==
    ASSUME TypeInv, NEW r \in Runners, ShellStep(r), UNCHANGED clusterVars
    PROVE  WorldOK'
<1> DEFINE e == Head(todo[r])
<1>1. todo[r] # <<>> /\ (e.op \notin {"burn", "cool"} => Typed(e))
  BY ShellAdvances, HeadOK DEF Advances
<1>2. ClusterOK'
  BY DEF TypeInv, WorldOK, ClusterOK, clusterVars
<1> HIDE DEF e
<1> USE <1>1, <1>2 DEF TypeInv, WorldOK, Exec, hostVars, What
<1>3. CASE QdiscDel(r)
  BY <1>3, TreeLemma, SMT DEF QdiscDel, QdiscOK, RulesOK, ServicesOK, GuestsOK, LimitOK, StorageOK, BallastOK
<1>4. CASE QdiscNetem(r)
  <2>1. What(r) \in {"delay", "delay-loss", "loss"}
    BY <1>4, SMT DEF QdiscNetem, Typed, e
  <2>2. QdiscOK'
    BY <1>4, <2>1, TreeLemma DEF QdiscNetem, QdiscOK
  <2>3. QED
    BY <1>4, <2>2, SMT DEF QdiscNetem, RulesOK, ServicesOK, GuestsOK, LimitOK, StorageOK, BallastOK
<1>5. CASE QdiscPrio(r)
  <2>1. QdiscOK'
    BY <1>5, TreeLemma DEF QdiscPrio, QdiscOK
  <2>2. QED
    BY <1>5, <2>1, SMT DEF QdiscPrio, RulesOK, ServicesOK, GuestsOK, LimitOK, StorageOK, BallastOK
<1>6. CASE QdiscChild(r)
  <2>1. What(r) \in {"delay", "delay-loss", "loss"}
    BY <1>6, SMT DEF QdiscChild, Typed, e
  <2>2. QdiscOK'
    BY <1>6, <2>1, TreeLemma DEF QdiscChild, QdiscOK
  <2>3. QED
    BY <1>6, <2>2, SMT DEF QdiscChild, RulesOK, ServicesOK, GuestsOK, LimitOK, StorageOK, BallastOK
<1>7. CASE FilterAdd(r)
  <2>1. QdiscOK'
    BY <1>7, TreeLemma DEF FilterAdd, QdiscOK
  <2>2. QED
    BY <1>7, <2>1, SMT DEF FilterAdd, RulesOK, ServicesOK, GuestsOK, LimitOK, StorageOK, BallastOK
<1>8. CASE AddRule(r)
  <2>1. What(r) \in Rules
    BY <1>8, SMT DEF AddRule, Typed, e
  <2>2. RulesOK'
    BY <1>8, <2>1, SMT DEF AddRule, RulesOK
  <2>3. QED
    BY <1>8, <2>2, SMT DEF AddRule, QdiscOK, ServicesOK, GuestsOK, LimitOK, StorageOK, BallastOK
<1>9. CASE DeleteRule(r)
  <2>1. What(r) \in Rules
    BY <1>9, SMT DEF DeleteRule, Typed, e
  <2>2. RulesOK'
    BY <1>9, <2>1, SMT DEF DeleteRule, RulesOK
  <2>3. QED
    BY <1>9, <2>2, SMT DEF DeleteRule, QdiscOK, ServicesOK, GuestsOK, LimitOK, StorageOK, BallastOK
<1>10. CASE Flush(r)
  <2>1. RulesOK'
    BY <1>10, SMT DEF Flush, RulesOK
  <2>2. QED
    BY <1>10, <2>1, SMT DEF Flush, QdiscOK, ServicesOK, GuestsOK, LimitOK, StorageOK, BallastOK
<1>11. CASE SignalService(r)
  <2>1. ServicesOK'
    <3>1. PICK op \in {"crash", "hang", "resume"} :
              svc' = [svc EXCEPT ![What(r)] =
                          IF @ = "absent" THEN @
                          ELSE CASE op = "crash"  -> "absent"
                                 [] op = "hang"   -> "stopped"
                                 [] op = "resume" -> "running"]
      BY <1>11 DEF SignalService
    <3>2. \/ svc' = [svc EXCEPT ![What(r)] = IF @ = "absent" THEN @ ELSE "absent"]
          \/ svc' = [svc EXCEPT ![What(r)] = IF @ = "absent" THEN @ ELSE "stopped"]
          \/ svc' = [svc EXCEPT ![What(r)] = IF @ = "absent" THEN @ ELSE "running"]
      BY <3>1
    <3>3. QED
      BY <3>2, SMT DEF ServicesOK, States
  <2>2. QED
    BY <1>11, <2>1, SMT DEF SignalService, netVars, QdiscOK, RulesOK, GuestsOK, LimitOK, StorageOK, BallastOK
<1>12. CASE Virsh(r)
  <2>1. GuestsOK'
    <3>1. CASE vms' = vms
      BY <3>1 DEF GuestsOK
    <3>2. CASE vms # <<>> /\ vms' = Tail(vms)
      BY <3>2 DEF GuestsOK
    <3>3. CASE vms # <<>> /\ vms' = [vms EXCEPT ![1].paused = (What(r) = "sysvm-hang")]
      <4>1. 1 \in DOMAIN vms /\ vms[1] \in Guest
        BY <3>3 DEF GuestsOK
      <4>2. [vms[1] EXCEPT !.paused = (What(r) = "sysvm-hang")] \in Guest
        BY <4>1 DEF Guest
      <4>3. vms' = [vms EXCEPT ![1] = [vms[1] EXCEPT !.paused = (What(r) = "sysvm-hang")]]
        BY <3>3
      <4>4. QED
        BY <4>1, <4>2, <4>3 DEF GuestsOK
    <3>4. QED
      BY <1>12, <3>1, <3>2, <3>3 DEF Virsh
  <2>2. QED
    BY <1>12, <2>1, SMT DEF Virsh, netVars, QdiscOK, RulesOK, ServicesOK, LimitOK, StorageOK, BallastOK
<1>13. CASE Sql(r)
  <2>1. What(r) \in {0, 5, 151}
    BY <1>13, SMT DEF Sql, Typed, e
  <2>2. LimitOK'
    BY <1>13, <2>1, SMT DEF Sql, LimitOK
  <2>3. QED
    BY <1>13, <2>2, SMT DEF Sql, netVars, QdiscOK, RulesOK, ServicesOK, GuestsOK, StorageOK, BallastOK
<1>14. CASE Storage(r)
  <2>1. StorageOK'
    BY <1>14, SMT DEF Storage, StorageOK
  <2>2. QED
    BY <1>14, <2>1, SMT DEF Storage, netVars, QdiscOK, RulesOK, ServicesOK, GuestsOK, LimitOK, BallastOK
<1>15. CASE StartBallast(r)
  <2>1. BallastOK'
    BY <1>15, SMT DEF StartBallast, BallastOK
  <2>2. QED
    BY <1>15, <2>1, SMT DEF StartBallast, netVars, QdiscOK, RulesOK, ServicesOK, GuestsOK, LimitOK, StorageOK
<1>16. CASE RemoveBallast(r)
  <2>1. BallastOK'
    BY <1>16, SMT DEF RemoveBallast, BallastOK
  <2>2. QED
    BY <1>16, <2>1, SMT DEF RemoveBallast, netVars, QdiscOK, RulesOK, ServicesOK, GuestsOK, LimitOK, StorageOK
<1>17. CASE Burn(r)
  BY <1>17, SMT DEF Burn, netVars, QdiscOK, RulesOK, ServicesOK, GuestsOK, LimitOK, StorageOK, BallastOK
<1>18. CASE Cool(r)
  BY <1>18, SMT DEF Cool, netVars, QdiscOK, RulesOK, ServicesOK, GuestsOK, LimitOK, StorageOK, BallastOK
<1>19. QED
  BY <1>3, <1>4, <1>5, <1>6, <1>7, <1>8, <1>9, <1>10, <1>11, <1>12, <1>13,
     <1>14, <1>15, <1>16, <1>17, <1>18 DEF ShellStep

LEMMA AfterOK == \A op \in Signals, state \in States : After(op, state) \in States
BY DEF Signals, States, After

LEMMA ToolWorld ==
    ASSUME TypeInv, NEW r \in Runners, ToolStep(r)
    PROVE  WorldOK'
<1> DEFINE e == Head(todo[r])
<1>1. todo[r] # <<>> /\ (e.op \notin {"burn", "cool"} => Typed(e))
  BY ToolAdvances, HeadOK DEF Advances
<1> HIDE DEF e
<1>2. UNCHANGED <<netVars, hostVars>>
  BY DEF ToolStep, HadoopSignal, ManageSignal, StartStop, Safemode, SignalQemu
<1>3. QdiscOK' /\ RulesOK' /\ ServicesOK' /\ GuestsOK' /\ LimitOK' /\ StorageOK' /\ BallastOK'
  BY <1>2, SMT DEF TypeInv, WorldOK, netVars, hostVars, QdiscOK, RulesOK, ServicesOK, GuestsOK,
                   LimitOK, StorageOK, BallastOK
<1>4. ASSUME HadoopSignal(r) PROVE ClusterOK'
  <2>1. What(r)[1] \in Signals
    BY <1>1, <1>4, SMT DEF HadoopSignal, Exec, What, Typed, e
  <2>2. \A d \in Daemons : After(What(r)[1], daemon[d]) \in States
    BY <2>1, AfterOK DEF TypeInv, WorldOK, ClusterOK
  <2>3. QED
    BY <1>4, <2>2 DEF TypeInv, WorldOK, HadoopSignal, ClusterOK
<1>5. ASSUME ManageSignal(r) PROVE ClusterOK'
  <2>1. What(r)[1] \in Signals
    BY <1>1, <1>5, SMT DEF ManageSignal, Exec, What, Typed, e
  <2>2. \A d \in Daemons : After(What(r)[1], daemon[d]) \in States
    BY <2>1, AfterOK DEF TypeInv, WorldOK, ClusterOK
  <2>3. \/ UNCHANGED daemon
        \/ \E d \in Daemons : daemon' = [daemon EXCEPT ![d] = After(What(r)[1], @)]
    BY <1>5 DEF ManageSignal
  <2>4. daemon' \in [Daemons -> States]
    BY <2>2, <2>3 DEF TypeInv, WorldOK, ClusterOK
  <2>5. QED
    BY <1>5, <2>4 DEF TypeInv, WorldOK, ManageSignal, ClusterOK
<1>6. ASSUME StartStop(r) PROVE ClusterOK'
  <2>1. daemon' \in [Daemons -> States]
    BY <1>6 DEF TypeInv, WorldOK, StartStop, ClusterOK, States
  <2>2. safemode' \in BOOLEAN
    BY <1>6 DEF TypeInv, WorldOK, StartStop, ClusterOK
  <2>3. QED
    BY <1>6, <2>1, <2>2 DEF TypeInv, WorldOK, StartStop, ClusterOK
<1>7. ASSUME Safemode(r) PROVE ClusterOK'
  <2>1. safemode' \in BOOLEAN
    BY <1>7 DEF TypeInv, WorldOK, Safemode, ClusterOK
  <2>2. QED
    BY <1>7, <2>1 DEF TypeInv, WorldOK, Safemode, ClusterOK
<1>8. ASSUME SignalQemu(r) PROVE ClusterOK'
  <2>1. What(r) \in Signals
    BY <1>1, <1>8, SMT DEF SignalQemu, Exec, What, Typed, e
  <2>2. After(What(r), qemu) \in States
    BY <2>1, AfterOK DEF TypeInv, WorldOK, ClusterOK
  <2>3. QED
    BY <1>8, <2>2 DEF TypeInv, WorldOK, SignalQemu, ClusterOK
<1>9. ClusterOK'
  BY <1>4, <1>5, <1>6, <1>7, <1>8 DEF ToolStep
<1>10. QED
  BY <1>3, <1>9 DEF WorldOK

\* A command is entered, or it ends.
Enters(r, c) ==
    \/ r = Controller /\ c \in Menu /\ Begin(r, c, MenuScript(c))
    \/ r # Controller /\ c \in Commands /\ Begin(r, c, ManageScript(c))

LEMMA BeginOK ==
    ASSUME TypeInv, NEW r \in Runners, NEW c \in Menu \cup Commands, NEW script \in Scripts,
           Begin(r, c, script), UNCHANGED clusterVars
    PROVE  TypeInv'
<1> USE DEF TypeInv, Begin
<1>1. WorldOK'
  BY SMT DEF WorldOK, netVars, hostVars, clusterVars, QdiscOK, RulesOK, ServicesOK, GuestsOK,
             LimitOK, StorageOK, BallastOK, ClusterOK
<1>2. c # None
  BY CommandLines
<1>3. running' \in [Runners -> Menu \cup Commands \cup {None}] /\ todo' \in [Runners -> Scripts]
  BY DEF RunnersOK
<1>4. \A q \in Runners : todo'[q] # <<>> => ~Idle(q)'
  BY <1>2 DEF RunnersOK, Idle
<1>5. r \notin burning
  BY CoolingLemma DEF RunnersOK
<1>6. burning' \subseteq Runners /\ \A q \in burning' : todo'[q] = Cooling
  BY <1>5 DEF RunnersOK, hostVars
<1>7. left' \in 0 .. MaxRuns
  BY Bounds DEF RunnersOK
<1>8. alone' \in [Runners -> BOOLEAN]
  OBVIOUS
<1>9. QED
  BY <1>1, <1>3, <1>4, <1>6, <1>7, <1>8 DEF RunnersOK

LEMMA EntersOK ==
    ASSUME TypeInv, NEW r \in Runners, NEW c, Enters(r, c), UNCHANGED clusterVars
    PROVE  TypeInv'
BY BeginOK, MenuScriptOK, ManageScriptOK DEF Enters

LEMMA FinishOK ==
    ASSUME TypeInv, NEW r \in Runners, Finish(r), UNCHANGED clusterVars
    PROVE  TypeInv'
<1> USE DEF TypeInv, Finish, Done
<1>1. WorldOK'
  BY SMT DEF WorldOK, netVars, hostVars, clusterVars, QdiscOK, RulesOK, ServicesOK, GuestsOK,
             LimitOK, StorageOK, BallastOK, ClusterOK
<1>2. RunnersOK'
  BY DEF RunnersOK, Idle, hostVars
<1>3. QED
  BY <1>1, <1>2

LEMMA EnvironmentOK ==
    ASSUME TypeInv, CsEnvironment, UNCHANGED clusterVars
    PROVE  TypeInv'
<1> USE DEF TypeInv
<1>1. UNCHANGED <<netVars, cliVars, todo, vms, mount, fill, burning, clusterVars>>
  BY DEF CsEnvironment, OpenBallast, RestartService
<1>2. RunnersOK'
  BY <1>1 DEF RunnersOK, Idle, cliVars
<1>3. QdiscOK' /\ RulesOK' /\ GuestsOK' /\ StorageOK' /\ ClusterOK'
  BY <1>1, SMT DEF WorldOK, netVars, clusterVars, QdiscOK, RulesOK, GuestsOK, StorageOK, ClusterOK
<1>4. ServicesOK' /\ LimitOK' /\ BallastOK'
  <2>1. CASE OpenBallast
    BY <2>1, SMT DEF OpenBallast, WorldOK, ServicesOK, LimitOK, BallastOK
  <2>2. CASE \E s \in Services : RestartService(s)
    BY <2>2, SMT DEF RestartService, WorldOK, ServicesOK, States, LimitOK, BallastOK
  <2>3. QED
    BY <2>1, <2>2 DEF CsEnvironment
<1>5. QED
  BY <1>2, <1>3, <1>4 DEF WorldOK

\* A step of the system, as the lemmas see it.
LEMMA NextSplit ==
    ASSUME Next
    PROVE  \/ \E r \in Runners : \E c \in Menu \cup Commands : Enters(r, c) /\ UNCHANGED clusterVars
           \/ \E r \in Runners : ShellStep(r) /\ UNCHANGED clusterVars
           \/ \E r \in Runners : ToolStep(r)
           \/ \E r \in Runners : Finish(r) /\ UNCHANGED clusterVars
           \/ CsEnvironment /\ UNCHANGED clusterVars
BY Cluster DEF Next, Choose, Enter, RunnerStep, Enters

LEMMA NextType ==
    ASSUME TypeInv, [Next]_vars
    PROVE  TypeInv'
<1>1. ASSUME NEW r \in Runners, ShellStep(r), UNCHANGED clusterVars PROVE TypeInv'
  <2>1. RunnersOK'
    BY <1>1, ShellAdvances, AdvancesOK
  <2>2. QED
    BY <1>1, <2>1, ShellWorld DEF TypeInv
<1>2. ASSUME NEW r \in Runners, ToolStep(r) PROVE TypeInv'
  <2>1. RunnersOK'
    BY <1>2, ToolAdvances, AdvancesOK
  <2>2. QED
    BY <1>2, <2>1, ToolWorld DEF TypeInv
<1>3. CASE UNCHANGED vars
  BY <1>3, SMT DEF vars, csVars, netVars, hostVars, cliVars, clusterVars, TypeInv, WorldOK, QdiscOK,
                RulesOK, ServicesOK, GuestsOK, LimitOK, StorageOK, BallastOK, ClusterOK, RunnersOK, Idle
<1>4. CASE Next
  BY <1>1, <1>2, <1>4, NextSplit, EntersOK, FinishOK, EnvironmentOK
<1>5. QED
  BY <1>3, <1>4

\* Every variable keeps its type: the packet filter never counts a rule below
\* zero, MySQL's limit is one of two, and CPU workers run only while the
\* command that started them does (the function that starts them joins them).
THEOREM Types == Spec => []TypeOK
<1>1. Spec => []TypeInv
  BY InitType, NextType, PTL DEF Spec
<1>2. QED
  BY <1>1, TypeInvImplies, PTL

(***************************************************************************)
(* 4. A runner that is alone.                                              *)
(***************************************************************************)

AloneOK == \A r, q \in Runners : alone[r] /\ q # r => Idle(q)

LEMMA InitAlone == Init => AloneOK
BY DEF Init, CsInit, AloneOK, Idle

LEMMA NextAlone ==
    ASSUME TypeInv, AloneOK, [Next]_vars
    PROVE  AloneOK'
<1>1. CASE UNCHANGED vars
  BY <1>1 DEF vars, csVars, cliVars, AloneOK, Idle
<1>2. CASE UNCHANGED cliVars
  BY <1>2 DEF cliVars, AloneOK, Idle
<1>3. ASSUME NEW r \in Runners, NEW c, Enters(r, c) PROVE AloneOK'
  <2>1. /\ alone' = [p \in Runners |-> p = r /\ \A x \in Runners : Idle(x)]
        /\ running' = [running EXCEPT ![r] = c]
    BY <1>3 DEF Enters, Begin
  <2>2. \A p \in Runners : alone'[p] => p = r /\ \A x \in Runners : Idle(x)
    BY <2>1
  <2>3. \A q \in Runners : q # r => running'[q] = running[q]
    BY <2>1 DEF TypeInv, RunnersOK
  <2>4. QED
    BY <2>2, <2>3 DEF AloneOK, Idle
<1>4. ASSUME NEW r \in Runners, Finish(r) PROVE AloneOK'
  BY <1>4 DEF TypeInv, RunnersOK, Finish, AloneOK, Idle
<1>5. CASE CsEnvironment
  BY <1>2, <1>5 DEF CsEnvironment, OpenBallast, RestartService
<1>6. ASSUME NEW r \in Runners, ShellStep(r) \/ ToolStep(r) PROVE AloneOK'
  BY <1>2, <1>6, ShellAdvances, ToolAdvances DEF Advances
<1>7. QED
  BY <1>1, <1>3, <1>4, <1>5, <1>6, NextSplit

\* What can happen to a runner that is alone and has not finished.
Alone(r) == ~Idle(r) /\ alone[r]
Acts(r) == (ShellStep(r) /\ UNCHANGED clusterVars) \/ ToolStep(r)
World == <<netVars, hostVars, clusterVars>>

LEMMA Followed ==
    ASSUME TypeInv, AloneOK, [Next]_vars, NEW r \in Runners, Alone(r)'
    PROVE  \/ /\ \E c : /\ Enters(r, c) /\ running'[r] = c
                        /\ todo'[r] = IF r = Controller THEN MenuScript(c) ELSE ManageScript(c)
              /\ UNCHANGED World
           \/ /\ Alone(r) /\ running'[r] = running[r]
              /\ Acts(r) /\ Advances(r)
           \/ /\ Alone(r) /\ running'[r] = running[r] /\ todo'[r] = todo[r]
              /\ CsEnvironment /\ UNCHANGED clusterVars
           \/ /\ Alone(r) /\ running'[r] = running[r] /\ todo'[r] = todo[r]
              /\ UNCHANGED World
<1>1. CASE UNCHANGED vars
  BY <1>1, SMT DEF vars, csVars, cliVars, World, Alone, Idle
<1>2. ASSUME NEW q \in Runners, NEW c, Enters(q, c), UNCHANGED clusterVars
      PROVE  /\ q = r /\ Enters(r, c) /\ running'[r] = c
             /\ todo'[r] = IF r = Controller THEN MenuScript(c) ELSE ManageScript(c)
             /\ UNCHANGED World
  <2>1. alone' = [p \in Runners |-> p = q /\ \A x \in Runners : Idle(x)]
    BY <1>2 DEF Enters, Begin
  <2>2. q = r
    BY <2>1 DEF Alone
  <2>3. running'[r] = c
    BY <1>2, <2>2 DEF Enters, Begin, TypeInv, RunnersOK
  <2>4. todo'[r] = IF r = Controller THEN MenuScript(c) ELSE ManageScript(c)
    BY <1>2, <2>2 DEF Enters, Begin, TypeInv, RunnersOK
  <2>5. UNCHANGED World
    BY <1>2 DEF Enters, Begin, World
  <2>6. QED
    BY <1>2, <2>2, <2>3, <2>4, <2>5
<1>3. ASSUME NEW q \in Runners, Finish(q) PROVE FALSE
  <2>1. q # r
    BY <1>3 DEF Finish, Alone, TypeInv, RunnersOK
  <2>2. alone[r] /\ ~Idle(q)
    BY <1>3, <2>1 DEF Finish, Done, Alone, TypeInv, RunnersOK
  <2>3. QED
    BY <2>1, <2>2 DEF AloneOK
<1>4. ASSUME NEW q \in Runners, Acts(q)
      PROVE  q = r /\ Alone(r) /\ running'[r] = running[r] /\ Acts(r) /\ Advances(r)
  <2>1. Advances(q)
    BY <1>4, ShellAdvances, ToolAdvances DEF Acts
  <2>2. running' = running /\ alone' = alone /\ ~Idle(q)
    BY <2>1 DEF Advances, cliVars, TypeInv, RunnersOK
  <2>3. Alone(r)
    BY <2>2 DEF Alone, Idle
  <2>4. q = r
    BY <2>2, <2>3 DEF AloneOK, Alone
  <2>5. QED
    BY <1>4, <2>1, <2>2, <2>3, <2>4
<1>5. ASSUME CsEnvironment
      PROVE  Alone(r) /\ running'[r] = running[r] /\ todo'[r] = todo[r]
  BY <1>5 DEF CsEnvironment, OpenBallast, RestartService, cliVars, Alone, Idle
<1>6. QED
  BY <1>1, <1>2, <1>3, <1>4, <1>5, NextSplit DEF Acts

\* Which action executes the first step, by its name.
LEMMA WhichStep ==
    ASSUME NEW r \in Runners, Acts(r), NEW op, op = Head(todo[r]).op
    PROVE  /\ op = "qdisc-del" => QdiscDel(r) /\ UNCHANGED clusterVars
           /\ op = "netem"     => QdiscNetem(r) /\ UNCHANGED clusterVars
           /\ op = "prio"      => QdiscPrio(r) /\ UNCHANGED clusterVars
           /\ op = "child"     => QdiscChild(r) /\ UNCHANGED clusterVars
           /\ op = "filter"    => FilterAdd(r) /\ UNCHANGED clusterVars
           /\ op = "append"    => AddRule(r) /\ UNCHANGED clusterVars
           /\ op = "flush"     => Flush(r) /\ UNCHANGED clusterVars
           /\ op = "resume"    => SignalService(r) /\ UNCHANGED clusterVars
           /\ op = "sql"       => Sql(r) /\ UNCHANGED clusterVars
           /\ op = "hadoop"    => HadoopSignal(r)
<1>1. /\ QdiscDel(r) => op = "qdisc-del"
      /\ QdiscNetem(r) => op = "netem"
      /\ QdiscPrio(r) => op = "prio"
      /\ QdiscChild(r) => op = "child"
      /\ FilterAdd(r) => op = "filter"
      /\ AddRule(r) => op = "append"
      /\ DeleteRule(r) => op = "delete"
      /\ Flush(r) => op = "flush"
  BY DEF QdiscDel, QdiscNetem, QdiscPrio, QdiscChild, FilterAdd, AddRule, DeleteRule, Flush, Exec
<1>2. /\ SignalService(r) => op \in {"crash", "hang", "resume"}
      /\ Virsh(r) => op = "virsh"
      /\ Sql(r) => op = "sql"
  BY DEF SignalService, Virsh, Sql, Exec
<1>3. Storage(r) => op \in {"storage-umount", "storage-ro", "storage-rw", "storage-fill",
                            "storage-clean"}
  BY DEF Storage, Exec
<1>4. /\ StartBallast(r) => op = "dd"
      /\ RemoveBallast(r) => op = "rm"
      /\ Burn(r) => op = "burn"
      /\ Cool(r) => op = "cool"
  BY DEF StartBallast, RemoveBallast, Burn, Cool, Exec
<1>5. /\ HadoopSignal(r) => op = "hadoop"
      /\ ManageSignal(r) => op = "manage"
      /\ StartStop(r) => op \in {"start", "stop"}
      /\ Safemode(r) => op = "safemode"
      /\ SignalQemu(r) => op = "qemu"
  BY DEF HadoopSignal, ManageSignal, StartStop, Safemode, SignalQemu, Exec
<1>6. QED
  BY <1>1, <1>2, <1>3, <1>4, <1>5 DEF Acts, ShellStep, ToolStep

(***************************************************************************)
(* 5. api-delay and network, each alone, are in effect when they report.   *)
(***************************************************************************)

LEMMA ApiScript ==
    /\ inject_api_fault(1) \in Seq(Steps) /\ Len(inject_api_fault(1)) = 4
    /\ inject_api_fault(1)[1] = Do("qdisc-del", None)
    /\ inject_api_fault(1)[2] = Do("prio", None)
    /\ inject_api_fault(1)[3] = Do("child", "delay")
    /\ inject_api_fault(1)[4] = Do("filter", None)
<1> DEFINE a == Do("qdisc-del", None)
           b == Do("prio", None)
           c == Do("child", "delay")
           d == Do("filter", None)
<1>1. a \in Steps /\ b \in Steps /\ c \in Steps /\ d \in Steps
  BY BareStep, ShapeStep
<1> HIDE DEF a, b, c, d
<1>2. inject_api_fault(1) = <<a>> \o <<b, c, d>>
  BY DEF inject_api_fault, a, b, c, d
<1>3. <<a>> \in Seq(Steps) /\ <<b, c, d>> \in Seq(Steps)
  BY <1>1, Lists
<1>4. Len(<<a>>) = 1 /\ <<a>>[1] = a /\ Len(<<b, c, d>>) = 3
      /\ <<b, c, d>>[1] = b /\ <<b, c, d>>[2] = c /\ <<b, c, d>>[3] = d
  OBVIOUS
<1> DEFINE u == <<a>>
           v == <<b, c, d>>
<1> HIDE DEF u, v
<1>5. u \in Seq(Steps) /\ v \in Seq(Steps) /\ Len(u) = 1 /\ Len(v) = 3 /\ u[1] = a
      /\ v[1] = b /\ v[2] = c /\ v[3] = d
  BY <1>3, <1>4 DEF u, v
<1>6. /\ u \o v \in Seq(Steps) /\ Len(u \o v) = 4
      /\ (u \o v)[1] = a /\ (u \o v)[2] = b /\ (u \o v)[3] = c /\ (u \o v)[4] = d
  <2>1. /\ u \o v \in Seq(Steps) /\ Len(u \o v) = 4
        /\ \A i \in 1 .. 1 : (u \o v)[i] = u[i]
        /\ \A i \in 1 .. 3 : (u \o v)[1 + i] = v[i]
    <3>0. u \in Seq(Steps) /\ v \in Seq(Steps)
      BY <1>5
    <3>1. /\ u \o v \in Seq(Steps) /\ Len(u \o v) = Len(u) + Len(v)
          /\ \A i \in 1 .. Len(u) : (u \o v)[i] = u[i]
          /\ \A i \in 1 .. Len(v) : (u \o v)[Len(u) + i] = v[i]
      BY <3>0, Glue
    <3>2. QED
      BY <1>5, <3>1
  <2>2. (u \o v)[1] = a
    BY <1>5, <2>1
  <2>3. (u \o v)[1 + 1] = b /\ (u \o v)[1 + 2] = c /\ (u \o v)[1 + 3] = d
    BY <1>5, <2>1
  <2>4. QED
    BY <2>1, <2>2, <2>3
<1>7. QED
  BY <1>2, <1>6 DEF a, b, c, d, u, v

\* What api-delay has achieved after n of its steps.
Shaping == [root |-> "prio", kind |-> "none", filter |-> FALSE]
Delaying == [root |-> "prio", kind |-> "delay", filter |-> FALSE]
Effective == [root |-> "prio", kind |-> "delay", filter |-> TRUE]
Shaped(n) ==
    /\ n = 1 => qdisc = NoQdisc
    /\ n = 2 => qdisc = Shaping
    /\ n = 3 => qdisc = Delaying
    /\ n = 4 => qdisc = Effective

ApiOK ==
    \A r \in Runners : Alone(r) /\ running[r].op = "api-delay" =>
        \E n \in 0 .. 4 : todo[r] = Rest(inject_api_fault(1), n) /\ Shaped(n)

LEMMA ApiStarts ==
    ASSUME NEW c, c.op = "api-delay"
    PROVE  MenuScript(c) = inject_api_fault(1) /\ ManageScript(c) = inject_api_fault(1)
<1>1. CsScript(c) = inject_api_fault(1)
  BY DEF CsScript
<1>2. QED
  BY <1>1 DEF MenuScript, ManageScript

\* How the steps of api-delay change the tree.
LEMMA ApiStep ==
    ASSUME NEW r \in Runners, Acts(r), Advances(r), NEW n \in 0 .. 3,
           todo[r] = Rest(inject_api_fault(1), n), todo \in [Runners -> Scripts], Shaped(n)
    PROVE  todo'[r] = Rest(inject_api_fault(1), n + 1) /\ Shaped(n + 1)'
<1>1. /\ Head(todo[r]) = inject_api_fault(1)[n + 1]
      /\ Tail(todo[r]) = Rest(inject_api_fault(1), n + 1)
  BY ApiScript, RestFacts
<1>2. todo'[r] = Tail(todo[r]) \/ Head(todo[r]).op = "filter"
  BY DEF Advances
<1>3. CASE n = 0
  <2>1. Head(todo[r]).op = "qdisc-del"
    BY <1>1, <1>3, ApiScript, DoFields
  <2>2. QdiscDel(r)
    BY <2>1, WhichStep
  <2>3. qdisc' = NoQdisc
    BY <2>2 DEF QdiscDel
  <2>4. todo'[r] = Rest(inject_api_fault(1), n + 1)
    BY <1>1, <1>2, <2>1
  <2>5. Shaped(n + 1)'
    BY <1>3, <2>3 DEF Shaped
  <2>6. QED
    BY <2>4, <2>5
<1>4. CASE n = 1
  <2>1. Head(todo[r]).op = "prio"
    BY <1>1, <1>4, ApiScript, DoFields
  <2>2. QdiscPrio(r)
    BY <2>1, WhichStep
  <2>3. qdisc = NoQdisc
    BY <1>4 DEF Shaped
  <2>4. qdisc' = Shaping
    BY <2>2, <2>3 DEF QdiscPrio, NoQdisc, Shaping
  <2>5. todo'[r] = Rest(inject_api_fault(1), n + 1)
    BY <1>1, <1>2, <2>1
  <2>6. Shaped(n + 1)'
    BY <1>4, <2>4 DEF Shaped
  <2>7. QED
    BY <2>5, <2>6
<1>5. CASE n = 2
  <2>1. Head(todo[r]) = Do("child", "delay")
    BY <1>1, <1>5, ApiScript
  <2>2. QdiscChild(r) /\ What(r) = "delay" /\ Head(todo[r]).op = "child"
    BY <2>1, DoFields, WhichStep DEF What
  <2>3. qdisc = Shaping
    BY <1>5 DEF Shaped
  <2>4. qdisc' = Delaying
    BY <2>2, <2>3 DEF QdiscChild, Shaping, Delaying
  <2>5. todo'[r] = Rest(inject_api_fault(1), n + 1)
    BY <1>1, <1>2, <2>2
  <2>6. Shaped(n + 1)'
    BY <1>5, <2>4 DEF Shaped
  <2>7. QED
    BY <2>5, <2>6
<1>6. CASE n = 3
  <2>1. Head(todo[r]).op = "filter"
    BY <1>1, <1>6, ApiScript, DoFields
  <2>2. FilterAdd(r)
    BY <2>1, WhichStep
  <2>3. qdisc = Delaying
    BY <1>6 DEF Shaped
  <2>4. qdisc.root = "prio"
    BY <2>3 DEF Delaying
  <2>5. qdisc' = [qdisc EXCEPT !.filter = TRUE] /\ todo' = [todo EXCEPT ![r] = Tail(@)]
    BY <2>2, <2>4 DEF FilterAdd, Pop
  <2>6. qdisc' = Effective
    BY <2>3, <2>5 DEF Delaying, Effective
  <2>7. QED
    BY <1>1, <1>6, <2>5, <2>6 DEF Shaped
<1>7. QED
  BY <1>3, <1>4, <1>5, <1>6

LEMMA NextApi ==
    ASSUME TypeInv, AloneOK, ApiOK, [Next]_vars
    PROVE  ApiOK'
<1> SUFFICES ASSUME NEW r \in Runners, Alone(r)', (running[r].op)' = "api-delay"
             PROVE  \E n \in 0 .. 4 : todo'[r] = Rest(inject_api_fault(1), n) /\ Shaped(n)'
  BY DEF ApiOK
<1>1. ASSUME NEW c, Enters(r, c), running'[r] = c,
             todo'[r] = IF r = Controller THEN MenuScript(c) ELSE ManageScript(c)
      PROVE  \E n \in 0 .. 4 : todo'[r] = Rest(inject_api_fault(1), n) /\ Shaped(n)'
  <2>1. todo'[r] = inject_api_fault(1)
    BY <1>1, ApiStarts
  <2>2. todo'[r] = Rest(inject_api_fault(1), 0)
    BY <2>1, ApiScript, RestFacts
  <2>3. QED
    BY <2>2 DEF Shaped
<1>2. CASE Alone(r) /\ running'[r] = running[r]
  <2>1. PICK n \in 0 .. 4 : todo[r] = Rest(inject_api_fault(1), n) /\ Shaped(n)
    BY <1>2 DEF ApiOK
  <2>2. CASE Acts(r) /\ Advances(r)
    <3>1. n \in 0 .. 3
      <4>1. todo[r] # <<>>
        BY <2>2 DEF Advances
      <4>2. n # 4
        <5>1. 4 \in 0 .. Len(inject_api_fault(1)) /\ inject_api_fault(1) \in Seq(Steps)
          BY ApiScript
        <5>2. Rest(inject_api_fault(1), 4) = <<>> <=> 4 = Len(inject_api_fault(1))
          BY <5>1, RestFacts
        <5>3. Rest(inject_api_fault(1), 4) = <<>>
          BY <5>2, ApiScript
        <5>4. QED
          BY <2>1, <4>1, <5>3
      <4>3. QED
        BY <4>2
    <3>2. todo'[r] = Rest(inject_api_fault(1), n + 1) /\ Shaped(n + 1)'
      BY <2>1, <2>2, <3>1, ApiStep DEF TypeInv, RunnersOK
    <3>3. n + 1 \in 0 .. 4
      BY <3>1
    <3>4. QED
      BY <3>2, <3>3
  <2>3. CASE todo'[r] = todo[r] /\ UNCHANGED qdisc
    BY <2>1, <2>3 DEF Shaped
  <2>4. CsEnvironment => UNCHANGED qdisc
    BY DEF CsEnvironment, OpenBallast, RestartService, netVars
  <2>5. UNCHANGED World => UNCHANGED qdisc
    BY DEF World, netVars
  <2>6. QED
    BY <1>1, <2>2, <2>3, <2>4, <2>5, Followed
<1>3. QED
  BY <1>1, <1>2, Followed

\* A runner that has executed n steps of the script s executes the next one.
LEMMA Position ==
    ASSUME NEW r \in Runners, todo \in [Runners -> Scripts], Advances(r),
           NEW s \in Seq(Steps), NEW n \in 0 .. Len(s), todo[r] = Rest(s, n)
    PROVE  /\ n < Len(s) /\ n + 1 \in 1 .. Len(s)
           /\ Head(todo[r]) = s[n + 1]
           /\ Head(todo[r]).op # "filter" => todo'[r] = Rest(s, n + 1)
<1>1. todo[r] # <<>>
  BY DEF Advances
<1>2. n # Len(s)
  BY <1>1, RestFacts
<1>3. n < Len(s) /\ n + 1 \in 1 .. Len(s)
  BY <1>2
<1>4. Head(todo[r]) = s[n + 1] /\ Tail(todo[r]) = Rest(s, n + 1)
  BY <1>3, RestFacts
<1>5. Head(todo[r]).op # "filter" => todo'[r] = Tail(todo[r])
  BY DEF Advances
<1>6. QED
  BY <1>3, <1>4, <1>5

\* `network', step by step.
NetScript(c) == inject_cs_network_fault(c.arg, c.port, 1)
Dropped(c, n) ==
    /\ n >= 1 => rules[<<"INPUT", c.arg, c.port>>] > 0
    /\ n >= 2 => rules[<<"OUTPUT", c.arg, c.port>>] > 0

NetOK ==
    \A r \in Runners : Alone(r) /\ running[r].op = "network" =>
        /\ running[r].arg \in Addresses /\ running[r].port \in Ports
        /\ \E n \in 0 .. 2 : todo[r] = Rest(NetScript(running[r]), n) /\ Dropped(running[r], n)

LEMMA NetScriptFacts ==
    ASSUME NEW c, c.arg \in Addresses, c.port \in Ports
    PROVE  /\ NetScript(c) \in Seq(Steps) /\ Len(NetScript(c)) = 2
           /\ NetScript(c)[1] = Do("append", <<"INPUT", c.arg, c.port>>)
           /\ NetScript(c)[2] = Do("append", <<"OUTPUT", c.arg, c.port>>)
<1> DEFINE a == Do("append", <<"INPUT", c.arg, c.port>>)
           b == Do("append", <<"OUTPUT", c.arg, c.port>>)
<1>1. a \in Steps /\ b \in Steps
  BY FilterStep
<1> HIDE DEF a, b
<1>2. NetScript(c) = <<a, b>>
  BY DEF NetScript, inject_cs_network_fault, a, b
<1>3. <<a, b>> \in Seq(Steps) /\ Len(<<a, b>>) = 2 /\ <<a, b>>[1] = a /\ <<a, b>>[2] = b
  BY <1>1
<1>4. QED
  BY <1>2, <1>3 DEF a, b

LEMMA NetStarts ==
    ASSUME NEW r \in Runners, NEW c, Enters(r, c), c.op = "network"
    PROVE  /\ MenuScript(c) = NetScript(c) /\ ManageScript(c) = NetScript(c)
           /\ c.arg \in Addresses /\ c.port \in Ports
<1>1. CsScript(c) = NetScript(c)
  BY DEF CsScript, NetScript
<1>2. MenuScript(c) = NetScript(c) /\ ManageScript(c) = NetScript(c)
  BY <1>1 DEF MenuScript, ManageScript
<1>3. CsArgument(c.op) = Addresses
  BY DEF CsArgument
<1>4. MenuArgument(c.op) = Addresses /\ ManageArgument(c.op) = Addresses
  BY <1>3 DEF MenuArgument, ManageArgument
<1>5. c.arg \in Addresses /\ c.port \in Ports
  BY <1>4, CommandLines DEF Enters
<1>6. QED
  BY <1>2, <1>5

LEMMA NetStep ==
    ASSUME NEW r \in Runners, Acts(r), Advances(r), NEW c, c.arg \in Addresses, c.port \in Ports,
           NEW n \in 0 .. 2, RulesOK, todo \in [Runners -> Scripts],
           todo[r] = Rest(NetScript(c), n), Dropped(c, n)
    PROVE  n + 1 \in 0 .. 2 /\ todo'[r] = Rest(NetScript(c), n + 1) /\ Dropped(c, n + 1)'
<1> DEFINE s == NetScript(c)
           in == <<"INPUT", c.arg, c.port>>
           out == <<"OUTPUT", c.arg, c.port>>
<1>0. in \in Rules /\ out \in Rules
  BY FilterStep
<1>1. s \in Seq(Steps) /\ Len(s) = 2 /\ s[1] = Do("append", in) /\ s[2] = Do("append", out)
  BY NetScriptFacts
<1> HIDE DEF s
<1>2. todo[r] = Rest(s, n) /\ n \in 0 .. Len(s)
  BY <1>1 DEF s
<1>3. /\ n < Len(s) /\ Head(todo[r]) = s[n + 1]
      /\ Head(todo[r]).op # "filter" => todo'[r] = Rest(s, n + 1)
  BY <1>1, <1>2, Position
<1>4. (n = 0 /\ Head(todo[r]) = Do("append", in)) \/ (n = 1 /\ Head(todo[r]) = Do("append", out))
  BY <1>1, <1>3
<1> HIDE DEF in, out
<1>5. Head(todo[r]).op = "append" /\ What(r) \in Rules
      /\ (n = 0 => What(r) = in) /\ (n = 1 => What(r) = out)
  BY <1>0, <1>4, DoFields DEF What
<1>6. AddRule(r)
  BY <1>5, WhichStep
<1>7. rules' = [rules EXCEPT ![What(r)] = @ + 1]
  BY <1>6 DEF AddRule
<1>8. /\ \A u \in Rules : rules'[u] >= rules[u]
      /\ rules'[What(r)] > 0
  BY <1>5, <1>7 DEF RulesOK
<1>9. /\ n + 1 >= 1 => rules'[in] > 0
      /\ n + 1 >= 2 => rules'[out] > 0
  <2>1. CASE n = 0
    BY <1>5, <1>8, <2>1
  <2>2. CASE n = 1
    <3>1. rules[in] > 0 /\ rules[in] \in Nat /\ rules'[in] \in Nat
      BY <1>0, <1>5, <1>7, <2>2 DEF Dropped, RulesOK, in
    <3>2. rules'[in] >= rules[in]
      BY <1>0, <1>8
    <3>3. QED
      BY <1>5, <1>8, <2>2, <3>1, <3>2
  <2>3. QED
    BY <1>4, <2>1, <2>2
<1>10. Dropped(c, n + 1)'
  BY <1>9 DEF Dropped, in, out
<1>11. todo'[r] = Rest(s, n + 1)
  BY <1>3, <1>5
<1>12. QED
  BY <1>4, <1>10, <1>11 DEF s

LEMMA NextNet ==
    ASSUME TypeInv, AloneOK, NetOK, [Next]_vars
    PROVE  NetOK'
<1> SUFFICES ASSUME NEW r \in Runners, Alone(r)', (running[r].op)' = "network"
             PROVE  /\ (running[r].arg)' \in Addresses /\ (running[r].port)' \in Ports
                    /\ \E n \in 0 .. 2 : /\ todo'[r] = Rest(NetScript(running'[r]), n)
                                         /\ Dropped(running[r], n)'
  BY DEF NetOK, NetScript
<1>1. ASSUME NEW c, Enters(r, c), running'[r] = c,
             todo'[r] = IF r = Controller THEN MenuScript(c) ELSE ManageScript(c)
      PROVE  /\ c.arg \in Addresses /\ c.port \in Ports
             /\ todo'[r] = Rest(NetScript(c), 0) /\ Dropped(running[r], 0)'
  <2>1. todo'[r] = NetScript(c) /\ c.arg \in Addresses /\ c.port \in Ports
    BY <1>1, NetStarts
  <2>2. todo'[r] = Rest(NetScript(c), 0)
    <3>1. NetScript(c) \in Seq(Steps)
      BY <2>1, NetScriptFacts
    <3>2. QED
      BY <2>1, <3>1, RestStart
  <2>3. QED
    BY <2>1, <2>2 DEF Dropped
<1>2. CASE Alone(r) /\ running'[r] = running[r]
  <2>0. PICK c : c = running[r] /\ c = running'[r]
    BY <1>2
  <2>1. c.arg \in Addresses /\ c.port \in Ports
    BY <1>2, <2>0 DEF NetOK
  <2>2. PICK n \in 0 .. 2 : todo[r] = Rest(NetScript(c), n) /\ Dropped(c, n)
    BY <1>2, <2>0 DEF NetOK
  <2>3. CASE Acts(r) /\ Advances(r)
    <3>1. n + 1 \in 0 .. 2 /\ todo'[r] = Rest(NetScript(c), n + 1) /\ Dropped(c, n + 1)'
      <4>1. RulesOK /\ todo \in [Runners -> Scripts]
        BY DEF TypeInv, WorldOK, RunnersOK
      <4>2. QED
        BY <2>1, <2>2, <2>3, <4>1, NetStep
    <3>2. QED
      BY <2>0, <2>1, <3>1 DEF Dropped
  <2>4. CASE todo'[r] = todo[r] /\ UNCHANGED rules
    BY <2>0, <2>1, <2>2, <2>4 DEF Dropped
  <2>5. CsEnvironment => UNCHANGED rules
    BY DEF CsEnvironment, OpenBallast, RestartService, netVars
  <2>6. UNCHANGED World => UNCHANGED rules
    BY DEF World, netVars
  <2>7. QED
    BY <1>1, <1>2, <2>3, <2>4, <2>5, <2>6, Followed
<1>3. QED
  BY <1>1, <1>2, Followed

LEMMA ApiDone ==
    ASSUME NEW r \in Runners, ApiOK, Done(r), alone[r], running[r].op = "api-delay"
    PROVE  qdisc = Effective
<1>1. PICK n \in 0 .. 4 : todo[r] = Rest(inject_api_fault(1), n) /\ Shaped(n)
  BY DEF ApiOK, Alone, Done
<1>2. n \in 0 .. Len(inject_api_fault(1)) /\ inject_api_fault(1) \in Seq(Steps)
  BY ApiScript
<1>3. Rest(inject_api_fault(1), n) = <<>> <=> n = Len(inject_api_fault(1))
  BY <1>2, RestFacts
<1>4. n = 4
  BY <1>1, <1>3, ApiScript DEF Done
<1>5. QED
  BY <1>1, <1>4 DEF Shaped

LEMMA NetDone ==
    ASSUME NEW r \in Runners, NetOK, Done(r), alone[r], running[r].op = "network"
    PROVE  \A chain \in {"INPUT", "OUTPUT"} : rules[<<chain, running[r].arg, running[r].port>>] > 0
<1> DEFINE c == running[r]
           s == NetScript(c)
<1>1. c.arg \in Addresses /\ c.port \in Ports
      /\ \E n \in 0 .. 2 : todo[r] = Rest(s, n) /\ Dropped(c, n)
  BY DEF NetOK, Alone, Done
<1>2. PICK n \in 0 .. 2 : todo[r] = Rest(s, n) /\ Dropped(c, n)
  BY <1>1
<1>3. s \in Seq(Steps) /\ Len(s) = 2
  BY <1>1, NetScriptFacts
<1> HIDE DEF s
<1>4. n \in 0 .. Len(s)
  BY <1>3
<1>5. Rest(s, n) = <<>> <=> n = Len(s)
  BY <1>3, <1>4, RestFacts
<1>6. n = 2
  BY <1>2, <1>3, <1>5 DEF Done
<1>7. QED
  BY <1>2, <1>6 DEF Dropped

\* api-delay and network, each run alone, are in effect when they report,
\* whatever shaping and whatever rules they found: the delay sits behind the
\* filter on the port of the API, both directions of the address are dropped.
THEOREM InjectionsTakeEffect == Spec => []CsInjectionTakesEffect
<1>1. Init => AloneOK /\ ApiOK /\ NetOK
  BY InitAlone DEF Init, CsInit, ApiOK, NetOK, Alone, Idle
<1>2. TypeInv /\ AloneOK /\ ApiOK /\ NetOK /\ [Next]_vars => (AloneOK /\ ApiOK /\ NetOK)'
  BY NextAlone, NextApi, NextNet
<1>3. TypeInv /\ AloneOK /\ ApiOK /\ NetOK => CsInjectionTakesEffect
  BY ApiDone, NetDone DEF CsInjectionTakesEffect, Effective
<1>4. QED
  BY <1>1, <1>2, <1>3, InitType, NextType, PTL DEF Spec

(***************************************************************************)
(* 6. Recover all.                                                         *)
(***************************************************************************)

\* Two lists joined, element by element.
LEMMA Two == ASSUME NEW a \in Steps, NEW b \in Steps
             PROVE  <<a, b>> \in Seq(Steps) /\ Len(<<a, b>>) = 2
                    /\ <<a, b>>[1] = a /\ <<a, b>>[2] = b
OBVIOUS

LEMMA One == ASSUME NEW a \in Steps
             PROVE  <<a>> \in Seq(Steps) /\ Len(<<a>>) = 1 /\ <<a>>[1] = a
OBVIOUS

LEMMA Add1 ==
    ASSUME NEW s \in Seq(Steps), NEW t \in Seq(Steps), Len(t) = 1, NEW n \in Nat, Len(s) = n
    PROVE  /\ s \o t \in Seq(Steps) /\ Len(s \o t) = n + 1
           /\ \A i \in 1 .. n : (s \o t)[i] = s[i]
           /\ (s \o t)[n + 1] = t[1]
<1>1. s \in Seq(Steps) /\ t \in Seq(Steps)
  OBVIOUS
<1>2. /\ s \o t \in Seq(Steps) /\ Len(s \o t) = Len(s) + Len(t)
      /\ \A i \in 1 .. Len(s) : (s \o t)[i] = s[i]
      /\ \A i \in 1 .. Len(t) : (s \o t)[Len(s) + i] = t[i]
  BY ONLY <1>1, Glue
<1> DEFINE w == s \o t
<1>3. /\ w \in Seq(Steps) /\ Len(w) = Len(s) + Len(t)
      /\ \A i \in 1 .. Len(s) : w[i] = s[i]
      /\ \A i \in 1 .. Len(t) : w[Len(s) + i] = t[i]
  BY ONLY <1>2
<1> HIDE DEF w
<1>4. w \in Seq(Steps) /\ Len(w) = n + 1 /\ \A i \in 1 .. n : w[i] = s[i]
  BY <1>3
<1>5. w[n + 1] = t[1]
  BY <1>3
<1>6. QED
  BY <1>4, <1>5 DEF w

LEMMA Add2 ==
    ASSUME NEW s \in Seq(Steps), NEW t \in Seq(Steps), Len(t) = 2, NEW n \in Nat, Len(s) = n
    PROVE  /\ s \o t \in Seq(Steps) /\ Len(s \o t) = n + 2
           /\ \A i \in 1 .. n : (s \o t)[i] = s[i]
           /\ (s \o t)[n + 1] = t[1] /\ (s \o t)[n + 2] = t[2]
<1>1. s \in Seq(Steps) /\ t \in Seq(Steps)
  OBVIOUS
<1>2. /\ s \o t \in Seq(Steps) /\ Len(s \o t) = Len(s) + Len(t)
      /\ \A i \in 1 .. Len(s) : (s \o t)[i] = s[i]
      /\ \A i \in 1 .. Len(t) : (s \o t)[Len(s) + i] = t[i]
  BY ONLY <1>1, Glue
<1> DEFINE w == s \o t
<1>3. /\ w \in Seq(Steps) /\ Len(w) = Len(s) + Len(t)
      /\ \A i \in 1 .. Len(s) : w[i] = s[i]
      /\ \A i \in 1 .. Len(t) : w[Len(s) + i] = t[i]
  BY ONLY <1>2
<1> HIDE DEF w
<1>4. w \in Seq(Steps) /\ Len(w) = n + 2 /\ \A i \in 1 .. n : w[i] = s[i]
  BY <1>3
<1>5. w[n + 1] = t[1] /\ w[n + 2] = t[2]
  BY <1>3
<1>6. QED
  BY <1>4, <1>5 DEF w

LEMMA NoneScript ==
    /\ network_injector("none") \in Seq(Steps) /\ Len(network_injector("none")) = 2
    /\ network_injector("none")[1] = Do("qdisc-del", None)
    /\ network_injector("none")[2] = Do("flush", "OUTPUT")
<1> DEFINE a == Do("qdisc-del", None)
           b == Do("flush", "OUTPUT")
<1>1. a \in Steps /\ b \in Steps
  BY BareStep, FlushStep
<1> HIDE DEF a, b
<1>2. network_injector("none") = <<a, b>> \o <<>>
  BY DEF network_injector, a, b
<1>3. <<a, b>> \in Seq(Steps)
  BY <1>1, Two
<1>4. <<a, b>> \o <<>> = <<a, b>>
  BY <1>3, ConcatEmptySeq
<1>5. network_injector("none") = <<a, b>>
  BY <1>2, <1>4
<1>6. <<a, b>> \in Seq(Steps) /\ Len(<<a, b>>) = 2 /\ <<a, b>>[1] = a /\ <<a, b>>[2] = b
  BY <1>1, Two
<1>7. QED
  BY <1>5, <1>6, Zenon DEF a, b

LEMMA HadoopScript ==
    ASSUME NEW op \in Signals, NEW comp \in Components
    PROVE  /\ hadoop_injector(op, comp) \in Seq(Steps) /\ Len(hadoop_injector(op, comp)) = 1
           /\ hadoop_injector(op, comp)[1] = Do("hadoop", <<op, comp>>)
<1> DEFINE a == Do("hadoop", <<op, comp>>)
<1>1. a \in Steps
  BY SignalStep
<1> HIDE DEF a
<1>2. hadoop_injector(op, comp) = <<a>>
  BY DEF hadoop_injector, a
<1>3. QED
  BY <1>1, <1>2, One DEF a

LEMMA ClearAllSteps ==
    /\ ClearAll \in Seq(Steps) /\ Len(ClearAll) = 12
    /\ ClearAll[1] = Do("qdisc-del", None)
    /\ ClearAll[2] = Do("flush", "OUTPUT")
    /\ ClearAll[3] = Do("flush", "INPUT")
    /\ ClearAll[4] = Do("flush", "OUTPUT")
    /\ ClearAll[5] = Do("hadoop", <<"resume", "nn">>)
    /\ ClearAll[6] = Do("hadoop", <<"resume", "dn">>)
    /\ ClearAll[7] = Do("hadoop", <<"resume", "rm">>)
    /\ ClearAll[8] = Do("hadoop", <<"resume", "nm">>)
    /\ ClearAll[9] = Do("resume", "ms")
    /\ ClearAll[10] = Do("resume", "agent")
    /\ ClearAll[11] = Do("qdisc-del", None)
    /\ ClearAll[12] = Do("sql", 151)
<1> DEFINE fi == Do("flush", "INPUT")
           fo == Do("flush", "OUTPUT")
           ms == Do("resume", "ms")
           ag == Do("resume", "agent")
           qd == Do("qdisc-del", None)
           sq == Do("sql", 151)
           H(comp) == hadoop_injector("resume", comp)
           s1 == network_injector("none")
           s2 == s1 \o <<fi, fo>>
           s3 == s2 \o H("nn")
           s4 == s3 \o H("dn")
           s5 == s4 \o H("rm")
           s6 == s5 \o H("nm")
           s7 == s6 \o <<ms, ag>>
           s8 == s7 \o inject_api_fault(0)
           s9 == s8 \o inject_db_fault(151)
           D(comp) == Do("hadoop", <<"resume", comp>>)
<1>1. fi \in Steps /\ fo \in Steps /\ ms \in Steps /\ ag \in Steps /\ qd \in Steps /\ sq \in Steps
  BY FlushStep, ServiceStep, BareStep, LimitStep DEF Signals, Services
<1>2. \A comp \in {"nn", "dn", "rm", "nm"} :
          H(comp) \in Seq(Steps) /\ Len(H(comp)) = 1 /\ H(comp)[1] = D(comp)
  BY HadoopScript DEF Signals, Components
<1>3. ClearAll = s9
  BY DEF ClearAll
<1> HIDE DEF fi, fo, ms, ag, qd, sq, H, D
<1>4. s1 \in Seq(Steps) /\ Len(s1) = 2 /\ s1[1] = qd /\ s1[2] = fo
  BY NoneScript DEF qd, fo
<1>5. /\ s2 \in Seq(Steps) /\ Len(s2) = 4 /\ s2[1] = qd /\ s2[2] = fo
      /\ s2[3] = fi /\ s2[4] = fo
  <2> DEFINE t == <<fi, fo>>
  <2>1. t \in Seq(Steps) /\ Len(t) = 2 /\ t[1] = fi /\ t[2] = fo
    BY <1>1, Two
  <2> HIDE DEF t, s1
  <2>2. s2 = s1 \o t
    BY DEF t
  <2> HIDE DEF s2
  <2>3. QED
    BY <1>4, <2>1, <2>2, Add2
<1> HIDE DEF s1, s2
<1>6. /\ s3 \in Seq(Steps) /\ Len(s3) = 5 /\ s3[1] = qd /\ s3[2] = fo
      /\ s3[3] = fi /\ s3[4] = fo /\ s3[5] = D("nn")
  <2>1. H("nn") \in Seq(Steps) /\ Len(H("nn")) = 1
    BY <1>2
  <2>2. s2 \in Seq(Steps) /\ Len(s2) = 4
    BY <1>5
  <2>3. /\ s3 \in Seq(Steps) /\ Len(s3) = 4 + 1
        /\ \A i \in 1 .. 4 : s3[i] = s2[i]
        /\ s3[4 + 1] = H("nn")[1]
    <3>1. 4 \in Nat
      OBVIOUS
    <3>2. QED
      BY <2>1, <2>2, <3>1, Add1, Zenon
  <2> HIDE DEF s3
  <2>4. QED
    BY <1>5, <1>2, <2>3
<1> HIDE DEF s3
<1>7. /\ s4 \in Seq(Steps) /\ Len(s4) = 6 /\ s4[1] = qd /\ s4[2] = fo
      /\ s4[3] = fi /\ s4[4] = fo /\ s4[5] = D("nn") /\ s4[6] = D("dn")
  <2>1. H("dn") \in Seq(Steps) /\ Len(H("dn")) = 1
    BY <1>2
  <2>2. s3 \in Seq(Steps) /\ Len(s3) = 5
    BY <1>6
  <2>3. /\ s4 \in Seq(Steps) /\ Len(s4) = 5 + 1
        /\ \A i \in 1 .. 5 : s4[i] = s3[i]
        /\ s4[5 + 1] = H("dn")[1]
    <3>1. 5 \in Nat
      OBVIOUS
    <3>2. QED
      BY <2>1, <2>2, <3>1, Add1, Zenon
  <2> HIDE DEF s4
  <2>4. QED
    BY <1>6, <1>2, <2>3
<1> HIDE DEF s4
<1>8. /\ s5 \in Seq(Steps) /\ Len(s5) = 7 /\ s5[1] = qd /\ s5[2] = fo
      /\ s5[3] = fi /\ s5[4] = fo /\ s5[5] = D("nn") /\ s5[6] = D("dn") /\ s5[7] = D("rm")
  <2>1. H("rm") \in Seq(Steps) /\ Len(H("rm")) = 1
    BY <1>2
  <2>2. s4 \in Seq(Steps) /\ Len(s4) = 6
    BY <1>7
  <2>3. /\ s5 \in Seq(Steps) /\ Len(s5) = 6 + 1
        /\ \A i \in 1 .. 6 : s5[i] = s4[i]
        /\ s5[6 + 1] = H("rm")[1]
    <3>1. 6 \in Nat
      OBVIOUS
    <3>2. QED
      BY <2>1, <2>2, <3>1, Add1, Zenon
  <2> HIDE DEF s5
  <2>4. QED
    BY <1>7, <1>2, <2>3
<1> HIDE DEF s5
<1>9. /\ s6 \in Seq(Steps) /\ Len(s6) = 8 /\ s6[1] = qd /\ s6[2] = fo
      /\ s6[3] = fi /\ s6[4] = fo /\ s6[5] = D("nn") /\ s6[6] = D("dn") /\ s6[7] = D("rm")
      /\ s6[8] = D("nm")
  <2>1. H("nm") \in Seq(Steps) /\ Len(H("nm")) = 1
    BY <1>2
  <2>2. s5 \in Seq(Steps) /\ Len(s5) = 7
    BY <1>8
  <2>3. /\ s6 \in Seq(Steps) /\ Len(s6) = 7 + 1
        /\ \A i \in 1 .. 7 : s6[i] = s5[i]
        /\ s6[7 + 1] = H("nm")[1]
    <3>1. 7 \in Nat
      OBVIOUS
    <3>2. QED
      BY <2>1, <2>2, <3>1, Add1, Zenon
  <2> HIDE DEF s6
  <2>4. QED
    BY <1>8, <1>2, <2>3
<1> HIDE DEF s6
<1>10. /\ s7 \in Seq(Steps) /\ Len(s7) = 10 /\ s7[1] = qd /\ s7[2] = fo
       /\ s7[3] = fi /\ s7[4] = fo /\ s7[5] = D("nn") /\ s7[6] = D("dn") /\ s7[7] = D("rm")
       /\ s7[8] = D("nm") /\ s7[9] = ms /\ s7[10] = ag
  <2> DEFINE t == <<ms, ag>>
  <2>1. t \in Seq(Steps) /\ Len(t) = 2 /\ t[1] = ms /\ t[2] = ag
    BY <1>1, Two
  <2>2. s7 = s6 \o t
    BY DEF t
  <2> HIDE DEF t, s7
  <2>3. QED
    <3>1. 8 \in Nat /\ s6 \in Seq(Steps) /\ Len(s6) = 8 /\ Len(t) = 2
      BY <1>9, <2>1
    <3>2. /\ s6 \o t \in Seq(Steps) /\ Len(s6 \o t) = 8 + 2
          /\ \A i \in 1 .. 8 : (s6 \o t)[i] = s6[i]
          /\ (s6 \o t)[8 + 1] = t[1] /\ (s6 \o t)[8 + 2] = t[2]
      BY <2>1, <3>1, Add2, Zenon
    <3>3. /\ s7 \in Seq(Steps) /\ Len(s7) = 10
          /\ \A i \in 1 .. 8 : s7[i] = s6[i]
          /\ s7[9] = t[1] /\ s7[10] = t[2]
      <4>1. /\ s7 \in Seq(Steps) /\ Len(s7) = 8 + 2
            /\ \A i \in 1 .. 8 : s7[i] = s6[i]
            /\ s7[8 + 1] = t[1] /\ s7[8 + 2] = t[2]
        BY <2>2, <3>2, Zenon
      <4>2. QED
        BY <4>1
    <3>4. QED
      BY <1>9, <2>1, <3>3
<1> HIDE DEF s7
<1>11. inject_api_fault(0) \in Seq(Steps) /\ Len(inject_api_fault(0)) = 1 /\ inject_api_fault(0)[1] = qd
  <2>1. inject_api_fault(0) = <<qd>> \o <<>>
    BY DEF inject_api_fault, qd
  <2>2. <<qd>> \o <<>> = <<qd>>
    BY <1>1, One, ConcatEmptySeq
  <2>3. QED
    BY <1>1, <2>1, <2>2, One
<1>12. inject_db_fault(151) \in Seq(Steps) /\ Len(inject_db_fault(151)) = 1 /\ inject_db_fault(151)[1] = sq
  <2>1. inject_db_fault(151) = <<sq>>
    BY DEF inject_db_fault, sq
  <2>2. QED
    BY <1>1, <2>1, One
<1>13. /\ s8 \in Seq(Steps) /\ Len(s8) = 11 /\ s8[1] = qd /\ s8[2] = fo
       /\ s8[3] = fi /\ s8[4] = fo /\ s8[5] = D("nn") /\ s8[6] = D("dn") /\ s8[7] = D("rm")
       /\ s8[8] = D("nm") /\ s8[9] = ms /\ s8[10] = ag /\ s8[11] = qd
  <2>1. inject_api_fault(0) \in Seq(Steps) /\ Len(inject_api_fault(0)) = 1
    BY <1>11
  <2>2. s7 \in Seq(Steps) /\ Len(s7) = 10
    BY <1>10
  <2>3. /\ s8 \in Seq(Steps) /\ Len(s8) = 10 + 1
        /\ \A i \in 1 .. 10 : s8[i] = s7[i]
        /\ s8[10 + 1] = inject_api_fault(0)[1]
    <3>1. 10 \in Nat
      OBVIOUS
    <3>2. QED
      BY <2>1, <2>2, <3>1, Add1, Zenon
  <2> HIDE DEF s8
  <2>4. QED
    BY <1>10, <1>11, <2>3
<1> HIDE DEF s8
<1>14. /\ s9 \in Seq(Steps) /\ Len(s9) = 12 /\ s9[1] = qd /\ s9[2] = fo
       /\ s9[3] = fi /\ s9[4] = fo /\ s9[5] = D("nn") /\ s9[6] = D("dn") /\ s9[7] = D("rm")
       /\ s9[8] = D("nm") /\ s9[9] = ms /\ s9[10] = ag /\ s9[11] = qd /\ s9[12] = sq
  <2>1. inject_db_fault(151) \in Seq(Steps) /\ Len(inject_db_fault(151)) = 1
    BY <1>12
  <2>2. s8 \in Seq(Steps) /\ Len(s8) = 11
    BY <1>13
  <2>3. /\ s9 \in Seq(Steps) /\ Len(s9) = 11 + 1
        /\ \A i \in 1 .. 11 : s9[i] = s8[i]
        /\ s9[11 + 1] = inject_db_fault(151)[1]
    <3>1. 11 \in Nat
      OBVIOUS
    <3>2. QED
      BY <2>1, <2>2, <3>1, Add1, Zenon
  <2> HIDE DEF s9
  <2>4. QED
    BY <1>13, <1>12, <2>3
<1>15. QED
  BY <1>3, <1>14 DEF fi, fo, ms, ag, qd, sq, D

\* What recover-all has restored after n of its steps.
Zero(chain) == \A u \in Rules : u[1] = chain => rules[u] = 0
Awake(comp) == \A d \in Daemons : d[1] = comp => daemon[d] # "stopped"
Serves(s) == svc[s] # "stopped"
Standard == svc["mysql"] = "running" => dbMax = 151
Restored(n) ==
    /\ n >= 1 => qdisc = NoQdisc
    /\ n >= 2 => Zero("OUTPUT")
    /\ n >= 3 => Zero("INPUT")
    /\ n >= 5 => Awake("nn")
    /\ n >= 6 => Awake("dn")
    /\ n >= 7 => Awake("rm")
    /\ n >= 8 => Awake("nm")
    /\ n >= 9 => Serves("ms")
    /\ n >= 10 => Serves("agent")
    /\ n >= 12 => Standard

RecoverOK ==
    Alone(Controller) /\ running[Controller].op = "recover-all" =>
        \E n \in 0 .. 12 : todo[Controller] = Rest(ClearAll, n) /\ Restored(n)

\* Nothing is undone.
Kept ==
    /\ qdisc = NoQdisc => qdisc' = NoQdisc
    /\ \A chain \in {"INPUT", "OUTPUT"} : Zero(chain) => Zero(chain)'
    /\ \A comp \in Components : Awake(comp) => Awake(comp)'
    /\ \A s \in Services : Serves(s) => Serves(s)'
    /\ Standard => Standard'

LEMMA KeptRestored ==
    ASSUME Kept, NEW n \in 0 .. 12, Restored(n)
    PROVE  Restored(n)'
<1>1. {"nn", "dn", "rm", "nm"} \subseteq Components /\ {"ms", "agent"} \subseteq Services
  BY DEF Components, Services
<1>2. /\ \A comp \in {"nn", "dn", "rm", "nm"} : Awake(comp) => Awake(comp)'
      /\ \A s \in {"ms", "agent"} : Serves(s) => Serves(s)'
      /\ \A chain \in {"INPUT", "OUTPUT"} : Zero(chain) => Zero(chain)'
      /\ Standard => Standard'
      /\ qdisc = NoQdisc => qdisc' = NoQdisc
  BY <1>1 DEF Kept
<1>3. QED
  BY <1>2, Zenon DEF Restored

\* When no rule drops the packets of any address, ssh reaches every host.
LEMMA AllReachable ==
    ASSUME Zero("INPUT"), Zero("OUTPUT"), NEW d \in Daemons
    PROVE  Reachable(d[2])
<1>1. d[2] = Master \/ d[2] \in Addresses
  BY Cluster DEF Daemons
<1>2. ASSUME d[2] \in Addresses
      PROVE  rules[<<"INPUT", d[2], 0>>] = 0 /\ rules[<<"OUTPUT", d[2], 0>>] = 0
  <2>1. 0 \in Ports
    BY DEF Ports
  <2>2. <<"INPUT", d[2], 0>> \in Rules /\ <<"OUTPUT", d[2], 0>> \in Rules
    BY <1>2, <2>1, FilterStep
  <2>3. QED
    BY <2>2 DEF Zero
<1>3. QED
  BY <1>1, <1>2 DEF Reachable, Answers

\* One lemma for each kind of step of recover-all: it keeps what was restored
\* before it, and restores what it is there for.
LEMMA DelStep ==
    ASSUME NEW r \in Runners, QdiscDel(r), UNCHANGED clusterVars
    PROVE  Kept /\ qdisc' = NoQdisc
BY SMT DEF QdiscDel, hostVars, clusterVars, Kept, Zero, Awake, Serves, Standard

LEMMA FlushEffect ==
    ASSUME NEW r \in Runners, Flush(r), UNCHANGED clusterVars, RulesOK
    PROVE  Kept /\ \A chain \in {"INPUT", "OUTPUT"} : What(r) = chain => Zero(chain)'
<1>1. rules' = [u \in Rules |-> IF u[1] = What(r) THEN 0 ELSE rules[u]]
  BY DEF Flush
<1>2. \A chain \in {"INPUT", "OUTPUT"} : Zero(chain) => Zero(chain)'
  BY <1>1 DEF Zero
<1>3. \A chain \in {"INPUT", "OUTPUT"} : What(r) = chain => Zero(chain)'
  BY <1>1 DEF Zero
<1>4. qdisc' = qdisc /\ daemon' = daemon /\ svc' = svc /\ dbMax' = dbMax
  BY DEF Flush, hostVars, clusterVars
<1>5. QED
  BY <1>2, <1>3, <1>4 DEF Kept, Awake, Serves, Standard

LEMMA HadoopEffect ==
    ASSUME NEW r \in Runners, HadoopSignal(r), NEW comp \in Components,
           What(r) = <<"resume", comp>>, Zero("INPUT"), Zero("OUTPUT"), ClusterOK
    PROVE  Kept /\ Awake(comp)'
<1>1. What(r)[1] = "resume" /\ What(r)[2] = comp
  OBVIOUS
<1>2. \A d \in Daemons : After("resume", daemon[d]) # "stopped"
  BY DEF After
<1>3. \A d \in Daemons : Reachable(d[2])
  BY AllReachable
<1>4. daemon' = [d \in Daemons |-> IF d[1] = What(r)[2] /\ Reachable(d[2])
                                    THEN After(What(r)[1], daemon[d]) ELSE daemon[d]]
  BY DEF HadoopSignal
<1>5. \A d \in Daemons : /\ d[1] = comp => daemon'[d] # "stopped"
                         /\ daemon[d] # "stopped" => daemon'[d] # "stopped"
  BY <1>1, <1>2, <1>3, <1>4
<1>6. UNCHANGED <<netVars, hostVars>>
  BY DEF HadoopSignal
<1>7. Awake(comp)' /\ \A c \in Components : Awake(c) => Awake(c)'
  BY <1>5 DEF Awake
<1>8. QED
  BY <1>6, <1>7 DEF Kept, netVars, hostVars, Zero, Serves, Standard

LEMMA ResumeEffect ==
    ASSUME NEW r \in Runners, SignalService(r), UNCHANGED clusterVars, Head(todo[r]).op = "resume",
           ServicesOK, NEW s \in Services \ {"mysql"}, What(r) = s
    PROVE  Kept /\ Serves(s)'
<1>1. svc' = [svc EXCEPT ![s] = IF @ = "absent" THEN @ ELSE "running"]
  BY DEF SignalService, Exec
<1>2. \A q \in Services : /\ q = s => svc'[q] # "stopped"
                          /\ q # s => svc'[q] = svc[q]
  BY <1>1 DEF ServicesOK
<1>3. UNCHANGED <<netVars, dbMax>>
  BY DEF SignalService
<1>4. svc'["mysql"] = svc["mysql"]
  BY <1>2 DEF Services
<1>5. Serves(s)' /\ \A q \in Services : Serves(q) => Serves(q)'
  BY <1>2 DEF Serves
<1>6. Standard => Standard'
  BY <1>3, <1>4 DEF Standard
<1>7. QED
  BY <1>3, <1>5, <1>6 DEF Kept, netVars, clusterVars, Zero, Awake

LEMMA SqlEffect ==
    ASSUME NEW r \in Runners, Sql(r), UNCHANGED clusterVars, What(r) = 151
    PROVE  Kept /\ Standard'
<1>1. UNCHANGED <<netVars, svc>>
  BY DEF Sql
<1>2. Standard'
  BY <1>1 DEF Sql, Standard
<1>3. QED
  BY <1>1, <1>2 DEF Kept, netVars, clusterVars, Zero, Awake, Serves

LEMMA EnvironmentKeeps ==
    ASSUME CsEnvironment, UNCHANGED clusterVars, ServicesOK
    PROVE  Kept
<1>1. CASE OpenBallast
  BY <1>1 DEF OpenBallast, netVars, clusterVars, Kept, Zero, Awake, Serves, Standard
<1>2. ASSUME NEW s \in Services, RestartService(s) PROVE Kept
  <2>1. svc' = [svc EXCEPT ![s] = "running"] /\ dbMax' = IF s = "mysql" THEN 151 ELSE dbMax
    BY <1>2 DEF RestartService
  <2>2. \A q \in Services : Serves(q) => Serves(q)'
    BY <2>1 DEF ServicesOK, Serves
  <2>3. Standard => Standard'
    BY <2>1 DEF ServicesOK, Standard, Services
  <2>4. UNCHANGED netVars
    BY <1>2 DEF RestartService
  <2>5. QED
    BY <2>2, <2>3, <2>4 DEF Kept, netVars, clusterVars, Zero, Awake
<1>3. QED
  BY <1>1, <1>2 DEF CsEnvironment

LEMMA RecoverStep ==
    ASSUME TypeInv, NEW r \in Runners, Acts(r), Advances(r), NEW n \in 0 .. 12,
           todo[r] = Rest(ClearAll, n), Restored(n)
    PROVE  n + 1 \in 0 .. 12 /\ todo'[r] = Rest(ClearAll, n + 1) /\ Restored(n + 1)'
<1>1. todo \in [Runners -> Scripts] /\ RulesOK /\ ServicesOK /\ ClusterOK
  BY DEF TypeInv, RunnersOK, WorldOK
<1>2. ClearAll \in Seq(Steps) /\ Len(ClearAll) = 12 /\ n \in 0 .. Len(ClearAll)
  BY ClearAllSteps
<1>3. /\ n < 12 /\ Head(todo[r]) = ClearAll[n + 1]
      /\ Head(todo[r]).op # "filter" => todo'[r] = Rest(ClearAll, n + 1)
  BY <1>1, <1>2, Position
<1>4. n + 1 \in 0 .. 12
  BY <1>3
<1> DEFINE e == Head(todo[r])
           Keeps == /\ e.op # "filter" /\ Kept
                    /\ n = 0 => qdisc' = NoQdisc
                    /\ n = 1 => Zero("OUTPUT")'
                    /\ n = 2 => Zero("INPUT")'
                    /\ n = 4 => Awake("nn")'
                    /\ n = 5 => Awake("dn")'
                    /\ n = 6 => Awake("rm")'
                    /\ n = 7 => Awake("nm")'
                    /\ n = 8 => Serves("ms")'
                    /\ n = 9 => Serves("agent")'
                    /\ n = 11 => Standard'
<1>5. What(r) = e.what
  BY DEF What
<1>6. /\ (n = 0 \/ n = 10) => e = Do("qdisc-del", None)
      /\ (n = 1 \/ n = 3) => e = Do("flush", "OUTPUT")
      /\ n = 2 => e = Do("flush", "INPUT")
      /\ n = 4 => e = Do("hadoop", <<"resume", "nn">>)
      /\ n = 5 => e = Do("hadoop", <<"resume", "dn">>)
      /\ n = 6 => e = Do("hadoop", <<"resume", "rm">>)
      /\ n = 7 => e = Do("hadoop", <<"resume", "nm">>)
      /\ n = 8 => e = Do("resume", "ms")
      /\ n = 9 => e = Do("resume", "agent")
      /\ n = 11 => e = Do("sql", 151)
  BY <1>3, ClearAllSteps
<1> HIDE DEF e
<1>7. ASSUME n = 0 \/ n = 10 PROVE Keeps
  <2>1. e.op = "qdisc-del"
    BY <1>6, <1>7, DoFields
  <2>2. QdiscDel(r) /\ UNCHANGED clusterVars
    BY <2>1, WhichStep DEF e
  <2>3. Kept /\ qdisc' = NoQdisc
    BY <2>2, DelStep
  <2>4. Keeps
    BY <1>7, <2>1, <2>3
  <2>5. QED
    BY <2>4
<1>8. ASSUME n = 1 \/ n = 3 PROVE Keeps
  <2>1. e.op = "flush" /\ e.what = "OUTPUT"
    BY <1>6, <1>8, DoFields
  <2>2. Flush(r) /\ UNCHANGED clusterVars
    BY <2>1, WhichStep DEF e
  <2>3. Kept /\ Zero("OUTPUT")'
    BY <1>1, <1>5, <2>1, <2>2, FlushEffect
  <2>4. Keeps
    BY <1>8, <2>1, <2>3
  <2>5. QED
    BY <2>4
<1>9. ASSUME n = 2 PROVE Keeps
  <2>1. e.op = "flush" /\ e.what = "INPUT"
    BY <1>6, <1>9, DoFields
  <2>2. Flush(r) /\ UNCHANGED clusterVars
    BY <2>1, WhichStep DEF e
  <2>3. Kept /\ Zero("INPUT")'
    BY <1>1, <1>5, <2>1, <2>2, FlushEffect
  <2>4. Keeps
    BY <1>9, <2>1, <2>3
  <2>5. QED
    BY <2>4
<1>10. ASSUME n = 4 PROVE Keeps
  <2>1. e.op = "hadoop" /\ e.what = <<"resume", "nn">>
    BY <1>6, <1>10, DoFields
  <2>2. HadoopSignal(r)
    BY <2>1, WhichStep DEF e
  <2>3. Zero("INPUT") /\ Zero("OUTPUT") /\ "nn" \in Components
    BY <1>10 DEF Restored, Components
  <2>4. Kept /\ Awake("nn")'
    BY <1>1, <1>5, <2>1, <2>2, <2>3, HadoopEffect
  <2>5. Keeps
    BY <1>10, <2>1, <2>4
  <2>6. QED
    BY <2>5
<1>11. ASSUME n = 5 PROVE Keeps
  <2>1. e.op = "hadoop" /\ e.what = <<"resume", "dn">>
    BY <1>6, <1>11, DoFields
  <2>2. HadoopSignal(r)
    BY <2>1, WhichStep DEF e
  <2>3. Zero("INPUT") /\ Zero("OUTPUT") /\ "dn" \in Components
    BY <1>11 DEF Restored, Components
  <2>4. Kept /\ Awake("dn")'
    BY <1>1, <1>5, <2>1, <2>2, <2>3, HadoopEffect
  <2>5. Keeps
    BY <1>11, <2>1, <2>4
  <2>6. QED
    BY <2>5
<1>12. ASSUME n = 6 PROVE Keeps
  <2>1. e.op = "hadoop" /\ e.what = <<"resume", "rm">>
    BY <1>6, <1>12, DoFields
  <2>2. HadoopSignal(r)
    BY <2>1, WhichStep DEF e
  <2>3. Zero("INPUT") /\ Zero("OUTPUT") /\ "rm" \in Components
    BY <1>12 DEF Restored, Components
  <2>4. Kept /\ Awake("rm")'
    BY <1>1, <1>5, <2>1, <2>2, <2>3, HadoopEffect
  <2>5. Keeps
    BY <1>12, <2>1, <2>4
  <2>6. QED
    BY <2>5
<1>13. ASSUME n = 7 PROVE Keeps
  <2>1. e.op = "hadoop" /\ e.what = <<"resume", "nm">>
    BY <1>6, <1>13, DoFields
  <2>2. HadoopSignal(r)
    BY <2>1, WhichStep DEF e
  <2>3. Zero("INPUT") /\ Zero("OUTPUT") /\ "nm" \in Components
    BY <1>13 DEF Restored, Components
  <2>4. Kept /\ Awake("nm")'
    BY <1>1, <1>5, <2>1, <2>2, <2>3, HadoopEffect
  <2>5. Keeps
    BY <1>13, <2>1, <2>4
  <2>6. QED
    BY <2>5
<1>14. ASSUME n = 8 PROVE Keeps
  <2>1. e.op = "resume" /\ e.what = "ms"
    BY <1>6, <1>14, DoFields
  <2>2. SignalService(r) /\ UNCHANGED clusterVars
    BY <2>1, WhichStep DEF e
  <2>3. "ms" \in Services \ {"mysql"}
    BY DEF Services
  <2>4. Kept /\ Serves("ms")'
    BY <1>1, <1>5, <2>1, <2>2, <2>3, ResumeEffect DEF e
  <2>5. Keeps
    BY <1>14, <2>1, <2>4
  <2>6. QED
    BY <2>5
<1>15. ASSUME n = 9 PROVE Keeps
  <2>1. e.op = "resume" /\ e.what = "agent"
    BY <1>6, <1>15, DoFields
  <2>2. SignalService(r) /\ UNCHANGED clusterVars
    BY <2>1, WhichStep DEF e
  <2>3. "agent" \in Services \ {"mysql"}
    BY DEF Services
  <2>4. Kept /\ Serves("agent")'
    BY <1>1, <1>5, <2>1, <2>2, <2>3, ResumeEffect DEF e
  <2>5. Keeps
    BY <1>15, <2>1, <2>4
  <2>6. QED
    BY <2>5
<1>16. ASSUME n = 11 PROVE Keeps
  <2>1. e.op = "sql" /\ e.what = 151
    BY <1>6, <1>16, DoFields
  <2>2. Sql(r) /\ UNCHANGED clusterVars
    BY <2>1, WhichStep DEF e
  <2>3. Kept /\ Standard'
    BY <1>5, <2>1, <2>2, SqlEffect
  <2>4. Keeps
    BY <1>16, <2>1, <2>3
  <2>5. QED
    BY <2>4
<1>17. Keeps
  <2>1. n \in {0, 1, 2, 3, 4, 5, 6, 7, 8, 9, 10, 11}
    BY <1>3
  <2>2. QED
    BY <2>1, <1>7, <1>8, <1>9, <1>10, <1>11, <1>12, <1>13, <1>14, <1>15, <1>16
<1>18. Restored(n)'
  BY <1>17, KeptRestored
<1>19. Restored(n + 1)'
  BY <1>17, <1>18 DEF Restored
<1>20. todo'[r] = Rest(ClearAll, n + 1)
  BY <1>3, <1>17 DEF e
<1>21. QED
  BY <1>4, <1>19, <1>20

LEMMA NextRecover ==
    ASSUME TypeInv, AloneOK, RecoverOK, [Next]_vars
    PROVE  RecoverOK'
<1> DEFINE r == Controller
           Good(n) == todo'[r] = Rest(ClearAll, n) /\ Restored(n)'
<1> SUFFICES ASSUME Alone(r)', (running[r].op)' = "recover-all"
             PROVE  \E n \in 0 .. 12 : Good(n)
  BY DEF RecoverOK
<1>0. r \in Runners
  BY Cluster
<1>1. ASSUME NEW c, running'[r] = c, todo'[r] = MenuScript(c)
      PROVE  Good(0)
  <2>1. todo'[r] = ClearAll
    BY <1>1 DEF MenuScript
  <2>2. todo'[r] = Rest(ClearAll, 0)
    BY <2>1, ClearAllSteps, RestStart
  <2>3. QED
    BY <2>2 DEF Restored
<1>2. CASE Alone(r) /\ running'[r] = running[r]
  <2>1. PICK n \in 0 .. 12 : todo[r] = Rest(ClearAll, n) /\ Restored(n)
    BY <1>2 DEF RecoverOK
  <2>2. CASE Acts(r) /\ Advances(r)
    <3>1. n + 1 \in 0 .. 12 /\ Good(n + 1)
      BY <1>0, <2>1, <2>2, RecoverStep
    <3>2. QED
      BY <3>1
  <2>3. CASE CsEnvironment /\ UNCHANGED clusterVars /\ todo'[r] = todo[r]
    <3>1. Kept
      BY <2>3, EnvironmentKeeps DEF TypeInv, WorldOK
    <3>2. Good(n)
      BY <2>1, <2>3, <3>1, KeptRestored
    <3>3. QED
      BY <3>2
  <2>4. CASE UNCHANGED World /\ todo'[r] = todo[r]
    <3>1. Kept
      BY <2>4 DEF World, netVars, hostVars, clusterVars, Kept, Zero, Awake, Serves, Standard
    <3>2. Good(n)
      BY <2>1, <2>4, <3>1, KeptRestored
    <3>3. QED
      BY <3>2
  <2>5. CASE \E c : running'[r] = c /\ todo'[r] = MenuScript(c)
    BY <1>1, <2>5
  <2>6. QED
    BY <1>0, <2>2, <2>3, <2>4, <2>5, Followed
<1>3. QED
  BY <1>0, <1>1, <1>2, Followed

LEMMA RecoverDone ==
    ASSUME TypeInv, RecoverOK
    PROVE  RecoverAllRestores
<1> SUFFICES ASSUME Reports("recover-all")
             PROVE  /\ qdisc = NoQdisc /\ \A u \in Rules : rules[u] = 0
                    /\ \A d \in Daemons : daemon[d] = "stopped" => d[1] = "snn"
                    /\ "stopped" \notin {svc["ms"], svc["agent"]}
                    /\ svc["mysql"] = "running" => dbMax = 151
  BY DEF RecoverAllRestores
<1>1. PICK n \in 0 .. 12 : todo[Controller] = Rest(ClearAll, n) /\ Restored(n)
  BY DEF Reports, RecoverOK, Alone, Done
<1>2. ClearAll \in Seq(Steps) /\ n \in 0 .. Len(ClearAll) /\ Len(ClearAll) = 12
  BY ClearAllSteps
<1>3. Rest(ClearAll, n) = <<>> <=> n = Len(ClearAll)
  BY <1>2, RestFacts
<1>4. n = 12
  BY <1>1, <1>2, <1>3 DEF Reports, Done
<1>5. /\ qdisc = NoQdisc /\ Zero("OUTPUT") /\ Zero("INPUT") /\ Serves("ms") /\ Serves("agent")
      /\ Awake("nn") /\ Awake("dn") /\ Awake("rm") /\ Awake("nm") /\ Standard
  BY <1>1, <1>4 DEF Restored
<1>6. \A u \in Rules : rules[u] = 0
  <2>1. \A u \in Rules : u[1] \in {"INPUT", "OUTPUT"}
    BY DEF Rules
  <2>2. QED
    BY <1>5, <2>1 DEF Zero
<1>7. \A d \in Daemons : daemon[d] = "stopped" => d[1] = "snn"
  <2>1. \A d \in Daemons : d[1] \in {"nn", "snn", "rm", "dn", "nm"}
    BY DEF Daemons
  <2>2. QED
    BY <1>5, <2>1 DEF Awake
<1>8. QED
  BY <1>5, <1>6, <1>7 DEF Serves, Standard

\* "Recover all", when nothing else ran, leaves no shaping, no packet filter
\* rule, no hung daemon but the secondary NameNode, whatever slaves it could
\* reach when it started, no hung management server or agent and, if MySQL
\* runs, the standard number of connections.
THEOREM RecoverAllRecovers == Spec => []RecoverAllRestores
<1>1. Init => RecoverOK
  BY Cluster DEF Init, CsInit, RecoverOK, Alone, Idle
<1>2. TypeInv /\ AloneOK /\ RecoverOK /\ [Next]_vars => (AloneOK /\ RecoverOK)'
  BY NextAlone, NextRecover
<1>3. QED
  BY <1>1, <1>2, InitType, NextType, InitAlone, RecoverDone, PTL DEF Spec

(***************************************************************************)
(* 7. The cascading scenario.                                              *)
(***************************************************************************)

LEMMA DelayScript ==
    /\ network_injector("delay") \in Seq(Steps) /\ Len(network_injector("delay")) = 3
    /\ network_injector("delay")[1] = Do("qdisc-del", None)
    /\ network_injector("delay")[2] = Do("flush", "OUTPUT")
    /\ network_injector("delay")[3] = Do("netem", "delay")
<1> DEFINE a == Do("qdisc-del", None)
           b == Do("flush", "OUTPUT")
           c == Do("netem", "delay")
           s == <<a, b>>
           t == <<c>>
<1>1. a \in Steps /\ b \in Steps /\ c \in Steps
  BY BareStep, FlushStep, ShapeStep
<1>2. network_injector("delay") = s \o t
  BY DEF network_injector
<1> HIDE DEF a, b, c
<1>3. s \in Seq(Steps) /\ Len(s) = 2 /\ s[1] = a /\ s[2] = b
  BY <1>1, Two
<1>4. t \in Seq(Steps) /\ Len(t) = 1 /\ t[1] = c
  BY <1>1, One
<1> HIDE DEF s, t
<1>5. 2 \in Nat
  OBVIOUS
<1>6. /\ s \o t \in Seq(Steps) /\ Len(s \o t) = 2 + 1
      /\ \A i \in 1 .. 2 : (s \o t)[i] = s[i]
      /\ (s \o t)[2 + 1] = t[1]
  BY <1>3, <1>4, <1>5, Add1, Zenon
<1> DEFINE w == network_injector("delay")
<1>7. /\ w \in Seq(Steps) /\ Len(w) = 2 + 1
      /\ \A i \in 1 .. 2 : w[i] = s[i]
      /\ w[2 + 1] = t[1]
  BY <1>2, <1>6, Zenon
<1> HIDE DEF w
<1>8. w \in Seq(Steps) /\ Len(w) = 3 /\ w[1] = a /\ w[2] = b /\ w[3] = c
  BY <1>3, <1>4, <1>7
<1>9. QED
  BY <1>8 DEF a, b, c, w

LEMMA CascadeSteps ==
    /\ Cascade \in Seq(Steps) /\ Len(Cascade) = 7
    /\ Cascade[1] = Do("qdisc-del", None)
    /\ Cascade[2] = Do("flush", "OUTPUT")
    /\ Cascade[3] = Do("netem", "delay")
    /\ Cascade[4] = Do("hadoop", <<"hang", "dn">>)
    /\ Cascade[5] = Do("hadoop", <<"resume", "dn">>)
    /\ Cascade[6] = Do("qdisc-del", None)
    /\ Cascade[7] = Do("flush", "OUTPUT")
<1> DEFINE s1 == network_injector("delay")
           h1 == hadoop_injector("hang", "dn")
           h2 == hadoop_injector("resume", "dn")
           s0 == network_injector("none")
           s2 == s1 \o h1
           s3 == s2 \o h2
           s4 == s3 \o s0
           a == Do("qdisc-del", None)
           b == Do("flush", "OUTPUT")
           c == Do("netem", "delay")
           d1 == Do("hadoop", <<"hang", "dn">>)
           d2 == Do("hadoop", <<"resume", "dn">>)
<1>1. Cascade = s4
  BY DEF Cascade
<1>2. "hang" \in Signals /\ "resume" \in Signals /\ "dn" \in Components
  BY DEF Signals, Components
<1>3. /\ h1 \in Seq(Steps) /\ Len(h1) = 1 /\ h1[1] = d1
      /\ h2 \in Seq(Steps) /\ Len(h2) = 1 /\ h2[1] = d2
  BY <1>2, HadoopScript
<1>4. s1 \in Seq(Steps) /\ Len(s1) = 3 /\ s1[1] = a /\ s1[2] = b /\ s1[3] = c
  BY DelayScript
<1>5. s0 \in Seq(Steps) /\ Len(s0) = 2 /\ s0[1] = a /\ s0[2] = b
  BY NoneScript
<1> HIDE DEF s0, s1, h1, h2, a, b, c, d1, d2
<1>6. 3 \in Nat /\ 4 \in Nat /\ 5 \in Nat
  OBVIOUS
<1>7. /\ s2 \in Seq(Steps) /\ Len(s2) = 3 + 1 /\ \A i \in 1 .. 3 : s2[i] = s1[i]
      /\ s2[3 + 1] = h1[1]
  BY <1>3, <1>4, <1>6, Add1, Zenon
<1> HIDE DEF s2
<1>8. s2 \in Seq(Steps) /\ Len(s2) = 4 /\ s2[1] = a /\ s2[2] = b /\ s2[3] = c /\ s2[4] = d1
  BY <1>3, <1>4, <1>7
<1>9. /\ s3 \in Seq(Steps) /\ Len(s3) = 4 + 1 /\ \A i \in 1 .. 4 : s3[i] = s2[i]
      /\ s3[4 + 1] = h2[1]
  BY <1>3, <1>6, <1>8, Add1, Zenon
<1> HIDE DEF s3
<1>10. s3 \in Seq(Steps) /\ Len(s3) = 5 /\ s3[1] = a /\ s3[2] = b /\ s3[3] = c /\ s3[4] = d1
       /\ s3[5] = d2
  BY <1>3, <1>8, <1>9
<1>11. /\ s4 \in Seq(Steps) /\ Len(s4) = 5 + 2 /\ \A i \in 1 .. 5 : s4[i] = s3[i]
       /\ s4[5 + 1] = s0[1] /\ s4[5 + 2] = s0[2]
  BY <1>5, <1>6, <1>10, Add2, Zenon
<1> HIDE DEF s4
<1>12. s4 \in Seq(Steps) /\ Len(s4) = 7 /\ s4[1] = a /\ s4[2] = b /\ s4[3] = c /\ s4[4] = d1
       /\ s4[5] = d2 /\ s4[6] = a /\ s4[7] = b
  BY <1>5, <1>10, <1>11
<1>13. QED
  BY <1>1, <1>12 DEF a, b, c, d1, d2

\* What the scenario has undone after n of its steps: it empties OUTPUT before
\* it hangs the DataNodes and isolates nobody, so that the slaves it reaches
\* to resume them are those that are still reachable when it ends.
DataNodesAwake == \A n \in Slaves : Reachable(n) => daemon[<<"dn", n>>] # "stopped"
Undone(n) ==
    /\ n >= 2 => Zero("OUTPUT")
    /\ n >= 5 => DataNodesAwake
    /\ n >= 6 => qdisc = NoQdisc

CascadeInv ==
    Alone(Controller) /\ running[Controller].op = "cascade" =>
        \E n \in 0 .. 7 : todo[Controller] = Rest(Cascade, n) /\ Undone(n)

LEMMA SlaveRules ==
    ASSUME NEW n \in Slaves
    PROVE  /\ <<"dn", n>> \in Daemons
           /\ <<"INPUT", n, 0>> \in Rules /\ <<"OUTPUT", n, 0>> \in Rules
<1>1. n \in Addresses /\ 0 \in Ports
  BY Cluster DEF Ports
<1>2. QED
  BY <1>1, FilterStep DEF Daemons

\* Emptying OUTPUT again reaches nobody new.
LEMMA SameReach ==
    ASSUME NEW r \in Runners, Flush(r), What(r) = "OUTPUT", Zero("OUTPUT"), RulesOK
    PROVE  Zero("OUTPUT")' /\ \A n \in Slaves : Reachable(n)' <=> Reachable(n)
<1>1. rules' = [u \in Rules |-> IF u[1] = "OUTPUT" THEN 0 ELSE rules[u]]
  BY DEF Flush
<1>2. \A u \in Rules : rules'[u] = rules[u]
  BY <1>1 DEF Zero
<1>3. ASSUME NEW n \in Slaves
      PROVE  rules'[<<"INPUT", n, 0>>] = rules[<<"INPUT", n, 0>>]
             /\ rules'[<<"OUTPUT", n, 0>>] = rules[<<"OUTPUT", n, 0>>]
  BY <1>2, SlaveRules
<1>4. QED
  BY <1>2, <1>3 DEF Zero, Reachable, Answers

LEMMA CascadeStep ==
    ASSUME TypeInv, NEW r \in Runners, Acts(r), Advances(r), NEW n \in 0 .. 7,
           todo[r] = Rest(Cascade, n), Undone(n)
    PROVE  n + 1 \in 0 .. 7 /\ todo'[r] = Rest(Cascade, n + 1) /\ Undone(n + 1)'
<1>1. todo \in [Runners -> Scripts] /\ RulesOK
  BY DEF TypeInv, RunnersOK, WorldOK
<1>2. Cascade \in Seq(Steps) /\ Len(Cascade) = 7 /\ n \in 0 .. Len(Cascade)
  BY CascadeSteps
<1>3. /\ n < 7 /\ Head(todo[r]) = Cascade[n + 1]
      /\ Head(todo[r]).op # "filter" => todo'[r] = Rest(Cascade, n + 1)
  BY <1>1, <1>2, Position
<1>4. n + 1 \in 0 .. 7
  BY <1>3
<1> DEFINE e == Head(todo[r])
           Does == e.op # "filter" /\ Undone(n + 1)'
<1>5. What(r) = e.what
  BY DEF What
<1>6. /\ (n = 0 \/ n = 5) => e = Do("qdisc-del", None)
      /\ (n = 1 \/ n = 6) => e = Do("flush", "OUTPUT")
      /\ n = 2 => e = Do("netem", "delay")
      /\ n = 3 => e = Do("hadoop", <<"hang", "dn">>)
      /\ n = 4 => e = Do("hadoop", <<"resume", "dn">>)
  BY <1>3, CascadeSteps
<1> HIDE DEF e
<1>7. ASSUME n = 0 \/ n = 5 PROVE Does
  <2>1. e.op = "qdisc-del"
    BY <1>6, <1>7, DoFields
  <2>2. QdiscDel(r) /\ UNCHANGED clusterVars
    BY <2>1, WhichStep DEF e
  <2>3. qdisc' = NoQdisc /\ rules' = rules /\ daemon' = daemon
    BY <2>2 DEF QdiscDel, clusterVars
  <2>4. Zero("OUTPUT")' <=> Zero("OUTPUT")
    BY <2>3 DEF Zero
  <2>5. DataNodesAwake' <=> DataNodesAwake
    BY <2>3 DEF DataNodesAwake, Reachable, Answers
  <2>6. Undone(n + 1)'
    BY <1>7, <2>3, <2>4, <2>5 DEF Undone
  <2>7. QED
    BY <2>1, <2>6
<1>8. ASSUME n = 1 PROVE Does
  <2>1. e.op = "flush" /\ e.what = "OUTPUT"
    BY <1>6, <1>8, DoFields
  <2>2. Flush(r) /\ UNCHANGED clusterVars
    BY <2>1, WhichStep DEF e
  <2>3. Zero("OUTPUT")'
    BY <1>1, <1>5, <2>1, <2>2, FlushEffect
  <2>4. Undone(n + 1)'
    BY <1>8, <2>3 DEF Undone
  <2>5. QED
    BY <2>1, <2>4
<1>9. ASSUME n = 2 PROVE Does
  <2>1. e.op = "netem"
    BY <1>6, <1>9, DoFields
  <2>2. QdiscNetem(r)
    BY <2>1, WhichStep DEF e
  <2>3. Zero("OUTPUT")'
    BY <1>9, <2>2 DEF QdiscNetem, Undone, Zero
  <2>4. Undone(n + 1)'
    BY <1>9, <2>3 DEF Undone
  <2>5. QED
    BY <2>1, <2>4
<1>10. ASSUME n = 3 PROVE Does
  <2>1. e.op = "hadoop"
    BY <1>6, <1>10, DoFields
  <2>2. HadoopSignal(r)
    BY <2>1, WhichStep DEF e
  <2>3. Zero("OUTPUT")'
    BY <1>10, <2>2 DEF HadoopSignal, netVars, Undone, Zero
  <2>4. Undone(n + 1)'
    BY <1>10, <2>3 DEF Undone
  <2>5. QED
    BY <2>1, <2>4
<1>11. ASSUME n = 4 PROVE Does
  <2>1. e.op = "hadoop" /\ e.what = <<"resume", "dn">>
    BY <1>6, <1>11, DoFields
  <2>2. HadoopSignal(r)
    BY <2>1, WhichStep DEF e
  <2>3. What(r)[1] = "resume" /\ What(r)[2] = "dn"
    BY <1>5, <2>1
  <2>4. rules' = rules
        /\ daemon' = [d \in Daemons |-> IF d[1] = "dn" /\ Reachable(d[2])
                                        THEN After("resume", daemon[d]) ELSE daemon[d]]
    BY <2>2, <2>3 DEF HadoopSignal, netVars
  <2>5. Zero("OUTPUT")'
    BY <1>11, <2>4 DEF Undone, Zero
  <2>6. \A d \in Daemons : After("resume", daemon[d]) # "stopped"
    BY DEF After
  <2>7. \A m \in Slaves : Reachable(m) => daemon'[<<"dn", m>>] # "stopped"
    BY <2>4, <2>6, SlaveRules
  <2>8. DataNodesAwake'
    BY <2>4, <2>7 DEF DataNodesAwake, Reachable, Answers
  <2>9. Undone(n + 1)'
    BY <1>11, <2>5, <2>8 DEF Undone
  <2>10. QED
    BY <2>1, <2>9
<1>12. ASSUME n = 6 PROVE Does
  <2>1. e.op = "flush" /\ e.what = "OUTPUT"
    BY <1>6, <1>12, DoFields
  <2>2. Flush(r) /\ UNCHANGED clusterVars
    BY <2>1, WhichStep DEF e
  <2>3. qdisc' = qdisc /\ daemon' = daemon
    BY <2>2 DEF Flush, clusterVars
  <2>4. Zero("OUTPUT") /\ DataNodesAwake /\ qdisc = NoQdisc
    BY <1>12 DEF Undone
  <2>5. Zero("OUTPUT")' /\ \A m \in Slaves : Reachable(m)' <=> Reachable(m)
    BY <1>1, <1>5, <2>1, <2>2, <2>4, SameReach
  <2>6. DataNodesAwake'
    BY <2>3, <2>4, <2>5 DEF DataNodesAwake
  <2>7. Undone(n + 1)'
    BY <2>3, <2>4, <2>5, <2>6 DEF Undone
  <2>8. QED
    BY <2>1, <2>7
<1>13. Does
  <2>1. n \in {0, 1, 2, 3, 4, 5, 6}
    BY <1>3
  <2>2. QED
    BY <2>1, <1>7, <1>8, <1>9, <1>10, <1>11, <1>12
<1>14. todo'[r] = Rest(Cascade, n + 1)
  BY <1>3, <1>13 DEF e
<1>15. QED
  BY <1>4, <1>13, <1>14

LEMMA NextCascade ==
    ASSUME TypeInv, AloneOK, CascadeInv, [Next]_vars
    PROVE  CascadeInv'
<1> DEFINE r == Controller
           Good(n) == todo'[r] = Rest(Cascade, n) /\ Undone(n)'
<1> SUFFICES ASSUME Alone(r)', (running[r].op)' = "cascade"
             PROVE  \E n \in 0 .. 7 : Good(n)
  BY DEF CascadeInv
<1>0. r \in Runners
  BY Cluster
<1>1. ASSUME NEW c, running'[r] = c, todo'[r] = MenuScript(c)
      PROVE  Good(0)
  <2>1. todo'[r] = Cascade
    BY <1>1 DEF MenuScript
  <2>2. todo'[r] = Rest(Cascade, 0)
    BY <2>1, CascadeSteps, RestStart
  <2>3. QED
    BY <2>2 DEF Undone
<1>2. CASE Alone(r) /\ running'[r] = running[r]
  <2>1. PICK n \in 0 .. 7 : todo[r] = Rest(Cascade, n) /\ Undone(n)
    BY <1>2 DEF CascadeInv
  <2>2. CASE Acts(r) /\ Advances(r)
    <3>1. n + 1 \in 0 .. 7 /\ Good(n + 1)
      BY <1>0, <2>1, <2>2, CascadeStep
    <3>2. QED
      BY <3>1
  <2>3. CASE UNCHANGED <<netVars, clusterVars>> /\ todo'[r] = todo[r]
    <3>1. Good(n)
      BY <2>1, <2>3 DEF netVars, clusterVars, Undone, Zero, DataNodesAwake, Reachable, Answers
    <3>2. QED
      BY <3>1
  <2>4. CsEnvironment => UNCHANGED netVars
    BY DEF CsEnvironment, OpenBallast, RestartService
  <2>5. UNCHANGED World => UNCHANGED <<netVars, clusterVars>>
    BY DEF World
  <2>6. CASE \E c : running'[r] = c /\ todo'[r] = MenuScript(c)
    BY <1>1, <2>6
  <2>7. QED
    BY <1>0, <2>2, <2>3, <2>4, <2>5, <2>6, Followed
<1>3. QED
  BY <1>0, <1>1, <1>2, Followed

LEMMA CascadeDone == CascadeInv => CascadeUndoesItself
<1> SUFFICES ASSUME CascadeInv, Reports("cascade") PROVE qdisc = NoQdisc /\ DataNodesAwake
  BY DEF CascadeUndoesItself, DataNodesAwake
<1>1. PICK n \in 0 .. 7 : todo[Controller] = Rest(Cascade, n) /\ Undone(n)
  BY DEF Reports, CascadeInv, Alone, Done
<1>2. Cascade \in Seq(Steps) /\ n \in 0 .. Len(Cascade) /\ Len(Cascade) = 7
  BY CascadeSteps
<1>3. Rest(Cascade, n) = <<>> <=> n = Len(Cascade)
  BY <1>2, RestFacts
<1>4. n = 7
  BY <1>1, <1>2, <1>3 DEF Reports, Done
<1>5. QED
  BY <1>1, <1>4 DEF Undone

\* The cascading scenario, when nothing else ran, undoes both of its faults:
\* no shaping is left and no DataNode that ssh reaches is hung.
THEOREM CascadeUndone == Spec => []CascadeUndoesItself
<1>1. Init => CascadeInv
  BY Cluster DEF Init, CsInit, CascadeInv, Alone, Idle
<1>2. TypeInv /\ AloneOK /\ CascadeInv /\ [Next]_vars => (AloneOK /\ CascadeInv)'
  BY NextAlone, NextCascade
<1>3. QED
  BY <1>1, <1>2, InitType, NextType, InitAlone, CascadeDone, PTL DEF Spec
=============================================================================
