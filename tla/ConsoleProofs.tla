---------------------------- MODULE ConsoleProofs ----------------------------
(***************************************************************************)
(* Theorems about Console, the web console with the start of its server,   *)
(* for any pages, any requests, any number of slaves, starters and         *)
(* machines.                                                               *)
(***************************************************************************)
EXTENDS Console, FiniteSetTheorems, SequenceTheorems, TLAPS

(***************************************************************************)
(* 1. Requests and the command lines behind them.                          *)
(***************************************************************************)

FaultNames == {Fault[a] : a \in DOMAIN Fault}

Ops == {"start", "stop", "inject", "clear", "none"}

\* A command line: it starts daemons, injects faults, or does neither.
CommandLines == {c \in [op : Ops, on : SUBSET (Daemons \cup FaultNames)] :
                   /\ c.op = "start" => c.on \subseteq Daemons
                   /\ c.op = "inject" => c.on \subseteq FaultNames}

LEMMA CommandFields ==
    ASSUME NEW op, NEW on
    PROVE  Command(op, on).op = op /\ Command(op, on).on = on
BY DEF Command

LEMMA CommandType ==
    /\ \A D \in SUBSET Daemons : Command("start", D) \in CommandLines
    /\ \A D \in SUBSET Daemons : Command("stop", D) \in CommandLines
    /\ \A F \in SUBSET FaultNames : Command("inject", F) \in CommandLines
    /\ \A F \in SUBSET FaultNames : Command("clear", F) \in CommandLines
    /\ Command("none", {}) \in CommandLines
BY DEF CommandLines, Ops, Command

LEMMA RequestType ==
    ASSUME NEW action \in Actions
    PROVE  Request(action) \in Requests /\ Request(action).action = action
BY DEF Request, Requests, Arguments

\* What a card clears is a fault that some card injects.
LEMMA ClearsFaults == \A a \in DOMAIN Clears : Clears[a] \in FaultNames
BY DEF Clears, FaultNames, Fault

\* The daemons, in the order they are started.
LEMMA OrderType ==
    /\ Order \in Seq(Daemons)
    /\ \A d \in Daemons : \E i \in 1 .. Len(Order) : Order[i] = d
<1> DEFINE Any == {"nn", "snn", "dn", "rm", "nm"} \X (STRING \cup {"master"})
<1>1. ASSUME NEW daemon \in {"dn", "nm"}
      PROVE  On(daemon) \in Seq(Any)
  BY Pages DEF On
<1>2. /\ << <<"nn", "master">>, <<"snn", "master">> >> \in Seq(Any)
      /\ << <<"rm", "master">> >> \in Seq(Any)
  <2>1. <<"nn", "master">> \in Any /\ <<"snn", "master">> \in Any /\ <<"rm", "master">> \in Any
    OBVIOUS
  <2> HIDE DEF Any
  <2>2. ASSUME NEW a \in Any, NEW b \in Any PROVE <<a, b>> \in Seq(Any) /\ <<a>> \in Seq(Any)
    OBVIOUS
  <2> QED BY <2>1, <2>2
<1>3. Order \in Seq(Any)
  <2> HIDE DEF Any
  <2>2. /\ On("dn") \in Seq(Any) /\ On("nm") \in Seq(Any)
    BY <1>1
  <2>3. ASSUME NEW a \in Seq(Any), NEW b \in Seq(Any), NEW c \in Seq(Any), NEW d \in Seq(Any)
        PROVE  a \o b \o c \o d \in Seq(Any)
    OBVIOUS
  <2> QED BY <1>2, <2>2, <2>3 DEF Order
<1> HIDE DEF Any
<1>4. DOMAIN Order = 1 .. Len(Order) /\ Len(Order) \in Nat
  BY <1>3
<1>5. Daemons = {Order[i] : i \in 1 .. Len(Order)}
  BY <1>4 DEF Daemons, Range
<1>6. \A i \in 1 .. Len(Order) : Order[i] \in Daemons
  BY <1>5
<1>7. \A d \in Daemons : \E i \in 1 .. Len(Order) : Order[i] = d
  BY <1>5
<1>8. Order \in Seq(Daemons)
  BY <1>3, <1>4, <1>6, SeqDef
<1> QED BY <1>7, <1>8

\* There is a NameNode.
LEMMA OrderLength == Len(Order) >= 1
<1>1. /\ On("dn") \in Seq({"dn", "nm"} \X STRING)
      /\ On("nm") \in Seq({"dn", "nm"} \X STRING)
  BY Pages DEF On
<1>2. ASSUME NEW S, NEW T, NEW a \in Seq(S), NEW b \in Seq(S), NEW c, NEW d, NEW e
      PROVE  Len(<<c, d>> \o a \o <<e>> \o b) >= 1
  OBVIOUS
<1> QED BY <1>1, <1>2 DEF Order

\* hadoop_start and hadoop_stop.
LEMMA HadoopScripts ==
    /\ StartAll \in Seq(CommandLines) /\ Len(StartAll) = Len(Order)
    /\ \A i \in 1 .. Len(Order) : StartAll[i] = Command("start", {Order[i]})
    /\ StopAll \in Seq(CommandLines) /\ Len(StopAll) = 2
    /\ Sleep3 \in Seq(CommandLines) /\ Len(Sleep3) = 1
<1>1. DOMAIN Order = 1 .. Len(Order) /\ Len(Order) \in Nat
  BY OrderType
<1>2. \A i \in 1 .. Len(Order) : Command("start", {Order[i]}) \in CommandLines
  <2> TAKE i \in 1 .. Len(Order)
  <2>1. Order[i] \in Daemons
    BY OrderType
  <2>2. {Order[i]} \in SUBSET Daemons
    BY <2>1
  <2> QED BY <2>2, CommandType
<1>3. /\ StartAll \in Seq(CommandLines) /\ Len(StartAll) = Len(Order)
      /\ \A i \in 1 .. Len(Order) : StartAll[i] = Command("start", {Order[i]})
  BY <1>1, <1>2 DEF StartAll
<1>4. Yarn \in SUBSET Daemons /\ Daemons \ Yarn \in SUBSET Daemons
  BY DEF Yarn
<1>5. Command("stop", Yarn) \in CommandLines /\ Command("stop", Daemons \ Yarn) \in CommandLines
  BY <1>4, CommandType
<1>6. StopAll \in Seq(CommandLines) /\ Len(StopAll) = 2
  BY <1>5 DEF StopAll
<1>7. Sleep3 \in Seq(CommandLines) /\ Len(Sleep3) = 1
  BY CommandType DEF Sleep3
<1> QED BY <1>3, <1>6, <1>7

\* Every request has its script.
LEMMA ScriptType ==
    ASSUME NEW r \in Requests
    PROVE  cmds(r) \in Seq(CommandLines)
<1>1. CASE r.action \in DOMAIN Clears
  <2>1. {Clears[r.action]} \in SUBSET FaultNames
    BY <1>1, ClearsFaults
  <2>2. Command("clear", {Clears[r.action]}) \in CommandLines
    BY <2>1, CommandType
  <2>3. cmds(r) = <<Command("clear", {Clears[r.action]})>>
    BY <1>1 DEF cmds, Clears, Fault
  <2> QED BY <2>2, <2>3
<1>2. CASE r.action = "hadoop_start"
  BY <1>2, HadoopScripts DEF cmds, Clears, Fault
<1>3. CASE r.action = "hadoop_stop"
  BY <1>3, HadoopScripts DEF cmds, Clears, Fault
<1>4. CASE r.action = "hadoop_restart"
  <2>1. cmds(r) = StopAll \o Sleep3 \o StartAll
    BY <1>4 DEF cmds, Clears, Fault
  <2> QED BY <2>1, HadoopScripts
<1>5. CASE r.action = "process_fault" /\ r.arg = "crash"
  <2>1. {Order[1]} \in SUBSET Daemons
    <3>1. Len(Order) >= 1
      BY OrderLength
    <3> QED BY <3>1, OrderType
  <2>2. cmds(r) = <<Command("stop", {Order[1]})>>
    BY <1>5 DEF cmds, Clears
  <2> QED BY <2>1, <2>2, CommandType
<1>6. CASE r.action \in DOMAIN Fault /\ ~ (r.action = "process_fault" /\ r.arg = "crash")
  <2>1. {Fault[r.action]} \in SUBSET FaultNames
    BY <1>6 DEF FaultNames
  <2>2. cmds(r) = <<Command(IF r.arg \in Undo THEN "clear" ELSE "inject", {Fault[r.action]})>>
    BY <1>6 DEF cmds, Clears, Fault
  <2> QED BY <2>1, <2>2, CommandType
<1>7. CASE /\ r.action \notin DOMAIN Clears
           /\ r.action \notin {"hadoop_start", "hadoop_stop", "hadoop_restart"}
           /\ ~ (r.action = "process_fault" /\ r.arg = "crash")
           /\ r.action \notin DOMAIN Fault
  <2>1. cmds(r) = Sleep3
    BY <1>7 DEF cmds
  <2> QED BY <2>1, HadoopScripts
<1> QED BY <1>1, <1>2, <1>3, <1>4, <1>5, <1>6, <1>7

(***************************************************************************)
(* 2. Types of the web console.                                            *)
(***************************************************************************)

Doings == {"idle", "action", "acted", "recover", "recovered",
           "test", "tested", "cleanup", "restored"}

Answers == {"none", "ok", "failed", "error"}

\* Every slot: a request under way is at a command line of its script, or at
\* the end of it.
SlotsOK ==
    /\ doing \in [Slots -> Doings]
    /\ req \in [Slots -> Requests]
    /\ pc \in [Slots -> Nat]
    /\ \A s \in Slots : pc[s] <= Len(Script(s)) + 1 /\ (Busy(s) => pc[s] >= 1)
    /\ allok \in [Slots -> BOOLEAN]
    /\ answer \in [Slots -> Answers]
    /\ step \in [Slots -> 0 .. Len(Plan)]

StraysOK ==
    /\ strays \subseteq CommandLines
    /\ IsFiniteSet(strays) /\ Cardinality(strays) <= MaxStrays

ServerOK == serving \in BOOLEAN /\ crashes \in 0 .. MaxCrashes[open]

ClusterOK == up \subseteq Daemons /\ faults \subseteq FaultNames

WebInv ==
    /\ SlotsOK /\ StraysOK /\ ServerOK /\ ClusterOK
    /\ open \in Screens
    /\ sure \in [Slots -> BOOLEAN]
    /\ owes \in [Slots -> SUBSET FaultNames]

LEMMA WebTypeOK == WebInv => TypeOK
<1> SUFFICES ASSUME WebInv PROVE TypeOK
  OBVIOUS
<1>1. \A s \in Slots : pc[s] \in 0 .. Len(Script(s)) + 1
  <2> TAKE s \in Slots
  <2>1. cmds(req[s]) \in Seq(CommandLines)
    BY ScriptType DEF WebInv, SlotsOK
  <2>2. Len(Script(s)) \in Nat
    BY <2>1 DEF Script
  <2> QED BY <2>2 DEF WebInv, SlotsOK
<1> QED BY <1>1 DEF TypeOK, WebInv, SlotsOK, StraysOK, ServerOK, ClusterOK,
           Doings, Answers, FaultNames

LEMMA ScriptOf ==
    ASSUME NEW s \in Slots, SlotsOK
    PROVE  Script(s) \in Seq(CommandLines) /\ Len(Script(s)) \in Nat
<1>1. cmds(req[s]) \in Seq(CommandLines)
  BY ScriptType DEF SlotsOK
<1> QED BY <1>1 DEF Script

\* The command line a handler is at.
LEMMA CurrentCommand ==
    ASSUME NEW s \in Slots, SlotsOK, Running(s)
    PROVE  Script(s)[pc[s]] \in CommandLines /\ pc[s] \in 1 .. Len(Script(s))
<1>1. pc[s] \in 1 .. Len(Script(s))
  BY ScriptOf DEF SlotsOK, Running, Handled
<1> QED BY <1>1, ScriptOf

\* The plan of the one-click recovery consists of requests.
LEMMA PlanType ==
    /\ Len(Plan) = 8
    /\ \A k \in 1 .. 8 : Plan[k] \in Requests
<1>1. ASSUME NEW a \in Actions PROVE Request(a) \in Requests
  BY <1>1, RequestType
<1>2. [action |-> "vm_network", arg |-> "clear"] \in Requests
  BY DEF Requests, Actions, Arguments, Fault, Undo
<1>3. {"delay_clear", "loss_clear", "reorder_clear", "isolate_clear",
       "mem_stress_clear", "disk_fill_clear"} \subseteq Actions
  BY DEF Actions, Clears
<1>4. "kvm_clear" \in Actions
  BY DEF Actions, Clears
<1>5. Plan \in Seq(Requests) /\ Len(Plan) = 8
  BY <1>1, <1>2, <1>3, <1>4 DEF Plan
<1>6. ASSUME NEW k \in 1 .. 8 PROVE Plan[k] \in Requests
  <2>1. k \in 1 .. Len(Plan)
    BY <1>5
  <2> QED BY <1>5, <2>1, ElementOfSeq, Zenon
<1> QED BY <1>5, <1>6

\* Posting a request from one slot.
LEMMA PostType ==
    ASSUME SlotsOK, NEW s \in Slots, NEW r \in Requests, Post(s, r),
           doing' \in [Slots -> Doings], step' \in [Slots -> 0 .. Len(Plan)],
           \A t \in Slots \ {s} : doing'[t] = doing[t]
    PROVE  SlotsOK'
<1>1. /\ req' \in [Slots -> Requests] /\ pc' \in [Slots -> Nat]
      /\ allok' \in [Slots -> BOOLEAN]
  BY DEF Post, SlotsOK
<1>2. answer' \in [Slots -> Answers]
  BY DEF Post, SlotsOK, Answers
<1>3. ASSUME NEW t \in Slots
      PROVE  pc'[t] <= Len(Script(t)') + 1 /\ (Busy(t)' => pc'[t] >= 1)
  <2>1. CASE t = s
    <3>1. pc'[t] = 1 /\ cmds(req'[t]) \in Seq(CommandLines)
      BY <2>1, <1>1, ScriptType DEF Post, SlotsOK
    <3>2. Len(Script(t)') \in Nat
      BY <3>1 DEF Script
    <3> QED BY <3>1, <3>2
  <2>2. CASE t # s
    <3>1. pc'[t] = pc[t] /\ req'[t] = req[t] /\ doing'[t] = doing[t]
      BY <2>2 DEF Post, SlotsOK
    <3>2. Script(t)' = Script(t) /\ (Busy(t)' <=> Busy(t))
      BY <3>1 DEF Script, Busy
    <3> QED BY <3>1, <3>2 DEF SlotsOK
  <2> QED BY <2>1, <2>2
<1> QED BY <1>1, <1>2, <1>3 DEF SlotsOK

\* What a request has left to remove is a fault that is in place.
LEMMA PostOwes ==
    ASSUME WebInv, NEW s \in Slots, NEW r, Post(s, r)
    PROVE  owes' \in [Slots -> SUBSET FaultNames]
<1>1. owes \in [Slots -> SUBSET FaultNames] /\ faults \subseteq FaultNames
  BY DEF WebInv, ClusterOK
<1>2. PICK x : owes' = [owes EXCEPT ![s] = (IF doing[s] = "recover" THEN @ ELSE {}) \cup (x \cap faults)]
  BY DEF Post
<1> QED BY <1>1, <1>2

LEMMA BeginType ==
    ASSUME WebInv, NEW s \in Slots, NEW what \in Doings, NEW r \in Requests,
           Begin(s, what, r), step' \in [Slots -> 0 .. Len(Plan)], UNCHANGED open
    PROVE  WebInv'
<1>1. doing' \in [Slots -> Doings] /\ \A t \in Slots \ {s} : doing'[t] = doing[t]
  BY DEF Begin, WebInv, SlotsOK
<1>2. SlotsOK'
  BY <1>1, PostType DEF Begin, WebInv
<1>3. sure' \in [Slots -> BOOLEAN]
  BY DEF Begin
<1>4. owes' \in [Slots -> SUBSET FaultNames]
  BY PostOwes DEF Begin
<1> QED BY <1>2, <1>3, <1>4 DEF Begin, WebInv, StraysOK, ServerOK, ClusterOK, world

\* The three kinds of controls begin their operations.
LEMMA ControlsType ==
    ASSUME WebInv, UNCHANGED open
    PROVE  /\ \A s \in Cards, r \in Menu : runAction(s, r) => WebInv'
           /\ \A s \in RecoverAll : runRecoveryAll(s) => WebInv'
           /\ \A s \in TestPages : executeCleanup(s) => WebInv'
           /\ \A s \in TestPages, t \in Tests : executeTest(s, t) => WebInv'
<1>1. step \in [Slots -> 0 .. Len(Plan)] /\ req \in [Slots -> Requests]
  BY DEF WebInv, SlotsOK
<1>2. {"action", "recover", "test", "cleanup"} \subseteq Doings
  BY DEF Doings
<1>3. ASSUME NEW s \in Cards, NEW r \in Menu, runAction(s, r) PROVE WebInv'
  <2>1. s \in Slots /\ r \in Requests
    BY Pages DEF Slots
  <2>2. Begin(s, "action", r) /\ step' \in [Slots -> 0 .. Len(Plan)]
    BY <1>1, <1>3 DEF runAction
  <2> QED BY <1>2, <2>1, <2>2, BeginType
<1>4. ASSUME NEW s \in RecoverAll, runRecoveryAll(s) PROVE WebInv'
  <2>1. s \in Slots /\ Plan[1] \in Requests /\ 1 \in 0 .. Len(Plan)
    BY PlanType DEF Slots
  <2>2. Begin(s, "recover", Plan[1]) /\ step' = [step EXCEPT ![s] = 1]
    BY <1>4 DEF runRecoveryAll
  <2>3. step' \in [Slots -> 0 .. Len(Plan)]
    BY <1>1, <2>1, <2>2
  <2> QED BY <1>2, <2>1, <2>2, <2>3, BeginType
<1>5. ASSUME NEW s \in TestPages, executeCleanup(s) PROVE WebInv'
  <2>1. s \in Slots /\ req[s] \in Requests /\ req[s].action \in Actions
    BY <1>1 DEF Slots, Requests
  <2>2. Request(req[s].action) \in Requests
    BY <2>1, RequestType
  <2>3. PICK r \in Requests : Begin(s, "cleanup", r)
    BY <1>5, <2>1, <2>2 DEF executeCleanup
  <2>4. step' \in [Slots -> 0 .. Len(Plan)]
    BY <1>1, <1>5 DEF executeCleanup
  <2> QED BY <1>2, <2>1, <2>3, <2>4, BeginType
<1>6. ASSUME NEW s \in TestPages, NEW t \in Tests, executeTest(s, t) PROVE WebInv'
  <2>1. s \in Slots /\ t \in Requests
    BY Pages DEF Slots
  <2>2. Begin(s, "test", t) /\ step' \in [Slots -> 0 .. Len(Plan)]
    BY <1>1, <1>6 DEF executeTest
  <2> QED BY <1>2, <2>1, <2>2, BeginType
<1> QED BY <1>3, <1>4, <1>5, <1>6

\* Nothing but the answer to some slots changes.
LEMMA AnswerType ==
    ASSUME SlotsOK, UNCHANGED <<doing, req, pc, allok, step>>,
           answer' \in [Slots -> Answers]
    PROVE  SlotsOK'
BY DEF SlotsOK, Script, Busy

LEMMA SlotUnchanged == SlotsOK /\ UNCHANGED slot => SlotsOK'
BY DEF SlotsOK, Script, Busy, slot

\* The next step of the recovery.
LEMMA NextStepType ==
    ASSUME SlotsOK, NEW s \in Slots, NextStep(s)
    PROVE  SlotsOK'
<1>1. step[s] \in 0 .. 8 /\ step[s] < 8 /\ Len(Plan) = 8
  BY PlanType DEF SlotsOK, NextStep
<1>2. Plan[step[s] + 1] \in Requests
  BY <1>1, PlanType
<1>3. step' \in [Slots -> 0 .. Len(Plan)]
  BY <1>1 DEF SlotsOK, NextStep
<1>4. doing' = doing /\ Post(s, Plan[step[s] + 1])
  BY DEF NextStep
<1>5. doing' \in [Slots -> Doings] /\ \A t \in Slots \ {s} : doing'[t] = doing[t]
  BY <1>4 DEF SlotsOK
<1> QED BY <1>2, <1>3, <1>4, <1>5, PostType

\* How an operation ends: its slot is not busy any more.
LEMMA OutcomeType ==
    ASSUME NEW s
    PROVE  /\ Outcome(s) \in {"acted", "recovered", "idle", "tested", "restored"}
           /\ Outcome(s) = "acted" => doing[s] = "action"
           /\ Outcome(s) = "recovered" => doing[s] = "recover"
BY DEF Outcome

LEMMA LastStepFacts ==
    ASSUME SlotsOK, NEW s \in Slots, LastStep(s)
    PROVE  /\ doing'[s] = Outcome(s) /\ ~ Busy(s)'
           /\ \A t \in Slots \ {s} : /\ doing'[t] = doing[t] /\ (Busy(t)' <=> Busy(t))
                                     /\ pc'[t] = pc[t] /\ answer'[t] = answer[t]
                                     /\ (allok'[t] <=> allok[t]) /\ step'[t] = step[t]
           /\ pc'[s] = 0 /\ answer'[s] = "none" /\ req' = req
BY OutcomeType DEF LastStep, SlotsOK, Busy

LEMMA LastStepType ==
    ASSUME SlotsOK, NEW s \in Slots, LastStep(s)
    PROVE  SlotsOK'
<1>1. /\ doing' \in [Slots -> Doings] /\ req' \in [Slots -> Requests]
      /\ pc' \in [Slots -> Nat] /\ allok' \in [Slots -> BOOLEAN]
      /\ answer' \in [Slots -> Answers]
  BY OutcomeType DEF LastStep, SlotsOK, Doings, Answers
<1>2. step' \in [Slots -> 0 .. Len(Plan)]
  BY PlanType DEF LastStep, SlotsOK
<1>3. ASSUME NEW t \in Slots
      PROVE  pc'[t] <= Len(Script(t)') + 1 /\ (Busy(t)' => pc'[t] >= 1)
  <2>1. Script(t)' = Script(t) /\ Len(Script(t)) \in Nat
    BY LastStepFacts, ScriptOf DEF Script
  <2>2. pc[t] <= Len(Script(t)) + 1 /\ (Busy(t) => pc[t] >= 1) /\ pc[t] \in Nat
    BY DEF SlotsOK
  <2> QED BY <2>1, <2>2, LastStepFacts
<1> QED BY <1>1, <1>2, <1>3 DEF SlotsOK

\* A command line ends.
LEMMA EndedType ==
    ASSUME SlotsOK, NEW s \in Slots, NEW ok \in BOOLEAN, Running(s), Ended(s, ok)
    PROVE  SlotsOK'
<1>1. /\ doing' = doing /\ req' = req /\ answer' = answer /\ step' = step
      /\ pc' = [pc EXCEPT ![s] = @ + 1] /\ allok' = [allok EXCEPT ![s] = @ /\ ok]
  BY DEF Ended
<1>2. pc' \in [Slots -> Nat]
  BY <1>1 DEF SlotsOK
<1>3. allok' \in [Slots -> BOOLEAN]
  BY <1>1 DEF SlotsOK
<1>4. ASSUME NEW t \in Slots
      PROVE  pc'[t] <= Len(Script(t)') + 1 /\ (Busy(t)' => pc'[t] >= 1)
  <2>1. /\ Script(t)' = Script(t) /\ Len(Script(t)) \in Nat /\ (Busy(t)' <=> Busy(t))
        /\ pc[t] <= Len(Script(t)) + 1 /\ (Busy(t) => pc[t] >= 1) /\ pc[t] \in Nat
    BY <1>1, ScriptOf DEF Script, Busy, SlotsOK
  <2>2. CASE t = s
    <3>1. pc'[t] = pc[t] + 1 /\ pc[t] <= Len(Script(t))
      BY <1>1, <2>2 DEF Running, SlotsOK
    <3> QED BY <2>1, <3>1
  <2>3. CASE t # s
    <3>1. pc'[t] = pc[t]
      BY <1>1, <2>3 DEF SlotsOK
    <3> QED BY <2>1, <3>1
  <2> QED BY <2>2, <2>3
<1> QED BY <1>1, <1>2, <1>3, <1>4 DEF SlotsOK

\* What a command line does to the cluster.
LEMMA EffectType ==
    ASSUME ClusterOK, NEW c \in CommandLines, TakeEffect(c)
    PROVE  ClusterOK'
<1>1. /\ c.op = "start" => c.on \subseteq Daemons
      /\ c.op = "inject" => c.on \subseteq FaultNames
  BY DEF CommandLines
<1>2. up' \subseteq Daemons
  BY <1>1 DEF ClusterOK, TakeEffect
<1>3. faults' \subseteq FaultNames
  BY <1>1 DEF ClusterOK, TakeEffect
<1> QED BY <1>2, <1>3 DEF ClusterOK

\* A command goes on after its timeout.
LEMMA StrayType ==
    ASSUME StraysOK, NEW c \in CommandLines, Cardinality(strays) < MaxStrays,
           strays' = strays \cup {c}
    PROVE  StraysOK'
<1>1. Cardinality(strays) \in Nat /\ MaxStrays \in Nat
  BY FS_CardinalityType, BoundsAssumption DEF StraysOK
<1>2. IsFiniteSet(strays') /\ Cardinality(strays') <= Cardinality(strays) + 1
  BY <1>1, FS_AddElement DEF StraysOK
<1>3. Cardinality(strays') \in Nat
  BY <1>2, FS_CardinalityType
<1> QED BY <1>1, <1>2, <1>3 DEF StraysOK

\* A command that is carried out has that much less to remove.
LEMMA CarriesType ==
    ASSUME WebInv, NEW s \in Slots, Running(s), CarriesOut(s)
    PROVE  ClusterOK' /\ owes' \in [Slots -> SUBSET FaultNames]
<1>1. Script(s)[pc[s]] \in CommandLines
  BY CurrentCommand DEF WebInv
<1>2. ClusterOK'
  BY <1>1, EffectType DEF CarriesOut, WebInv
<1>3. PICK x : owes' = [owes EXCEPT ![s] = @ \ x]
  BY DEF CarriesOut
<1> QED BY <1>2, <1>3 DEF WebInv

LEMMA HandlerType ==
    ASSUME WebInv, NEW s \in Slots, Handler(s), UNCHANGED open
    PROVE  WebInv'
<1> USE DEF WebInv
<1>1. CASE Reject(s)
  <2>1. answer' \in [Slots -> Answers]
    BY <1>1 DEF Reject, Raise, SlotsOK, Answers
  <2>2. SlotsOK'
    BY <1>1, <2>1, AnswerType DEF Reject
  <2> QED BY <1>1, <2>2 DEF Reject, StraysOK, ServerOK, ClusterOK, world, history
<1>2. CASE Works(s)
  <2>1. Script(s)[pc[s]] \in CommandLines
    BY <1>2, CurrentCommand DEF Works
  <2>2. SlotsOK'
    BY <1>2, EndedType DEF Works
  <2>3. ClusterOK' /\ owes' \in [Slots -> SUBSET FaultNames]
    BY <1>2, CarriesType DEF Works
  <2> QED BY <1>2, <2>2, <2>3 DEF Works, Ended, StraysOK, ServerOK
<1>3. CASE Misses(s)
  <2>1. SlotsOK'
    BY <1>3, EndedType DEF Misses
  <2> QED BY <1>3, <2>1 DEF Misses, Ended, StraysOK, ServerOK, ClusterOK, world, history
<1>4. CASE TimesOut(s)
  <2>1. Script(s)[pc[s]] \in CommandLines
    BY <1>4, CurrentCommand DEF TimesOut
  <2>2. SlotsOK'
    BY <1>4, EndedType DEF TimesOut
  <2>3. StraysOK'
    <3>1. CASE UNCHANGED strays
      BY <3>1 DEF StraysOK
    <3>2. CASE /\ Cardinality(strays) < MaxStrays
               /\ strays' = strays \cup {Script(s)[pc[s]]}
      BY <2>1, <3>2, StrayType
    <3> QED BY <1>4, <3>1, <3>2 DEF TimesOut
  <2> QED BY <1>4, <2>2, <2>3 DEF TimesOut, Ended, ServerOK, ClusterOK, history
<1>5. CASE Reply(s)
  <2>1. answer' \in [Slots -> Answers]
    BY <1>5 DEF Reply, SlotsOK, Answers
  <2>2. SlotsOK'
    BY <1>5, <2>1, AnswerType DEF Reply
  <2> QED BY <1>5, <2>2 DEF Reply, StraysOK, ServerOK, ClusterOK, world, history
<1>6. CASE Outlives(s)
  <2>1. answer' \in [Slots -> Answers]
    BY <1>6 DEF Outlives, Raise, SlotsOK, Answers
  <2>2. SlotsOK'
    BY <1>6, <2>1, AnswerType DEF Outlives
  <2>3. ClusterOK' /\ owes' \in [Slots -> SUBSET FaultNames]
    BY <1>6, CarriesType DEF Outlives, ClusterOK
  <2> QED BY <1>6, <2>2, <2>3 DEF Outlives, StraysOK, ServerOK
<1> QED BY <1>1, <1>2, <1>3, <1>4, <1>5, <1>6 DEF Handler

LEMMA ReceiveType ==
    ASSUME WebInv, NEW s \in Slots, Receive(s), UNCHANGED open
    PROVE  WebInv'
<1>1. SlotsOK'
  BY NextStepType, LastStepType DEF Receive, WebInv
<1>2. sure' \in [Slots -> BOOLEAN]
  <2>1. (sure[s] /\ (answer[s] = "ok" \/ doing[s] = "recover")) \in BOOLEAN
    OBVIOUS
  <2> QED BY <2>1 DEF Receive, WebInv
<1>3. owes' \in [Slots -> SUBSET FaultNames]
  BY PostOwes DEF Receive, NextStep, LastStep, WebInv
<1> QED BY <1>1, <1>2, <1>3 DEF Receive, WebInv, StraysOK, ServerOK, ClusterOK, world

\* The commands of the requests under way when the server dies.
LEMMA LeftType ==
    ASSUME SlotsOK, StraysOK,
           NEW left \in SUBSET {Script(s)[pc[s]] : s \in {t \in Slots : Running(t)}},
           Cardinality(strays \cup left) <= MaxStrays, strays' = strays \cup left
    PROVE  StraysOK'
<1> DEFINE R == {t \in Slots : Running(t)}
           f == [s \in R |-> Script(s)[pc[s]]]
           T == {Script(s)[pc[s]] : s \in R}
<1>1. T \subseteq CommandLines
  BY CurrentCommand
<1>2. IsFiniteSet(R)
  BY Pages, FS_Subset
<1>3. f \in Surjection(R, T)
  <2>1. f \in [R -> T]
    OBVIOUS
  <2>2. \A c \in T : \E s \in R : f[s] = c
    OBVIOUS
  <2> QED BY <2>1, <2>2 DEF Surjection
<1>4. IsFiniteSet(T)
  <2> HIDE DEF R, f, T
  <2> QED BY <1>2, <1>3, FS_Surjection
<1>5. IsFiniteSet(left)
  BY <1>4, FS_Subset
<1>6. IsFiniteSet(strays \cup left)
  BY <1>5, FS_Union DEF StraysOK
<1> QED BY <1>1, <1>6 DEF StraysOK

LEMMA AroundType ==
    ASSUME WebInv, UNCHANGED open
    PROVE  /\ \A c \in strays : StrayEnds(c) => WebInv'
           /\ Crash => WebInv'
           /\ Restart => WebInv'
           /\ \A d \in Daemons : Dies(d) => WebInv'
<1> USE DEF WebInv
<1>1. ASSUME NEW c \in strays, StrayEnds(c) PROVE WebInv'
  <2>1. ClusterOK'
    BY <1>1, EffectType DEF StrayEnds, StraysOK, ClusterOK
  <2>2. StraysOK'
    <3>1. Cardinality(strays) \in Nat /\ MaxStrays \in Nat
      BY FS_CardinalityType, BoundsAssumption DEF StraysOK
    <3>2. IsFiniteSet(strays') /\ Cardinality(strays') <= Cardinality(strays)
      BY <1>1, FS_Subset DEF StraysOK, StrayEnds
    <3>3. Cardinality(strays') \in Nat
      BY <3>2, FS_CardinalityType
    <3> QED BY <1>1, <3>1, <3>2, <3>3 DEF StraysOK, StrayEnds
  <2>3. SlotsOK'
    BY <1>1, SlotUnchanged DEF StrayEnds
  <2> QED BY <1>1, <2>1, <2>2, <2>3 DEF StrayEnds, ServerOK, history
<1>2. ASSUME Crash PROVE WebInv'
  <2>1. answer' \in [Slots -> Answers]
    BY <1>2 DEF Crash, SlotsOK, Answers
  <2>2. SlotsOK'
    BY <1>2, <2>1, AnswerType DEF Crash
  <2>3. StraysOK'
    BY <1>2, LeftType DEF Crash
  <2>4. ServerOK'
    <3>1. MaxCrashes[open] \in Nat
      BY BoundsAssumption
    <3>2. crashes \in 0 .. MaxCrashes[open] /\ crashes < MaxCrashes[open]
      BY <1>2 DEF Crash, ServerOK
    <3>3. crashes' = crashes + 1 /\ serving' = FALSE /\ open' = open
      BY <1>2 DEF Crash
    <3>4. crashes' \in 0 .. MaxCrashes[open]'
      BY <3>1, <3>2, <3>3
    <3> QED BY <3>3, <3>4 DEF ServerOK
  <2> QED BY <1>2, <2>2, <2>3, <2>4 DEF Crash, ClusterOK, history
<1>3. ASSUME Restart PROVE WebInv'
  BY <1>3, SlotUnchanged DEF Restart, StraysOK, ServerOK, ClusterOK, world, history
<1>4. ASSUME NEW d \in Daemons, Dies(d) PROVE WebInv'
  BY <1>4, SlotUnchanged DEF Dies, StraysOK, ServerOK, ClusterOK
<1> QED BY <1>1, <1>2, <1>3, <1>4

\* Every step of the web console keeps its types.
LEMMA StepType ==
    ASSUME WebInv, Step, UNCHANGED open
    PROVE  WebInv'
<1>1. CASE \E s \in Cards, r \in Menu : runAction(s, r)
  BY <1>1, ControlsType
<1>2. CASE \E s \in RecoverAll : runRecoveryAll(s)
  BY <1>2, ControlsType
<1>3. CASE \E s \in TestPages : executeCleanup(s) \/ \E t \in Tests : executeTest(s, t)
  BY <1>3, ControlsType
<1>4. CASE \E s \in Slots : Receive(s) \/ Handler(s)
  BY <1>4, ReceiveType, HandlerType
<1>5. CASE \E c \in strays : StrayEnds(c)
  BY <1>5, AroundType
<1>6. CASE Crash
  BY <1>6, AroundType
<1>7. CASE \E d \in Daemons : Dies(d)
  BY <1>7, AroundType
<1> QED BY <1>1, <1>2, <1>3, <1>4, <1>5, <1>6, <1>7 DEF Step

LEMMA WebInit == Init => WebInv
<1> SUFFICES ASSUME Init PROVE WebInv
  OBVIOUS
<1>1. Request("cluster_status") \in Requests
  BY RequestType DEF Actions
<1>2. Len(Plan) = 8
  BY PlanType
<1>3. ASSUME NEW s \in Slots
      PROVE  pc[s] <= Len(Script(s)) + 1 /\ ~ Busy(s)
  <2>1. cmds(req[s]) \in Seq(CommandLines)
    BY <1>1, ScriptType DEF Init
  <2>2. Len(Script(s)) \in Nat
    BY <2>1 DEF Script
  <2> QED BY <2>2 DEF Init, Busy
<1>4. SlotsOK
  <2>1. doing \in [Slots -> Doings] /\ req \in [Slots -> Requests] /\ pc \in [Slots -> Nat]
    BY <1>1 DEF Init, Doings
  <2>2. allok \in [Slots -> BOOLEAN] /\ answer \in [Slots -> Answers]
    BY DEF Init, Answers
  <2>3. step \in [Slots -> 0 .. Len(Plan)]
    BY <1>2 DEF Init
  <2> QED BY <1>3, <2>1, <2>2, <2>3 DEF SlotsOK
<1>5. StraysOK
  BY FS_EmptySet, BoundsAssumption DEF Init, StraysOK
<1>6. ServerOK
  BY BoundsAssumption DEF Init, ServerOK
<1> QED BY <1>4, <1>5, <1>6 DEF Init, WebInv, ClusterOK

(***************************************************************************)
(* 3. The start of the machines: no node is launched more often than the   *)
(*    starters allow.                                                      *)
(***************************************************************************)

Stages == {"script", "server"}

\* The starter s has dealt with the i-th node at this stage.
PassedBy(s, g, i) ==
    \/ at[s] = "ended"
    \/ at[s] = "server" /\ (g = "script" \/ i < nth[s])
    \/ at[s] \in {"script", "refused"} /\ g = "script" /\ i < nth[s]

Passed(i) == {p \in Starters \X Stages : PassedBy(p[1], p[2], i)}

StartInv ==
    /\ executable \in BOOLEAN
    /\ at \in [Starters -> {"script", "server", "ended", "refused"}]
    /\ nth \in [Starters -> 1 .. Len(Nodes) + 1] /\ found \in [Starters -> BOOLEAN]
    /\ \A s \in Starters : found[s] => executable /\ at[s] \in Stages /\ nth[s] <= Len(Nodes)
    /\ launched \in [Names -> Nat] /\ opening \in [Names -> Nat]
    /\ machine \in [Names -> BOOLEAN]
    /\ exits \in 0 .. MaxExits /\ gone \subseteq Names

\* Of each node, at most one start for every starter and stage that is past it.
StartsInv ==
    \A i \in 1 .. Len(Nodes) : launched[Nodes[i]] + opening[Nodes[i]] <= Cardinality(Passed(i))

LEMMA NodesType ==
    /\ Len(Nodes) \in Nat /\ DOMAIN Nodes = 1 .. Len(Nodes)
    /\ \A i \in 1 .. Len(Nodes) : Nodes[i] \in Names
    /\ \A n \in Names : \E i \in 1 .. Len(Nodes) : n = Nodes[i]
    /\ \A i, j \in 1 .. Len(Nodes) : Nodes[i] = Nodes[j] => i = j
BY StartAssumption DEF Names

\* Two stages for each starter.
LEMMA StagesFinite ==
    /\ IsFiniteSet(Starters \X Stages)
    /\ Cardinality(Starters \X Stages) = 2 * Cardinality(Starters)
<1>1. IsFiniteSet(Stages) /\ Cardinality(Stages) = 2
  <2>1. Stages = {"script"} \cup {"server"} /\ "server" \notin {"script"}
    BY DEF Stages
  <2>2. IsFiniteSet({"script"}) /\ Cardinality({"script"}) = 1
    BY FS_Singleton
  <2> QED BY <2>1, <2>2, FS_AddElement
<1>2. Cardinality(Starters) \in Nat
  BY StartAssumption, FS_CardinalityType
<1> QED BY <1>1, <1>2, StartAssumption, FS_Product

LEMMA PassedFinite ==
    ASSUME NEW i
    PROVE  /\ IsFiniteSet(Passed(i)) /\ Cardinality(Passed(i)) \in Nat
           /\ Cardinality(Passed(i)) <= 2 * Cardinality(Starters)
<1>1. Passed(i) \in SUBSET (Starters \X Stages)
  BY DEF Passed
<1> QED BY <1>1, StagesFinite, FS_Subset, FS_CardinalityType

LEMMA StartTypes == StartInv /\ StartsInv => StartTypeOK
<1> SUFFICES ASSUME StartInv, StartsInv PROVE StartTypeOK
  OBVIOUS
<1>1. Cardinality(Starters) \in Nat
  BY StartAssumption, FS_CardinalityType
<1>2. ASSUME NEW n \in Names
      PROVE  launched[n] + opening[n] <= 2 * Cardinality(Starters)
  <2>1. PICK i \in 1 .. Len(Nodes) : n = Nodes[i]
    BY NodesType
  <2>2. launched[n] + opening[n] <= Cardinality(Passed(i))
    BY <2>1 DEF StartsInv
  <2>3. launched[n] \in Nat /\ opening[n] \in Nat
    BY DEF StartInv
  <2> QED BY <1>1, <2>2, <2>3, PassedFinite
<1> QED BY <1>2 DEF StartTypeOK, StartInv

\* A starter that goes past a node of a stage.
LEMMA OnePasses ==
    ASSUME NEW i, NEW p, Passed(i)' = Passed(i) \cup {p}, p \notin Passed(i)
    PROVE  Cardinality(Passed(i)') = Cardinality(Passed(i)) + 1
BY PassedFinite, FS_AddElement

LEMMA MorePass ==
    ASSUME NEW i, Passed(i) \subseteq Passed(i)'
    PROVE  Cardinality(Passed(i)) <= Cardinality(Passed(i)')
<1>1. Passed(i)' \in SUBSET (Starters \X Stages)
  BY DEF Passed
<1>2. IsFiniteSet(Passed(i)')
  BY <1>1, StagesFinite, FS_Subset
<1> QED BY <1>2, FS_Subset

\* The counters stay and nobody goes back.
LEMMA StartsKept ==
    ASSUME StartInv, StartsInv, UNCHANGED <<launched, opening>>,
           \A i \in 1 .. Len(Nodes) : Passed(i) \subseteq Passed(i)'
    PROVE  StartsInv'
<1> SUFFICES ASSUME NEW i \in 1 .. Len(Nodes)
             PROVE  (launched[Nodes[i]] + opening[Nodes[i]] <= Cardinality(Passed(i)))'
  BY DEF StartsInv
<1>1. launched[Nodes[i]] \in Nat /\ opening[Nodes[i]] \in Nat
  BY NodesType DEF StartInv
<1>2. launched[Nodes[i]] + opening[Nodes[i]] <= Cardinality(Passed(i))
  BY DEF StartsInv
<1>3. Cardinality(Passed(i)) \in Nat /\ Cardinality(Passed(i)') \in Nat
  <2>1. Passed(i)' \in SUBSET (Starters \X Stages)
    BY DEF Passed
  <2> QED BY <2>1, PassedFinite, StagesFinite, FS_Subset, FS_CardinalityType
<1>4. Cardinality(Passed(i)) <= Cardinality(Passed(i)')
  BY MorePass
<1> QED BY <1>1, <1>2, <1>3, <1>4

LEMMA StarterKeeps ==
    ASSUME StartInv, StartsInv, NEW s \in Starters,
           GivesUp(s) \/ Skip(s) \/ Miss(s) \/ ExecServer(s) \/ StartupDone(s)
    PROVE  StartInv' /\ StartsInv'
<1>0. Len(Nodes) \in Nat /\ nth[s] \in Nat
  BY NodesType DEF StartInv
<1>1. CASE GivesUp(s)
  <2>1. StartInv'
    BY <1>1 DEF GivesUp, StartInv, Stages
  <2>2. \A i \in 1 .. Len(Nodes) : Passed(i) \subseteq Passed(i)'
    BY <1>1 DEF GivesUp, StartInv, Passed, PassedBy
  <2> QED BY <1>1, <2>1, <2>2, StartsKept DEF GivesUp
<1>2. CASE Skip(s)
  <2>1. StartInv'
    BY <1>0, <1>2 DEF Skip, Looking, StartInv, Stages
  <2>2. \A i \in 1 .. Len(Nodes) : Passed(i) \subseteq Passed(i)'
    BY <1>0, <1>2 DEF Skip, StartInv, Passed, PassedBy
  <2> QED BY <1>2, <2>1, <2>2, StartsKept DEF Skip
<1>3. CASE Miss(s)
  <2>1. StartInv'
    BY <1>3 DEF Miss, Looking, StartInv, Stages
  <2>2. \A i \in 1 .. Len(Nodes) : Passed(i) \subseteq Passed(i)'
    BY <1>3 DEF Miss, StartInv, Passed, PassedBy
  <2> QED BY <1>3, <2>1, <2>2, StartsKept DEF Miss
<1>4. CASE ExecServer(s)
  <2>1. StartInv'
    BY <1>0, <1>4 DEF ExecServer, StartInv, Stages
  <2>2. \A i \in 1 .. Len(Nodes) : Passed(i) \subseteq Passed(i)'
    BY <1>0, <1>4 DEF ExecServer, StartInv, Passed, PassedBy
  <2> QED BY <1>4, <2>1, <2>2, StartsKept DEF ExecServer
<1>5. CASE StartupDone(s)
  <2>1. StartInv'
    BY <1>0, <1>5 DEF StartupDone, StartInv, Stages
  <2>2. \A i \in 1 .. Len(Nodes) : Passed(i) \subseteq Passed(i)'
    BY <1>0, <1>5 DEF StartupDone, StartInv, Passed, PassedBy
  <2> QED BY <1>5, <2>1, <2>2, StartsKept DEF StartupDone
<1> QED BY <1>1, <1>2, <1>3, <1>4, <1>5

\* A launch is paid for by the node that the starter goes past.
LEMMA LaunchKeeps ==
    ASSUME StartInv, StartsInv, NEW s \in Starters, Launch(s)
    PROVE  StartInv' /\ StartsInv'
<1>1. /\ Len(Nodes) \in Nat /\ nth[s] \in 1 .. Len(Nodes) /\ at[s] \in Stages
      /\ At(s) = Nodes[nth[s]] /\ At(s) \in Names
  BY NodesType DEF StartInv, Launch, At
<1>2. /\ at' = at /\ nth' = [nth EXCEPT ![s] = @ + 1] /\ found' = [found EXCEPT ![s] = FALSE]
      /\ launched' = [launched EXCEPT ![At(s)] = @ + 1]
      /\ UNCHANGED <<executable, opening, machine, exits, gone>>
  BY DEF Launch
<1>3. StartInv'
  BY <1>1, <1>2 DEF StartInv
<1>4. ASSUME NEW i \in 1 .. Len(Nodes)
      PROVE  (launched[Nodes[i]] + opening[Nodes[i]] <= Cardinality(Passed(i)))'
  <2>1. /\ launched[Nodes[i]] \in Nat /\ opening[Nodes[i]] \in Nat
        /\ launched[Nodes[i]] + opening[Nodes[i]] <= Cardinality(Passed(i))
    BY NodesType DEF StartInv, StartsInv
  <2>2. Cardinality(Passed(i)) \in Nat
    BY PassedFinite
  <2>3. CASE i = nth[s]
    <3>1. <<s, at[s]>> \notin Passed(i)
      BY <1>1, <2>3 DEF Passed, PassedBy, Stages
    <3>2. Passed(i)' = Passed(i) \cup {<<s, at[s]>>}
      BY <1>1, <1>2, <2>3 DEF Passed, PassedBy, Stages, StartInv
    <3>3. Cardinality(Passed(i)') = Cardinality(Passed(i)) + 1
      BY <3>1, <3>2, OnePasses
    <3>4. launched'[Nodes[i]] = launched[Nodes[i]] + 1 /\ opening' = opening
      BY <1>1, <1>2, <2>3 DEF StartInv
    <3> QED BY <2>1, <2>2, <3>3, <3>4
  <2>4. CASE i # nth[s]
    <3>1. Passed(i)' = Passed(i)
      BY <1>1, <1>2, <2>4 DEF Passed, PassedBy, Stages, StartInv
    <3>2. Nodes[i] # At(s)
      BY <1>1, <2>4, NodesType
    <3>3. launched'[Nodes[i]] = launched[Nodes[i]] /\ opening' = opening
      BY <1>2, <3>2, NodesType DEF StartInv
    <3> QED BY <2>1, <3>1, <3>3
  <2> QED BY <2>3, <2>4
<1> QED BY <1>3, <1>4 DEF StartsInv

\* The others keep the sum, or lower it.
LEMMA QemuKeeps ==
    ASSUME StartInv, StartsInv, NEW n \in Names, Qemu(n) \/ Exits(n)
    PROVE  StartInv' /\ StartsInv'
<1>1. StartInv'
  <2>1. CASE RunsQemu(n)
    BY <2>1 DEF RunsQemu, StartInv
  <2>2. CASE OpensImage(n)
    BY <2>2 DEF OpensImage, StartInv
  <2>3. CASE Exits(n)
    BY <2>3, StartAssumption DEF Exits, StartInv
  <2> QED BY <2>1, <2>2, <2>3 DEF Qemu
<1>2. UNCHANGED <<at, nth>>
  BY DEF Qemu, RunsQemu, OpensImage, Exits
<1>3. ASSUME NEW m \in Names
      PROVE  launched'[m] + opening'[m] <= launched[m] + opening[m]
  BY DEF Qemu, RunsQemu, OpensImage, Exits, StartInv
<1>4. ASSUME NEW i \in 1 .. Len(Nodes)
      PROVE  (launched[Nodes[i]] + opening[Nodes[i]] <= Cardinality(Passed(i)))'
  <2>1. Passed(i)' = Passed(i)
    BY <1>2 DEF Passed, PassedBy
  <2>2. /\ launched[Nodes[i]] \in Nat /\ opening[Nodes[i]] \in Nat
        /\ launched'[Nodes[i]] \in Nat /\ opening'[Nodes[i]] \in Nat
        /\ launched[Nodes[i]] + opening[Nodes[i]] <= Cardinality(Passed(i))
        /\ launched'[Nodes[i]] + opening'[Nodes[i]] <= launched[Nodes[i]] + opening[Nodes[i]]
    BY <1>1, <1>3, NodesType DEF StartInv, StartsInv
  <2> QED BY <2>1, <2>2, PassedFinite
<1> QED BY <1>1, <1>4 DEF StartsInv

\* A starter is run again when there is nothing to count.
LEMMA AgainKeeps ==
    ASSUME StartInv, StartsInv, NEW s \in Starters, Again(s)
    PROVE  StartInv' /\ StartsInv'
<1>1. StartInv'
  BY NodesType DEF Again, StartInv, Stages
<1>2. ASSUME NEW i \in 1 .. Len(Nodes)
      PROVE  (launched[Nodes[i]] + opening[Nodes[i]] <= Cardinality(Passed(i)))'
  <2>1. launched'[Nodes[i]] = 0 /\ opening'[Nodes[i]] = 0
    BY NodesType DEF Again
  <2>2. Passed(i)' \in SUBSET (Starters \X Stages)
    BY DEF Passed
  <2>3. Cardinality(Passed(i)') \in Nat
    BY <2>2, StagesFinite, FS_Subset, FS_CardinalityType
  <2> QED BY <2>1, <2>3
<1> QED BY <1>1, <1>2 DEF StartsInv

LEMMA StartsInit == StartInit => StartInv /\ StartsInv
<1> SUFFICES ASSUME StartInit PROVE StartInv /\ StartsInv
  OBVIOUS
<1>1. StartInv
  BY NodesType, StartAssumption DEF StartInit, StartInv, Stages
<1>2. ASSUME NEW i \in 1 .. Len(Nodes)
      PROVE  launched[Nodes[i]] + opening[Nodes[i]] <= Cardinality(Passed(i))
  <2>1. launched[Nodes[i]] = 0 /\ opening[Nodes[i]] = 0
    BY NodesType DEF StartInit
  <2> QED BY <2>1, PassedFinite
<1> QED BY <1>1, <1>2 DEF StartsInv

(***************************************************************************)
(* 4. Types of the whole console.                                          *)
(***************************************************************************)

ConsoleInv == WebInv /\ StartInv /\ StartsInv

\* What the console does, seen from the web controller: a step of it, its
\* server that comes back, or nothing.
LEMMA WebSteps ==
    ASSUME [ConsoleNext]_consoleVars
    PROVE  (Step \/ Restart \/ UNCHANGED vars) /\ UNCHANGED open
BY DEF ConsoleNext, consoleVars, vars, Serves

LEMMA WebUnchanged == WebInv /\ UNCHANGED vars => WebInv'
BY SlotUnchanged DEF WebInv, vars, world, history, StraysOK, ServerOK, ClusterOK

LEMMA StartUnchanged == StartInv /\ StartsInv /\ UNCHANGED startVars => StartInv' /\ StartsInv'
BY DEF StartInv, StartsInv, startVars, Passed, PassedBy

LEMMA StartSteps ==
    ASSUME [ConsoleNext]_consoleVars, StartInv, StartsInv
    PROVE  StartInv' /\ StartsInv'
<1>1. \/ UNCHANGED startVars
      \/ \E s \in Starters : Starter(s) \/ Again(s) \/ StartupDone(s)
      \/ \E n \in Names : Qemu(n) \/ Exits(n)
  BY DEF ConsoleNext, consoleVars, Serves, Starting, Booting
<1> QED BY <1>1, StartUnchanged, StarterKeeps, LaunchKeeps, AgainKeeps, QemuKeeps DEF Starter

LEMMA ConsoleTypes == ConsoleInv /\ [ConsoleNext]_consoleVars => ConsoleInv'
<1> SUFFICES ASSUME ConsoleInv, [ConsoleNext]_consoleVars PROVE ConsoleInv'
  OBVIOUS
<1>1. WebInv'
  BY WebSteps, StepType, AroundType, WebUnchanged DEF ConsoleInv
<1> QED BY <1>1, StartSteps DEF ConsoleInv

\* The types hold with what they rest on: requests under way are at a command
\* line of their script, and starts of a node are paid for by starters that went
\* past it (app.py, start_frontend.sh, run_cluster.sh).
THEOREM InvariantConsole == ConsoleSpec => []ConsoleInv
<1>1. ConsoleInit => ConsoleInv
  BY WebInit, StartsInit DEF ConsoleInit, ConsoleInv
<1> QED BY <1>1, ConsoleTypes, PTL DEF ConsoleSpec

\* Every variable of the console and of the start of the machines keeps its
\* type, and of no node are there ever more than two starts for each starter
\* that have not settled: one by start_frontend.sh, one by the startup event of
\* the server it becomes (app.py: auto_start_vms).
THEOREM TypeCorrect == ConsoleSpec => []ConsoleTypeOK
<1>1. ConsoleInv => ConsoleTypeOK
  BY WebTypeOK, StartTypes DEF ConsoleInv, ConsoleTypeOK
<1> QED BY <1>1, InvariantConsole, PTL

(***************************************************************************)
(* 5. A slot that is sure is alone.  Nothing but its own requests changes  *)
(*    the cluster: the others are idle, and no stray is left unless one of *)
(*    its own commands has outlived its timeout, which spoils the answer,  *)
(*    or the slot recovers, and then the strays are steps of its plan.     *)
(***************************************************************************)

\* What each step of the plan removes.
Target == <<"shape", "shape", "shape", "isolation", "ballast", "disk", "vmnet", "offline">>

Recovers(s) == doing[s] \in {"recover", "recovered"}

\* The command lines of the plan.
PlanLines == {Command("clear", {Target[k]}) : k \in 1 .. 8}

\* Nothing has failed so far.
Clean(s) ==
    Busy(s) => (answer[s] = "none" /\ allok[s]) \/ answer[s] = "ok"

\* An answer "ok" is given after the last command line, and the recovery is at
\* the request of its step.
OrderInv ==
    \A s \in Slots :
        /\ Busy(s) /\ answer[s] = "ok" => pc[s] > Len(Script(s))
        /\ doing[s] = "recover" => step[s] \in 1 .. 8 /\ req[s] = Plan[step[s]]

AloneInv ==
    \A s \in Slots :
        sure[s] => /\ \A t \in Slots \ {s} : ~ Busy(t)
                   /\ ~ Recovers(s) /\ Clean(s) => strays = {}
                   /\ Recovers(s) => strays \subseteq PlanLines

\* The command line of each step.
LEMMA PlanScript ==
    \A k \in 1 .. 8 : cmds(Plan[k]) = <<Command("clear", {Target[k]})>>
<1>1. ASSUME NEW a \in DOMAIN Clears
      PROVE  cmds(Request(a)) = <<Command("clear", {Clears[a]})>>
  BY <1>1 DEF cmds, Request, Clears, Fault
<1>2. cmds([action |-> "vm_network", arg |-> "clear"]) = <<Command("clear", {"vmnet"})>>
  BY DEF cmds, Clears, Fault, Undo
<1> QED BY <1>1, <1>2 DEF Plan, Target, Clears

LEMMA PlanCurrent ==
    ASSUME SlotsOK, OrderInv, NEW s \in Slots, Running(s), Recovers(s)
    PROVE  /\ doing[s] = "recover" /\ step[s] \in 1 .. 8 /\ pc[s] = 1
           /\ Script(s)[pc[s]] = Command("clear", {Target[step[s]]})
           /\ Script(s)[pc[s]] \in PlanLines
<1>1. doing[s] = "recover"
  BY DEF Running, Handled, Busy, Recovers
<1>2. step[s] \in 1 .. 8 /\ req[s] = Plan[step[s]]
  BY <1>1 DEF OrderInv
<1>3. Script(s) = <<Command("clear", {Target[step[s]]})>>
  BY <1>2, PlanScript DEF Script
<1>4. pc[s] \in 1 .. Len(Script(s))
  BY CurrentCommand
<1>5. pc[s] = 1 /\ Script(s)[pc[s]] = Command("clear", {Target[step[s]]})
  BY <1>3, <1>4
<1> QED BY <1>1, <1>2, <1>5 DEF PlanLines

\* A step that is posted has its fault to remove, if it is in place.
LEMMA PlanOwes ==
    ASSUME WebInv, NEW s \in Slots, NEW k \in 1 .. 8, Post(s, Plan[k])
    PROVE  /\ Target[k] \in faults => Target[k] \in owes'[s]
           /\ doing[s] = "recover" => owes[s] \subseteq owes'[s]
<1>1. cmds(Plan[k])[1].on = {Target[k]}
  BY PlanScript, CommandFields
<1>2. owes'[s] = (IF doing[s] = "recover" THEN owes[s] ELSE {}) \cup ({Target[k]} \cap faults)
  BY <1>1 DEF Post, WebInv
<1> QED BY <1>2

\* The slots but s are as they were.
OthersKeep(s) ==
    \A t \in Slots \ {s} : /\ doing'[t] = doing[t] /\ req'[t] = req[t] /\ pc'[t] = pc[t]
                           /\ answer'[t] = answer[t] /\ step'[t] = step[t]

LEMMA OrderKept ==
    ASSUME OrderInv, NEW t \in Slots,
           doing'[t] = doing[t], req'[t] = req[t], pc'[t] = pc[t], step'[t] = step[t],
           answer'[t] = "ok" => answer[t] = "ok"
    PROVE  /\ Busy(t)' /\ answer'[t] = "ok" => pc'[t] > Len(Script(t)')
           /\ doing'[t] = "recover" => step'[t] \in 1 .. 8 /\ req'[t] = Plan[step'[t]]
<1>1. Script(t)' = Script(t) /\ (Busy(t)' <=> Busy(t))
  BY DEF Script, Busy
<1> QED BY <1>1 DEF OrderInv

\* It is enough to look at the one slot that a step is about.
LEMMA OrderOthers ==
    ASSUME OrderInv, NEW s \in Slots, OthersKeep(s),
           Busy(s)' /\ answer'[s] = "ok" => pc'[s] > Len(Script(s)'),
           doing'[s] = "recover" => step'[s] \in 1 .. 8 /\ req'[s] = Plan[step'[s]]
    PROVE  OrderInv'
<1>1. ASSUME NEW t \in Slots \ {s}
      PROVE  /\ Busy(t)' /\ answer'[t] = "ok" => pc'[t] > Len(Script(t)')
             /\ doing'[t] = "recover" => step'[t] \in 1 .. 8 /\ req'[t] = Plan[step'[t]]
  BY OrderKept DEF OthersKeep
<1> QED BY <1>1 DEF OrderInv

\* What a request that is posted looks like.
LEMMA PostFacts ==
    ASSUME SlotsOK, NEW s \in Slots, NEW r, Post(s, r)
    PROVE  /\ req'[s] = r /\ pc'[s] = 1 /\ answer'[s] \in {"none", "error"}
           /\ \A t \in Slots \ {s} : req'[t] = req[t] /\ pc'[t] = pc[t] /\ answer'[t] = answer[t]
BY DEF Post, SlotsOK

\* What the start of an operation looks like.
Opens(s) ==
    /\ Busy(s)' /\ pc'[s] = 1 /\ answer'[s] \in {"none", "error"}
    /\ doing'[s] = "recover" => /\ step'[s] = 1 /\ req'[s] = Plan[1]
                                /\ Target[1] \in faults => Target[1] \in owes'[s]
    /\ doing'[s] # "recovered"
    /\ \A t \in Slots : sure'[t] => /\ t = s /\ strays = {}
                                    /\ \A u \in Slots \ {s} : ~ Busy(u)
    /\ UNCHANGED world

LEMMA BeginFacts ==
    ASSUME WebInv, NEW s \in Slots, NEW r, NEW what \in {"action", "recover", "test", "cleanup"},
           Begin(s, what, r), \A t \in Slots \ {s} : step'[t] = step[t],
           what = "recover" => step'[s] = 1 /\ r = Plan[1]
    PROVE  Opens(s) /\ OthersKeep(s)
<1> USE DEF WebInv
<1>1. /\ doing'[s] = what /\ \A t \in Slots \ {s} : doing'[t] = doing[t]
  BY DEF Begin, SlotsOK
<1>2. /\ req'[s] = r /\ pc'[s] = 1 /\ answer'[s] \in {"none", "error"}
      /\ \A t \in Slots \ {s} : req'[t] = req[t] /\ pc'[t] = pc[t] /\ answer'[t] = answer[t]
  BY PostFacts DEF Begin
<1>3. Busy(s)' /\ doing'[s] # "recovered"
  BY <1>1 DEF Busy
<1>4. \A t \in Slots : sure'[t] => /\ t = s /\ strays = {}
                                   /\ \A u \in Slots \ {s} : ~ Busy(u)
  BY DEF Begin
<1>5. UNCHANGED world
  BY DEF Begin
<1>6. what = "recover" => (Target[1] \in faults => Target[1] \in owes'[s])
  BY PlanOwes DEF Begin
<1> QED BY <1>1, <1>2, <1>3, <1>4, <1>5, <1>6 DEF Opens, OthersKeep

LEMMA ControlsOpen ==
    ASSUME WebInv,
           \/ \E s \in Cards, r \in Menu : runAction(s, r)
           \/ \E s \in RecoverAll : runRecoveryAll(s)
           \/ \E s \in TestPages : executeCleanup(s) \/ \E t \in Tests : executeTest(s, t)
    PROVE  \E s \in Slots : Opens(s) /\ OthersKeep(s)
<1>1. ASSUME NEW s \in Cards, NEW r \in Menu, runAction(s, r)
      PROVE  \E q \in Slots : Opens(q) /\ OthersKeep(q)
  <2>1. s \in Slots
    BY DEF Slots
  <2>2. Begin(s, "action", r) /\ step' = step
    BY <1>1 DEF runAction
  <2>3. Opens(s) /\ OthersKeep(s)
    BY <2>1, <2>2, BeginFacts
  <2> QED BY <2>1, <2>3
<1>2. ASSUME NEW s \in RecoverAll, runRecoveryAll(s)
      PROVE  \E q \in Slots : Opens(q) /\ OthersKeep(q)
  <2>1. s \in Slots
    BY DEF Slots
  <2>2. Begin(s, "recover", Plan[1]) /\ step' = [step EXCEPT ![s] = 1]
    BY <1>2 DEF runRecoveryAll
  <2>3. step'[s] = 1 /\ \A t \in Slots \ {s} : step'[t] = step[t]
    BY <2>1, <2>2 DEF WebInv, SlotsOK
  <2>4. Opens(s) /\ OthersKeep(s)
    BY <2>1, <2>2, <2>3, BeginFacts
  <2> QED BY <2>1, <2>4
<1>3. ASSUME NEW s \in TestPages, executeCleanup(s)
      PROVE  \E q \in Slots : Opens(q) /\ OthersKeep(q)
  <2>1. s \in Slots
    BY DEF Slots
  <2>2. (\E r : Begin(s, "cleanup", r)) /\ step' = step
    BY <1>3 DEF executeCleanup
  <2>3. Opens(s) /\ OthersKeep(s)
    BY <2>1, <2>2, BeginFacts
  <2> QED BY <2>1, <2>3
<1>4. ASSUME NEW s \in TestPages, NEW r \in Tests, executeTest(s, r)
      PROVE  \E q \in Slots : Opens(q) /\ OthersKeep(q)
  <2>1. s \in Slots
    BY DEF Slots
  <2>2. Begin(s, "test", r) /\ step' = step
    BY <1>4 DEF executeTest
  <2>3. Opens(s) /\ OthersKeep(s)
    BY <2>1, <2>2, BeginFacts
  <2> QED BY <2>1, <2>3
<1> QED BY <1>1, <1>2, <1>3, <1>4

\* A command line that ends, seen from the slots.
LEMMA EndedFacts ==
    ASSUME SlotsOK, NEW s \in Slots, NEW ok \in BOOLEAN, Ended(s, ok)
    PROVE  /\ OthersKeep(s)
           /\ doing'[s] = doing[s] /\ req'[s] = req[s] /\ answer'[s] = answer[s]
           /\ step'[s] = step[s] /\ pc'[s] = pc[s] + 1
           /\ allok'[s] <=> allok[s] /\ ok
BY DEF Ended, SlotsOK, OthersKeep

\* The answer that is given, seen from the slots.
LEMMA GivenFacts ==
    ASSUME SlotsOK, NEW s \in Slots, Reject(s) \/ Outlives(s) \/ Reply(s)
    PROVE  /\ OthersKeep(s)
           /\ doing'[s] = doing[s] /\ req'[s] = req[s] /\ step'[s] = step[s]
           /\ pc'[s] = pc[s] /\ (allok'[s] <=> allok[s])
           /\ Reject(s) \/ Outlives(s) => answer'[s] \in {"failed", "error"}
           /\ Reply(s) => (answer'[s] = "ok" <=> allok[s]) /\ answer'[s] \in {"ok", "failed"}
BY DEF Reject, Outlives, Raise, Reply, SlotsOK, OthersKeep

LEMMA NextStepFacts ==
    ASSUME SlotsOK, NEW s \in Slots, NextStep(s)
    PROVE  /\ OthersKeep(s)
           /\ doing[s] = "recover" /\ doing'[s] = "recover" /\ step[s] < 8
           /\ step'[s] = step[s] + 1 /\ req'[s] = Plan[step[s] + 1]
           /\ pc'[s] = 1 /\ answer'[s] \in {"none", "error"}
<1>1. /\ doing' = doing /\ doing[s] = "recover" /\ step[s] < 8
      /\ step' = [step EXCEPT ![s] = @ + 1] /\ Post(s, Plan[step[s] + 1])
  BY PlanType DEF NextStep
<1>2. step'[s] = step[s] + 1 /\ \A t \in Slots \ {s} : step'[t] = step[t]
  BY <1>1 DEF SlotsOK
<1> QED BY <1>1, <1>2, PostFacts DEF OthersKeep

LEMMA LastStepOthers ==
    ASSUME SlotsOK, NEW s \in Slots, LastStep(s)
    PROVE  OthersKeep(s)
BY LastStepFacts DEF OthersKeep

\* Who handles or receives is busy, and leaves the other slots alone.
LEMMA BusyStep ==
    ASSUME SlotsOK, NEW s \in Slots, Receive(s) \/ Handler(s)
    PROVE  Busy(s) /\ OthersKeep(s)
<1>1. Busy(s)
  BY DEF Receive, Handler, Reject, Works, Misses, TimesOut, Outlives, Reply, Running, Handled
<1>2. CASE Receive(s)
  BY <1>2, NextStepFacts, LastStepOthers DEF Receive
<1>3. CASE Reject(s) \/ Outlives(s) \/ Reply(s)
  BY <1>1, <1>3, GivenFacts
<1>4. CASE Works(s) \/ Misses(s) \/ TimesOut(s)
  <2>1. PICK ok \in BOOLEAN : Ended(s, ok)
    BY <1>4 DEF Works, Misses, TimesOut
  <2> QED BY <1>1, <2>1, EndedFacts
<1> QED BY <1>1, <1>2, <1>3, <1>4 DEF Handler

LEMMA OrderStep ==
    ASSUME WebInv, OrderInv, Step \/ Restart \/ UNCHANGED vars
    PROVE  OrderInv'
<1> USE DEF WebInv
<1>1. CASE \E s \in Slots : Opens(s) /\ OthersKeep(s)
  <2>1. PICK s \in Slots : Opens(s) /\ OthersKeep(s)
    BY <1>1
  <2>2. doing'[s] = "recover" => step'[s] \in 1 .. 8 /\ req'[s] = Plan[step'[s]]
    BY <2>1 DEF Opens
  <2>3. answer'[s] # "ok"
    BY <2>1 DEF Opens
  <2> QED BY <2>1, <2>2, <2>3, OrderOthers
<1>2. ASSUME NEW s \in Slots, Receive(s) PROVE OrderInv'
  <2>1. CASE NextStep(s)
    <3>1. step[s] \in 1 .. 8
      BY <2>1, NextStepFacts DEF OrderInv
    <3>2. step'[s] \in 1 .. 8 /\ req'[s] = Plan[step'[s]] /\ answer'[s] # "ok"
      BY <2>1, <3>1, NextStepFacts
    <3> QED BY <2>1, <3>2, NextStepFacts, OrderOthers
  <2>2. CASE LastStep(s)
    <3>1. ~ Busy(s)' /\ doing'[s] # "recover"
      BY <2>2, LastStepFacts DEF Busy
    <3> QED BY <2>2, <3>1, LastStepOthers, OrderOthers
  <2> QED BY <1>2, <2>1, <2>2 DEF Receive
<1>3. ASSUME NEW s \in Slots, Handler(s) PROVE OrderInv'
  <2>1. CASE Reject(s) \/ Outlives(s)
    <3>1. answer'[s] # "ok" /\ doing'[s] = doing[s] /\ step'[s] = step[s] /\ req'[s] = req[s]
      BY <2>1, GivenFacts
    <3> QED BY <2>1, <3>1, GivenFacts, OrderOthers DEF OrderInv
  <2>2. CASE Reply(s)
    <3>1. /\ pc'[s] = pc[s] /\ doing'[s] = doing[s] /\ step'[s] = step[s] /\ req'[s] = req[s]
          /\ pc[s] > Len(Script(s))
      BY <2>2, GivenFacts DEF Reply
    <3>2. Script(s)' = Script(s)
      BY <3>1 DEF Script
    <3> QED BY <2>2, <3>1, <3>2, GivenFacts, OrderOthers DEF OrderInv
  <2>3. CASE Works(s) \/ Misses(s) \/ TimesOut(s)
    <3>1. PICK ok \in BOOLEAN : Ended(s, ok)
      BY <2>3 DEF Works, Misses, TimesOut
    <3>2. answer[s] = "none"
      BY <2>3 DEF Works, Misses, TimesOut, Running, Handled
    <3>3. answer'[s] # "ok" /\ doing'[s] = doing[s] /\ step'[s] = step[s] /\ req'[s] = req[s]
      BY <3>1, <3>2, EndedFacts
    <3> QED BY <3>1, <3>3, EndedFacts, OrderOthers DEF OrderInv
  <2> QED BY <1>3, <2>1, <2>2, <2>3 DEF Handler
<1>4. CASE UNCHANGED <<doing, req, pc, step>>
           /\ \A s \in Slots : answer'[s] = "ok" => answer[s] = "ok"
  BY <1>4, OrderKept DEF OrderInv
<1>5. (\E c \in strays : StrayEnds(c)) \/ (\E d \in Daemons : Dies(d)) \/ Crash \/ Restart
        \/ UNCHANGED vars
        => /\ UNCHANGED <<doing, req, pc, step>>
           /\ \A s \in Slots : answer'[s] = "ok" => answer[s] = "ok"
  BY DEF StrayEnds, Dies, Crash, Restart, slot, vars
<1> QED BY <1>1, <1>2, <1>3, <1>4, <1>5, ControlsOpen DEF Step

\* Nothing has failed before, if nothing has failed after.
LEMMA CleanBefore ==
    ASSUME WebInv, NEW s \in Slots, Receive(s) \/ Handler(s), sure'[s], Clean(s)',
           ~ Recovers(s)'
    PROVE  /\ sure[s] /\ Clean(s) /\ ~ Recovers(s)
           /\ strays' = strays
           /\ Works(s) \/ Misses(s) \/ Reply(s)
              \/ (Receive(s) /\ LastStep(s) /\ answer[s] = "ok")
<1> USE DEF WebInv
<1>1. CASE Receive(s)
  <2>1. CASE NextStep(s)
    BY <2>1, NextStepFacts DEF Recovers
  <2>2. CASE LastStep(s)
    <3>1. doing'[s] = Outcome(s)
      BY <2>2, LastStepFacts
    <3>2. doing[s] # "recover"
      BY <3>1 DEF Outcome, Recovers
    <3>3. sure[s] /\ answer[s] = "ok"
      BY <1>1, <3>2 DEF Receive
    <3>4. Busy(s)
      BY <1>1 DEF Receive
    <3> QED BY <1>1, <2>2, <3>2, <3>3, <3>4 DEF Receive, Clean, world, Recovers, Busy
  <2> QED BY <1>1, <2>1, <2>2 DEF Receive
<1>2. CASE Reject(s) \/ Outlives(s)
  <2>1. Busy(s)' /\ answer'[s] \in {"failed", "error"}
    BY <1>2, GivenFacts, BusyStep DEF Busy, Handler
  <2> QED BY <2>1 DEF Clean
<1>3. CASE Reply(s)
  <2>1. Busy(s)' /\ (answer'[s] = "ok" <=> allok[s]) /\ answer'[s] \in {"ok", "failed"}
    BY <1>3, GivenFacts, BusyStep DEF Busy, Handler
  <2>2. allok[s] /\ answer[s] = "none"
    BY <1>3, <2>1 DEF Clean, Reply, Handled
  <2> QED BY <1>3, <2>2, GivenFacts DEF Clean, Reply, world, history, Recovers
<1>4. ASSUME NEW ok \in BOOLEAN, Ended(s, ok), Running(s)
      PROVE  allok[s] /\ ok /\ Clean(s) /\ ~ Recovers(s)
  <2>1. Busy(s)' /\ answer'[s] = "none" /\ answer[s] = "none"
    BY <1>4, EndedFacts DEF Running, Handled, Busy
  <2>2. allok'[s]
    BY <2>1 DEF Clean
  <2>3. allok[s] /\ ok
    BY <1>4, <2>2, EndedFacts
  <2> QED BY <1>4, <2>1, <2>3, EndedFacts DEF Clean, Recovers
<1>5. CASE Works(s)
  BY <1>4, <1>5 DEF Works
<1>6. CASE TimesOut(s)
  BY <1>4, <1>6 DEF TimesOut
<1>7. CASE Misses(s)
  BY <1>4, <1>7 DEF Misses, world, history
<1> QED BY <1>1, <1>2, <1>3, <1>5, <1>6, <1>7 DEF Handler

\* A slot that nothing happens to, but for an answer that fails.
Rests(s) ==
    /\ doing'[s] = doing[s] /\ req'[s] = req[s] /\ pc'[s] = pc[s]
    /\ (allok'[s] <=> allok[s]) /\ step'[s] = step[s] /\ owes'[s] = owes[s]
    /\ answer'[s] = answer[s] \/ (Busy(s) /\ answer'[s] = "error")

LEMMA RestsClean ==
    ASSUME NEW s, Rests(s)
    PROVE  /\ (Clean(s)' => Clean(s)) /\ (Busy(s)' <=> Busy(s)) /\ Script(s)' = Script(s)
           /\ (Recovers(s)' <=> Recovers(s))
BY DEF Rests, Clean, Busy, Script, Recovers

\* The steps around the slots.
Around ==
    \/ \E c \in strays : StrayEnds(c)
    \/ Crash \/ Restart \/ UNCHANGED vars
    \/ \E d \in Daemons : Dies(d)

\* Around a sure slot, only these leave it sure.
LEMMA AroundSure ==
    ASSUME WebInv, OrderInv, AloneInv, NEW s \in Slots, sure'[s], Around
    PROVE  /\ sure[s] /\ \A t \in Slots : Rests(t)
           /\ ~ Recovers(s) /\ Clean(s)' => strays' = {} /\ UNCHANGED world
           /\ Recovers(s) => strays' \subseteq PlanLines /\ faults' \subseteq faults
<1> USE DEF WebInv
<1>1. CASE \E c \in strays : StrayEnds(c)
  <2>1. PICK c \in strays : StrayEnds(c)
    BY <1>1
  <2>2. sure[s] /\ strays' \subseteq strays /\ \A t \in Slots : Rests(t)
    BY <2>1 DEF StrayEnds, slot, history, Rests
  <2>3. ASSUME ~ Recovers(s), Clean(s)' PROVE FALSE
    BY <2>1, <2>2, <2>3, RestsClean DEF AloneInv
  <2>4. ASSUME Recovers(s) PROVE faults' \subseteq faults /\ strays' \subseteq PlanLines
    <3>1. strays \subseteq PlanLines
      BY <2>2, <2>4 DEF AloneInv
    <3>2. c.op = "clear"
      BY <2>1, <3>1 DEF PlanLines, Command
    <3>3. faults' \subseteq faults
      BY <2>1, <3>2 DEF StrayEnds, TakeEffect
    <3> QED BY <2>2, <3>1, <3>3
  <2> QED BY <2>2, <2>3, <2>4
<1>2. CASE Crash
  <2>1. /\ sure' = sure /\ owes' = owes /\ faults' = faults /\ up' = up
        /\ UNCHANGED <<doing, req, pc, allok, step>>
        /\ answer' = [t \in Slots |-> IF Handled(t) THEN "error" ELSE answer[t]]
        /\ \A c \in strays' \ strays : \E t \in Slots : Running(t) /\ c = Script(t)[pc[t]]
    BY <1>2 DEF Crash, history
  <2>2. \A t \in Slots : Rests(t)
    BY <2>1 DEF Rests, Handled
  <2>3. \A t \in Slots : Running(t) => t = s
    BY <2>1 DEF AloneInv, Running, Handled
  <2>4. ASSUME ~ Recovers(s), Clean(s)' PROVE strays' = {} /\ UNCHANGED world
    <3>1. ~ Running(s)
      BY <2>1, <2>4 DEF Running, Handled, Clean, Busy
    <3>2. strays = {}
      BY <2>1, <2>2, <2>4, RestsClean DEF AloneInv
    <3>3. strays' = {}
      BY <2>1, <2>3, <3>1, <3>2
    <3> QED BY <2>1, <3>2, <3>3 DEF world
  <2>5. ASSUME Recovers(s) PROVE strays' \subseteq PlanLines
    <3>1. strays \subseteq PlanLines
      BY <2>1, <2>5 DEF AloneInv
    <3>2. Running(s) => Script(s)[pc[s]] \in PlanLines
      BY <2>5, PlanCurrent
    <3> QED BY <2>1, <2>3, <3>1, <3>2
  <2> QED BY <2>1, <2>2, <2>4, <2>5
<1>3. CASE Restart \/ UNCHANGED vars
  <2>1. /\ sure' = sure /\ UNCHANGED world /\ strays' = strays /\ faults' = faults
        /\ \A t \in Slots : Rests(t)
    BY <1>3 DEF Restart, vars, slot, history, Rests, world
  <2> QED BY <2>1, RestsClean DEF AloneInv
<1>4. CASE \E d \in Daemons : Dies(d)
  BY <1>4 DEF Dies
<1> QED BY <1>1, <1>2, <1>3, <1>4 DEF Around

\* A handler or a page can only make slots less sure.
LEMMA SureBefore ==
    ASSUME WebInv, NEW s \in Slots, Receive(s) \/ Handler(s), NEW t \in Slots, sure'[t]
    PROVE  sure[t]
BY DEF WebInv, Receive, Handler, Reject, Works, Misses, TimesOut, Outlives, Reply, history

\* A recovery goes on as a recovery, and a stray it leaves is a step of its plan.
LEMMA RecoversBefore ==
    ASSUME WebInv, OrderInv, NEW s \in Slots, Receive(s) \/ Handler(s), Recovers(s)'
    PROVE  Recovers(s) /\ (strays \subseteq PlanLines => strays' \subseteq PlanLines)
<1> USE DEF WebInv
<1>1. CASE Receive(s)
  <2>1. CASE NextStep(s)
    BY <1>1, <2>1, NextStepFacts DEF Recovers, Receive, world
  <2>2. CASE LastStep(s)
    <3>1. doing'[s] = Outcome(s)
      BY <2>2, LastStepFacts
    <3> QED BY <1>1, <3>1, OutcomeType DEF Recovers, Receive, world
  <2> QED BY <1>1, <2>1, <2>2 DEF Receive
<1>2. CASE Reject(s) \/ Outlives(s) \/ Reply(s)
  <2>1. doing'[s] = doing[s] /\ strays' = strays
    BY <1>2, GivenFacts DEF Reject, Outlives, Reply, world
  <2> QED BY <2>1 DEF Recovers
<1>3. CASE Works(s) \/ Misses(s) \/ TimesOut(s)
  <2>1. PICK ok \in BOOLEAN : Ended(s, ok)
    BY <1>3 DEF Works, Misses, TimesOut
  <2>2. Recovers(s)
    BY <2>1, EndedFacts DEF Recovers
  <2>3. Script(s)[pc[s]] \in PlanLines
    BY <1>3, <2>2, PlanCurrent DEF Works, Misses, TimesOut
  <2> QED BY <1>3, <2>2, <2>3 DEF Works, Misses, TimesOut, world
<1> QED BY <1>1, <1>2, <1>3 DEF Handler

LEMMA AloneStep ==
    ASSUME WebInv, OrderInv, AloneInv, Step \/ Restart \/ UNCHANGED vars
    PROVE  AloneInv'
<1> USE DEF WebInv
<1> DEFINE Alone(t) == /\ \A u \in Slots \ {t} : ~ Busy(u)'
                       /\ ~ Recovers(t)' /\ Clean(t)' => strays' = {}
                       /\ Recovers(t)' => strays' \subseteq PlanLines
<1> SUFFICES ASSUME NEW t \in Slots, sure'[t] PROVE Alone(t)
  BY DEF AloneInv
<1>1. ASSUME NEW s \in Slots, Opens(s), OthersKeep(s)
      PROVE  Alone(t)
  <2>1. t = s /\ strays = {} /\ strays' = strays /\ \A u \in Slots \ {s} : ~ Busy(u)
    BY <1>1 DEF Opens, world
  <2> QED BY <1>1, <2>1 DEF OthersKeep, Busy
<1>2. ASSUME NEW s \in Slots, Receive(s) \/ Handler(s)
      PROVE  Alone(t)
  <2>1. sure[t] /\ Busy(s) /\ OthersKeep(s)
    BY <1>2, SureBefore, BusyStep
  <2>2. t = s /\ \A u \in Slots \ {t} : ~ Busy(u)
    BY <2>1 DEF AloneInv
  <2>3. \A u \in Slots \ {t} : ~ Busy(u)'
    BY <2>1, <2>2 DEF OthersKeep, Busy
  <2>4. ~ Recovers(t)' /\ Clean(t)' => ~ Recovers(t) /\ Clean(t) /\ strays' = strays
    BY <1>2, <2>2, CleanBefore
  <2>5. Recovers(t)' => Recovers(t) /\ (strays \subseteq PlanLines => strays' \subseteq PlanLines)
    BY <1>2, <2>2, RecoversBefore
  <2> QED BY <2>1, <2>3, <2>4, <2>5 DEF AloneInv
<1>3. ASSUME Around
      PROVE  Alone(t)
  <2>1. /\ sure[t] /\ \A u \in Slots : Rests(u)
        /\ ~ Recovers(t) /\ Clean(t)' => strays' = {}
        /\ Recovers(t) => strays' \subseteq PlanLines
    BY <1>3, AroundSure
  <2>2. \A u \in Slots : (Busy(u)' <=> Busy(u)) /\ (Recovers(u)' <=> Recovers(u))
    BY <2>1, RestsClean
  <2> QED BY <2>1, <2>2 DEF AloneInv
<1> HIDE DEF Alone
<1> QED BY <1>1, <1>2, <1>3, ControlsOpen DEF Step, Around

\* What can happen to a slot that is sure, that does not recover and where
\* nothing has failed: it is opened, its own request goes on, or nothing happens
\* to it and the cluster.
LEMMA SureStep ==
    ASSUME WebInv, OrderInv, AloneInv, Step \/ Restart \/ UNCHANGED vars,
           NEW s \in Slots, sure'[s], Clean(s)', ~ Recovers(s)'
    PROVE  \/ Opens(s)
           \/ /\ sure[s] /\ Clean(s) /\ ~ Recovers(s)
              /\ \/ Works(s) \/ Misses(s) \/ Reply(s)
                 \/ (Receive(s) /\ LastStep(s) /\ answer[s] = "ok")
                 \/ Rests(s) /\ UNCHANGED world
<1> USE DEF WebInv
<1>1. ASSUME NEW t \in Slots, Opens(t) PROVE Opens(s)
  BY <1>1 DEF Opens
<1>2. ASSUME NEW t \in Slots, Receive(t) \/ Handler(t)
      PROVE  /\ sure[s] /\ Clean(s) /\ ~ Recovers(s)
             /\ Works(s) \/ Misses(s) \/ Reply(s)
                \/ (Receive(s) /\ LastStep(s) /\ answer[s] = "ok")
  <2>1. t = s
    BY <1>2, SureBefore, BusyStep DEF AloneInv
  <2> QED BY <1>2, <2>1, CleanBefore
<1>3. ASSUME Around
      PROVE  sure[s] /\ Clean(s) /\ ~ Recovers(s) /\ Rests(s) /\ UNCHANGED world
  <2>1. sure[s] /\ Rests(s) /\ (~ Recovers(s) => UNCHANGED world)
    BY <1>3, AroundSure
  <2> QED BY <2>1, RestsClean
<1> QED BY <1>1, <1>2, <1>3, ControlsOpen DEF Step, Around

\* What can happen to a recovery that is sure: it is opened, its own request
\* goes on, or no fault is added.
LEMMA RecoveryStep ==
    ASSUME WebInv, OrderInv, AloneInv, Step \/ Restart \/ UNCHANGED vars,
           NEW s \in Slots, sure'[s], Recovers(s)'
    PROVE  \/ Opens(s)
           \/ /\ sure[s] /\ Recovers(s)
              /\ Receive(s) \/ Handler(s) \/ (Rests(s) /\ faults' \subseteq faults)
<1> USE DEF WebInv
<1>1. ASSUME NEW t \in Slots, Opens(t) PROVE Opens(s)
  BY <1>1 DEF Opens
<1>2. ASSUME NEW t \in Slots, Receive(t) \/ Handler(t)
      PROVE  sure[s] /\ Recovers(s) /\ (Receive(s) \/ Handler(s))
  <2>1. t = s /\ sure[s]
    BY <1>2, SureBefore, BusyStep DEF AloneInv
  <2> QED BY <1>2, <2>1, RecoversBefore
<1>3. ASSUME Around
      PROVE  sure[s] /\ Recovers(s) /\ Rests(s) /\ faults' \subseteq faults
  <2>1. sure[s] /\ Rests(s) /\ (Recovers(s) => faults' \subseteq faults)
    BY <1>3, AroundSure
  <2> QED BY <2>1, RestsClean
<1> QED BY <1>1, <1>2, <1>3, ControlsOpen DEF Step, Around

\* The facts of a sure slot whose command line works.
LEMMA WorksFacts ==
    ASSUME SlotsOK, NEW s \in Slots, Works(s)
    PROVE  /\ pc[s] \in 1 .. Len(Script(s)) /\ Script(s)[pc[s]] \in CommandLines
           /\ TakeEffect(Script(s)[pc[s]])
           /\ doing'[s] = doing[s] /\ req'[s] = req[s] /\ step'[s] = step[s]
           /\ pc'[s] = pc[s] + 1 /\ Busy(s) /\ Busy(s)'
           /\ Script(s)' = Script(s)
<1>1. PICK ok \in BOOLEAN : Ended(s, ok)
  BY DEF Works
<1>2. /\ doing'[s] = doing[s] /\ req'[s] = req[s] /\ step'[s] = step[s]
      /\ pc'[s] = pc[s] + 1
  BY <1>1, EndedFacts
<1>3. Busy(s) /\ Busy(s)'
  BY <1>2 DEF Works, Running, Handled, Busy
<1> QED BY <1>2, <1>3, CurrentCommand DEF Works, CarriesOut, Script

(***************************************************************************)
(* 6. A start of Hadoop that nothing overlapped is complete.               *)
(***************************************************************************)

Starts == {"hadoop_start", "hadoop_restart"}

IsStart(r, j) == cmds(r)[j].op = "start"

\* The positions of two sequences that are put together, and of three.
LEMMA Glue ==
    ASSUME NEW S, NEW a \in Seq(S), NEW b \in Seq(S)
    PROVE  /\ a \o b \in Seq(S) /\ Len(a \o b) = Len(a) + Len(b)
           /\ \A i \in 1 .. Len(a) : (a \o b)[i] = a[i]
           /\ \A i \in 1 .. Len(b) : (a \o b)[Len(a) + i] = b[i]
<1>1. /\ a \o b \in Seq(S) /\ Len(a \o b) = Len(a) + Len(b)
      /\ \A i \in 1 .. Len(a) + Len(b) :
             (a \o b)[i] = IF i <= Len(a) THEN a[i] ELSE b[i - Len(a)]
  BY ConcatProperties
<1>2. Len(a) \in Nat /\ Len(b) \in Nat
  OBVIOUS
<1> QED BY <1>1, <1>2

LEMMA GlueTwice ==
    ASSUME NEW S, NEW a \in Seq(S), NEW b \in Seq(S), NEW c \in Seq(S)
    PROVE  /\ Len(a \o b) = Len(a) + Len(b)
           /\ \A i \in 1 .. Len(a) : (a \o b)[i] = a[i]
           /\ \A i \in 1 .. Len(b) : (a \o b)[Len(a) + i] = b[i]
           /\ Len(a \o b \o c) = Len(a \o b) + Len(c)
           /\ \A i \in 1 .. Len(a \o b) : (a \o b \o c)[i] = (a \o b)[i]
           /\ \A i \in 1 .. Len(c) : (a \o b \o c)[Len(a \o b) + i] = c[i]
<1>1. /\ a \o b \in Seq(S) /\ Len(a \o b) = Len(a) + Len(b)
      /\ \A i \in 1 .. Len(a) : (a \o b)[i] = a[i]
      /\ \A i \in 1 .. Len(b) : (a \o b)[Len(a) + i] = b[i]
  BY Glue
<1>2. a \o b \in Seq(S)
  BY <1>1
<1>3. /\ Len(a \o b \o c) = Len(a \o b) + Len(c)
      /\ \A i \in 1 .. Len(a \o b) : (a \o b \o c)[i] = (a \o b)[i]
      /\ \A i \in 1 .. Len(c) : (a \o b \o c)[Len(a \o b) + i] = c[i]
  BY <1>2, Glue
<1> QED BY <1>1, <1>3, Zenon

LEMMA ThreeParts ==
    ASSUME NEW a, NEW q, NEW b, NEW z, NEW c, Len(a) = 2, Len(b) = 1, Len(c) \in Nat,
           Len(q) = Len(a) + Len(b),
           \A i \in 1 .. Len(a) : q[i] = a[i],
           \A i \in 1 .. Len(b) : q[Len(a) + i] = b[i],
           Len(z) = Len(q) + Len(c),
           \A i \in 1 .. Len(q) : z[i] = q[i],
           \A i \in 1 .. Len(c) : z[Len(q) + i] = c[i]
    PROVE  /\ Len(z) = 3 + Len(c)
           /\ z[1] = a[1] /\ z[2] = a[2] /\ z[3] = b[1]
           /\ \A i \in 1 .. Len(c) : z[3 + i] = c[i]
OBVIOUS

\* The command lines of a start: the stops come first, then every daemon.
LEMMA StartsLast ==
    ASSUME NEW r \in Requests, r.action \in Starts
    PROVE  /\ \A i, j \in 1 .. Len(cmds(r)) : IsStart(r, i) /\ i < j => IsStart(r, j)
           /\ \A d \in Daemons : \E j \in 1 .. Len(cmds(r)) :
                  IsStart(r, j) /\ d \in cmds(r)[j].on
<1>1. Len(Order) \in Nat /\ \A d \in Daemons : \E i \in 1 .. Len(Order) : Order[i] = d
  BY OrderType
<1>2. \A i \in 1 .. Len(Order) : StartAll[i].op = "start" /\ StartAll[i].on = {Order[i]}
  <2> TAKE i \in 1 .. Len(Order)
  <2>1. StartAll[i] = Command("start", {Order[i]})
    BY HadoopScripts
  <2> QED BY <2>1, CommandFields
<1>3. CASE r.action = "hadoop_start"
  <2>1. cmds(r) = StartAll
    BY <1>3 DEF cmds, Clears, Fault
  <2>2. Len(cmds(r)) = Len(Order)
    BY <2>1, HadoopScripts
  <2> QED BY <1>1, <1>2, <2>1, <2>2 DEF IsStart
<1>4. CASE r.action = "hadoop_restart"
  <2>1. cmds(r) = StopAll \o Sleep3 \o StartAll
    BY <1>4 DEF cmds, Clears, Fault
  <2>2. /\ StopAll[1] = Command("stop", Yarn) /\ StopAll[2] = Command("stop", Daemons \ Yarn)
        /\ Sleep3[1] = Command("none", {})
    BY DEF StopAll, Sleep3
  <2>3. /\ StopAll[1].op = "stop" /\ StopAll[2].op = "stop" /\ Sleep3[1].op = "none"
    BY <2>2, CommandFields
  <2>5. /\ Len(cmds(r)) = 3 + Len(Order)
        /\ cmds(r)[1].op = "stop" /\ cmds(r)[2].op = "stop" /\ cmds(r)[3].op = "none"
        /\ \A i \in 1 .. Len(Order) : cmds(r)[3 + i] = StartAll[i]
    <3> DEFINE q == StopAll \o Sleep3
    <3>1. /\ Len(q) = Len(StopAll) + Len(Sleep3)
          /\ \A i \in 1 .. Len(StopAll) : q[i] = StopAll[i]
          /\ \A i \in 1 .. Len(Sleep3) : q[Len(StopAll) + i] = Sleep3[i]
          /\ Len(q \o StartAll) = Len(q) + Len(StartAll)
          /\ \A i \in 1 .. Len(q) : (q \o StartAll)[i] = q[i]
          /\ \A i \in 1 .. Len(StartAll) : (q \o StartAll)[Len(q) + i] = StartAll[i]
      <4>1. /\ StopAll \in Seq(CommandLines) /\ Sleep3 \in Seq(CommandLines)
            /\ StartAll \in Seq(CommandLines)
        BY HadoopScripts
      <4> QED BY <4>1, GlueTwice
    <3>2. cmds(r) = q \o StartAll
      BY <2>1
    <3> HIDE DEF q
    <3>3. /\ Len(StopAll) = 2 /\ Len(Sleep3) = 1
          /\ Len(StartAll) = Len(Order) /\ Len(StartAll) \in Nat
      BY HadoopScripts
    <3>4. /\ Len(cmds(r)) = 3 + Len(StartAll)
          /\ cmds(r)[1] = StopAll[1] /\ cmds(r)[2] = StopAll[2] /\ cmds(r)[3] = Sleep3[1]
          /\ \A i \in 1 .. Len(StartAll) : cmds(r)[3 + i] = StartAll[i]
      BY <3>1, <3>2, <3>3, ThreeParts
    <3> QED BY <2>3, <3>3, <3>4
  <2>6. \A i \in 1 .. Len(Order) : IsStart(r, 3 + i) /\ cmds(r)[3 + i].on = {Order[i]}
    BY <1>2, <2>5 DEF IsStart
  <2>7. ~ IsStart(r, 1) /\ ~ IsStart(r, 2) /\ ~ IsStart(r, 3)
    BY <2>5 DEF IsStart
  <2>8. ASSUME NEW i \in 1 .. Len(cmds(r)), NEW j \in 1 .. Len(cmds(r)), IsStart(r, i), i < j
        PROVE  IsStart(r, j)
    <3>1. i # 1 /\ i # 2 /\ i # 3
      BY <2>7, <2>8
    <3>2. j - 3 \in 1 .. Len(Order) /\ j = 3 + (j - 3)
      BY <1>1, <2>5, <2>8, <3>1
    <3> QED BY <2>6, <3>2
  <2>9. ASSUME NEW d \in Daemons
        PROVE  \E j \in 1 .. Len(cmds(r)) : IsStart(r, j) /\ d \in cmds(r)[j].on
    <3>1. PICK i \in 1 .. Len(Order) : Order[i] = d
      BY <1>1
    <3>2. 3 + i \in 1 .. Len(cmds(r))
      BY <1>1, <2>5
    <3> QED BY <2>6, <3>1, <3>2
  <2> QED BY <2>8, <2>9
<1> QED BY <1>3, <1>4 DEF Starts

\* What a sure start has started is running.
StartedInv ==
    \A s \in Slots :
        sure[s] /\ Clean(s) /\ ~ Recovers(s) /\ req[s].action \in Starts =>
            \A j \in 1 .. Len(Script(s)) :
                (Busy(s) => j < pc[s]) /\ Script(s)[j].op = "start" => Script(s)[j].on \subseteq up

LEMMA StartedStep ==
    ASSUME WebInv, OrderInv, AloneInv, StartedInv, Step \/ Restart \/ UNCHANGED vars
    PROVE  StartedInv'
<1> USE DEF WebInv
<1> SUFFICES ASSUME NEW s \in Slots, sure'[s], Clean(s)', ~ Recovers(s)', req'[s].action \in Starts,
                    NEW j \in 1 .. Len(Script(s)'),
                    Busy(s)' => j < pc'[s], Script(s)'[j].op = "start"
             PROVE  Script(s)'[j].on \subseteq up'
  BY DEF StartedInv
<1>1. CASE Opens(s)
  BY <1>1 DEF Opens
<1>2. CASE sure[s] /\ Clean(s) /\ ~ Recovers(s) /\ Works(s)
  <2>1. /\ pc[s] \in 1 .. Len(Script(s)) /\ TakeEffect(Script(s)[pc[s]])
        /\ req'[s] = req[s] /\ pc'[s] = pc[s] + 1 /\ Busy(s)' /\ Script(s)' = Script(s)
        /\ Busy(s)
    BY <1>2, WorksFacts
  <2>2. j \in 1 .. Len(Script(s)) /\ j <= pc[s] /\ Script(s)[j].op = "start"
    BY <2>1
  <2>3. Script(s)[pc[s]].op = "start"
    <3>1. CASE j = pc[s]
      BY <2>2, <3>1
    <3>2. CASE j < pc[s]
      <4>1. req[s] \in Requests /\ req[s].action \in Starts /\ Script(s) = cmds(req[s])
        BY <2>1 DEF SlotsOK, Script
      <4> QED BY <2>1, <2>2, <3>2, <4>1, StartsLast DEF IsStart
    <3> QED BY <2>1, <2>2, <3>1, <3>2
  <2>4. up' = up \cup Script(s)[pc[s]].on
    BY <2>1, <2>3 DEF TakeEffect
  <2>5. j < pc[s] => Script(s)[j].on \subseteq up
    BY <1>2, <2>1, <2>2 DEF StartedInv
  <2> QED BY <2>1, <2>2, <2>4, <2>5
<1>3. CASE sure[s] /\ Clean(s) /\ ~ Recovers(s) /\ Reply(s)
  <2>1. doing'[s] = doing[s] /\ req'[s] = req[s] /\ pc'[s] = pc[s] /\ up' = up
    BY <1>3, GivenFacts DEF Reply, world
  <2>2. Script(s)' = Script(s) /\ (Busy(s)' <=> Busy(s))
    BY <2>1 DEF Script, Busy
  <2> QED BY <1>3, <2>1, <2>2 DEF StartedInv
<1>4. CASE sure[s] /\ Clean(s) /\ ~ Recovers(s) /\ Receive(s) /\ LastStep(s) /\ answer[s] = "ok"
  <2>1. Script(s)' = Script(s) /\ req' = req /\ up' = up
    BY <1>4, LastStepFacts DEF Script, Receive, world
  <2>2. Busy(s) /\ pc[s] > Len(Script(s)) /\ Len(Script(s)) \in Nat /\ pc[s] \in Nat
    BY <1>4, ScriptOf DEF Receive, OrderInv, SlotsOK
  <2>3. j \in 1 .. Len(Script(s)) /\ j < pc[s]
    BY <2>1, <2>2
  <2> QED BY <1>4, <2>1, <2>3 DEF StartedInv
<1>5. CASE sure[s] /\ Clean(s) /\ ~ Recovers(s) /\ Rests(s) /\ UNCHANGED world
  <2>1. req'[s] = req[s] /\ pc'[s] = pc[s] /\ up' = up
    BY <1>5 DEF Rests, world
  <2>2. Script(s)' = Script(s) /\ (Busy(s)' <=> Busy(s))
    BY <1>5, RestsClean
  <2> QED BY <1>5, <2>1, <2>2 DEF StartedInv
<1>6. CASE sure[s] /\ Clean(s) /\ ~ Recovers(s) /\ Misses(s)
  <2>1. PICK ok \in BOOLEAN : Ended(s, ok) /\ (ok => Script(s)[pc[s]].op # "start")
    BY <1>6 DEF Misses
  <2>2. /\ doing'[s] = doing[s] /\ req'[s] = req[s] /\ answer'[s] = answer[s]
        /\ pc'[s] = pc[s] + 1 /\ (allok'[s] <=> allok[s] /\ ok) /\ up' = up
    BY <1>6, <2>1, EndedFacts DEF Misses, world
  <2>3. Busy(s) /\ Busy(s)' /\ answer[s] = "none" /\ pc[s] \in 1 .. Len(Script(s))
    BY <1>6, <2>2, CurrentCommand DEF Misses, Running, Handled, Busy
  <2>4. Script(s)[pc[s]].op # "start" /\ Script(s)' = Script(s)
    BY <2>1, <2>2, <2>3 DEF Clean, Script
  <2>5. j \in 1 .. Len(Script(s)) /\ j < pc[s] /\ Script(s)[j].op = "start"
    BY <2>2, <2>3, <2>4
  <2> QED BY <1>6, <2>2, <2>3, <2>4, <2>5 DEF StartedInv
<1> QED BY <1>1, <1>2, <1>3, <1>4, <1>5, <1>6, SureStep

SureInv == ConsoleInv /\ OrderInv /\ AloneInv /\ StartedInv

LEMMA SureInit == ConsoleInit => OrderInv /\ AloneInv /\ StartedInv
BY DEF ConsoleInit, Init, OrderInv, AloneInv, StartedInv, Busy

LEMMA SureNext == SureInv /\ [ConsoleNext]_consoleVars => SureInv'
BY ConsoleTypes, WebSteps, OrderStep, AloneStep, StartedStep DEF SureInv, ConsoleInv

\* A slot that is sure is alone, no stray is about while nothing has failed, and
\* what it has started is running (app.py: run_command, api_action).
THEOREM InvariantSure == ConsoleSpec => []SureInv
<1>1. ConsoleInit => SureInv
  BY SureInit, WebInit, StartsInit DEF ConsoleInit, ConsoleInv, SureInv
<1> QED BY <1>1, SureNext, PTL DEF ConsoleSpec

LEMMA StartedComplete == SureInv => RestartIsComplete
<1> SUFFICES ASSUME SureInv, NEW s \in Slots, doing[s] = "acted", sure[s],
                    req[s].action \in {"hadoop_start", "hadoop_restart"}
             PROVE  up = Daemons
  BY DEF RestartIsComplete
<1>1. ~ Busy(s) /\ Clean(s) /\ ~ Recovers(s) /\ req[s].action \in Starts /\ Script(s) = cmds(req[s])
  BY DEF Busy, Clean, Recovers, Starts, Script
<1>2. req[s] \in Requests /\ up \subseteq Daemons
  BY DEF SureInv, ConsoleInv, WebInv, SlotsOK, ClusterOK
<1>3. ASSUME NEW d \in Daemons PROVE d \in up
  <2>1. PICK j \in 1 .. Len(Script(s)) : Script(s)[j].op = "start" /\ d \in Script(s)[j].on
    BY <1>1, <1>2, StartsLast DEF IsStart
  <2> QED BY <1>1, <2>1 DEF SureInv, StartedInv
<1> QED BY <1>2, <1>3

\* A start or restart of Hadoop that was answered "ok", and that nothing
\* overlapped, has left every daemon running, for any number of slaves and of
\* pages: a stop that outlives its timeout, and would kill what is started
\* after it, spoils the answer (app.py: api_action, run_command).
THEOREM RestartsComplete == ConsoleSpec => []RestartIsComplete
BY InvariantSure, StartedComplete, PTL

(***************************************************************************)
(* 7. A one-click recovery that nothing overlapped gets to every fault.    *)
(***************************************************************************)

\* Of the faults that the steps of a sure recovery have been posted for, only
\* those it still owes are left.
ClearedInv ==
    \A s \in Slots :
        sure[s] /\ Recovers(s) =>
            \A k \in 1 .. 8 :
                (doing[s] = "recover" => k <= step[s]) /\ Target[k] \in faults => Target[k] \in owes[s]

\* A command line of the recovery removes the fault of its step, and with it
\* what is owed.
LEMMA RecoveryWorks ==
    ASSUME WebInv, OrderInv, NEW s \in Slots, Running(s), Recovers(s), CarriesOut(s)
    PROVE  faults' = faults \ {Target[step[s]]} /\ owes'[s] = owes[s] \ {Target[step[s]]}
<1>1. Script(s)[pc[s]] = Command("clear", {Target[step[s]]})
  BY PlanCurrent DEF WebInv
<1>2. Script(s)[pc[s]].op = "clear" /\ Script(s)[pc[s]].on = {Target[step[s]]}
  BY <1>1, CommandFields
<1> QED BY <1>2 DEF CarriesOut, TakeEffect, WebInv

LEMMA ClearedStep ==
    ASSUME WebInv, OrderInv, AloneInv, ClearedInv, Step \/ Restart \/ UNCHANGED vars
    PROVE  ClearedInv'
<1> USE DEF WebInv
<1> SUFFICES ASSUME NEW s \in Slots, sure'[s], Recovers(s)', NEW k \in 1 .. 8,
                    doing'[s] = "recover" => k <= step'[s], Target[k] \in faults'
             PROVE  Target[k] \in owes'[s]
  BY DEF ClearedInv
<1>1. CASE Opens(s)
  <2>1. doing'[s] = "recover" /\ step'[s] = 1 /\ faults' = faults
    BY <1>1 DEF Opens, Recovers, world
  <2>2. k = 1
    BY <2>1
  <2> QED BY <1>1, <2>1, <2>2 DEF Opens
<1>2. CASE sure[s] /\ Recovers(s) /\ Receive(s)
  <2>1. faults' = faults /\ doing[s] = "recover"
    BY <1>2 DEF Receive, world, Busy, Recovers
  <2>2. step[s] \in 1 .. 8
    BY <2>1 DEF OrderInv
  <2>3. k <= step[s] => Target[k] \in owes[s]
    BY <1>2, <2>1 DEF ClearedInv
  <2>4. CASE NextStep(s)
    <3>0. step'[s] = step[s] + 1 /\ step[s] < 8 /\ doing'[s] = "recover"
      BY <2>4, NextStepFacts
    <3>1. /\ Post(s, Plan[step[s] + 1]) /\ step'[s] = step[s] + 1 /\ step[s] + 1 \in 1 .. 8
          /\ doing'[s] = "recover"
      BY <2>2, <2>4, <3>0 DEF NextStep
    <3>2. /\ Target[step[s] + 1] \in faults => Target[step[s] + 1] \in owes'[s]
          /\ owes[s] \subseteq owes'[s]
      BY <2>1, <3>1, PlanOwes
    <3>3. k <= step[s] \/ k = step[s] + 1
      BY <2>2, <3>1
    <3> QED BY <2>1, <2>3, <3>2, <3>3
  <2>5. CASE LastStep(s)
    <3>1. step[s] = 8 /\ owes' = owes
      BY <2>1, <2>5, PlanType DEF LastStep
    <3> QED BY <2>3, <3>1
  <2> QED BY <1>2, <2>4, <2>5 DEF Receive
<1>3. CASE sure[s] /\ Recovers(s) /\ Handler(s)
  <2>1. doing'[s] = doing[s] /\ step'[s] = step[s]
    <3>1. CASE Reject(s) \/ Outlives(s) \/ Reply(s)
      BY <3>1, GivenFacts
    <3>2. CASE Works(s) \/ Misses(s) \/ TimesOut(s)
      <4>1. PICK ok \in BOOLEAN : Ended(s, ok)
        BY <3>2 DEF Works, Misses, TimesOut
      <4> QED BY <4>1, EndedFacts
    <3> QED BY <1>3, <3>1, <3>2 DEF Handler
  <2>2. Target[k] \in faults => Target[k] \in owes[s]
    BY <1>3, <2>1 DEF ClearedInv
  <2>3. CASE Running(s) /\ CarriesOut(s)
    BY <1>3, <2>2, <2>3, RecoveryWorks
  <2>4. CASE faults' = faults /\ owes' = owes
    BY <2>2, <2>4
  <2> QED
    BY <1>3, <2>3, <2>4
       DEF Handler, Reject, Works, Misses, TimesOut, Outlives, Reply, world, history
<1>4. CASE sure[s] /\ Recovers(s) /\ Rests(s) /\ faults' \subseteq faults
  <2>1. doing'[s] = doing[s] /\ step'[s] = step[s] /\ owes'[s] = owes[s] /\ Target[k] \in faults
    BY <1>4 DEF Rests
  <2> QED BY <1>4, <2>1 DEF ClearedInv
<1> QED BY <1>1, <1>2, <1>3, <1>4, RecoveryStep

LEMMA ClearedInit == ConsoleInit => ClearedInv
BY DEF ConsoleInit, Init, ClearedInv

LEMMA ClearedNext == SureInv /\ ClearedInv /\ [ConsoleNext]_consoleVars => ClearedInv'
BY WebSteps, ClearedStep DEF SureInv, ConsoleInv

LEMMA ClearedQuick == ClearedInv => RecoveryClears
<1> SUFFICES ASSUME ClearedInv, NEW s \in Slots, doing[s] = "recovered", sure[s],
                    NEW a \in QuickActions, Fault[a] \in faults
             PROVE  Fault[a] \in owes[s]
  BY DEF RecoveryClears
<1>1. \A k \in 1 .. 8 : Target[k] \in faults => Target[k] \in owes[s]
  BY DEF ClearedInv, Recovers
<1>2. \A f \in {"shape", "isolation", "ballast", "disk", "vmnet"} : f \in faults => f \in owes[s]
  BY <1>1 DEF Target
<1>3. Fault[a] \in {"shape", "isolation", "ballast", "disk", "vmnet"}
  BY DEF Fault, QuickActions
<1> QED BY <1>2, <1>3

\* A one-click recovery that nothing overlapped gets to every fault that the
\* quick cleanup of a card would remove, whatever else was injected before,
\* whichever of its steps fail, time out or outlive their timeout, and however
\* often the server crashes: only a fault whose own steps were not carried out is
\* left, and that even behind answers "ok" (app.js: runRecoveryAll,
\* getQuickActionSpec, hadoop_injector.c: main).
THEOREM RecoveryIsClear == ConsoleSpec => []RecoveryClears
<1>1. ConsoleInit => ClearedInv
  BY ClearedInit
<1>2. ConsoleSpec => []ClearedInv
  BY <1>1, ClearedNext, InvariantSure, PTL DEF ConsoleSpec
<1> QED BY <1>2, ClearedQuick, PTL
=============================================================================
