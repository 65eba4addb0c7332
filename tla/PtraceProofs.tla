----------------------------- MODULE PtraceProofs -----------------------------
(***************************************************************************)
(* Theorems about PtraceInjectors, for any number of tools, any faults,    *)
(* loops and delays, and any width of the register and the word.           *)
(***************************************************************************)
EXTENDS PtraceInjectors, WellFoundedInduction, TLAPS

(***************************************************************************)
(* 1. The faults.                                                          *)
(***************************************************************************)

LEMMA Minimum ==
    ASSUME NEW S \in SUBSET Nat, S # {}
    PROVE  \E b \in S : \A c \in S : b <= c
<1>1. PICK b \in S : \A c \in S : ~ (<<c, b>> \in OpToRel(<, Nat))
  BY NatLessThanWellFounded, WFMin
<1>2. ASSUME NEW c \in S PROVE b <= c
  <2>1. <<c, b>> \notin OpToRel(<, Nat)
    BY <1>1
  <2>2. ~ (c < b)
    BY <2>1, Zenon DEF OpToRel
  <2>3. QED
    BY <2>2
<1>3. QED
  BY <1>2

\* Adding one does not leave the width of the register.
LEMMA Plus1Type ==
    ASSUME NEW v \in SUBSET Bits
    PROVE  Plus1(v) \in SUBSET Bits
<1> DEFINE zeros == Bits \ v
           least == CHOOSE b \in zeros : \A c \in zeros : b <= c
<1>1. CASE zeros = {}
  BY <1>1 DEF Plus1
<1>2. CASE zeros # {}
  <2>1. zeros \in SUBSET Nat
    BY WidthAssumption DEF Bits
  <2>2. \E b \in zeros : \A c \in zeros : b <= c
    BY <1>2, <2>1, Minimum
  <2>3. least \in zeros
    BY <2>2
  <2>4. Plus1(v) = (v \ 0 .. least) \cup {least}
    BY <1>2 DEF Plus1
  <2>5. QED
    BY <2>3, <2>4
<1>3. QED
  BY <1>1, <1>2

\* A fault of a register or of a word is a value of the same width.
LEMMA FaultsType ==
    ASSUME NEW t \in Tools, NEW v \in SUBSET Bits
    PROVE  FaultsAt(t, v) \subseteq SUBSET Bits
<1> DEFINE type == FaultOf[t].type
           bit == FaultOf[t].bit
<1>1. LowBits \subseteq Bits
  BY WidthAssumption DEF LowBits, Bits
<1>2. \A w \in SUBSET Bits : Plus1(w) \in SUBSET Bits /\ Plus2(w) \in SUBSET Bits
  BY Plus1Type DEF Plus2
<1>3. CASE t \in RegTools
  <2>1. type \in RegFaults
    BY <1>3, FaultsAssumption
  <2>2. (IF bit >= 0 THEN {bit} ELSE Bits) \subseteq Bits
    BY <1>3, FaultsAssumption DEF Bits
  <2>3. apply_fault(v, type, bit) \subseteq SUBSET Bits
    <3> HIDE DEF type, bit
    <3>1. CASE type \in {"flip1", "flip2"}
      BY <3>1, <2>2 DEF apply_fault, Toggle
    <3>2. CASE type \in {"zero1", "zero2", "set1", "set2"}
      BY <3>2, <2>2 DEF apply_fault
    <3>3. CASE type \in {"low0", "low1"}
      BY <3>3, <1>1 DEF apply_fault
    <3>4. CASE type = "lowerr"
      BY <3>4, <1>1 DEF apply_fault, Toggle
    <3>5. CASE type \in {"add1", "add2", "add3", "add4", "add5"}
      BY <3>5, <1>2 DEF apply_fault
    <3>6. QED
      BY <2>1, <3>1, <3>2, <3>3, <3>4, <3>5 DEF RegFaults
  <2>4. QED
    BY <1>3, <2>3 DEF FaultsAt
<1>4. CASE t \in MemTools
  <2>1. type \in MemFaults /\ bit \in Bits
    BY <1>4, FaultsAssumption
  <2>2. apply_fault_logic(v, type, bit) \subseteq SUBSET Bits
    <3> HIDE DEF type, bit
    <3>1. CASE type # "byte"
      BY <3>1, <2>1 DEF apply_fault_logic, Toggle, MemFaults
    <3>2. CASE type = "byte"
      BY <3>2, <1>1 DEF apply_fault_logic
    <3>3. QED
      BY <3>1, <3>2
  <2>3. QED
    BY <1>4, <2>2, ToolsAssumption DEF FaultsAt
<1>5. QED
  BY <1>3, <1>4 DEF Tools

(***************************************************************************)
(* 2. The inductive invariant.                                             *)
(***************************************************************************)

Attached == {"waiting", "delay", "delaying", "search", "read", "write", "detach"}
Stopping == {"delay", "search", "read", "write", "detach"}

\* Where each kind of tool can be.
Paths ==
    /\ \A t \in RegTools : pc[t] \in {"attach", "waiting", "delay", "delaying", "read",
                                     "write", "detach", "done", "failed"}
    /\ \A t \in MemTools : pc[t] \in {"attach", "waiting", "search", "read", "write",
                                     "detach", "done", "failed"}

\* One tool traces the process, the one that is between its attach and its
\* detach, and from the read to the write the process stands still.
Holding ==
    alive => \A t \in Tools : /\ tracer = t <=> pc[t] \in Attached
                              /\ pc[t] \in Stopping => trapped

\* A process that has died is not stopped, though a tool may still trace it.
Gone == ~ alive => ~ stopped /\ ~ trapped /\ at = "none" /\ pending = {}

\* The value that is about to be written is a fault of the one that is there.
Fresh == alive => \A t \in Tools : pc[t] = "write" => word[Cell(t)] = seen[t]

Most(t) == IF Infinite(t) THEN 1 ELSE Loops[t]

\* What reg_injector has counted, it has written, but for the write it is at
\* and one that has met a process that was gone.
Even(t) ==
    /\ count[t] \in {written[t], written[t] + 1}
    /\ alive /\ pc[t] # "write" => count[t] = written[t]
    /\ pc[t] = "write" => count[t] = 1 \/ count[t] = written[t] + 1
    /\ pc[t] = "write" /\ ~ Infinite(t) => count[t] = written[t] + 1
    /\ count[t] <= Most(t)
    /\ pc[t] \in {"waiting", "delay", "delaying", "read"} /\ ~ Infinite(t) => count[t] < Loops[t]
RegBalance == \A t \in RegTools : Even(t)

\* mem_injector writes once.
MemBalance ==
    \A t \in MemTools :
        /\ pc[t] \in {"attach", "waiting", "search", "read", "write"} => written[t] = 0
        /\ pc[t] \in {"detach", "done"} => written[t] = 1
        /\ written[t] <= 1

IInv == TypeOK /\ Paths /\ Holding /\ Gone /\ Fresh /\ RegBalance /\ MemBalance

LEMMA InitIInv == Init => IInv
<1> SUFFICES ASSUME Init PROVE IInv
  OBVIOUS
<1> USE ToolsAssumption DEF Init
<1>1. TypeOK
  <2>1. seen \in [Tools -> SUBSET Bits] /\ word \in [{"reg", "mem"} -> SUBSET Bits]
    OBVIOUS
  <2>2. /\ pc \in [Tools -> Places] /\ keep \in [Tools -> BOOLEAN]
        /\ alarm \in [Tools -> {"off", "armed", "fired"}]
    BY DEF Places
  <2>3. count \in [Tools -> Nat] /\ written \in [Tools -> Nat] /\ signals \in 0 .. MaxSignals
    OBVIOUS
  <2>4. args \in [Tools -> Calls]
    BY InvocationsAssumption
  <2>5. QED
    BY <2>1, <2>2, <2>3, <2>4 DEF TypeOK
<1>2. Paths /\ Gone /\ Fresh
  BY DEF Paths, Gone, Fresh, Tools
<1>3. Holding
  BY DEF Holding, Attached, Stopping, Tools
<1>4. RegBalance /\ MemBalance
  BY DEF RegBalance, Even, MemBalance, Most, Infinite, Tools
<1>5. QED
  BY <1>1, <1>2, <1>3, <1>4 DEF IInv

(***************************************************************************)
(* 3. The steps that are no tool's.                                        *)
(***************************************************************************)

LEMMA WorldStep ==
    ASSUME IInv, Work \/ Kernel \/ Send \/ Continue \/ Dies \/ Reap \/ AllEnded
    PROVE  IInv'
<1> USE ToolsAssumption
<1>0. TypeOK /\ Paths /\ Holding /\ Gone /\ Fresh /\ RegBalance /\ MemBalance
  BY DEF IInv
<1>1. UNCHANGED tools
  BY DEF Work, Kernel, Deliver, Send, Continue, Dies, Reap, AllEnded, vars
<1>2. TypeOK'
  <2>1. tools' = tools /\ TypeOK
    BY <1>0, <1>1
  <2>2. CASE Work
    <3>1. word' \in [{"reg", "mem"} -> SUBSET Bits]
      BY <2>2, <1>0 DEF Work, TypeOK
    <3>2. QED
      BY <2>1, <2>2, <3>1 DEF Work, tools, TypeOK
  <2>3. CASE Kernel
    BY <2>1, <2>3 DEF Kernel, Deliver, tools, TypeOK
  <2>4. CASE Send \/ Continue
    <3>1. signals' \in 0 .. MaxSignals
      BY <2>1, <2>4 DEF Send, Continue, TypeOK
    <3>2. pending' \subseteq {"STOP", "OTHER"} /\ stopped' \in BOOLEAN
      BY <2>1, <2>4 DEF Send, Continue, TypeOK
    <3>3. UNCHANGED <<alive, reaped, word, tracer, trapped, at>>
      BY <2>4 DEF Send, Continue
    <3>4. QED
      BY <2>1, <3>1, <3>2, <3>3 DEF tools, TypeOK
  <2>5. CASE Dies \/ Reap
    BY <2>1, <2>5 DEF Dies, Reap, tools, TypeOK
  <2>6. CASE AllEnded
    BY <2>1, <2>6 DEF AllEnded, vars, process, tools, TypeOK
  <2>7. QED
    BY <2>2, <2>3, <2>4, <2>5, <2>6
<1>3. Paths' /\ MemBalance'
  BY <1>0, <1>1 DEF tools, Paths, MemBalance
<1>4. alive' => alive /\ tracer' = tracer /\ (trapped => trapped')
  BY <1>0 DEF Work, Kernel, Deliver, Send, Continue, Dies, Reap, AllEnded, vars, process, tools, TypeOK
<1>5. Holding'
  BY <1>0, <1>1, <1>4 DEF tools, Holding
<1>6. RegBalance'
  BY <1>0, <1>1, <1>4 DEF tools, RegBalance, Even, Most, Infinite
<1>7. Gone'
  BY <1>0 DEF Work, Kernel, Deliver, Send, Continue, Dies, Reap, AllEnded, vars, process, Runs, Gone, TypeOK
<1>8. Fresh'
  <2> SUFFICES ASSUME alive', NEW t \in Tools, pc[t] = "write"
               PROVE  word'[Cell(t)] = seen[t]
    BY <1>1 DEF Fresh, tools
  <2>1. alive /\ trapped
    <3>1. alive
      BY <1>4
    <3>2. pc[t] \in Stopping
      BY DEF Stopping
    <3>3. QED
      BY <1>0, <3>1, <3>2 DEF Holding
  <2>2. word' = word
    BY <2>1 DEF Work, Kernel, Deliver, Send, Continue, Dies, Reap, AllEnded, vars, process, Runs
  <2>3. QED
    BY <1>0, <2>1, <2>2 DEF Fresh
<1>9. QED
  BY <1>2, <1>3, <1>5, <1>6, <1>7, <1>8 DEF IInv

(***************************************************************************)
(* 4. The steps of reg_injector.                                           *)
(***************************************************************************)

LEMMA WroteType ==
    ASSUME TypeOK, NEW t \in Tools, Wrote(t)
    PROVE  word' \in [{"reg", "mem"} -> SUBSET Bits] /\ written' \in [Tools -> Nat]
<1>1. PICK v \in Faults(t) : word' = [word EXCEPT ![Cell(t)] = v]
  BY DEF Wrote
<1>2. v \in SUBSET Bits
  BY FaultsType DEF Faults, TypeOK
<1>3. word' \in [{"reg", "mem"} -> SUBSET Bits]
  BY <1>1, <1>2 DEF TypeOK
<1>4. written' \in [Tools -> Nat]
  BY DEF Wrote, Counted, TypeOK
<1>5. QED
  BY <1>3, <1>4

LEMMA RegStepIInv ==
    ASSUME IInv, NEW t \in RegTools, RegStep(t) \/ Alarm(t) \/ Interrupt(t)
    PROVE  IInv'
<1> USE ToolsAssumption DEF process, tools
<1>0. TypeOK /\ Paths /\ Holding /\ Gone /\ Fresh /\ RegBalance /\ MemBalance
  BY DEF IInv
<1>t. t \in Tools /\ t \notin MemTools /\ t # Nobody
  BY DEF Tools
<1>1. ASSUME RegAttach(t) PROVE IInv'
  <2>1. TypeOK'
    BY <1>0, <1>t, <1>1 DEF RegAttach, Traces, Goto, NotCounting, GoesOn, Infinite, TypeOK, Places
  <2>2. Paths' /\ Gone'
    BY <1>0, <1>t, <1>1 DEF RegAttach, Traces, Goto, NotCounting, GoesOn, Infinite, TypeOK, Paths, Gone, Holding, Attached
  <2>3. Holding'
    BY <1>0, <1>t, <1>1 DEF RegAttach, Traces, Goto, NotCounting, GoesOn, Infinite, TypeOK, Holding, Attached, Stopping, Tools
  <2>4. Fresh'
    BY <1>0, <1>t, <1>1 DEF RegAttach, Traces, Goto, NotCounting, GoesOn, Infinite, TypeOK, Holding, Attached, Stopping, Fresh
  <2>5. RegBalance'
    BY <1>0, <1>t, <1>1 DEF RegAttach, Traces, Goto, NotCounting, GoesOn, Infinite, TypeOK, Holding, Attached, Stopping, RegBalance, Even, Most, Infinite
  <2>6. MemBalance'
    BY <1>0, <1>t, <1>1 DEF RegAttach, Traces, Goto, NotCounting, GoesOn, Infinite, TypeOK, MemBalance, Tools
  <2>7. QED
    BY <2>1, <2>2, <2>3, <2>4, <2>5, <2>6 DEF IInv
<1>2. ASSUME RegEnd(t) PROVE IInv'
  <2>1. TypeOK'
    BY <1>0, <1>t, <1>2 DEF RegEnd, Orphaned, Goto, NotCounting, TypeOK, Places
  <2>2. Paths' /\ Gone'
    <3>1. Paths'
      BY <1>0, <1>t, <1>2 DEF RegEnd, Goto, TypeOK, Paths
    <3>2. ~ alive' => ~ alive /\ trapped' = FALSE /\ pending' = {}
      BY <1>0, <1>2 DEF RegEnd, Orphaned, Gone
    <3>3. ~ alive => ~ stopped' /\ at' = "none"
      BY <1>0, <1>2 DEF RegEnd, Orphaned, Gone, TypeOK
    <3>4. QED
      BY <3>1, <3>2, <3>3 DEF Gone
  <2>3. Holding'
    BY <1>0, <1>t, <1>2 DEF RegEnd, Orphaned, Goto, NotCounting, TypeOK, Holding, Attached, Stopping
  <2>4. Fresh'
    BY <1>0, <1>t, <1>2 DEF RegEnd, Orphaned, Goto, NotCounting, TypeOK, Holding, Attached, Stopping, Fresh
  <2>5. RegBalance'
    BY <1>0, <1>t, <1>2 DEF RegEnd, Orphaned, Goto, NotCounting, TypeOK, Holding, Attached, Stopping, RegBalance, Even, Most, Infinite
  <2>6. MemBalance'
    BY <1>0, <1>t, <1>2 DEF RegEnd, Orphaned, Goto, NotCounting, TypeOK, MemBalance, Tools
  <2>7. QED
    BY <2>1, <2>2, <2>3, <2>4, <2>5, <2>6 DEF IInv
<1>3. ASSUME RegWait(t) PROVE IInv'
  <2>1. TypeOK'
    BY <1>0, <1>t, <1>3 DEF RegWait, Waited, Held, Goto, NotCounting, TypeOK, Places
  <2>2. Paths' /\ Gone'
    BY <1>0, <1>t, <1>3 DEF RegWait, Waited, Held, Goto, NotCounting, TypeOK, Paths, Gone, Holding, Attached
  <2>3. Holding'
    BY <1>0, <1>t, <1>3 DEF RegWait, Waited, Held, Goto, NotCounting, TypeOK, Holding, Attached, Stopping
  <2>4. Fresh'
    BY <1>0, <1>t, <1>3 DEF RegWait, Waited, Held, Goto, NotCounting, TypeOK, Holding, Attached, Stopping, Fresh
  <2>5. RegBalance'
    BY <1>0, <1>t, <1>3 DEF RegWait, Waited, Held, Goto, NotCounting, TypeOK, Holding, Attached, Stopping, RegBalance, Even, Most, Infinite
  <2>6. MemBalance'
    BY <1>0, <1>t, <1>3 DEF RegWait, Waited, Held, Goto, NotCounting, TypeOK, MemBalance, Tools
  <2>7. QED
    BY <2>1, <2>2, <2>3, <2>4, <2>5, <2>6 DEF IInv
<1>4. ASSUME RegDelay(t) PROVE IInv'
  <2>1. TypeOK'
    BY <1>0, <1>t, <1>4 DEF RegDelay, Orphaned, Held, Goto, NotCounting, TypeOK, Places
  <2>2. Paths'
    <3>1. \E p \in {"delaying", "done", "write", "attach", "detach"} : pc' = [pc EXCEPT ![t] = p]
      BY <1>4 DEF RegDelay, Orphaned, Held, Goto, NotCounting
    <3>2. QED
      BY <1>0, <1>t, <3>1 DEF TypeOK, Paths
  <2>8. Gone'
    BY <1>0, <1>t, <1>4 DEF RegDelay, Orphaned, Held, Goto, NotCounting, TypeOK, Gone
  <2>3. Holding'
    BY <1>0, <1>t, <1>4 DEF RegDelay, Orphaned, Held, Goto, NotCounting, TypeOK, Holding, Attached, Stopping
  <2>4. Fresh'
    BY <1>0, <1>t, <1>4 DEF RegDelay, Orphaned, Held, Goto, NotCounting, TypeOK, Holding, Attached, Stopping, Fresh
  <2>5. RegBalance'
    <3>1. \A u \in RegTools \ {t} : Even(u)'
      BY <1>0, <1>t, <1>4 DEF RegDelay, Orphaned, Held, Goto, NotCounting, TypeOK, Tools, RegBalance, Even, Most, Infinite
    <3>2. Held(t) \/ ~ alive
      BY <1>0, <1>t, <1>4 DEF RegDelay, Orphaned, Held, Goto, NotCounting, TypeOK, Holding, Attached, Stopping
    <3>3. Even(t)'
      BY <1>0, <1>t, <1>4, <3>2 DEF RegDelay, Orphaned, Held, Goto, NotCounting, TypeOK, RegBalance, Even, Most, Infinite
    <3>4. QED
      BY <3>1, <3>3 DEF RegBalance
  <2>6. MemBalance'
    BY <1>0, <1>t, <1>4 DEF RegDelay, Orphaned, Held, Goto, NotCounting, TypeOK, MemBalance, Tools
  <2>7. QED
    BY <2>1, <2>2, <2>3, <2>4, <2>5, <2>6, <2>8 DEF IInv
<1>5. ASSUME RegDelayed(t) PROVE IInv'
  <2>1. TypeOK'
    BY <1>0, <1>t, <1>5 DEF RegDelayed, Waited, Held, Goto, NotCounting, TypeOK, Places
  <2>2. Paths' /\ Gone'
    BY <1>0, <1>t, <1>5 DEF RegDelayed, Waited, Held, Goto, NotCounting, TypeOK, Paths, Gone, Holding, Attached
  <2>3. Holding'
    BY <1>0, <1>t, <1>5 DEF RegDelayed, Waited, Held, Goto, NotCounting, TypeOK, Holding, Attached, Stopping
  <2>4. Fresh'
    BY <1>0, <1>t, <1>5 DEF RegDelayed, Waited, Held, Goto, NotCounting, TypeOK, Holding, Attached, Stopping, Fresh
  <2>5. RegBalance'
    BY <1>0, <1>t, <1>5 DEF RegDelayed, Waited, Held, Goto, NotCounting, TypeOK, Holding, Attached, Stopping, RegBalance, Even, Most, Infinite
  <2>6. MemBalance'
    BY <1>0, <1>t, <1>5 DEF RegDelayed, Waited, Held, Goto, NotCounting, TypeOK, MemBalance, Tools
  <2>7. QED
    BY <2>1, <2>2, <2>3, <2>4, <2>5, <2>6 DEF IInv
<1>6. ASSUME RegRead(t) PROVE IInv'
  <2>1. TypeOK'
    BY <1>0, <1>t, <1>6 DEF RegRead, Held, Counted, Infinite, Goto, Cell, TypeOK, Places
  <2>2. Paths'
    <3>1. \E p \in {"delaying", "done", "write", "attach", "detach"} : pc' = [pc EXCEPT ![t] = p]
      BY <1>6 DEF RegRead, Held, Counted, Infinite, Goto, Cell
    <3>2. QED
      BY <1>0, <1>t, <3>1 DEF TypeOK, Paths
  <2>8. Gone'
    BY <1>0, <1>t, <1>6 DEF RegRead, Held, Counted, Infinite, Goto, Cell, TypeOK, Gone
  <2>3. Holding'
    BY <1>0, <1>t, <1>6 DEF RegRead, Held, Counted, Infinite, Goto, Cell, TypeOK, Holding, Attached, Stopping
  <2>4. Fresh'
    BY <1>0, <1>t, <1>6 DEF RegRead, Held, Counted, Infinite, Goto, Cell, TypeOK, Holding, Attached, Stopping, Fresh
  <2>5. RegBalance'
    <3>1. \A u \in RegTools \ {t} : Even(u)'
      BY <1>0, <1>t, <1>6 DEF RegRead, Held, Counted, Infinite, Goto, Cell, TypeOK, Tools, RegBalance, Even, Most, Infinite
    <3>2. Held(t) \/ ~ alive
      BY <1>0, <1>t, <1>6 DEF RegRead, Held, Counted, Infinite, Goto, Cell, TypeOK, Holding, Attached, Stopping
    <3>3. Even(t)'
      BY <1>0, <1>t, <1>6, <3>2 DEF RegRead, Held, Counted, Infinite, Goto, Cell, TypeOK, RegBalance, Even, Most, Infinite
    <3>4. QED
      BY <3>1, <3>3 DEF RegBalance
  <2>6. MemBalance'
    BY <1>0, <1>t, <1>6 DEF RegRead, Held, Counted, Infinite, Goto, Cell, TypeOK, MemBalance, Tools
  <2>7. QED
    BY <2>1, <2>2, <2>3, <2>4, <2>5, <2>6, <2>8 DEF IInv
<1>7. ASSUME RegWrite(t) PROVE IInv'
  <2>1. TypeOK'
    <3>1. word' \in [{"reg", "mem"} -> SUBSET Bits] /\ written' \in [Tools -> Nat]
      BY <1>0, <1>t, <1>7, WroteType DEF RegWrite, TypeOK
    <3>2. UNCHANGED <<alive, reaped, tracer, trapped, at, stopped, pending, signals>>
      BY <1>7 DEF RegWrite, Wrote
    <3>3. QED
      BY <1>0, <1>t, <1>7, <3>1, <3>2 DEF RegWrite, Goto, TypeOK, Places
  <2>2. Paths'
    <3>1. \E p \in {"delaying", "done", "write", "attach", "detach"} : pc' = [pc EXCEPT ![t] = p]
      BY <1>7 DEF RegWrite, Held, Wrote, Counted, Infinite, Goto, Cell
    <3>2. QED
      BY <1>0, <1>t, <3>1 DEF TypeOK, Paths
  <2>8. Gone'
    BY <1>0, <1>t, <1>7 DEF RegWrite, Held, Wrote, Counted, Infinite, Goto, Cell, TypeOK, Gone
  <2>3. Holding'
    BY <1>0, <1>t, <1>7 DEF RegWrite, Held, Wrote, Counted, Infinite, Goto, Cell, TypeOK, Holding, Attached, Stopping
  <2>4. Fresh'
    BY <1>0, <1>t, <1>7 DEF RegWrite, Held, Wrote, Counted, Infinite, Goto, Cell, TypeOK, Holding, Attached, Stopping, Fresh
  <2>5. RegBalance'
    <3>1. \A u \in RegTools \ {t} : Even(u)'
      BY <1>0, <1>t, <1>7 DEF RegWrite, Held, Wrote, Counted, Infinite, Goto, Cell, TypeOK, Tools, RegBalance, Even, Most, Infinite
    <3>2. Held(t) \/ ~ alive
      BY <1>0, <1>t, <1>7 DEF RegWrite, Held, Wrote, Counted, Infinite, Goto, Cell, TypeOK, Holding, Attached, Stopping
    <3>3. Even(t)'
      BY <1>0, <1>t, <1>7, <3>2 DEF RegWrite, Held, Wrote, Counted, Infinite, Goto, Cell, TypeOK, RegBalance, Even, Most, Infinite
    <3>4. QED
      BY <3>1, <3>3 DEF RegBalance
  <2>6. MemBalance'
    BY <1>0, <1>t, <1>7 DEF RegWrite, Held, Wrote, Counted, Infinite, Goto, Cell, TypeOK, MemBalance, Tools
  <2>7. QED
    BY <2>1, <2>2, <2>3, <2>4, <2>5, <2>6, <2>8 DEF IInv
<1>8. ASSUME RegDetach(t) PROVE IInv'
  <2>1. TypeOK'
    BY <1>0, <1>t, <1>8 DEF RegDetach, Released, Held, Goto, NotCounting, TypeOK, Places
  <2>2. Paths'
    <3>1. \E p \in {"delaying", "done", "write", "attach", "detach"} : pc' = [pc EXCEPT ![t] = p]
      BY <1>8 DEF RegDetach, Released, Held, Goto, NotCounting
    <3>2. QED
      BY <1>0, <1>t, <3>1 DEF TypeOK, Paths
  <2>8. Gone'
    BY <1>0, <1>t, <1>8 DEF RegDetach, Released, Held, Goto, NotCounting, TypeOK, Gone
  <2>3. Holding'
    BY <1>0, <1>t, <1>8 DEF RegDetach, Released, Held, Goto, NotCounting, TypeOK, Holding, Attached, Stopping, Tools
  <2>4. Fresh'
    BY <1>0, <1>t, <1>8 DEF RegDetach, Released, Held, Goto, NotCounting, TypeOK, Holding, Attached, Stopping, Fresh
  <2>5. RegBalance'
    BY <1>0, <1>t, <1>8 DEF RegDetach, Released, Held, Goto, NotCounting, TypeOK, Holding, Attached, Stopping, RegBalance, Even, Most, Infinite
  <2>6. MemBalance'
    BY <1>0, <1>t, <1>8 DEF RegDetach, Released, Held, Goto, NotCounting, TypeOK, MemBalance, Tools
  <2>7. QED
    BY <2>1, <2>2, <2>3, <2>4, <2>5, <2>6, <2>8 DEF IInv
<1>9. ASSUME Alarm(t) PROVE IInv'
  <2>1. TypeOK'
    BY <1>0, <1>t, <1>9 DEF Alarm, NotCounting, TypeOK, Places
  <2>2. Paths' /\ Gone'
    BY <1>0, <1>t, <1>9 DEF Alarm, NotCounting, TypeOK, Paths, Gone, Holding, Attached
  <2>3. Holding'
    BY <1>0, <1>t, <1>9 DEF Alarm, NotCounting, TypeOK, Holding, Attached, Stopping
  <2>4. Fresh'
    BY <1>0, <1>t, <1>9 DEF Alarm, NotCounting, TypeOK, Holding, Attached, Stopping, Fresh
  <2>5. RegBalance'
    BY <1>0, <1>t, <1>9 DEF Alarm, NotCounting, TypeOK, Holding, Attached, Stopping, RegBalance, Even, Most, Infinite
  <2>6. MemBalance'
    BY <1>0, <1>t, <1>9 DEF Alarm, NotCounting, TypeOK, MemBalance, Tools
  <2>7. QED
    BY <2>1, <2>2, <2>3, <2>4, <2>5, <2>6 DEF IInv
<1>10. ASSUME Interrupt(t) PROVE IInv'
  <2>1. TypeOK'
    BY <1>0, <1>t, <1>10 DEF Interrupt, TypeOK, Places
  <2>2. Paths' /\ Gone'
    BY <1>0, <1>t, <1>10 DEF Interrupt, TypeOK, Paths, Gone, Holding, Attached
  <2>3. Holding'
    BY <1>0, <1>t, <1>10 DEF Interrupt, TypeOK, Holding, Attached, Stopping
  <2>4. Fresh'
    BY <1>0, <1>t, <1>10 DEF Interrupt, TypeOK, Holding, Attached, Stopping, Fresh
  <2>5. RegBalance'
    BY <1>0, <1>t, <1>10 DEF Interrupt, TypeOK, Holding, Attached, Stopping, RegBalance, Even, Most, Infinite
  <2>6. MemBalance'
    BY <1>0, <1>t, <1>10 DEF Interrupt, TypeOK, MemBalance, Tools
  <2>7. QED
    BY <2>1, <2>2, <2>3, <2>4, <2>5, <2>6 DEF IInv
<1>11. ASSUME RegUnknown(t) PROVE IInv'
  <2>1. TypeOK'
    BY <1>0, <1>t, <1>11 DEF RegUnknown, Released, Held, Goto, NotCounting, TypeOK, Places
  <2>2. Paths'
    <3>1. \E p \in {"delaying", "done", "write", "failed", "detach"} : pc' = [pc EXCEPT ![t] = p]
      BY <1>11 DEF RegUnknown, Released, Held, Goto, NotCounting
    <3>2. QED
      BY <1>0, <1>t, <3>1 DEF TypeOK, Paths
  <2>8. Gone'
    BY <1>0, <1>t, <1>11 DEF RegUnknown, Released, Held, Goto, NotCounting, TypeOK, Gone
  <2>3. Holding'
    BY <1>0, <1>t, <1>11 DEF RegUnknown, Released, Held, Goto, NotCounting, TypeOK, Holding, Attached, Stopping, Tools
  <2>4. Fresh'
    BY <1>0, <1>t, <1>11 DEF RegUnknown, Released, Held, Goto, NotCounting, TypeOK, Holding, Attached, Stopping, Fresh
  <2>5. RegBalance'
    BY <1>0, <1>t, <1>11 DEF RegUnknown, Released, Held, Goto, NotCounting, TypeOK, Holding, Attached, Stopping, RegBalance, Even, Most, Infinite
  <2>6. MemBalance'
    BY <1>0, <1>t, <1>11 DEF RegUnknown, Released, Held, Goto, NotCounting, TypeOK, MemBalance, Tools
  <2>7. QED
    BY <2>1, <2>2, <2>3, <2>4, <2>5, <2>6, <2>8 DEF IInv
<1>12. QED
  BY <1>1, <1>2, <1>3, <1>4, <1>5, <1>6, <1>7, <1>8, <1>9, <1>10, <1>11 DEF RegStep

(***************************************************************************)
(* 5. The steps of mem_injector.                                           *)
(***************************************************************************)

LEMMA MemStepIInv ==
    ASSUME IInv, NEW t \in MemTools, MemStep(t) \/ MemInterrupt(t)
    PROVE  IInv'
<1> USE ToolsAssumption DEF process, tools
<1>0. TypeOK /\ Paths /\ Holding /\ Gone /\ Fresh /\ RegBalance /\ MemBalance
  BY DEF IInv
<1>t. t \in Tools /\ t \notin RegTools /\ t # Nobody
  BY DEF Tools
<1>1. ASSUME MemAttach(t) PROVE IInv'
  <2>1. TypeOK'
    BY <1>0, <1>t, <1>1 DEF MemAttach, Traces, Goto, NotCounting, TypeOK, Places
  <2>2. Paths'
    <3>1. \E p \in {"waiting", "search", "read", "write", "detach", "done", "failed"} :
             pc' = [pc EXCEPT ![t] = p]
      BY <1>1 DEF MemAttach, Traces, Goto, NotCounting
    <3>2. QED
      BY <1>0, <1>t, <3>1 DEF TypeOK, Paths
  <2>3. Gone'
    BY <1>0, <1>t, <1>1 DEF MemAttach, Traces, Goto, NotCounting, TypeOK, Gone, Holding, Attached
  <2>4. Holding'
    BY <1>0, <1>t, <1>1 DEF MemAttach, Traces, Goto, NotCounting, TypeOK, Holding, Attached, Stopping, Tools
  <2>5. Fresh'
    BY <1>0, <1>t, <1>1 DEF MemAttach, Traces, Goto, NotCounting, TypeOK, Holding, Attached, Stopping, Fresh
  <2>6. RegBalance'
    BY <1>0, <1>t, <1>1 DEF MemAttach, Traces, Goto, NotCounting, TypeOK, RegBalance, Even, Most, Infinite, Tools
  <2>7. MemBalance'
    BY <1>0, <1>t, <1>1 DEF MemAttach, Traces, Goto, NotCounting, TypeOK, Holding, Attached, Stopping, MemBalance, Tools
  <2>8. QED
    BY <2>1, <2>2, <2>3, <2>4, <2>5, <2>6, <2>7 DEF IInv
<1>2. ASSUME MemRefused(t) PROVE IInv'
  <2>1. TypeOK'
    BY <1>0, <1>t, <1>2 DEF MemRefused, Abandons, Orphaned, Ends, Goto, NotCounting, TypeOK, Places
  <2>2. Paths'
    <3>1. \E p \in {"waiting", "search", "read", "write", "detach", "done", "failed"} :
             pc' = [pc EXCEPT ![t] = p]
      BY <1>2 DEF MemRefused, Abandons, Orphaned, Ends, Goto, NotCounting
    <3>2. QED
      BY <1>0, <1>t, <3>1 DEF TypeOK, Paths
  <2>3. Gone'
    BY <1>0, <1>t, <1>2 DEF MemRefused, Abandons, Orphaned, Ends, Goto, NotCounting, TypeOK, Gone, Holding, Attached
  <2>4. Holding'
    BY <1>0, <1>t, <1>2 DEF MemRefused, Abandons, Orphaned, Ends, Goto, NotCounting, TypeOK, Holding, Attached, Stopping, Tools
  <2>5. Fresh'
    BY <1>0, <1>t, <1>2 DEF MemRefused, Abandons, Orphaned, Ends, Goto, NotCounting, TypeOK, Holding, Attached, Stopping, Fresh
  <2>6. RegBalance'
    BY <1>0, <1>t, <1>2 DEF MemRefused, Abandons, Orphaned, Ends, Goto, NotCounting, TypeOK, RegBalance, Even, Most, Infinite, Tools
  <2>7. MemBalance'
    BY <1>0, <1>t, <1>2 DEF MemRefused, Abandons, Orphaned, Ends, Goto, NotCounting, TypeOK, Holding, Attached, Stopping, MemBalance, Tools
  <2>8. QED
    BY <2>1, <2>2, <2>3, <2>4, <2>5, <2>6, <2>7 DEF IInv
<1>3. ASSUME MemWait(t) PROVE IInv'
  <2>1. TypeOK'
    BY <1>0, <1>t, <1>3 DEF MemWait, Waited, Held, Goto, NotCounting, TypeOK, Places
  <2>2. Paths'
    <3>1. \E p \in {"waiting", "search", "read", "write", "detach", "done", "failed"} :
             pc' = [pc EXCEPT ![t] = p]
      BY <1>3 DEF MemWait, Waited, Held, Goto, NotCounting
    <3>2. QED
      BY <1>0, <1>t, <3>1 DEF TypeOK, Paths
  <2>3. Gone'
    BY <1>0, <1>t, <1>3 DEF MemWait, Waited, Held, Goto, NotCounting, TypeOK, Gone, Holding, Attached
  <2>4. Holding'
    BY <1>0, <1>t, <1>3 DEF MemWait, Waited, Held, Goto, NotCounting, TypeOK, Holding, Attached, Stopping, Tools
  <2>5. Fresh'
    BY <1>0, <1>t, <1>3 DEF MemWait, Waited, Held, Goto, NotCounting, TypeOK, Holding, Attached, Stopping, Fresh
  <2>6. RegBalance'
    BY <1>0, <1>t, <1>3 DEF MemWait, Waited, Held, Goto, NotCounting, TypeOK, RegBalance, Even, Most, Infinite, Tools
  <2>7. MemBalance'
    BY <1>0, <1>t, <1>3 DEF MemWait, Waited, Held, Goto, NotCounting, TypeOK, Holding, Attached, Stopping, MemBalance, Tools
  <2>8. QED
    BY <2>1, <2>2, <2>3, <2>4, <2>5, <2>6, <2>7 DEF IInv
<1>4. ASSUME MemFound(t) PROVE IInv'
  <2>1. TypeOK'
    BY <1>0, <1>t, <1>4 DEF MemFound, Goto, NotCounting, TypeOK, Places
  <2>2. Paths'
    <3>1. \E p \in {"waiting", "search", "read", "write", "detach", "done", "failed"} :
             pc' = [pc EXCEPT ![t] = p]
      BY <1>4 DEF MemFound, Goto, NotCounting
    <3>2. QED
      BY <1>0, <1>t, <3>1 DEF TypeOK, Paths
  <2>3. Gone'
    BY <1>0, <1>t, <1>4 DEF MemFound, Goto, NotCounting, TypeOK, Gone, Holding, Attached
  <2>4. Holding'
    BY <1>0, <1>t, <1>4 DEF MemFound, Goto, NotCounting, TypeOK, Holding, Attached, Stopping, Tools
  <2>5. Fresh'
    BY <1>0, <1>t, <1>4 DEF MemFound, Goto, NotCounting, TypeOK, Holding, Attached, Stopping, Fresh
  <2>6. RegBalance'
    BY <1>0, <1>t, <1>4 DEF MemFound, Goto, NotCounting, TypeOK, RegBalance, Even, Most, Infinite, Tools
  <2>7. MemBalance'
    BY <1>0, <1>t, <1>4 DEF MemFound, Goto, NotCounting, TypeOK, Holding, Attached, Stopping, MemBalance, Tools
  <2>8. QED
    BY <2>1, <2>2, <2>3, <2>4, <2>5, <2>6, <2>7 DEF IInv
<1>5. ASSUME MemNotFound(t) PROVE IInv'
  <2>1. TypeOK'
    BY <1>0, <1>t, <1>5 DEF MemNotFound, Orphaned, Released, Held, Ends, Goto, NotCounting, TypeOK, Places
  <2>2. Paths'
    <3>1. \E p \in {"waiting", "search", "read", "write", "detach", "done", "failed"} :
             pc' = [pc EXCEPT ![t] = p]
      BY <1>5 DEF MemNotFound, Orphaned, Released, Held, Ends, Goto, NotCounting
    <3>2. QED
      BY <1>0, <1>t, <3>1 DEF TypeOK, Paths
  <2>3. Gone'
    BY <1>0, <1>t, <1>5 DEF MemNotFound, Orphaned, Released, Held, Ends, Goto, NotCounting, TypeOK, Gone, Holding, Attached
  <2>4. Holding'
    BY <1>0, <1>t, <1>5 DEF MemNotFound, Orphaned, Released, Held, Ends, Goto, NotCounting, TypeOK, Holding, Attached, Stopping, Tools
  <2>5. Fresh'
    BY <1>0, <1>t, <1>5 DEF MemNotFound, Orphaned, Released, Held, Ends, Goto, NotCounting, TypeOK, Holding, Attached, Stopping, Fresh
  <2>6. RegBalance'
    BY <1>0, <1>t, <1>5 DEF MemNotFound, Orphaned, Released, Held, Ends, Goto, NotCounting, TypeOK, RegBalance, Even, Most, Infinite, Tools
  <2>7. MemBalance'
    BY <1>0, <1>t, <1>5 DEF MemNotFound, Orphaned, Released, Held, Ends, Goto, NotCounting, TypeOK, Holding, Attached, Stopping, MemBalance, Tools
  <2>8. QED
    BY <2>1, <2>2, <2>3, <2>4, <2>5, <2>6, <2>7 DEF IInv
<1>6. ASSUME MemNoRegion(t) PROVE IInv'
  <2>1. TypeOK'
    BY <1>0, <1>t, <1>6 DEF MemNoRegion, Abandons, Orphaned, Ends, Goto, NotCounting, TypeOK, Places
  <2>2. Paths'
    <3>1. \E p \in {"waiting", "search", "read", "write", "detach", "done", "failed"} :
             pc' = [pc EXCEPT ![t] = p]
      BY <1>6 DEF MemNoRegion, Abandons, Orphaned, Ends, Goto, NotCounting
    <3>2. QED
      BY <1>0, <1>t, <3>1 DEF TypeOK, Paths
  <2>3. Gone'
    BY <1>0, <1>t, <1>6 DEF MemNoRegion, Abandons, Orphaned, Ends, Goto, NotCounting, TypeOK, Gone, Holding, Attached
  <2>4. Holding'
    BY <1>0, <1>t, <1>6 DEF MemNoRegion, Abandons, Orphaned, Ends, Goto, NotCounting, TypeOK, Holding, Attached, Stopping, Tools
  <2>5. Fresh'
    BY <1>0, <1>t, <1>6 DEF MemNoRegion, Abandons, Orphaned, Ends, Goto, NotCounting, TypeOK, Holding, Attached, Stopping, Fresh
  <2>6. RegBalance'
    BY <1>0, <1>t, <1>6 DEF MemNoRegion, Abandons, Orphaned, Ends, Goto, NotCounting, TypeOK, RegBalance, Even, Most, Infinite, Tools
  <2>7. MemBalance'
    BY <1>0, <1>t, <1>6 DEF MemNoRegion, Abandons, Orphaned, Ends, Goto, NotCounting, TypeOK, Holding, Attached, Stopping, MemBalance, Tools
  <2>8. QED
    BY <2>1, <2>2, <2>3, <2>4, <2>5, <2>6, <2>7 DEF IInv
<1>7. ASSUME MemRead(t) PROVE IInv'
  <2>1. TypeOK'
    BY <1>0, <1>t, <1>7 DEF MemRead, Held, Goto, NotCounting, Cell, TypeOK, Places
  <2>2. Paths'
    <3>1. \E p \in {"waiting", "search", "read", "write", "detach", "done", "failed"} :
             pc' = [pc EXCEPT ![t] = p]
      BY <1>7 DEF MemRead, Held, Goto, NotCounting, Cell
    <3>2. QED
      BY <1>0, <1>t, <3>1 DEF TypeOK, Paths
  <2>3. Gone'
    BY <1>0, <1>t, <1>7 DEF MemRead, Held, Goto, NotCounting, Cell, TypeOK, Gone, Holding, Attached
  <2>4. Holding'
    BY <1>0, <1>t, <1>7 DEF MemRead, Held, Goto, NotCounting, Cell, TypeOK, Holding, Attached, Stopping, Tools
  <2>5. Fresh'
    BY <1>0, <1>t, <1>7 DEF MemRead, Held, Goto, NotCounting, Cell, TypeOK, Holding, Attached, Stopping, Fresh
  <2>6. RegBalance'
    BY <1>0, <1>t, <1>7 DEF MemRead, Held, Goto, NotCounting, Cell, TypeOK, RegBalance, Even, Most, Infinite, Tools
  <2>7. MemBalance'
    BY <1>0, <1>t, <1>7 DEF MemRead, Held, Goto, NotCounting, Cell, TypeOK, Holding, Attached, Stopping, MemBalance, Tools
  <2>8. QED
    BY <2>1, <2>2, <2>3, <2>4, <2>5, <2>6, <2>7 DEF IInv
<1>8. ASSUME MemWrite(t) PROVE IInv'
  <2>1. TypeOK'
    <3>1. word' \in [{"reg", "mem"} -> SUBSET Bits] /\ written' \in [Tools -> Nat]
      BY <1>0, <1>t, <1>8, WroteType DEF MemWrite
    <3>2. UNCHANGED <<alive, reaped, tracer, trapped, at, stopped, pending, signals>>
      BY <1>8 DEF MemWrite, Wrote
    <3>3. QED
      BY <1>0, <1>t, <1>8, <3>1, <3>2 DEF MemWrite, Goto, TypeOK, Places
  <2>2. Paths'
    <3>1. \E p \in {"waiting", "search", "read", "write", "detach", "done", "failed"} :
             pc' = [pc EXCEPT ![t] = p]
      BY <1>8 DEF MemWrite, Held, Wrote, Counted, Infinite, Goto, Cell
    <3>2. QED
      BY <1>0, <1>t, <3>1 DEF TypeOK, Paths
  <2>3. Gone'
    BY <1>0, <1>t, <1>8 DEF MemWrite, Held, Wrote, Counted, Infinite, Goto, Cell, TypeOK, Gone, Holding, Attached
  <2>4. Holding'
    BY <1>0, <1>t, <1>8 DEF MemWrite, Held, Wrote, Counted, Infinite, Goto, Cell, TypeOK, Holding, Attached, Stopping, Tools
  <2>5. Fresh'
    BY <1>0, <1>t, <1>8 DEF MemWrite, Held, Wrote, Counted, Infinite, Goto, Cell, TypeOK, Holding, Attached, Stopping, Fresh
  <2>6. RegBalance'
    BY <1>0, <1>t, <1>8 DEF MemWrite, Held, Wrote, Counted, Infinite, Goto, Cell, TypeOK, RegBalance, Even, Most, Infinite, Tools
  <2>7. MemBalance'
    BY <1>0, <1>t, <1>8 DEF MemWrite, Held, Wrote, Counted, Infinite, Goto, Cell, TypeOK, Holding, Attached, Stopping, MemBalance, Tools
  <2>8. QED
    BY <2>1, <2>2, <2>3, <2>4, <2>5, <2>6, <2>7 DEF IInv
<1>9. ASSUME MemWriteFails(t) PROVE IInv'
  <2>1. TypeOK'
    BY <1>0, <1>t, <1>9 DEF MemWriteFails, Abandons, Orphaned, Ends, Goto, NotCounting, TypeOK, Places
  <2>2. Paths'
    <3>1. \E p \in {"waiting", "search", "read", "write", "detach", "done", "failed"} :
             pc' = [pc EXCEPT ![t] = p]
      BY <1>9 DEF MemWriteFails, Abandons, Orphaned, Ends, Goto, NotCounting
    <3>2. QED
      BY <1>0, <1>t, <3>1 DEF TypeOK, Paths
  <2>3. Gone'
    BY <1>0, <1>t, <1>9 DEF MemWriteFails, Abandons, Orphaned, Ends, Goto, NotCounting, TypeOK, Gone, Holding, Attached
  <2>4. Holding'
    BY <1>0, <1>t, <1>9 DEF MemWriteFails, Abandons, Orphaned, Ends, Goto, NotCounting, TypeOK, Holding, Attached, Stopping, Tools
  <2>5. Fresh'
    BY <1>0, <1>t, <1>9 DEF MemWriteFails, Abandons, Orphaned, Ends, Goto, NotCounting, TypeOK, Holding, Attached, Stopping, Fresh
  <2>6. RegBalance'
    BY <1>0, <1>t, <1>9 DEF MemWriteFails, Abandons, Orphaned, Ends, Goto, NotCounting, TypeOK, RegBalance, Even, Most, Infinite, Tools
  <2>7. MemBalance'
    BY <1>0, <1>t, <1>9 DEF MemWriteFails, Abandons, Orphaned, Ends, Goto, NotCounting, TypeOK, Holding, Attached, Stopping, MemBalance, Tools
  <2>8. QED
    BY <2>1, <2>2, <2>3, <2>4, <2>5, <2>6, <2>7 DEF IInv
<1>10. ASSUME MemDetach(t) PROVE IInv'
  <2>1. TypeOK'
    BY <1>0, <1>t, <1>10 DEF MemDetach, Orphaned, Released, Held, Ends, Goto, NotCounting, TypeOK, Places
  <2>2. Paths'
    <3>1. \E p \in {"waiting", "search", "read", "write", "detach", "done", "failed"} :
             pc' = [pc EXCEPT ![t] = p]
      BY <1>10 DEF MemDetach, Orphaned, Released, Held, Ends, Goto, NotCounting
    <3>2. QED
      BY <1>0, <1>t, <3>1 DEF TypeOK, Paths
  <2>3. Gone'
    BY <1>0, <1>t, <1>10 DEF MemDetach, Orphaned, Released, Held, Ends, Goto, NotCounting, TypeOK, Gone, Holding, Attached
  <2>4. Holding'
    BY <1>0, <1>t, <1>10 DEF MemDetach, Orphaned, Released, Held, Ends, Goto, NotCounting, TypeOK, Holding, Attached, Stopping, Tools
  <2>5. Fresh'
    BY <1>0, <1>t, <1>10 DEF MemDetach, Orphaned, Released, Held, Ends, Goto, NotCounting, TypeOK, Holding, Attached, Stopping, Fresh
  <2>6. RegBalance'
    BY <1>0, <1>t, <1>10 DEF MemDetach, Orphaned, Released, Held, Ends, Goto, NotCounting, TypeOK, RegBalance, Even, Most, Infinite, Tools
  <2>7. MemBalance'
    BY <1>0, <1>t, <1>10 DEF MemDetach, Orphaned, Released, Held, Ends, Goto, NotCounting, TypeOK, Holding, Attached, Stopping, MemBalance, Tools
  <2>8. QED
    BY <2>1, <2>2, <2>3, <2>4, <2>5, <2>6, <2>7 DEF IInv
<1>11. ASSUME MemInterrupt(t) PROVE IInv'
  <2>1. TypeOK'
    BY <1>0, <1>t, <1>11 DEF MemInterrupt, Abandons, Orphaned, Ends, Goto, NotCounting, TypeOK, Places
  <2>2. Paths'
    <3>1. \E p \in {"waiting", "search", "read", "write", "detach", "done", "failed"} :
             pc' = [pc EXCEPT ![t] = p]
      BY <1>11 DEF MemInterrupt, Abandons, Orphaned, Ends, Goto, NotCounting
    <3>2. QED
      BY <1>0, <1>t, <3>1 DEF TypeOK, Paths
  <2>3. Gone'
    BY <1>0, <1>t, <1>11 DEF MemInterrupt, Abandons, Orphaned, Ends, Goto, NotCounting, TypeOK, Gone, Holding, Attached
  <2>4. Holding'
    BY <1>0, <1>t, <1>11 DEF MemInterrupt, Abandons, Orphaned, Ends, Goto, NotCounting, TypeOK, Holding, Attached, Stopping, Tools
  <2>5. Fresh'
    BY <1>0, <1>t, <1>11 DEF MemInterrupt, Abandons, Orphaned, Ends, Goto, NotCounting, TypeOK, Holding, Attached, Stopping, Fresh
  <2>6. RegBalance'
    BY <1>0, <1>t, <1>11 DEF MemInterrupt, Abandons, Orphaned, Ends, Goto, NotCounting, TypeOK, RegBalance, Even, Most, Infinite, Tools
  <2>7. MemBalance'
    BY <1>0, <1>t, <1>11 DEF MemInterrupt, Abandons, Orphaned, Ends, Goto, NotCounting, TypeOK, Holding, Attached, Stopping, MemBalance, Tools
  <2>8. QED
    BY <2>1, <2>2, <2>3, <2>4, <2>5, <2>6, <2>7 DEF IInv
<1>12. QED
  BY <1>1, <1>2, <1>3, <1>4, <1>5, <1>6, <1>7, <1>8, <1>9, <1>10, <1>11 DEF MemStep

LEMMA NextIInv == IInv /\ [Next]_vars => IInv'
<1> SUFFICES ASSUME IInv, [Next]_vars PROVE IInv'
  OBVIOUS
<1>1. CASE UNCHANGED vars
  <2>1. UNCHANGED <<alive, reaped, word, tracer, trapped, at, stopped, pending, signals>>
    BY <1>1 DEF vars, process
  <2>2. UNCHANGED <<args, pc, seen, count, written, keep, alarm, abandoned>>
    BY <1>1 DEF vars, tools
  <2>3. QED
    BY <2>1, <2>2 DEF IInv, TypeOK, Paths, Holding, Gone, Fresh, RegBalance, Even, Most, Infinite,
                      MemBalance
<1>2. CASE Next
  BY <1>2, WorldStep, RegStepIInv, MemStepIInv DEF Next
<1>3. QED
  BY <1>1, <1>2

LEMMA Invariance == Spec => []IInv
<1>1. QED
  BY InitIInv, NextIInv, PTL DEF Spec

\* Every variable of the tools and of their process keeps its type, for any
\* number of tools and any width (reg_injector.c, mem_injector.c: main).
THEOREM TypeCorrect == Spec => []TypeOK
<1>1. IInv => TypeOK
  BY DEF IInv
<1>2. QED
  BY <1>1, Invariance, PTL

(***************************************************************************)
(* 6. Every injection is atomic: the tools implement AtomicFaults.         *)
(***************************************************************************)

claimed == [t \in Tools |-> Claim(t)]
Limit == [t \in Tools |-> IF t \in RegTools /\ ~ Infinite(t) THEN Loops[t] ELSE 1]

LEMMA InitAtomic == Init => Atomic!Init
<1> SUFFICES ASSUME Init PROVE Atomic!Init
  OBVIOUS
<1>1. claimed = [t \in Tools |-> -1]
  BY DEF Init, claimed, Claim
<1>2. QED
  BY <1>1 DEF Init, Atomic!Init, claimed

\* The steps that change neither the word nor the counts: the end of the
\* process, and what does not show in AtomicFaults.
LEMMA WorldAtomic ==
    ASSUME IInv, Work \/ Kernel \/ Send \/ Continue \/ Dies \/ Reap \/ AllEnded
    PROVE  [Atomic!Next]_(Atomic!vars)
<1>1. UNCHANGED tools
  BY DEF Work, Kernel, Deliver, Send, Continue, Dies, Reap, AllEnded, vars
<1>2. UNCHANGED <<written, claimed>>
  BY <1>1 DEF tools, claimed, Claim
<1>3. CASE Work
  <2>1. alive /\ UNCHANGED alive /\ word' \in [{"reg", "mem"} -> SUBSET Bits]
    BY <1>3 DEF Work, Runs, IInv, TypeOK
  <2>2. QED
    BY <1>2, <2>1 DEF Atomic!Next, Atomic!Work, claimed
<1>4. CASE Dies
  BY <1>2, <1>4 DEF Dies, Atomic!Next, Atomic!Dies, claimed
<1>5. CASE Kernel \/ Send \/ Continue \/ Reap \/ AllEnded
  <2>1. UNCHANGED <<alive, word>>
    BY <1>5 DEF Kernel, Deliver, Send, Continue, Reap, AllEnded, vars, process
  <2>2. QED
    BY <1>2, <2>1 DEF Atomic!vars, claimed
<1>6. QED
  BY <1>3, <1>4, <1>5

\* What a step of the tool t does to the claims: nothing, unless it ends.
LEMMA ClaimsKept ==
    ASSUME TypeOK, NEW t \in Tools, pc[t] \notin {"done", "failed"},
           NEW p, p \notin {"done", "failed"}, pc' = [pc EXCEPT ![t] = p],
           \A u \in Tools : u # t => count'[u] = count[u]
    PROVE  claimed' = claimed
<1>1. ASSUME NEW u \in Tools PROVE Claim(u)' = Claim(u)
  <2>1. CASE u = t
    BY <2>1 DEF Claim, TypeOK
  <2>2. CASE u # t
    BY <2>2 DEF Claim, TypeOK
  <2>3. QED
    BY <2>1, <2>2
<1>2. QED
  BY <1>1 DEF claimed

LEMMA ClaimMade ==
    ASSUME TypeOK, NEW t \in Tools, pc[t] \notin {"done", "failed"},
           NEW p \in {"done", "failed"}, pc' = [pc EXCEPT ![t] = p], UNCHANGED count
    PROVE  /\ claimed[t] = -1
           /\ claimed' = [claimed EXCEPT ![t] = IF p = "failed" THEN -2
                                               ELSE IF t \in RegTools THEN count[t] ELSE 1]
<1>1. claimed[t] = -1
  BY DEF claimed, Claim
<1>2. ASSUME NEW u \in Tools, u # t PROVE Claim(u)' = Claim(u)
  BY <1>2 DEF Claim, TypeOK
<1>3. Claim(t)' = IF p = "failed" THEN -2 ELSE IF t \in RegTools THEN count[t] ELSE 1
  BY DEF Claim, TypeOK
<1>4. QED
  BY <1>1, <1>2, <1>3 DEF claimed

\* An end that is reported, and one that is not.
LEMMA ReportAtomic ==
    ASSUME IInv, NEW t \in Tools, pc[t] \notin {"done", "failed"},
           pc' = [pc EXCEPT ![t] = "done"], UNCHANGED <<alive, word, written, count>>,
           t \in RegTools => pc[t] # "write", t \in MemTools => pc[t] = "detach"
    PROVE  Atomic!Next
<1> DEFINE n == IF t \in RegTools THEN count[t] ELSE 1
<1>1. claimed[t] = -1 /\ claimed' = [claimed EXCEPT ![t] = n]
  BY ClaimMade DEF IInv
<1>2. n = written[t] \/ (~ alive /\ n = written[t] + 1)
  BY ToolsAssumption DEF IInv, RegBalance, Even, MemBalance, Tools
<1>3. n \in 0 .. Limit[t]
  BY ToolsAssumption DEF IInv, TypeOK, RegBalance, Even, Most, Limit, Infinite
<1> HIDE DEF n
<1>4. Atomic!Reports(t, n)
  BY <1>1, <1>2 DEF Atomic!Reports, Atomic!Working, claimed
<1>5. QED
  BY <1>3, <1>4 DEF Atomic!Next, Limit

LEMMA GiveUpAtomic ==
    ASSUME IInv, NEW t \in Tools, pc[t] \notin {"done", "failed"},
           pc' = [pc EXCEPT ![t] = "failed"], UNCHANGED <<alive, word, written, count>>
    PROVE  Atomic!Next
<1>1. claimed[t] = -1 /\ claimed' = [claimed EXCEPT ![t] = -2]
  BY ClaimMade DEF IInv
<1>2. Atomic!GivesUp(t)
  BY <1>1 DEF Atomic!GivesUp, Atomic!Working, claimed
<1>3. QED
  BY <1>2 DEF Atomic!Next

\* The write of a value that is a fault of the one that is there: an injection,
\* or, for a reg_injector without end, one of those that are not counted.
LEMMA WriteAtomic ==
    ASSUME IInv, NEW t \in Tools, pc[t] = "write", Held(t), Wrote(t),
           pc' = [pc EXCEPT ![t] = "detach"], UNCHANGED count
    PROVE  Atomic!Next
<1>1. UNCHANGED <<alive, claimed>> /\ alive /\ claimed[t] = -1
  <2>1. claimed' = claimed
    BY ClaimsKept DEF IInv
  <2>2. QED
    BY <2>1 DEF Held, Wrote, claimed, Claim
<1>2. word[Cell(t)] = seen[t] /\ word[Cell(t)] \in SUBSET Bits
  BY DEF IInv, Fresh, Held, TypeOK, Cell
<1>3. PICK v \in FaultsAt(t, word[Cell(t)]) : word' = [word EXCEPT ![Cell(t)] = v]
  BY <1>2 DEF Wrote, Faults
<1>4. written' = [written EXCEPT ![t] = Counted(t, @)]
  BY DEF Wrote
<1>5. CASE Infinite(t) /\ written[t] = 1
  <2>1. UNCHANGED written
    BY <1>4, <1>5 DEF Counted, IInv, TypeOK
  <2>2. word' \in [{"reg", "mem"} -> SUBSET Bits]
    BY WroteType DEF IInv
  <2>3. Atomic!Work
    BY <1>1, <2>1, <2>2 DEF Atomic!Work, claimed
  <2>4. QED
    BY <2>3 DEF Atomic!Next
<1>6. CASE ~ (Infinite(t) /\ written[t] = 1)
  <2>1. written[t] < Limit[t] /\ written' = [written EXCEPT ![t] = @ + 1]
    <3>1. CASE Infinite(t)
      <4>1. written[t] = 0
        BY <1>6, <3>1 DEF IInv, TypeOK, RegBalance, Even, Most, Infinite
      <4>2. QED
        BY <1>4, <3>1, <4>1 DEF Counted, Limit
    <3>2. CASE t \in RegTools /\ ~ Infinite(t)
      BY <1>4, <3>2, ToolsAssumption DEF Counted, IInv, TypeOK, RegBalance, Even, Most, Limit
    <3>3. CASE t \in MemTools
      <4>1. t \notin RegTools /\ written[t] = 0
        BY <3>3, ToolsAssumption DEF IInv, MemBalance
      <4>2. QED
        BY <1>4, <4>1 DEF Counted, Limit, Infinite
    <3>4. QED
      BY <3>1, <3>2, <3>3 DEF Tools
  <2>2. Atomic!Inject(t)
    BY <1>1, <1>2, <1>3, <2>1 DEF Atomic!Inject, Atomic!Working, Limit, claimed
  <2>3. QED
    BY <2>2 DEF Atomic!Next
<1>7. QED
  BY <1>5, <1>6

\* What does not show: neither the word nor a count of writes nor a claim changes.
LEMMA SilentAtomic ==
    ASSUME IInv, NEW t \in Tools, pc[t] \notin {"done", "failed"},
           NEW p, p \notin {"done", "failed"}, pc' = [pc EXCEPT ![t] = p],
           \A u \in Tools : u # t => count'[u] = count[u],
           UNCHANGED <<alive, word, written>>
    PROVE  UNCHANGED Atomic!vars
<1>1. claimed' = claimed
  BY ClaimsKept DEF IInv
<1>2. QED
  BY <1>1 DEF Atomic!vars, claimed

LEMMA RegAtomic ==
    ASSUME IInv, NEW t \in RegTools, RegStep(t) \/ Alarm(t) \/ Interrupt(t)
    PROVE  [Atomic!Next]_(Atomic!vars)
<1> USE DEF process, tools
<1>0. t \in Tools /\ t \notin MemTools /\ TypeOK /\ Holding
  BY ToolsAssumption DEF Tools, IInv
<1>1. CASE RegAttach(t)
  BY <1>0, <1>1, SilentAtomic DEF RegAttach, Traces, Goto, NotCounting
<1>2. CASE RegEnd(t)
  BY <1>0, <1>2, ReportAtomic DEF RegEnd, Orphaned, Goto, NotCounting
<1>3. CASE RegWait(t)
  BY <1>0, <1>3, SilentAtomic DEF RegWait, Waited, Goto, NotCounting
<1>4. CASE RegDelay(t)
  <2>1. CASE Held(t)
    BY <1>0, <1>4, <2>1, SilentAtomic DEF RegDelay, Goto, NotCounting
  <2>2. CASE ~ Held(t)
    BY <1>0, <1>4, <2>2, ReportAtomic DEF RegDelay, Orphaned, Goto, NotCounting
  <2>3. QED
    BY <2>1, <2>2
<1>5. CASE RegDelayed(t)
  <2>1. CASE alive
    BY <1>0, <1>5, <2>1, SilentAtomic DEF RegDelayed, Waited, Goto, NotCounting
  <2>2. CASE ~ alive
    BY <1>0, <1>5, <2>2, ReportAtomic DEF RegDelayed, Waited, Goto, NotCounting
  <2>3. QED
    BY <2>1, <2>2
<1>6. CASE RegRead(t)
  <2>1. \A u \in Tools : u # t => count'[u] = count[u]
    BY <1>0, <1>6 DEF RegRead, TypeOK
  <2>2. \E p \in {"write", "attach"} : pc' = [pc EXCEPT ![t] = p]
    BY <1>6 DEF RegRead, Goto
  <2>3. pc[t] = "read" /\ UNCHANGED <<alive, word, written>>
    BY <1>6 DEF RegRead
  <2>4. QED
    BY <1>0, <2>1, <2>2, <2>3, SilentAtomic
<1>7. CASE RegWrite(t)
  <2>1. CASE Held(t)
    BY <1>0, <1>7, <2>1, WriteAtomic DEF RegWrite, Goto
  <2>2. CASE ~ Held(t)
    BY <1>0, <1>7, <2>2, SilentAtomic DEF RegWrite, Goto
  <2>3. QED
    BY <2>1, <2>2
<1>8. CASE RegDetach(t)
  <2>1. UNCHANGED <<alive, word, written, count>> /\ pc[t] = "detach"
    BY <1>8 DEF RegDetach, Released, NotCounting
  <2>2. pc' = [pc EXCEPT ![t] = "attach"]
    BY <1>8 DEF RegDetach, Goto
  <2>3. QED
    BY <1>0, <2>1, <2>2, SilentAtomic
<1>9. CASE Alarm(t) \/ Interrupt(t)
  <2>1. UNCHANGED <<alive, word, written, pc, count>>
    BY <1>9 DEF Alarm, Interrupt, NotCounting
  <2>2. QED
    BY <2>1 DEF Atomic!vars, Claim
<1>10. CASE RegUnknown(t)
  <2>1. UNCHANGED <<alive, word, written, count>> /\ pc[t] = "read"
    BY <1>10 DEF RegUnknown, Released, NotCounting
  <2>2. pc' = [pc EXCEPT ![t] = "failed"]
    BY <1>10 DEF RegUnknown, Goto
  <2>3. QED
    BY <1>0, <2>1, <2>2, GiveUpAtomic
<1>11. QED
  BY <1>1, <1>2, <1>3, <1>4, <1>5, <1>6, <1>7, <1>8, <1>9, <1>10 DEF RegStep

LEMMA MemAtomic ==
    ASSUME IInv, NEW t \in MemTools, MemStep(t) \/ MemInterrupt(t)
    PROVE  [Atomic!Next]_(Atomic!vars)
<1> USE DEF process, tools
<1>0. t \in Tools /\ t \notin RegTools /\ TypeOK /\ Holding
  BY ToolsAssumption DEF Tools, IInv
<1>1. CASE MemAttach(t) \/ MemWait(t) \/ MemFound(t) \/ MemRead(t)
  <2>1. UNCHANGED <<alive, word, written, count>> /\ pc[t] \in {"attach", "waiting", "search", "read"}
    BY <1>1 DEF MemAttach, MemWait, MemFound, MemRead, Traces, Waited, NotCounting
  <2>2. \E p \in {"waiting", "search", "read", "write"} : pc' = [pc EXCEPT ![t] = p]
    BY <1>1 DEF MemAttach, MemWait, MemFound, MemRead, Goto
  <2>3. QED
    BY <1>0, <2>1, <2>2, SilentAtomic
<1>2. CASE MemRefused(t) \/ MemNoRegion(t) \/ MemWriteFails(t) \/ MemInterrupt(t)
  <2>1. Abandons(t) /\ pc[t] \notin {"done", "failed"}
    BY <1>2 DEF MemRefused, MemNoRegion, MemWriteFails, MemInterrupt
  <2>2. UNCHANGED <<alive, word, written, count>> /\ pc' = [pc EXCEPT ![t] = "failed"]
    BY <2>1 DEF Abandons, Orphaned, Ends, NotCounting, Goto
  <2>3. QED
    BY <1>0, <2>1, <2>2, GiveUpAtomic
<1>3. CASE MemNotFound(t)
  <2>1. UNCHANGED <<alive, word, written, count>> /\ pc' = [pc EXCEPT ![t] = "failed"]
    BY <1>3 DEF MemNotFound, Orphaned, Released, Ends, NotCounting, Goto
  <2>2. pc[t] = "search"
    BY <1>3 DEF MemNotFound
  <2>3. QED
    BY <1>0, <2>1, <2>2, GiveUpAtomic
<1>4. CASE MemWrite(t)
  BY <1>0, <1>4, WriteAtomic DEF MemWrite, Goto
<1>5. CASE MemDetach(t)
  <2>1. UNCHANGED <<alive, word, written, count>> /\ pc[t] = "detach"
    BY <1>5 DEF MemDetach, Orphaned, Released, Ends, NotCounting
  <2>2. CASE Held(t)
    <3>1. pc' = [pc EXCEPT ![t] = "done"]
      BY <1>5, <2>2 DEF MemDetach, Ends, Goto
    <3>2. QED
      BY <1>0, <2>1, <3>1, ReportAtomic
  <2>3. CASE ~ Held(t)
    <3>1. pc' = [pc EXCEPT ![t] = "failed"]
      BY <1>5, <2>3 DEF MemDetach, Ends, Goto
    <3>2. QED
      BY <1>0, <2>1, <3>1, GiveUpAtomic
  <2>4. QED
    BY <2>2, <2>3
<1>6. QED
  BY <1>1, <1>2, <1>3, <1>4, <1>5 DEF MemStep

\* However the calls of any number of tools interleave with each other, with
\* signals and with the death of the process, the tools implement AtomicFaults:
\* every injection is one atomic fault of the value that is there, -l is never
\* exceeded and the number reported is the number injected.
THEOREM InjectionsAreAtomic == Spec => FaultsAreAtomic
<1>1. IInv /\ [Next]_vars => [Atomic!Next]_(Atomic!vars)
  <2> SUFFICES ASSUME IInv, [Next]_vars PROVE [Atomic!Next]_(Atomic!vars)
    OBVIOUS
  <2>1. CASE UNCHANGED vars
    BY <2>1 DEF vars, process, tools, Atomic!vars, Claim
  <2>2. CASE Next
    BY <2>2, WorldAtomic, RegAtomic, MemAtomic DEF Next
  <2>3. QED
    BY <2>1, <2>2
<1>2. QED
  BY <1>1, Invariance, InitAtomic, PTL DEF Spec, FaultsAreAtomic, Atomic!Spec

(***************************************************************************)
(* 7. The signals: what the tools send, they take back.                    *)
(***************************************************************************)

Undisturbed == signals = 0 /\ ~ abandoned /\ alive

\* Whose turn the one SIGSTOP is: with no other signals about, it is under way
\* from the attach to the first stop and from the alarm to the second one, and
\* at no other time.
CalmAt(t) ==
    /\ pc[t] = "waiting" => (trapped <=> pending = {})
    /\ pc[t] \in Stopping => pending = {}
    /\ pc[t] = "delaying" =>
          \/ alarm[t] = "armed" /\ ~ trapped /\ pending = {}
          \/ alarm[t] = "fired" /\ (trapped <=> pending = {})
          \/ alarm[t] = "off" /\ ~ trapped /\ pending = {}
    /\ alarm[t] = "armed" => pc[t] = "delaying"
    /\ alarm[t] # "off" => args[t].wait = "short"
    /\ pc[t] \in {"delay", "delaying"} => count[t] = 0
    /\ /\ t \in RegTools /\ args[t].wait # "none" /\ pc[t] \notin {"done", "failed"}
       /\ pc[t] = "read" \/ count[t] > 0
       => alarm[t] = "fired"

Calm ==
    Undisturbed =>
        /\ ~ stopped /\ pending \subseteq {"STOP"}
        /\ tracer = Nobody => pending = {}
        /\ \A t \in Tools : CalmAt(t)

LEMMA InitCalm == Init => Calm
BY ToolsAssumption DEF Init, Calm, Undisturbed, CalmAt, Stopping, Tools

LEMMA WorldCalm ==
    ASSUME IInv, Calm, Undisturbed', Work \/ Kernel \/ Send \/ Continue \/ Dies \/ Reap \/ AllEnded
    PROVE  Calm'
<1> USE ToolsAssumption DEF process, tools
<1>0. TypeOK /\ Holding
  BY DEF IInv
<1>1. CASE Work \/ AllEnded
  <2>1. UNCHANGED <<alive, tracer, trapped, stopped, pending, signals, args, pc, count, alarm, abandoned>>
    BY <1>1 DEF Work, AllEnded, vars
  <2>2. QED
    BY <2>1 DEF Calm, Undisturbed, CalmAt
<1>2. CASE Kernel
  <2>1. PICK sig \in pending : Deliver(sig)
    BY <1>2 DEF Kernel
  <2>2. Undisturbed /\ ~ stopped /\ pending \subseteq {"STOP"} /\ ~ trapped
    BY <2>1 DEF Deliver, Runs, Calm, Undisturbed
  <2>3. tracer # Nobody /\ sig = "STOP"
    BY <2>1, <2>2 DEF Calm
  <2>4. trapped' /\ pending' = {} /\ UNCHANGED <<stopped, tracer, args, pc, alarm, count>>
    BY <2>1, <2>2, <2>3 DEF Deliver
  <2>5. ASSUME NEW t \in Tools PROVE CalmAt(t)'
    <3>1. CalmAt(t)
      BY <2>2 DEF Calm
    <3>2. pc[t] = "delaying" => alarm[t] = "fired"
      BY <2>1, <3>1 DEF CalmAt
    <3>3. QED
      BY <2>4, <3>1, <3>2 DEF CalmAt
  <2>6. QED
    BY <2>2, <2>4, <2>5 DEF Calm
<1>3. CASE Send \/ Continue \/ Dies \/ Reap
  <2>1. ~ Undisturbed'
    <3>1. CASE Dies \/ Reap
      BY <3>1 DEF Dies, Reap, Undisturbed
    <3>2. CASE Send \/ Continue
      <4>1. signals' = signals + 1 /\ signals \in Nat
        BY <1>0, <3>2 DEF Send, Continue, TypeOK
      <4>2. signals' # 0
        BY <4>1
      <4>3. QED
        BY <4>2 DEF Undisturbed
    <3>3. QED
      BY <1>3, <3>1, <3>2
  <2>2. QED
    BY <2>1
<1>4. QED
  BY <1>1, <1>2, <1>3

LEMMA RegCalm ==
    ASSUME IInv, Calm, Undisturbed', NEW t \in RegTools, RegStep(t) \/ Alarm(t) \/ Interrupt(t)
    PROVE  Calm'
<1> USE ToolsAssumption DEF process, tools
<1>0. TypeOK /\ Paths /\ Holding /\ t \in Tools /\ t # Nobody
  BY DEF IInv, Tools
<1>1. CASE RegAttach(t)
  <2>1. Undisturbed
    BY <1>0, <1>1 DEF RegAttach, Traces, Goto, NotCounting, Undisturbed, TypeOK
  <2>2. /\ ~ stopped /\ pending \subseteq {"STOP"} /\ (tracer = Nobody => pending = {})
        /\ \A u \in Tools : CalmAt(u)
    BY <2>1 DEF Calm
  <2>3. ~ stopped' /\ pending' \subseteq {"STOP"}
    BY <1>0, <1>1, <2>1, <2>2 DEF RegAttach, Traces, Goto, NotCounting, Undisturbed, TypeOK
  <2>4. tracer' = Nobody => pending' = {}
    BY <1>0, <1>1, <2>1, <2>2 DEF RegAttach, Traces, Goto, NotCounting, Undisturbed, TypeOK, CalmAt, Stopping, Holding, Attached
  <2>5. ASSUME NEW u \in Tools PROVE CalmAt(u)'
    <3>1. CalmAt(u) /\ CalmAt(t) /\ u # Nobody
      BY <1>0, <2>2 DEF Tools
    <3>2. CASE u = t
      BY <1>0, <1>1, <2>1, <2>2, <3>1, <3>2 DEF RegAttach, Traces, Goto, NotCounting, Undisturbed, TypeOK, CalmAt, Stopping, Holding, Attached, Paths
    <3>3. CASE u # t
      BY <1>0, <1>1, <2>1, <2>2, <3>1, <3>3 DEF RegAttach, Traces, Goto, NotCounting, Undisturbed, TypeOK, CalmAt, Stopping, Holding, Attached
    <3>4. QED
      BY <3>2, <3>3
  <2>6. QED
    BY <2>3, <2>4, <2>5 DEF Calm
<1>2. CASE RegEnd(t)
  <2>1. Undisturbed
    BY <1>0, <1>2 DEF RegEnd, Orphaned, Goto, NotCounting, Undisturbed, TypeOK
  <2>2. /\ ~ stopped /\ pending \subseteq {"STOP"} /\ (tracer = Nobody => pending = {})
        /\ \A u \in Tools : CalmAt(u)
    BY <2>1 DEF Calm
  <2>3. ~ stopped' /\ pending' \subseteq {"STOP"}
    BY <1>0, <1>2, <2>1, <2>2 DEF RegEnd, Orphaned, Goto, NotCounting, Undisturbed, TypeOK, Holding, Attached
  <2>4. tracer' = Nobody => pending' = {}
    BY <1>0, <1>2, <2>1, <2>2 DEF RegEnd, Orphaned, Goto, NotCounting, Undisturbed, TypeOK, CalmAt, Stopping, Holding, Attached
  <2>5. ASSUME NEW u \in Tools PROVE CalmAt(u)'
    <3>1. CalmAt(u) /\ CalmAt(t) /\ u # Nobody
      BY <1>0, <2>2 DEF Tools
    <3>2. CASE u = t
      BY <1>0, <1>2, <2>1, <2>2, <3>1, <3>2 DEF RegEnd, Orphaned, Goto, NotCounting, Undisturbed, TypeOK, CalmAt, Stopping, Holding, Attached, Paths
    <3>3. CASE u # t
      BY <1>0, <1>2, <2>1, <2>2, <3>1, <3>3 DEF RegEnd, Orphaned, Goto, NotCounting, Undisturbed, TypeOK, CalmAt, Stopping, Holding, Attached
    <3>4. QED
      BY <3>2, <3>3
  <2>6. QED
    BY <2>3, <2>4, <2>5 DEF Calm
<1>3. CASE RegWait(t)
  <2>1. Undisturbed
    BY <1>0, <1>3 DEF RegWait, Waited, Held, Goto, NotCounting, Undisturbed, TypeOK
  <2>2. /\ ~ stopped /\ pending \subseteq {"STOP"} /\ (tracer = Nobody => pending = {})
        /\ \A u \in Tools : CalmAt(u)
    BY <2>1 DEF Calm
  <2>3. ~ stopped' /\ pending' \subseteq {"STOP"}
    BY <1>0, <1>3, <2>1, <2>2 DEF RegWait, Waited, Held, Goto, NotCounting, Undisturbed, TypeOK
  <2>4. tracer' = Nobody => pending' = {}
    BY <1>0, <1>3, <2>1, <2>2 DEF RegWait, Waited, Held, Goto, NotCounting, Undisturbed, TypeOK, CalmAt, Stopping, Holding, Attached
  <2>5. ASSUME NEW u \in Tools PROVE CalmAt(u)'
    <3>1. CalmAt(u) /\ CalmAt(t) /\ u # Nobody
      BY <1>0, <2>2 DEF Tools
    <3>2. CASE u = t
      BY <1>0, <1>3, <2>1, <2>2, <3>1, <3>2 DEF RegWait, Waited, Held, Goto, NotCounting, Undisturbed, TypeOK, CalmAt, Stopping, Holding, Attached, Paths
    <3>3. CASE u # t
      BY <1>0, <1>3, <2>1, <2>2, <3>1, <3>3 DEF RegWait, Waited, Held, Goto, NotCounting, Undisturbed, TypeOK, CalmAt, Stopping, Holding, Attached
    <3>4. QED
      BY <3>2, <3>3
  <2>6. QED
    BY <2>3, <2>4, <2>5 DEF Calm
<1>4. CASE RegDelay(t)
  <2>1. Undisturbed
    BY <1>0, <1>4 DEF RegDelay, Orphaned, Held, Goto, NotCounting, Undisturbed, TypeOK
  <2>2. /\ ~ stopped /\ pending \subseteq {"STOP"} /\ (tracer = Nobody => pending = {})
        /\ \A u \in Tools : CalmAt(u)
    BY <2>1 DEF Calm
  <2>3. ~ stopped' /\ pending' \subseteq {"STOP"}
    BY <1>0, <1>4, <2>1, <2>2 DEF RegDelay, Orphaned, Held, Goto, NotCounting, Undisturbed, TypeOK, Holding, Attached, Stopping
  <2>4. tracer' = Nobody => pending' = {}
    BY <1>0, <1>4, <2>1, <2>2 DEF RegDelay, Orphaned, Held, Goto, NotCounting, Undisturbed, TypeOK, CalmAt, Stopping, Holding, Attached
  <2>5. ASSUME NEW u \in Tools PROVE CalmAt(u)'
    <3>1. CalmAt(u) /\ CalmAt(t) /\ u # Nobody
      BY <1>0, <2>2 DEF Tools
    <3>2. CASE u = t
      <4>1. Held(t)
        BY <1>0, <1>4, <2>1 DEF RegDelay, Undisturbed, Held, Holding, Attached, Stopping
      <4>2. /\ trapped' = FALSE /\ UNCHANGED <<alive, tracer, stopped, pending, count, args>>
            /\ pc' = [pc EXCEPT ![t] = "delaying"]
            /\ alarm' = IF args[t].wait = "short" THEN [alarm EXCEPT ![t] = "armed"] ELSE alarm
        BY <1>4, <4>1 DEF RegDelay, Goto, NotCounting
      <4>3. pending = {} /\ count[t] = 0 /\ (alarm[t] # "off" => args[t].wait = "short")
        BY <1>4, <3>1, <3>2 DEF RegDelay, CalmAt, Stopping
      <4>4. /\ pc'[t] = "delaying"
            /\ alarm'[t] = IF args[t].wait = "short" THEN "armed" ELSE alarm[t]
        BY <1>0, <4>2 DEF TypeOK
      <4>5. QED
        BY <3>2, <4>2, <4>3, <4>4 DEF CalmAt, Stopping
    <3>3. CASE u # t
      BY <1>0, <1>4, <2>1, <2>2, <3>1, <3>3 DEF RegDelay, Orphaned, Held, Goto, NotCounting, Undisturbed, TypeOK, CalmAt, Stopping, Holding, Attached
    <3>4. QED
      BY <3>2, <3>3
  <2>6. QED
    BY <2>3, <2>4, <2>5 DEF Calm
<1>5. CASE RegDelayed(t)
  <2>1. Undisturbed
    BY <1>0, <1>5 DEF RegDelayed, Waited, Held, Goto, NotCounting, Undisturbed, TypeOK
  <2>2. /\ ~ stopped /\ pending \subseteq {"STOP"} /\ (tracer = Nobody => pending = {})
        /\ \A u \in Tools : CalmAt(u)
    BY <2>1 DEF Calm
  <2>3. ~ stopped' /\ pending' \subseteq {"STOP"}
    BY <1>0, <1>5, <2>1, <2>2 DEF RegDelayed, Waited, Held, Goto, NotCounting, Undisturbed, TypeOK
  <2>4. tracer' = Nobody => pending' = {}
    BY <1>0, <1>5, <2>1, <2>2 DEF RegDelayed, Waited, Held, Goto, NotCounting, Undisturbed, TypeOK, CalmAt, Stopping, Holding, Attached
  <2>5. ASSUME NEW u \in Tools PROVE CalmAt(u)'
    <3>1. CalmAt(u) /\ CalmAt(t) /\ u # Nobody
      BY <1>0, <2>2 DEF Tools
    <3>2. CASE u = t
      BY <1>0, <1>5, <2>1, <2>2, <3>1, <3>2 DEF RegDelayed, Waited, Held, Goto, NotCounting, Undisturbed, TypeOK, CalmAt, Stopping, Holding, Attached, Paths
    <3>3. CASE u # t
      BY <1>0, <1>5, <2>1, <2>2, <3>1, <3>3 DEF RegDelayed, Waited, Held, Goto, NotCounting, Undisturbed, TypeOK, CalmAt, Stopping, Holding, Attached
    <3>4. QED
      BY <3>2, <3>3
  <2>6. QED
    BY <2>3, <2>4, <2>5 DEF Calm
<1>6. CASE RegRead(t)
  <2>1. Undisturbed
    BY <1>0, <1>6 DEF RegRead, Held, Counted, Goto, Undisturbed, TypeOK
  <2>2. /\ ~ stopped /\ pending \subseteq {"STOP"} /\ (tracer = Nobody => pending = {})
        /\ \A u \in Tools : CalmAt(u)
    BY <2>1 DEF Calm
  <2>3. ~ stopped' /\ pending' \subseteq {"STOP"}
    BY <1>0, <1>6, <2>1, <2>2 DEF RegRead, Held, Counted, Goto, Undisturbed, TypeOK
  <2>4. tracer' = Nobody => pending' = {}
    BY <1>0, <1>6, <2>1, <2>2 DEF RegRead, Held, Counted, Goto, Undisturbed, TypeOK, CalmAt, Stopping, Holding, Attached
  <2>5. ASSUME NEW u \in Tools PROVE CalmAt(u)'
    <3>1. CalmAt(u) /\ CalmAt(t) /\ u # Nobody
      BY <1>0, <2>2 DEF Tools
    <3>2. CASE u = t
      BY <1>0, <1>6, <2>1, <2>2, <3>1, <3>2 DEF RegRead, Held, Counted, Goto, Undisturbed, TypeOK, CalmAt, Stopping, Holding, Attached, Paths
    <3>3. CASE u # t
      BY <1>0, <1>6, <2>1, <2>2, <3>1, <3>3 DEF RegRead, Held, Counted, Goto, Undisturbed, TypeOK, CalmAt, Stopping, Holding, Attached
    <3>4. QED
      BY <3>2, <3>3
  <2>6. QED
    BY <2>3, <2>4, <2>5 DEF Calm
<1>7. CASE RegWrite(t)
  <2>1. Undisturbed
    BY <1>0, <1>7 DEF RegWrite, Held, Wrote, Goto, Undisturbed, TypeOK
  <2>2. /\ ~ stopped /\ pending \subseteq {"STOP"} /\ (tracer = Nobody => pending = {})
        /\ \A u \in Tools : CalmAt(u)
    BY <2>1 DEF Calm
  <2>3. ~ stopped' /\ pending' \subseteq {"STOP"}
    BY <1>0, <1>7, <2>1, <2>2 DEF RegWrite, Held, Wrote, Goto, Undisturbed, TypeOK
  <2>4. tracer' = Nobody => pending' = {}
    BY <1>0, <1>7, <2>1, <2>2 DEF RegWrite, Held, Wrote, Goto, Undisturbed, TypeOK, CalmAt, Stopping, Holding, Attached
  <2>5. ASSUME NEW u \in Tools PROVE CalmAt(u)'
    <3>1. CalmAt(u) /\ CalmAt(t) /\ u # Nobody
      BY <1>0, <2>2 DEF Tools
    <3>2. CASE u = t
      BY <1>0, <1>7, <2>1, <2>2, <3>1, <3>2 DEF RegWrite, Held, Wrote, Goto, Undisturbed, TypeOK, CalmAt, Stopping, Holding, Attached, Paths
    <3>3. CASE u # t
      BY <1>0, <1>7, <2>1, <2>2, <3>1, <3>3 DEF RegWrite, Held, Wrote, Goto, Undisturbed, TypeOK, CalmAt, Stopping, Holding, Attached
    <3>4. QED
      BY <3>2, <3>3
  <2>6. QED
    BY <2>3, <2>4, <2>5 DEF Calm
<1>8. CASE RegDetach(t)
  <2>1. Undisturbed
    BY <1>0, <1>8 DEF RegDetach, Released, Held, Goto, NotCounting, Undisturbed, TypeOK
  <2>2. /\ ~ stopped /\ pending \subseteq {"STOP"} /\ (tracer = Nobody => pending = {})
        /\ \A u \in Tools : CalmAt(u)
    BY <2>1 DEF Calm
  <2>3. ~ stopped' /\ pending' \subseteq {"STOP"}
    BY <1>0, <1>8, <2>1, <2>2 DEF RegDetach, Released, Held, Goto, NotCounting, Undisturbed, TypeOK
  <2>4. tracer' = Nobody => pending' = {}
    BY <1>0, <1>8, <2>1, <2>2 DEF RegDetach, Released, Held, Goto, NotCounting, Undisturbed, TypeOK, CalmAt, Stopping, Holding, Attached
  <2>5. ASSUME NEW u \in Tools PROVE CalmAt(u)'
    <3>1. CalmAt(u) /\ CalmAt(t) /\ u # Nobody
      BY <1>0, <2>2 DEF Tools
    <3>2. CASE u = t
      BY <1>0, <1>8, <2>1, <2>2, <3>1, <3>2 DEF RegDetach, Released, Held, Goto, NotCounting, Undisturbed, TypeOK, CalmAt, Stopping, Holding, Attached, Paths
    <3>3. CASE u # t
      BY <1>0, <1>8, <2>1, <2>2, <3>1, <3>3 DEF RegDetach, Released, Held, Goto, NotCounting, Undisturbed, TypeOK, CalmAt, Stopping, Holding, Attached
    <3>4. QED
      BY <3>2, <3>3
  <2>6. QED
    BY <2>3, <2>4, <2>5 DEF Calm
<1>9. CASE Alarm(t)
  <2>1. Undisturbed
    BY <1>0, <1>9 DEF Alarm, NotCounting, Undisturbed, TypeOK
  <2>2. /\ ~ stopped /\ pending \subseteq {"STOP"} /\ (tracer = Nobody => pending = {})
        /\ \A u \in Tools : CalmAt(u)
    BY <2>1 DEF Calm
  <2>3. ~ stopped' /\ pending' \subseteq {"STOP"}
    BY <1>0, <1>9, <2>1, <2>2 DEF Alarm, NotCounting, Undisturbed, TypeOK
  <2>4. tracer' = Nobody => pending' = {}
    BY <1>0, <1>9, <2>1, <2>2 DEF Alarm, NotCounting, Undisturbed, TypeOK, CalmAt, Stopping, Holding, Attached
  <2>5. ASSUME NEW u \in Tools PROVE CalmAt(u)'
    <3>1. CalmAt(u) /\ CalmAt(t) /\ u # Nobody
      BY <1>0, <2>2 DEF Tools
    <3>2. CASE u = t
      BY <1>0, <1>9, <2>1, <2>2, <3>1, <3>2 DEF Alarm, NotCounting, Undisturbed, TypeOK, CalmAt, Stopping, Holding, Attached, Paths
    <3>3. CASE u # t
      BY <1>0, <1>9, <2>1, <2>2, <3>1, <3>3 DEF Alarm, NotCounting, Undisturbed, TypeOK, CalmAt, Stopping, Holding, Attached
    <3>4. QED
      BY <3>2, <3>3
  <2>6. QED
    BY <2>3, <2>4, <2>5 DEF Calm
<1>10. CASE Interrupt(t)
  <2>1. Undisturbed
    BY <1>0, <1>10 DEF Interrupt, Undisturbed, TypeOK
  <2>2. /\ ~ stopped /\ pending \subseteq {"STOP"} /\ (tracer = Nobody => pending = {})
        /\ \A u \in Tools : CalmAt(u)
    BY <2>1 DEF Calm
  <2>3. ~ stopped' /\ pending' \subseteq {"STOP"}
    BY <1>0, <1>10, <2>1, <2>2 DEF Interrupt, Undisturbed, TypeOK
  <2>4. tracer' = Nobody => pending' = {}
    BY <1>0, <1>10, <2>1, <2>2 DEF Interrupt, Undisturbed, TypeOK, CalmAt, Stopping, Holding, Attached
  <2>5. ASSUME NEW u \in Tools PROVE CalmAt(u)'
    <3>1. CalmAt(u) /\ CalmAt(t) /\ u # Nobody
      BY <1>0, <2>2 DEF Tools
    <3>2. CASE u = t
      BY <1>0, <1>10, <2>1, <2>2, <3>1, <3>2 DEF Interrupt, Undisturbed, TypeOK, CalmAt, Stopping, Holding, Attached, Paths
    <3>3. CASE u # t
      BY <1>0, <1>10, <2>1, <2>2, <3>1, <3>3 DEF Interrupt, Undisturbed, TypeOK, CalmAt, Stopping, Holding, Attached
    <3>4. QED
      BY <3>2, <3>3
  <2>6. QED
    BY <2>3, <2>4, <2>5 DEF Calm
<1>11. CASE RegUnknown(t)
  <2>1. Undisturbed
    BY <1>0, <1>11 DEF RegUnknown, Released, Held, Goto, NotCounting, Undisturbed, TypeOK
  <2>2. /\ ~ stopped /\ pending \subseteq {"STOP"} /\ (tracer = Nobody => pending = {})
        /\ \A u \in Tools : CalmAt(u)
    BY <2>1 DEF Calm
  <2>3. ~ stopped' /\ pending' \subseteq {"STOP"}
    BY <1>0, <1>11, <2>1, <2>2 DEF RegUnknown, Released, Held, Goto, NotCounting, Undisturbed, TypeOK
  <2>4. tracer' = Nobody => pending' = {}
    BY <1>0, <1>11, <2>1, <2>2 DEF RegUnknown, Released, Held, Goto, NotCounting, Undisturbed, TypeOK, CalmAt, Stopping, Holding, Attached
  <2>5. ASSUME NEW u \in Tools PROVE CalmAt(u)'
    <3>1. CalmAt(u) /\ CalmAt(t) /\ u # Nobody
      BY <1>0, <2>2 DEF Tools
    <3>2. CASE u = t
      BY <1>0, <1>11, <2>1, <2>2, <3>1, <3>2 DEF RegUnknown, Released, Held, Goto, NotCounting, Undisturbed, TypeOK, CalmAt, Stopping, Holding, Attached, Paths
    <3>3. CASE u # t
      BY <1>0, <1>11, <2>1, <2>2, <3>1, <3>3 DEF RegUnknown, Released, Held, Goto, NotCounting, Undisturbed, TypeOK, CalmAt, Stopping, Holding, Attached
    <3>4. QED
      BY <3>2, <3>3
  <2>6. QED
    BY <2>3, <2>4, <2>5 DEF Calm
<1>12. QED
  BY <1>1, <1>2, <1>3, <1>4, <1>5, <1>6, <1>7, <1>8, <1>9, <1>10, <1>11 DEF RegStep

LEMMA MemCalm ==
    ASSUME IInv, Calm, Undisturbed', NEW t \in MemTools, MemStep(t) \/ MemInterrupt(t)
    PROVE  Calm'
<1> USE ToolsAssumption DEF process, tools
<1>0. TypeOK /\ Paths /\ Holding /\ t \in Tools /\ t # Nobody
  BY DEF IInv, Tools
<1>1. CASE MemAttach(t)
  <2>1. Undisturbed
    BY <1>0, <1>1 DEF MemAttach, Traces, Goto, NotCounting, Undisturbed, TypeOK
  <2>2. /\ ~ stopped /\ pending \subseteq {"STOP"} /\ (tracer = Nobody => pending = {})
        /\ \A u \in Tools : CalmAt(u)
    BY <2>1 DEF Calm
  <2>3. ~ stopped' /\ pending' \subseteq {"STOP"}
    BY <1>0, <1>1, <2>1, <2>2 DEF MemAttach, Traces, Goto, NotCounting, Undisturbed, TypeOK
  <2>4. tracer' = Nobody => pending' = {}
    BY <1>0, <1>1, <2>1, <2>2 DEF MemAttach, Traces, Goto, NotCounting, Undisturbed, TypeOK, CalmAt, Stopping, Holding, Attached
  <2>5. ASSUME NEW u \in Tools PROVE CalmAt(u)'
    <3>1. CalmAt(u) /\ CalmAt(t) /\ u # Nobody
      BY <1>0, <2>2 DEF Tools
    <3>2. CASE u = t
      BY <1>0, <1>1, <2>1, <2>2, <3>1, <3>2 DEF MemAttach, Traces, Goto, NotCounting, Undisturbed, TypeOK, CalmAt, Stopping, Holding, Attached, Paths
    <3>3. CASE u # t
      BY <1>0, <1>1, <2>1, <2>2, <3>1, <3>3 DEF MemAttach, Traces, Goto, NotCounting, Undisturbed, TypeOK, CalmAt, Stopping, Holding, Attached
    <3>4. QED
      BY <3>2, <3>3
  <2>6. QED
    BY <2>3, <2>4, <2>5 DEF Calm
<1>2. CASE MemRefused(t)
  <2>1. Undisturbed
    BY <1>0, <1>2 DEF MemRefused, Abandons, Orphaned, Ends, Goto, NotCounting, Undisturbed, TypeOK
  <2>2. /\ ~ stopped /\ pending \subseteq {"STOP"} /\ (tracer = Nobody => pending = {})
        /\ \A u \in Tools : CalmAt(u)
    BY <2>1 DEF Calm
  <2>3. ~ stopped' /\ pending' \subseteq {"STOP"}
    BY <1>0, <1>2, <2>1, <2>2 DEF MemRefused, Abandons, Orphaned, Ends, Goto, NotCounting, Undisturbed, TypeOK
  <2>4. tracer' = Nobody => pending' = {}
    BY <1>0, <1>2, <2>1, <2>2 DEF MemRefused, Abandons, Orphaned, Ends, Goto, NotCounting, Undisturbed, TypeOK, CalmAt, Stopping, Holding, Attached
  <2>5. ASSUME NEW u \in Tools PROVE CalmAt(u)'
    <3>1. CalmAt(u) /\ CalmAt(t) /\ u # Nobody
      BY <1>0, <2>2 DEF Tools
    <3>2. CASE u = t
      BY <1>0, <1>2, <2>1, <2>2, <3>1, <3>2 DEF MemRefused, Abandons, Orphaned, Ends, Goto, NotCounting, Undisturbed, TypeOK, CalmAt, Stopping, Holding, Attached, Paths
    <3>3. CASE u # t
      BY <1>0, <1>2, <2>1, <2>2, <3>1, <3>3 DEF MemRefused, Abandons, Orphaned, Ends, Goto, NotCounting, Undisturbed, TypeOK, CalmAt, Stopping, Holding, Attached
    <3>4. QED
      BY <3>2, <3>3
  <2>6. QED
    BY <2>3, <2>4, <2>5 DEF Calm
<1>3. CASE MemWait(t)
  <2>1. Undisturbed
    BY <1>0, <1>3 DEF MemWait, Waited, Held, Goto, NotCounting, Undisturbed, TypeOK
  <2>2. /\ ~ stopped /\ pending \subseteq {"STOP"} /\ (tracer = Nobody => pending = {})
        /\ \A u \in Tools : CalmAt(u)
    BY <2>1 DEF Calm
  <2>3. ~ stopped' /\ pending' \subseteq {"STOP"}
    BY <1>0, <1>3, <2>1, <2>2 DEF MemWait, Waited, Held, Goto, NotCounting, Undisturbed, TypeOK
  <2>4. tracer' = Nobody => pending' = {}
    BY <1>0, <1>3, <2>1, <2>2 DEF MemWait, Waited, Held, Goto, NotCounting, Undisturbed, TypeOK, CalmAt, Stopping, Holding, Attached
  <2>5. ASSUME NEW u \in Tools PROVE CalmAt(u)'
    <3>1. CalmAt(u) /\ CalmAt(t) /\ u # Nobody
      BY <1>0, <2>2 DEF Tools
    <3>2. CASE u = t
      BY <1>0, <1>3, <2>1, <2>2, <3>1, <3>2 DEF MemWait, Waited, Held, Goto, NotCounting, Undisturbed, TypeOK, CalmAt, Stopping, Holding, Attached, Paths
    <3>3. CASE u # t
      BY <1>0, <1>3, <2>1, <2>2, <3>1, <3>3 DEF MemWait, Waited, Held, Goto, NotCounting, Undisturbed, TypeOK, CalmAt, Stopping, Holding, Attached
    <3>4. QED
      BY <3>2, <3>3
  <2>6. QED
    BY <2>3, <2>4, <2>5 DEF Calm
<1>4. CASE MemFound(t)
  <2>1. Undisturbed
    BY <1>0, <1>4 DEF MemFound, Goto, NotCounting, Undisturbed, TypeOK
  <2>2. /\ ~ stopped /\ pending \subseteq {"STOP"} /\ (tracer = Nobody => pending = {})
        /\ \A u \in Tools : CalmAt(u)
    BY <2>1 DEF Calm
  <2>3. ~ stopped' /\ pending' \subseteq {"STOP"}
    BY <1>0, <1>4, <2>1, <2>2 DEF MemFound, Goto, NotCounting, Undisturbed, TypeOK
  <2>4. tracer' = Nobody => pending' = {}
    BY <1>0, <1>4, <2>1, <2>2 DEF MemFound, Goto, NotCounting, Undisturbed, TypeOK, CalmAt, Stopping, Holding, Attached
  <2>5. ASSUME NEW u \in Tools PROVE CalmAt(u)'
    <3>1. CalmAt(u) /\ CalmAt(t) /\ u # Nobody
      BY <1>0, <2>2 DEF Tools
    <3>2. CASE u = t
      BY <1>0, <1>4, <2>1, <2>2, <3>1, <3>2 DEF MemFound, Goto, NotCounting, Undisturbed, TypeOK, CalmAt, Stopping, Holding, Attached, Paths
    <3>3. CASE u # t
      BY <1>0, <1>4, <2>1, <2>2, <3>1, <3>3 DEF MemFound, Goto, NotCounting, Undisturbed, TypeOK, CalmAt, Stopping, Holding, Attached
    <3>4. QED
      BY <3>2, <3>3
  <2>6. QED
    BY <2>3, <2>4, <2>5 DEF Calm
<1>5. CASE MemNotFound(t)
  <2>1. Undisturbed
    BY <1>0, <1>5 DEF MemNotFound, Orphaned, Released, Held, Ends, Goto, NotCounting, Undisturbed, TypeOK
  <2>2. /\ ~ stopped /\ pending \subseteq {"STOP"} /\ (tracer = Nobody => pending = {})
        /\ \A u \in Tools : CalmAt(u)
    BY <2>1 DEF Calm
  <2>3. ~ stopped' /\ pending' \subseteq {"STOP"}
    BY <1>0, <1>5, <2>1, <2>2 DEF MemNotFound, Orphaned, Released, Held, Ends, Goto, NotCounting, Undisturbed, TypeOK
  <2>4. tracer' = Nobody => pending' = {}
    BY <1>0, <1>5, <2>1, <2>2 DEF MemNotFound, Orphaned, Released, Held, Ends, Goto, NotCounting, Undisturbed, TypeOK, CalmAt, Stopping, Holding, Attached
  <2>5. ASSUME NEW u \in Tools PROVE CalmAt(u)'
    <3>1. CalmAt(u) /\ CalmAt(t) /\ u # Nobody
      BY <1>0, <2>2 DEF Tools
    <3>2. CASE u = t
      BY <1>0, <1>5, <2>1, <2>2, <3>1, <3>2 DEF MemNotFound, Orphaned, Released, Held, Ends, Goto, NotCounting, Undisturbed, TypeOK, CalmAt, Stopping, Holding, Attached, Paths
    <3>3. CASE u # t
      BY <1>0, <1>5, <2>1, <2>2, <3>1, <3>3 DEF MemNotFound, Orphaned, Released, Held, Ends, Goto, NotCounting, Undisturbed, TypeOK, CalmAt, Stopping, Holding, Attached
    <3>4. QED
      BY <3>2, <3>3
  <2>6. QED
    BY <2>3, <2>4, <2>5 DEF Calm
<1>6. CASE MemNoRegion(t)
  <2>1. Undisturbed
    BY <1>0, <1>6 DEF MemNoRegion, Abandons, Orphaned, Ends, Goto, NotCounting, Undisturbed, TypeOK
  <2>2. /\ ~ stopped /\ pending \subseteq {"STOP"} /\ (tracer = Nobody => pending = {})
        /\ \A u \in Tools : CalmAt(u)
    BY <2>1 DEF Calm
  <2>3. ~ stopped' /\ pending' \subseteq {"STOP"}
    BY <1>0, <1>6, <2>1, <2>2 DEF MemNoRegion, Abandons, Orphaned, Ends, Goto, NotCounting, Undisturbed, TypeOK
  <2>4. tracer' = Nobody => pending' = {}
    BY <1>0, <1>6, <2>1, <2>2 DEF MemNoRegion, Abandons, Orphaned, Ends, Goto, NotCounting, Undisturbed, TypeOK, CalmAt, Stopping, Holding, Attached
  <2>5. ASSUME NEW u \in Tools PROVE CalmAt(u)'
    <3>1. CalmAt(u) /\ CalmAt(t) /\ u # Nobody
      BY <1>0, <2>2 DEF Tools
    <3>2. CASE u = t
      BY <1>0, <1>6, <2>1, <2>2, <3>1, <3>2 DEF MemNoRegion, Abandons, Orphaned, Ends, Goto, NotCounting, Undisturbed, TypeOK, CalmAt, Stopping, Holding, Attached, Paths
    <3>3. CASE u # t
      BY <1>0, <1>6, <2>1, <2>2, <3>1, <3>3 DEF MemNoRegion, Abandons, Orphaned, Ends, Goto, NotCounting, Undisturbed, TypeOK, CalmAt, Stopping, Holding, Attached
    <3>4. QED
      BY <3>2, <3>3
  <2>6. QED
    BY <2>3, <2>4, <2>5 DEF Calm
<1>7. CASE MemRead(t)
  <2>1. Undisturbed
    BY <1>0, <1>7 DEF MemRead, Held, Goto, NotCounting, Undisturbed, TypeOK
  <2>2. /\ ~ stopped /\ pending \subseteq {"STOP"} /\ (tracer = Nobody => pending = {})
        /\ \A u \in Tools : CalmAt(u)
    BY <2>1 DEF Calm
  <2>3. ~ stopped' /\ pending' \subseteq {"STOP"}
    BY <1>0, <1>7, <2>1, <2>2 DEF MemRead, Held, Goto, NotCounting, Undisturbed, TypeOK
  <2>4. tracer' = Nobody => pending' = {}
    BY <1>0, <1>7, <2>1, <2>2 DEF MemRead, Held, Goto, NotCounting, Undisturbed, TypeOK, CalmAt, Stopping, Holding, Attached
  <2>5. ASSUME NEW u \in Tools PROVE CalmAt(u)'
    <3>1. CalmAt(u) /\ CalmAt(t) /\ u # Nobody
      BY <1>0, <2>2 DEF Tools
    <3>2. CASE u = t
      BY <1>0, <1>7, <2>1, <2>2, <3>1, <3>2 DEF MemRead, Held, Goto, NotCounting, Undisturbed, TypeOK, CalmAt, Stopping, Holding, Attached, Paths
    <3>3. CASE u # t
      BY <1>0, <1>7, <2>1, <2>2, <3>1, <3>3 DEF MemRead, Held, Goto, NotCounting, Undisturbed, TypeOK, CalmAt, Stopping, Holding, Attached
    <3>4. QED
      BY <3>2, <3>3
  <2>6. QED
    BY <2>3, <2>4, <2>5 DEF Calm
<1>8. CASE MemWrite(t)
  <2>1. Undisturbed
    BY <1>0, <1>8 DEF MemWrite, Held, Wrote, Goto, Undisturbed, TypeOK
  <2>2. /\ ~ stopped /\ pending \subseteq {"STOP"} /\ (tracer = Nobody => pending = {})
        /\ \A u \in Tools : CalmAt(u)
    BY <2>1 DEF Calm
  <2>3. ~ stopped' /\ pending' \subseteq {"STOP"}
    BY <1>0, <1>8, <2>1, <2>2 DEF MemWrite, Held, Wrote, Goto, Undisturbed, TypeOK
  <2>4. tracer' = Nobody => pending' = {}
    BY <1>0, <1>8, <2>1, <2>2 DEF MemWrite, Held, Wrote, Goto, Undisturbed, TypeOK, CalmAt, Stopping, Holding, Attached
  <2>5. ASSUME NEW u \in Tools PROVE CalmAt(u)'
    <3>1. CalmAt(u) /\ CalmAt(t) /\ u # Nobody
      BY <1>0, <2>2 DEF Tools
    <3>2. CASE u = t
      BY <1>0, <1>8, <2>1, <2>2, <3>1, <3>2 DEF MemWrite, Held, Wrote, Goto, Undisturbed, TypeOK, CalmAt, Stopping, Holding, Attached, Paths
    <3>3. CASE u # t
      BY <1>0, <1>8, <2>1, <2>2, <3>1, <3>3 DEF MemWrite, Held, Wrote, Goto, Undisturbed, TypeOK, CalmAt, Stopping, Holding, Attached
    <3>4. QED
      BY <3>2, <3>3
  <2>6. QED
    BY <2>3, <2>4, <2>5 DEF Calm
<1>9. CASE MemWriteFails(t)
  <2>1. Undisturbed
    BY <1>0, <1>9 DEF MemWriteFails, Abandons, Orphaned, Ends, Goto, NotCounting, Undisturbed, TypeOK
  <2>2. /\ ~ stopped /\ pending \subseteq {"STOP"} /\ (tracer = Nobody => pending = {})
        /\ \A u \in Tools : CalmAt(u)
    BY <2>1 DEF Calm
  <2>3. ~ stopped' /\ pending' \subseteq {"STOP"}
    BY <1>0, <1>9, <2>1, <2>2 DEF MemWriteFails, Abandons, Orphaned, Ends, Goto, NotCounting, Undisturbed, TypeOK
  <2>4. tracer' = Nobody => pending' = {}
    BY <1>0, <1>9, <2>1, <2>2 DEF MemWriteFails, Abandons, Orphaned, Ends, Goto, NotCounting, Undisturbed, TypeOK, CalmAt, Stopping, Holding, Attached
  <2>5. ASSUME NEW u \in Tools PROVE CalmAt(u)'
    <3>1. CalmAt(u) /\ CalmAt(t) /\ u # Nobody
      BY <1>0, <2>2 DEF Tools
    <3>2. CASE u = t
      BY <1>0, <1>9, <2>1, <2>2, <3>1, <3>2 DEF MemWriteFails, Abandons, Orphaned, Ends, Goto, NotCounting, Undisturbed, TypeOK, CalmAt, Stopping, Holding, Attached, Paths
    <3>3. CASE u # t
      BY <1>0, <1>9, <2>1, <2>2, <3>1, <3>3 DEF MemWriteFails, Abandons, Orphaned, Ends, Goto, NotCounting, Undisturbed, TypeOK, CalmAt, Stopping, Holding, Attached
    <3>4. QED
      BY <3>2, <3>3
  <2>6. QED
    BY <2>3, <2>4, <2>5 DEF Calm
<1>10. CASE MemDetach(t)
  <2>1. Undisturbed
    BY <1>0, <1>10 DEF MemDetach, Orphaned, Released, Held, Ends, Goto, NotCounting, Undisturbed, TypeOK
  <2>2. /\ ~ stopped /\ pending \subseteq {"STOP"} /\ (tracer = Nobody => pending = {})
        /\ \A u \in Tools : CalmAt(u)
    BY <2>1 DEF Calm
  <2>3. ~ stopped' /\ pending' \subseteq {"STOP"}
    BY <1>0, <1>10, <2>1, <2>2 DEF MemDetach, Orphaned, Released, Held, Ends, Goto, NotCounting, Undisturbed, TypeOK, Holding, Attached, Stopping
  <2>4. tracer' = Nobody => pending' = {}
    BY <1>0, <1>10, <2>1, <2>2 DEF MemDetach, Orphaned, Released, Held, Ends, Goto, NotCounting, Undisturbed, TypeOK, CalmAt, Stopping, Holding, Attached
  <2>5. ASSUME NEW u \in Tools PROVE CalmAt(u)'
    <3>1. CalmAt(u) /\ CalmAt(t) /\ u # Nobody
      BY <1>0, <2>2 DEF Tools
    <3>2. CASE u = t
      BY <1>0, <1>10, <2>1, <2>2, <3>1, <3>2 DEF MemDetach, Orphaned, Released, Held, Ends, Goto, NotCounting, Undisturbed, TypeOK, CalmAt, Stopping, Holding, Attached, Paths
    <3>3. CASE u # t
      BY <1>0, <1>10, <2>1, <2>2, <3>1, <3>3 DEF MemDetach, Orphaned, Released, Held, Ends, Goto, NotCounting, Undisturbed, TypeOK, CalmAt, Stopping, Holding, Attached
    <3>4. QED
      BY <3>2, <3>3
  <2>6. QED
    BY <2>3, <2>4, <2>5 DEF Calm
<1>11. CASE MemInterrupt(t)
  <2>1. Undisturbed
    BY <1>0, <1>11 DEF MemInterrupt, Abandons, Orphaned, Ends, Goto, NotCounting, Undisturbed, TypeOK
  <2>2. /\ ~ stopped /\ pending \subseteq {"STOP"} /\ (tracer = Nobody => pending = {})
        /\ \A u \in Tools : CalmAt(u)
    BY <2>1 DEF Calm
  <2>3. ~ stopped' /\ pending' \subseteq {"STOP"}
    BY <1>0, <1>11, <2>1, <2>2 DEF MemInterrupt, Abandons, Orphaned, Ends, Goto, NotCounting, Undisturbed, TypeOK
  <2>4. tracer' = Nobody => pending' = {}
    BY <1>0, <1>11, <2>1, <2>2 DEF MemInterrupt, Abandons, Orphaned, Ends, Goto, NotCounting, Undisturbed, TypeOK, CalmAt, Stopping, Holding, Attached
  <2>5. ASSUME NEW u \in Tools PROVE CalmAt(u)'
    <3>1. CalmAt(u) /\ CalmAt(t) /\ u # Nobody
      BY <1>0, <2>2 DEF Tools
    <3>2. CASE u = t
      BY <1>0, <1>11, <2>1, <2>2, <3>1, <3>2 DEF MemInterrupt, Abandons, Orphaned, Ends, Goto, NotCounting, Undisturbed, TypeOK, CalmAt, Stopping, Holding, Attached, Paths
    <3>3. CASE u # t
      BY <1>0, <1>11, <2>1, <2>2, <3>1, <3>3 DEF MemInterrupt, Abandons, Orphaned, Ends, Goto, NotCounting, Undisturbed, TypeOK, CalmAt, Stopping, Holding, Attached
    <3>4. QED
      BY <3>2, <3>3
  <2>6. QED
    BY <2>3, <2>4, <2>5 DEF Calm
<1>12. QED
  BY <1>1, <1>2, <1>3, <1>4, <1>5, <1>6, <1>7, <1>8, <1>9, <1>10, <1>11 DEF MemStep

LEMMA CalmInvariance == Spec => [](IInv /\ Calm)
<1>1. IInv /\ Calm /\ [Next]_vars => Calm'
  <2> SUFFICES ASSUME IInv, Calm, [Next]_vars, Undisturbed' PROVE Calm'
    BY DEF Calm
  <2>1. CASE UNCHANGED vars
    BY <2>1 DEF vars, process, tools, Calm, Undisturbed, CalmAt
  <2>2. CASE Next
    BY <2>2, WorldCalm, RegCalm, MemCalm DEF Next
  <2>3. QED
    BY <2>1, <2>2
<1>2. QED
  BY <1>1, InitIInv, NextIInv, InitCalm, PTL DEF Spec

\* With no signals but those of the tools, and no tool that exited without
\* detaching, no SIGSTOP is left behind for a process that nobody traces, for
\* any number of tools (reg_injector.c: waitpid, alarm_handler;
\* mem_injector.c: ptrace_attach).
THEOREM NobodyLeftStopped == Spec => []NotLeftStopped
<1>1. IInv /\ Calm => NotLeftStopped
  BY DEF IInv, Gone, Calm, Undisturbed, NotLeftStopped
<1>2. QED
  BY <1>1, CalmInvariance, PTL

\* Under the same conditions an injection with -w comes when its delay is over
\* (reg_injector.c: the second waitpid).
THEOREM DelaysAreHonoured == Spec => []DelayHonoured
<1>1. IInv /\ Calm => DelayHonoured
  BY ToolsAssumption DEF Calm, Undisturbed, CalmAt, DelayHonoured, Tools
<1>2. QED
  BY <1>1, CalmInvariance, PTL
=============================================================================
