---------------------------- MODULE KprobesProofs ----------------------------
(***************************************************************************)
(* Theorems about Kprobes, for any number of processors, any numbers of    *)
(* faults and any parameters.                                              *)
(***************************************************************************)
EXTENDS Kprobes, SequenceTheorems, TLAPS

(***************************************************************************)
(* 1. The inductive invariant.                                             *)
(***************************************************************************)

\* What is left of the tool's writes is the end of its script.
Pending ==
    /\ family = "one-shot" => writes \in {<<>>, <<W("signal", 1)>>}
    /\ family # "one-shot" =>
          writes \in {<<>>, <<W("signal", 1)>>, <<W("times", asked), W("signal", 1)>>,
                      <<W("setting", wanted), W("times", asked), W("signal", 1)>>}

\* While the tool writes for a module that was off, no CPU is in the handler.
OffUntilTheSwitch ==
    (writes # <<>> /\ ~rearmed) =>
        /\ signal = 0 /\ Quiet /\ hits = 0
        /\ family = "one-shot" => asked = 1

\* What the tool has written is there when it comes to the switch.
Loaded ==
    (family # "one-shot" /\ ~rearmed) =>
        /\ Len(writes) <= 2 => setting = wanted
        /\ Len(writes) = 1 => times = asked

\* The number still owed is not lost: unless all the faults have been counted
\* down, the counter and every value of it a CPU has loaded cover the rest.
Owed ==
    (Counted /\ writes = <<>> /\ spent < asked) =>
        /\ times >= asked - spent
        /\ \A c \in CPUs : /\ pc[c] = "store" => reg[c] >= asked - spent
                           /\ pc[c] # "disarm"

\* Only one CPU is in the handler, unless two have been.
OneAtATime ==
    ~overlapped => \A c, d \in CPUs : pc[c] # "out" /\ pc[d] # "out" => c = d

\* Where a CPU can be in the handler of its family.
Paths ==
    \A c \in CPUs :
        /\ family = "one-shot" => pc[c] \in {"out", "inject", "disarm"}
        /\ family = "after"    => pc[c] # "load"

\* The balance of a one-shot module, when no two CPUs have been in the handler.
OneShotBalance ==
    /\ asked \in {0, 1}
    /\ Quiet => hits = asked - signal
    /\ \A c \in CPUs :
        /\ pc[c] = "inject" => asked = 1 /\ hits = 0
        /\ pc[c] = "disarm" => hits = asked

\* The balance of a counting module: faults injected and faults left make up
\* the number asked for, but for the one the CPU in the handler is working on.
CountingBalance ==
    /\ times >= 0
    /\ Quiet => hits + times = asked /\ (signal = 0 => times = 0)
    /\ \A c \in CPUs :
        /\ pc[c] = "test"   => hits + times = asked
        /\ pc[c] = "load"   => hits + times = asked + 1 /\ times > 0
        /\ pc[c] = "inject" => IF family = "after" THEN hits + times = asked - 1
                               ELSE hits + times = asked /\ times > 0
        /\ pc[c] = "store"  => /\ reg[c] = times /\ times > 0
                               /\ hits + times = IF family = "after" THEN asked ELSE asked + 1
        /\ pc[c] = "disarm" => hits = asked /\ times = 0

Balance ==
    (asked >= 0 /\ writes = <<>> /\ ~overlapped /\ ~rearmed) =>
        /\ \A c \in CPUs : pc[c] # "out" => signal = 1
        /\ family = "one-shot" => OneShotBalance
        /\ family # "one-shot" => CountingBalance

IInv ==
    /\ TypeOK /\ Pending /\ Paths /\ OffUntilTheSwitch /\ Loaded
    /\ Owed /\ OneAtATime /\ Balance /\ FaultsHaveTheirSettings
(***************************************************************************)
(* 2. Types.                                                               *)
(***************************************************************************)

\* The script is a sequence of writes of the right kind.
LEMMA ScriptType ==
    ASSUME NEW set \in Settings, NEW n \in Counts
    PROVE  ToolScript(set, n) \in Seq(Entries)
<1>1. W("signal", 1) \in Entries /\ W("setting", set) \in Entries /\ W("times", n) \in Entries
  BY DEF W, Entries
<1>2. QED
  BY <1>1 DEF ToolScript

\* Taking a write off the script.
LEMMA TakeWrite ==
    ASSUME NEW file, writes \in Seq(Entries), Writes(file)
    PROVE  /\ writes' \in Seq(Entries)
           /\ Head(writes) \in Entries
           /\ Head(writes).file = file
BY DEF Writes

LEMMA EntryValues ==
    ASSUME NEW e \in Entries
    PROVE  /\ e.file = "setting" => e.val \in Settings
           /\ e.file = "times"   => e.val \in Counts
           /\ e.file = "signal"  => e.val = 1
BY DEF Entries

LEMMA BumpType == ASSUME NEW n \in 0..Cap PROVE Bump(n) \in 0..Cap /\ Bump(n) >= n /\ (n < Cap => Bump(n) = n + 1)
BY Parameters DEF Bump

LEMMA TypeStep == TypeOK /\ [Next]_vars => TypeOK'
<1> SUFFICES ASSUME TypeOK, [Next]_vars PROVE TypeOK'
  OBVIOUS
<1> USE Parameters DEF TypeOK, modVars, cpuVars, histVars
<1>1. CASE UNCHANGED vars
  BY <1>1 DEF vars
<1>2. ASSUME NEW set \in Settings, NEW n \in Counts, RunTool(set, n) PROVE TypeOK'
  <2>1. writes' \in Seq(Entries)
    BY <1>2, ScriptType DEF RunTool
  <2>2. asked' \in -1..Cap
    BY <1>2 DEF RunTool
  <2>3. rearmed' \in BOOLEAN
    BY <1>2, Zenon DEF RunTool
  <2>4. /\ wanted' = set /\ spent' = 0 /\ hits' = 0 /\ overlapped' = FALSE /\ faults' = {}
        /\ UNCHANGED <<family, signal, times, setting, pc, reg>>
    BY <1>2, Zenon DEF RunTool
  <2>5. /\ spent' \in 0..Cap /\ hits' \in 0..Cap /\ times' \in Int /\ signal' \in {0, 1}
        /\ faults' \subseteq Settings /\ wanted' \in Settings
    BY <2>4
  <2>6. overlapped' \in BOOLEAN
    BY <2>4
  <2>7. family' \in Families /\ setting' \in Settings /\ pc' \in [CPUs -> Places] /\ reg' \in [CPUs -> Int]
    BY <2>4
  <2>8. QED
    BY <2>1, <2>2, <2>3, <2>5, <2>6, <2>7, Zenon
<1>3. CASE WriteSetting
  BY <1>3, TakeWrite, EntryValues DEF WriteSetting
<1>4. CASE WriteTimes
  BY <1>4, TakeWrite, EntryValues DEF WriteTimes
<1>5. CASE WriteSignal
  BY <1>5, TakeWrite, EntryValues DEF WriteSignal
<1>6. ASSUME NEW c \in CPUs, Handler(c) PROVE TypeOK'
  <2> USE DEF Goto, Places
  <2>1. CASE Enter(c)
    BY <2>1 DEF Enter
  <2>2. CASE TestZero(c)
    BY <2>2 DEF TestZero
  <2>3. CASE TestAfter(c)
    BY <2>3 DEF TestAfter
  <2>4. CASE Inject(c)
    BY <2>4, BumpType DEF Inject, Families
  <2>5. CASE Load(c)
    BY <2>5 DEF Load
  <2>6. CASE Store(c)
    BY <2>6, BumpType DEF Store
  <2>7. CASE Disarm(c)
    BY <2>7 DEF Disarm
  <2>8. QED
    BY <1>6, <2>1, <2>2, <2>3, <2>4, <2>5, <2>6, <2>7 DEF Handler
<1>7. QED
  BY <1>1, <1>2, <1>3, <1>4, <1>5, <1>6 DEF Next, Tool

(***************************************************************************)
(* 3. The tool: its script, and what it has written.                       *)
(***************************************************************************)

\* The ends of a script.
LEMMA Ends ==
    ASSUME NEW a, NEW b, NEW c
    PROVE  /\ Head(<<a, b, c>>) = a /\ Tail(<<a, b, c>>) = <<b, c>>
           /\ Head(<<a, b>>) = a /\ Tail(<<a, b>>) = <<b>>
           /\ Head(<<a>>) = a /\ Tail(<<a>>) = <<>>
           /\ Len(<<a, b, c>>) = 3 /\ Len(<<a, b>>) = 2 /\ Len(<<a>>) = 1
           /\ <<a>> # <<>> /\ <<a, b>> # <<>> /\ <<a, b, c>> # <<>>
OBVIOUS

\* What each write is, and what it leaves to be written.
LEMMA WriteOrder ==
    ASSUME TypeOK, Pending
    PROVE  /\ Writes("setting") =>
                /\ family # "one-shot" /\ Head(writes).val = wanted
                /\ writes' = <<W("times", asked), W("signal", 1)>>
           /\ Writes("times") =>
                /\ family # "one-shot" /\ Head(writes).val = asked
                /\ writes = <<W("times", asked), W("signal", 1)>>
                /\ writes' = <<W("signal", 1)>>
           /\ Writes("signal") =>
                /\ Head(writes).val = 1 /\ writes = <<W("signal", 1)>>
                /\ writes' = <<>>
<1> DEFINE s == W("signal", 1)
           t == W("times", asked)
           u == W("setting", wanted)
<1>1. /\ s.file = "signal" /\ s.val = 1
      /\ t.file = "times" /\ t.val = asked
      /\ u.file = "setting" /\ u.val = wanted
  BY DEF W
<1>2. /\ Head(<<s>>) = s /\ Tail(<<s>>) = <<>>
      /\ Head(<<t, s>>) = t /\ Tail(<<t, s>>) = <<s>>
      /\ Head(<<u, t, s>>) = u /\ Tail(<<u, t, s>>) = <<t, s>>
  BY Ends
<1>3. /\ family = "one-shot" => writes \in {<<>>, <<s>>}
      /\ family # "one-shot" => writes \in {<<>>, <<s>>, <<t, s>>, <<u, t, s>>}
  BY DEF Pending
<1> HIDE DEF s, t, u
<1>4. /\ Writes("setting") => family # "one-shot" /\ Head(writes).val = wanted /\ writes' = <<t, s>>
      /\ Writes("times") => /\ family # "one-shot" /\ Head(writes).val = asked
                            /\ writes = <<t, s>> /\ writes' = <<s>>
      /\ Writes("signal") => Head(writes).val = 1 /\ writes = <<s>> /\ writes' = <<>>
  BY <1>1, <1>2, <1>3, Zenon DEF Writes
<1>5. QED
  BY <1>4 DEF s, t, u

LEMMA PendingStep == TypeOK /\ Pending /\ [Next]_vars => Pending'
<1> SUFFICES ASSUME TypeOK, Pending, [Next]_vars PROVE Pending'
  OBVIOUS
<1> USE DEF Pending, modVars, cpuVars, histVars
<1>1. CASE UNCHANGED vars
  BY <1>1 DEF vars
<1>2. ASSUME NEW set \in Settings, NEW n \in Counts, RunTool(set, n) PROVE Pending'
  BY <1>2 DEF RunTool, ToolScript
<1>3. CASE WriteSetting
  BY <1>3, WriteOrder DEF WriteSetting
<1>4. CASE WriteTimes
  BY <1>4, WriteOrder DEF WriteTimes
<1>5. CASE WriteSignal
  BY <1>5, WriteOrder DEF WriteSignal
<1>6. ASSUME NEW c \in CPUs, Handler(c) PROVE Pending'
  BY <1>6 DEF Handler, Enter, TestZero, TestAfter, Inject, Load, Store, Disarm
<1>7. QED
  BY <1>1, <1>2, <1>3, <1>4, <1>5, <1>6 DEF Next, Tool


LEMMA PathsStep == TypeOK /\ Paths /\ [Next]_vars => Paths'
<1> SUFFICES ASSUME TypeOK, Paths, [Next]_vars PROVE Paths'
  OBVIOUS
<1> USE DEF Paths, TypeOK, modVars, cpuVars, histVars
<1>1. CASE UNCHANGED <<family, pc>>
  BY <1>1
<1>2. CASE \E set \in Settings, n \in Counts : RunTool(set, n)
  <2>1. UNCHANGED <<family, pc>>
    BY <1>2, Zenon DEF RunTool
  <2>2. QED
    BY <2>1
<1>3. CASE Tool
  BY <1>3 DEF Tool, WriteSetting, WriteTimes, WriteSignal
<1>4. ASSUME NEW c \in CPUs, Handler(c) PROVE Paths'
  BY <1>4 DEF Handler, Enter, TestZero, TestAfter, Inject, Load, Store, Disarm, Goto, Families
<1>5. QED
  BY <1>1, <1>2, <1>3, <1>4 DEF Next, vars

LEMMA OffStep == TypeOK /\ Pending /\ OffUntilTheSwitch /\ [Next]_vars => OffUntilTheSwitch'
<1> SUFFICES ASSUME TypeOK, Pending, OffUntilTheSwitch, [Next]_vars PROVE OffUntilTheSwitch'
  OBVIOUS
<1> USE DEF OffUntilTheSwitch, Quiet, modVars, cpuVars, histVars
<1>1. CASE UNCHANGED vars
  BY <1>1 DEF vars
<1>2. ASSUME NEW set \in Settings, NEW n \in Counts, RunTool(set, n) PROVE OffUntilTheSwitch'
  <2>1. /\ Quiet /\ UNCHANGED <<signal, pc, family>> /\ (rearmed' = (signal = 1))
        /\ hits' = 0 /\ asked' = IF family = "one-shot" THEN 1 ELSE n
    BY <1>2, Zenon DEF RunTool
  <2>2. signal = 0 \/ rearmed'
    <3>1. signal = 0 \/ signal = 1
      BY DEF TypeOK
    <3>2. QED
      BY <2>1, <3>1, Zenon
  <2>3. QED
    BY <2>1, <2>2
<1>3. CASE WriteSetting
  BY <1>3 DEF WriteSetting, Writes
<1>4. CASE WriteTimes
  BY <1>4 DEF WriteTimes, Writes
<1>5. CASE WriteSignal
  BY <1>5, WriteOrder DEF WriteSignal
<1>6. ASSUME NEW c \in CPUs, Handler(c) PROVE OffUntilTheSwitch'
  <2>1. (writes # <<>> /\ ~rearmed) => FALSE
    BY <1>6 DEF Handler, Enter, TestZero, TestAfter, Inject, Load, Store, Disarm
  <2>2. UNCHANGED <<writes, rearmed>>
    BY <1>6, Zenon DEF Handler, Enter, TestZero, TestAfter, Inject, Load, Store, Disarm
  <2>3. QED
    BY <2>1, <2>2
<1>7. QED
  BY <1>1, <1>2, <1>3, <1>4, <1>5, <1>6 DEF Next, Tool

LEMMA LoadedStep ==
    TypeOK /\ Pending /\ OffUntilTheSwitch /\ Loaded /\ [Next]_vars => Loaded'
<1> SUFFICES ASSUME TypeOK, Pending, OffUntilTheSwitch, Loaded, [Next]_vars PROVE Loaded'
  OBVIOUS
<1> USE DEF Loaded, modVars, cpuVars, histVars
<1>1. CASE UNCHANGED vars
  BY <1>1 DEF vars
<1>2. ASSUME NEW set \in Settings, NEW n \in Counts, RunTool(set, n) PROVE Loaded'
  BY <1>2, Ends DEF RunTool, ToolScript
<1>3. CASE WriteSetting
  <2>1. /\ setting' = wanted /\ UNCHANGED wanted /\ Len(writes') = 2
    BY <1>3, WriteOrder, Ends DEF WriteSetting
  <2>2. QED
    BY <2>1
<1>4. CASE WriteTimes
  <2>1. /\ times' = asked /\ UNCHANGED <<asked, wanted, setting, family, rearmed>>
    BY <1>4, WriteOrder DEF WriteTimes
  <2>2. (family # "one-shot" /\ ~rearmed) => setting = wanted
    <3>1. Len(writes) = 2
      BY <1>4, WriteOrder, Ends DEF WriteTimes
    <3>2. QED
      BY <3>1
  <2>3. QED
    BY <2>1, <2>2
<1>5. CASE WriteSignal
  <2>1. Len(writes) = 1 /\ writes' = <<>> /\ UNCHANGED <<wanted, setting, family, rearmed>>
    BY <1>5, WriteOrder, Ends DEF WriteSignal
  <2>2. QED
    BY <2>1
<1>6. ASSUME NEW c \in CPUs, Handler(c) PROVE Loaded'
  <2>1. UNCHANGED <<family, setting, writes, asked, wanted, rearmed>>
    BY <1>6, Zenon DEF Handler, Enter, TestZero, TestAfter, Inject, Load, Store, Disarm
  <2>2. CASE UNCHANGED times
    BY <2>1, <2>2
  <2>3. CASE Store(c)
    <3>1. rearmed \/ writes = <<>>
      BY <2>3 DEF Store, OffUntilTheSwitch, Quiet
    <3>2. QED
      BY <2>1, <3>1
  <2>4. QED
    BY <1>6, <2>2, <2>3, Zenon DEF Handler, Enter, TestZero, TestAfter, Inject, Load, Disarm
<1>7. QED
  BY <1>1, <1>2, <1>3, <1>4, <1>5, <1>6 DEF Next, Tool

(***************************************************************************)
(* 4. The count of faults, however the processors race.                    *)
(***************************************************************************)

LEMMA OwedStep ==
    /\ TypeOK /\ Pending /\ Paths /\ OffUntilTheSwitch /\ Loaded /\ Owed
    /\ [Next]_vars
    => Owed'
<1> SUFFICES ASSUME TypeOK, Pending, Paths, OffUntilTheSwitch, Loaded, Owed, [Next]_vars
             PROVE  Owed'
  OBVIOUS
<1> USE DEF Owed, Counted, modVars, cpuVars, histVars
<1>1. CASE UNCHANGED vars
  BY <1>1 DEF vars
<1>2. ASSUME NEW set \in Settings, NEW n \in Counts, RunTool(set, n) PROVE Owed'
  <2>1. writes' # <<>>
    BY <1>2, Ends DEF RunTool, ToolScript
  <2>2. QED
    BY <2>1
<1>3. CASE WriteSetting
  <2>1. writes' # <<>>
    BY <1>3, WriteOrder, Ends DEF WriteSetting
  <2>2. QED
    BY <2>1
<1>4. CASE WriteTimes
  <2>1. writes' # <<>>
    BY <1>4, WriteOrder, Ends DEF WriteTimes
  <2>2. QED
    BY <2>1
<1>5. CASE WriteSignal
  <2>1. writes # <<>> /\ Len(writes) = 1
    BY <1>5, WriteOrder, Ends DEF WriteSignal
  <2>2. UNCHANGED <<family, times, asked, spent, rearmed, pc, reg>>
    BY <1>5 DEF WriteSignal
  <2>3. Counted => times = asked /\ \A c \in CPUs : pc[c] = "out"
    BY <2>1 DEF Loaded, OffUntilTheSwitch, Quiet
  <2>4. QED
    BY <2>2, <2>3 DEF TypeOK
<1>6. ASSUME NEW c \in CPUs, Handler(c) PROVE Owed'
  <2>1. UNCHANGED <<family, writes, asked, rearmed>>
    BY <1>6, Zenon DEF Handler, Enter, TestZero, TestAfter, Inject, Load, Store, Disarm
  <2> SUFFICES ASSUME Counted, writes = <<>>, spent' < asked
               PROVE  /\ times' >= asked - spent'
                      /\ \A d \in CPUs : /\ pc'[d] = "store" => reg'[d] >= asked - spent'
                                         /\ pc'[d] # "disarm"
    BY <2>1
  <2> USE DEF Goto, TypeOK
  <2>2. CASE Enter(c)
    BY <2>2 DEF Enter
  <2>3. CASE TestZero(c)
    BY <2>3 DEF TestZero
  <2>4. CASE TestAfter(c)
    BY <2>4 DEF TestAfter
  <2>5. CASE Inject(c)
    BY <2>5 DEF Inject, Families
  <2>6. CASE Load(c)
    BY <2>6 DEF Load
  <2>7. CASE Store(c)
    <3>1. spent' = spent + 1
      BY <2>7, Parameters DEF Store, Bump
    <3>2. reg[c] >= asked - spent /\ times >= asked - spent
      BY <2>7, <3>1 DEF Store
    <3>3. QED
      BY <2>7, <3>1, <3>2 DEF Store
  <2>8. CASE Disarm(c)
    BY <2>8 DEF Disarm
  <2>9. QED
    BY <1>6, <2>2, <2>3, <2>4, <2>5, <2>6, <2>7, <2>8 DEF Handler
<1>7. QED
  BY <1>1, <1>2, <1>3, <1>4, <1>5, <1>6 DEF Next, Tool

LEMMA OneAtATimeStep == TypeOK /\ OneAtATime /\ [Next]_vars => OneAtATime'
<1> SUFFICES ASSUME TypeOK, OneAtATime, [Next]_vars PROVE OneAtATime'
  OBVIOUS
<1> USE DEF OneAtATime, Quiet, modVars, cpuVars, histVars
<1>1. CASE UNCHANGED <<pc, overlapped>>
  BY <1>1
<1>2. ASSUME NEW set \in Settings, NEW n \in Counts, RunTool(set, n) PROVE OneAtATime'
  <2>1. Quiet /\ UNCHANGED pc
    BY <1>2, Zenon DEF RunTool
  <2>2. QED
    BY <2>1
<1>3. CASE Tool
  <2>1. UNCHANGED <<pc, overlapped>>
    BY <1>3 DEF Tool, WriteSetting, WriteTimes, WriteSignal
  <2>2. QED
    BY <1>1, <2>1
<1>4. ASSUME NEW c \in CPUs, Enter(c) PROVE OneAtATime'
  <2> SUFFICES ASSUME ~overlapped' PROVE \A d, e \in CPUs : pc'[d] # "out" /\ pc'[e] # "out" => d = e
    OBVIOUS
  <2>1. ~overlapped /\ Quiet
    BY <1>4, Zenon DEF Enter
  <2>2. \A d \in CPUs : d # c => pc'[d] = "out"
    BY <1>4, <2>1 DEF Enter, Goto, TypeOK
  <2>3. QED
    BY <2>2
<1>5. ASSUME NEW c \in CPUs, Handler(c), ~Enter(c) PROVE OneAtATime'
  <2>1. UNCHANGED overlapped
    BY <1>5, Zenon DEF Handler, TestZero, TestAfter, Inject, Load, Store, Disarm
  <2>2. pc[c] # "out" /\ \A d \in CPUs : d # c => pc'[d] = pc[d]
    BY <1>5 DEF Handler, TestZero, TestAfter, Inject, Load, Store, Disarm, Goto, TypeOK
  <2>3. QED
    BY <2>1, <2>2
<1>6. QED
  BY <1>1, <1>2, <1>3, <1>4, <1>5 DEF Next, vars

(***************************************************************************)
(* 5. The balance, when no two processors are in the handler at once.      *)
(***************************************************************************)

\* With one CPU in the handler the others are out of it.
LEMMA Alone ==
    ASSUME OneAtATime, ~overlapped, NEW c \in CPUs, pc[c] # "out"
    PROVE  \A d \in CPUs : d # c => pc[d] = "out"
BY DEF OneAtATime

\* One step of the handler of a counting module.
LEMMA CountingBalanceStep ==
    ASSUME TypeOK, Paths, OneAtATime, Balance, NEW c \in CPUs, Handler(c),
           asked >= 0, writes = <<>>, ~overlapped', ~rearmed, family # "one-shot"
    PROVE  CountingBalance' /\ \A d \in CPUs : pc'[d] # "out" => signal' = 1
<1> USE Parameters DEF TypeOK, Goto, modVars, cpuVars, histVars, Quiet
<1>1. ~overlapped
  BY DEF Handler, Enter, TestZero, TestAfter, Inject, Load, Store, Disarm
<1>2. CountingBalance /\ \A d \in CPUs : pc[d] # "out" => signal = 1
  BY <1>1 DEF Balance
<1>3. CASE Enter(c)
  <2>1. Quiet
    BY <1>3, Zenon DEF Enter
  <2>2. QED
    BY <1>2, <1>3, <2>1 DEF Enter, CountingBalance
<1>4. ASSUME ~Enter(c) PROVE pc[c] # "out"
  BY <1>4 DEF Handler, TestZero, TestAfter, Inject, Load, Store, Disarm
<1>5. ASSUME ~Enter(c) PROVE \A d \in CPUs : d # c => pc[d] = "out"
  BY <1>1, <1>4, <1>5, Alone
<1>6. CASE TestZero(c)
  BY <1>2, <1>5, <1>6 DEF TestZero, Enter, CountingBalance
<1>7. CASE TestAfter(c)
  BY <1>2, <1>5, <1>7 DEF TestAfter, Enter, CountingBalance
<1>8. CASE Inject(c)
  <2>1. hits' = hits + 1
    BY <1>2, <1>8 DEF Inject, CountingBalance, Bump
  <2>2. QED
    BY <1>2, <1>5, <1>8, <2>1 DEF Inject, Enter, CountingBalance, Families
<1>9. CASE Load(c)
  BY <1>2, <1>5, <1>9 DEF Load, Enter, Paths, CountingBalance
<1>10. CASE Store(c)
  <2>1. /\ reg[c] = times /\ times > 0 /\ signal = 1 /\ times' = times - 1
        /\ hits + times = IF family = "after" THEN asked ELSE asked + 1
        /\ UNCHANGED <<family, signal, reg, asked, hits>>
    BY <1>2, <1>10 DEF Store, CountingBalance
  <2>2. \A d \in CPUs : d # c => pc'[d] = "out"
    BY <1>5, <1>10 DEF Store, Enter
  <2>3. pc'[c] = IF family = "after" THEN "inject" ELSE IF times - 1 <= 0 THEN "disarm" ELSE "out"
    BY <1>10, <2>1 DEF Store
  <2>4. QED
    BY <2>1, <2>2, <2>3 DEF CountingBalance
<1>11. CASE Disarm(c)
  BY <1>2, <1>5, <1>11 DEF Disarm, Enter, CountingBalance
<1>12. QED
  BY <1>3, <1>6, <1>7, <1>8, <1>9, <1>10, <1>11 DEF Handler

\* One step of the handler of the one-shot module.
LEMMA OneShotBalanceStep ==
    ASSUME TypeOK, Paths, OneAtATime, Balance, NEW c \in CPUs, Handler(c),
           asked >= 0, writes = <<>>, ~overlapped', ~rearmed, family = "one-shot"
    PROVE  OneShotBalance' /\ \A d \in CPUs : pc'[d] # "out" => signal' = 1
<1> USE Parameters DEF TypeOK, Goto, modVars, cpuVars, histVars, Quiet
<1>1. ~overlapped
  BY DEF Handler, Enter, TestZero, TestAfter, Inject, Load, Store, Disarm
<1>2. OneShotBalance /\ \A d \in CPUs : pc[d] # "out" => signal = 1
  BY <1>1 DEF Balance
<1>3. CASE Enter(c)
  <2>1. Quiet
    BY <1>3, Zenon DEF Enter
  <2>2. QED
    BY <1>2, <1>3, <2>1 DEF Enter, OneShotBalance
<1>4. CASE Inject(c)
  <2>1. \A d \in CPUs : d # c => pc[d] = "out"
    BY <1>1, <1>4, Alone DEF Inject
  <2>2. hits' = hits + 1
    BY <1>2, <1>4 DEF Inject, OneShotBalance, Bump
  <2>3. QED
    BY <1>2, <1>4, <2>1, <2>2 DEF Inject, OneShotBalance
<1>5. CASE Disarm(c)
  <2>1. \A d \in CPUs : d # c => pc[d] = "out"
    BY <1>1, <1>5, Alone DEF Disarm
  <2>2. QED
    BY <1>2, <1>5, <2>1 DEF Disarm, OneShotBalance
<1>6. QED
  BY <1>3, <1>4, <1>5 DEF Handler, TestZero, TestAfter, Load, Store, Paths

LEMMA BalanceStep ==
    /\ TypeOK /\ Pending /\ Paths /\ OffUntilTheSwitch /\ Loaded /\ OneAtATime /\ Balance
    /\ [Next]_vars
    => Balance'
<1> SUFFICES ASSUME TypeOK, Pending, Paths, OffUntilTheSwitch, Loaded, OneAtATime, Balance,
                    [Next]_vars
             PROVE  Balance'
  OBVIOUS
<1> USE DEF modVars, cpuVars, histVars
<1>1. CASE UNCHANGED vars
  BY <1>1 DEF vars, Balance, OneShotBalance, CountingBalance, Quiet
<1>2. ASSUME NEW set \in Settings, NEW n \in Counts, RunTool(set, n) PROVE Balance'
  <2>1. writes' # <<>>
    BY <1>2, Ends DEF RunTool, ToolScript
  <2>2. QED
    BY <2>1 DEF Balance
<1>3. CASE WriteSetting
  <2>1. writes' # <<>>
    BY <1>3, WriteOrder, Ends DEF WriteSetting
  <2>2. QED
    BY <2>1 DEF Balance
<1>4. CASE WriteTimes
  <2>1. writes' # <<>>
    BY <1>4, WriteOrder, Ends DEF WriteTimes
  <2>2. QED
    BY <2>1 DEF Balance
<1>5. CASE WriteSignal
  <2>1. /\ writes # <<>> /\ Len(writes) = 1 /\ Head(writes).val = 1
        /\ writes' = <<>>
    BY <1>5, WriteOrder, Ends DEF WriteSignal
  <2>2. /\ UNCHANGED <<family, times, setting, pc, reg, asked, hits, overlapped, rearmed>>
        /\ signal' = 1
    BY <1>5, <2>1 DEF WriteSignal
  <2>3. ~rearmed => /\ Quiet /\ hits = 0
                    /\ family = "one-shot" => asked = 1
                    /\ family # "one-shot" => times = asked
    BY <2>1 DEF OffUntilTheSwitch, Loaded
  <2>4. QED
    BY <2>2, <2>3 DEF Balance, OneShotBalance, CountingBalance, Quiet, TypeOK
<1>6. ASSUME NEW c \in CPUs, Handler(c) PROVE Balance'
  <2>1. UNCHANGED <<family, writes, asked, rearmed>>
    BY <1>6, Zenon DEF Handler, Enter, TestZero, TestAfter, Inject, Load, Store, Disarm
  <2> SUFFICES ASSUME asked >= 0, writes = <<>>, ~overlapped', ~rearmed
               PROVE  /\ \A d \in CPUs : pc'[d] # "out" => signal' = 1
                      /\ family = "one-shot" => OneShotBalance'
                      /\ family # "one-shot" => CountingBalance'
    BY <2>1 DEF Balance
  <2>2. QED
    BY <1>6, CountingBalanceStep, OneShotBalanceStep
<1>7. QED
  BY <1>1, <1>2, <1>3, <1>4, <1>5, <1>6 DEF Next, Tool

(***************************************************************************)
(* 6. The parameters of the faults.                                        *)
(***************************************************************************)

LEMMA SettingsStep ==
    /\ TypeOK /\ Pending /\ OffUntilTheSwitch /\ Loaded /\ FaultsHaveTheirSettings
    /\ [Next]_vars
    => FaultsHaveTheirSettings'
<1> SUFFICES ASSUME TypeOK, Pending, OffUntilTheSwitch, Loaded, FaultsHaveTheirSettings,
                    [Next]_vars
             PROVE  FaultsHaveTheirSettings'
  OBVIOUS
<1> USE DEF FaultsHaveTheirSettings, modVars, cpuVars, histVars
<1>1. CASE UNCHANGED <<family, rearmed, faults, wanted>>
  BY <1>1
<1>2. ASSUME NEW set \in Settings, NEW n \in Counts, RunTool(set, n) PROVE FaultsHaveTheirSettings'
  <2>1. faults' = {}
    BY <1>2, Zenon DEF RunTool
  <2>2. QED
    BY <2>1
<1>3. CASE Tool
  BY <1>1, <1>3 DEF Tool, WriteSetting, WriteTimes, WriteSignal
<1>4. ASSUME NEW c \in CPUs, Inject(c) PROVE FaultsHaveTheirSettings'
  <2>1. (family # "one-shot" /\ ~rearmed) => writes = <<>>
    BY <1>4 DEF Inject, OffUntilTheSwitch, Quiet
  <2>2. (family # "one-shot" /\ ~rearmed) => setting = wanted
    BY <2>1 DEF Loaded
  <2>3. QED
    BY <1>4, <2>2 DEF Inject
<1>5. ASSUME NEW c \in CPUs, Handler(c), ~Inject(c) PROVE FaultsHaveTheirSettings'
  BY <1>1, <1>5 DEF Handler, Enter, TestZero, TestAfter, Load, Store, Disarm
<1>6. QED
  BY <1>1, <1>2, <1>3, <1>4, <1>5 DEF Next, vars

(***************************************************************************)
(* 7. The theorems.                                                        *)
(***************************************************************************)

LEMMA InitInv == Init => IInv
<1> SUFFICES ASSUME Init PROVE IInv
  OBVIOUS
<1> USE Parameters DEF Init
<1>1. TypeOK
  <2> DEFINE empty == <<>>
  <2>0. empty \in Seq(Entries)
    OBVIOUS
  <2>1. writes \in Seq(Entries) /\ overlapped \in BOOLEAN /\ rearmed \in BOOLEAN
    BY <2>0, Zenon
  <2>2. /\ pc \in [CPUs -> Places] /\ reg \in [CPUs -> Int]
        /\ asked \in -1..Cap /\ spent \in 0..Cap /\ hits \in 0..Cap
    BY DEF Places
  <2>3. /\ family \in Families /\ signal \in {0, 1} /\ times \in Int
        /\ setting \in Settings /\ wanted \in Settings /\ faults \subseteq Settings
    OBVIOUS
  <2>4. QED
    BY <2>1, <2>2, <2>3, Zenon DEF TypeOK
<1>2. Pending /\ Paths /\ OffUntilTheSwitch /\ Loaded /\ OneAtATime /\ FaultsHaveTheirSettings
  BY DEF Pending, Paths, OffUntilTheSwitch, Loaded, OneAtATime, FaultsHaveTheirSettings
<1>3. Owed /\ Balance
  BY DEF Owed, Counted, Balance, OneShotBalance, CountingBalance, Quiet
<1>4. QED
  BY <1>1, <1>2, <1>3 DEF IInv

\* The invariant holds in every reachable state.
THEOREM Invariance == Spec => []IInv
<1>1. IInv /\ [Next]_vars => IInv'
  BY TypeStep, PendingStep, PathsStep, OffStep, LoadedStep, OwedStep, OneAtATimeStep,
     BalanceStep, SettingsStep DEF IInv
<1>2. QED
  BY InitInv, <1>1, PTL DEF Spec

\* The static variables of the kernel modules keep their types.
THEOREM TypeCorrect == Spec => []TypeOK
<1>1. IInv => TypeOK
  BY DEF IInv
<1>2. QED
  BY Invariance, <1>1, PTL

\* handler_pre, ret_handler: whatever updates of the counter are lost to the
\* races of the processors, a module that is about to disarm has counted down
\* all the faults it was asked for.
THEOREM NeverTooFew == Spec => []NeverFewerThanAsked
<1>1. IInv => NeverFewerThanAsked
  <2> SUFFICES ASSUME IInv, Counted, NEW c \in CPUs, pc[c] = "disarm" PROVE spent >= asked
    BY DEF NeverFewerThanAsked
  <2>1. writes = <<>>
    BY DEF IInv, OffUntilTheSwitch, Quiet, Counted
  <2>2. QED
    BY <2>1 DEF IInv, Owed, TypeOK
<1>2. QED
  BY Invariance, <1>1, PTL

\* handler_pre, ret_handler: if no two processors are in the handler at once,
\* exactly the number of faults asked for is injected, in all three families.
THEOREM SerialIsExact == Spec => []ExactWhenSerial
<1>1. IInv => ExactWhenSerial
  <2> SUFFICES ASSUME IInv, asked >= 0, writes = <<>>, ~overlapped, ~rearmed
               PROVE  hits <= asked /\ (signal = 0 /\ Quiet => hits = asked)
    BY DEF ExactWhenSerial
  <2>1. CASE family = "one-shot"
    <3>1. OneShotBalance
      BY <2>1 DEF IInv, Balance
    <3>2. QED
      BY <2>1, <3>1 DEF IInv, OneShotBalance, Paths, Quiet, TypeOK
  <2>2. CASE family # "one-shot"
    <3>1. CountingBalance
      BY <2>2 DEF IInv, Balance
    <3>2. QED
      BY <2>2, <3>1 DEF IInv, CountingBalance, Quiet, TypeOK, Places
  <2>3. QED
    BY <2>1, <2>2
<1>2. QED
  BY Invariance, <1>1, PTL

\* The tools write the parameters before the switch: every fault is injected
\* with the parameters of its own campaign.
THEOREM SettingsInPlace == Spec => []FaultsHaveTheirSettings
<1>1. IInv => FaultsHaveTheirSettings
  BY DEF IInv
<1>2. QED
  BY Invariance, <1>1, PTL

=============================================================================
