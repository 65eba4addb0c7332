----------------------------- MODULE LoadVictims -----------------------------
(***************************************************************************)
(* Two victims and the injectors that take their machine away from them:   *)
(* target_cpu.c (and the cpu_monitor of target.c) under cpu_injector.c,    *)
(* target_res.c under memleak_injector.c.  system_monitor of target_res    *)
(* only prints, and the time that malloc itself takes is left out: the     *)
(* memory is had when it is written to.                                    *)
(***************************************************************************)
EXTENDS Victim

CONSTANTS Cores,        \* of the machine
          Threadings,   \* the numbers of threads cpu_injector is asked for
          Most,         \* bound: 256 in the code
          Memory,       \* the memory the victim and the leak share, in blocks
          Leaks         \* the sizes memleak_injector is asked for, in blocks

ASSUME LoadAssumption ==
    /\ Cores \in Nat \ {0} /\ Most \in Nat \ {0} /\ Threadings \subseteq Int
    /\ Memory \in Nat \ {0} /\ Leaks \subseteq Nat

VARIABLES stress,   \* what main of cpu_injector is at
          threads,  \* num_threads
          nth,      \* the thread it creates or joins
          created,  \* the threads that pthread_create has made
          burning,  \* those that run
          pressing, \* cpu_injector's own keep_running
          working,  \* the worker measures a round
          load,     \* the round met "no" load, "some", or full load throughout
          rounds,   \* cnt: the rounds of the baseline
          slows,    \* those of them that were slow
          verdict,  \* "none", "ok" or "degraded"
          leak,     \* what memleak_injector is at
          size,     \* size_mb
          eaten,    \* the blocks it has written
          tester,   \* what memory_tester is at
          block,    \* the blocks the tester has written
          round,    \* its round, up to four
          before,   \* avail_before
          base,     \* baseline_free_mem
          level     \* alert_level

stressVars == <<stress, threads, nth, created, burning, pressing>>
workerVars == <<working, load, rounds, slows, verdict>>
leakVars == <<leak, size, eaten>>
testerVars == <<tester, block, round, before, base, level>>
cpuVars == <<stressVars, workerVars>>
resVars == <<leakVars, testerVars>>

LoadInit ==
    /\ stress = "ready" /\ threads = 0 /\ nth = 1
    /\ created = {} /\ burning = {} /\ pressing = TRUE
    /\ working = FALSE /\ load = "no" /\ rounds = 0 /\ slows = 0 /\ verdict = "none"
    /\ leak = "ready" /\ size = 0 /\ eaten = 0
    /\ tester = "idle" /\ block = 0 /\ round = 0 /\ before = 0 /\ base = -1 /\ level = 0

-----------------------------------------------------------------------------
(* cpu_injector *)

\* Thread i is bound to core i % Cores; the victim runs where there is room.
Load(b) == IF b = {} THEN "no" ELSE IF Cardinality({i % Cores : i \in b}) = Cores THEN "all" ELSE "some"

Burning(b) ==
    /\ burning' = b
    /\ load' = IF load = Load(b) THEN load ELSE "some"
    /\ UNCHANGED <<working, rounds, slows, verdict>>

\* Mutant: more threads than there is room for.
num_threads_NoLimit(n) == IF n <= 0 THEN 2 * Cores ELSE n

num_threads(n) ==
    LET asked == IF n <= 0 THEN 2 * Cores ELSE n
    IN  IF asked > Most THEN Most ELSE asked

StressStarts ==
    /\ program = "target_cpu" /\ stress = "ready"
    /\ \E n \in Threadings : threads' = num_threads(n)
    /\ stress' = "creates"
    /\ UNCHANGED <<mainVars, nth, created, burning, pressing, workerVars, resVars>>

\* pthread_create; a failure is printed, and the loop goes on.
Create ==
    /\ stress = "creates" /\ nth <= threads
    /\ nth' = nth + 1
    /\ \/ created' = created \cup {nth} /\ Burning(burning \cup {nth})
       \/ UNCHANGED <<created, burning, workerVars>>
    /\ UNCHANGED <<mainVars, stress, threads, pressing, resVars>>

\* Mutant: the flag is left up.
TimeUp_KeepsRunning ==
    /\ stress = "creates" /\ nth > threads
    /\ stress' = "joins" /\ nth' = 1
    /\ UNCHANGED <<mainVars, threads, created, burning, pressing, workerVars, resVars>>

\* The seconds are counted down; keep_running = 0.
TimeUp ==
    /\ stress = "creates" /\ nth > threads
    /\ pressing' = FALSE
    /\ stress' = "joins" /\ nth' = 1
    /\ UNCHANGED <<mainVars, threads, created, burning, workerVars, resVars>>

BurnEnds(i) ==
    /\ i \in burning /\ ~ pressing
    /\ Burning(burning \ {i})
    /\ UNCHANGED <<mainVars, stress, threads, nth, created, pressing, resVars>>

\* pthread_join of every number.  The one of a thread that was not created was
\* never written: the call returns an error or kills the program.
Join ==
    /\ stress = "joins" /\ nth <= threads
    /\ nth \notin burning
    /\ \/ nth' = nth + 1 /\ UNCHANGED <<stress, burning, workerVars>>
       \/ /\ nth \notin created
          /\ stress' = "crashed" /\ Burning({})
          /\ UNCHANGED nth
    /\ UNCHANGED <<mainVars, threads, created, pressing, resVars>>

StressEnds ==
    /\ stress = "joins" /\ nth > threads
    /\ stress' = "ended" /\ Burning({})
    /\ UNCHANGED <<mainVars, threads, nth, created, pressing, resVars>>

StressStep ==
    StressStarts \/ Create \/ TimeUp \/ (\E i \in burning : BurnEnds(i)) \/ Join \/ StressEnds

-----------------------------------------------------------------------------
(* cpu_worker *)

RoundBegins ==
    /\ Runs("cpu_worker") /\ ~ working /\ keep_running
    /\ working' = TRUE /\ load' = Load(burning)
    /\ UNCHANGED <<mainVars, stressVars, rounds, slows, verdict, resVars>>

\* A round is slow if it had to share all the time, and fast if it never had.
Scores == CASE load = "all" -> {"slow"} [] load = "no" -> {"fast"} [] OTHER -> {"slow", "fast"}

\* Against the mean of the first three rounds.  A fast one is never below it by
\* the 5 % that are called a degradation; a slow one is if all were fast, is
\* not if none was, and may be otherwise.
Verdicts(score) ==
    IF score = "fast" \/ slows = 3 THEN {"ok"} ELSE IF slows = 0 THEN {"degraded"} ELSE {"ok", "degraded"}

RoundEnds ==
    /\ Runs("cpu_worker") /\ working
    /\ working' = FALSE
    /\ \E score \in Scores :
          IF rounds < 3
          THEN /\ rounds' = rounds + 1
               /\ slows' = IF score = "slow" THEN slows + 1 ELSE slows
               /\ UNCHANGED verdict
          ELSE verdict' \in Verdicts(score) /\ UNCHANGED <<rounds, slows>>
    /\ UNCHANGED <<mainVars, stressVars, load, resVars>>

WorkerEnds ==
    /\ Runs("cpu_worker") /\ ~ working /\ ~ keep_running
    /\ Returns("cpu_worker")
    /\ UNCHANGED <<cpuVars, resVars>>

Works == RoundBegins \/ RoundEnds \/ WorkerEnds

-----------------------------------------------------------------------------
(* memleak_injector *)

Free == Memory - eaten - block

LeakStarts ==
    /\ program = "target_res" /\ leak = "ready"
    /\ size' \in Leaks /\ leak' = "eats"
    /\ UNCHANGED <<mainVars, eaten, testerVars, cpuVars>>

\* Memory is written to and none is left: the kernel kills one or the other.
LeakIsKilled == leak' = "killed" /\ eaten' = 0 /\ UNCHANGED <<mainVars, size, testerVars, cpuVars>>
VictimIsKilled ==
    /\ main' = "ended" /\ block' = 0
    /\ UNCHANGED <<program, keep_running, returned, held, leakVars, tester, round, before, base,
                   level, cpuVars>>

Eat ==
    /\ leak = "eats" /\ eaten < size
    /\ IF Free > 0
       THEN eaten' = eaten + 1 /\ UNCHANGED <<mainVars, leak, size, testerVars, cpuVars>>
       ELSE LeakIsKilled \/ (Alive /\ VictimIsKilled)

\* All was had, or malloc returned NULL, which it may only when memory is short.
Hold ==
    /\ leak = "eats" /\ (eaten >= size \/ Free = 0)
    /\ leak' = "holds"
    /\ UNCHANGED <<mainVars, size, eaten, testerVars, cpuVars>>

\* A minute later the program ends, and its memory is free.
LeakEnds ==
    /\ leak = "holds"
    /\ leak' = "ended" /\ eaten' = 0
    /\ UNCHANGED <<mainVars, size, testerVars, cpuVars>>

LeakStep == LeakStarts \/ Eat \/ Hold \/ LeakEnds

-----------------------------------------------------------------------------
(* memory_tester *)

Testing(here, next) == Runs("memory_tester") /\ tester = here /\ tester' = next

\* round++, get_mem_info, malloc; without memory it may return NULL, and the
\* round ends there, a round of the baseline too.
Ask ==
    /\ \E next \in {"idle", "writes"} :
          Testing("idle", next) /\ (next = "idle" => Free = 0)
    /\ keep_running
    /\ round' = IF round < 4 THEN round + 1 ELSE 4
    /\ before' = Free
    /\ UNCHANGED <<mainVars, block, base, level, leakVars, cpuVars>>

Write ==
    /\ Runs("memory_tester") /\ tester = "writes"
    /\ IF Free > 0
       THEN /\ tester' = "judges" /\ block' = 1
            /\ UNCHANGED <<mainVars, round, before, base, level, leakVars, cpuVars>>
       ELSE VictimIsKilled \/ (eaten > 0 /\ LeakIsKilled)

\* mem_ratio < tenths / 10; with the baseline never taken it is negative.
Below(tenths) == base < 0 \/ 10 * before < tenths * base

\* free, and the third round is the baseline.
Assess ==
    /\ Testing("judges", "idle")
    /\ block' = 0
    /\ base' = IF round = 3 THEN before ELSE base
    /\ level' = IF round <= 3 THEN level
                ELSE IF Below(3) THEN 3 ELSE IF Below(5) THEN 2 ELSE IF Below(7) THEN 1 ELSE 0
    /\ UNCHANGED <<mainVars, round, before, leakVars, cpuVars>>

TesterEnds ==
    /\ Runs("memory_tester") /\ tester = "idle" /\ ~ keep_running
    /\ Returns("memory_tester")
    /\ UNCHANGED <<cpuVars, resVars>>

Tests == Ask \/ Write \/ Assess \/ TesterEnds

LoadStep == StressStep \/ Works \/ LeakStep \/ Tests

\* The real-time threads of cpu_injector leave the others the share that the
\* kernel keeps back for them.
LoadFairness ==
    LET v == <<mainVars, cpuVars, resVars>>
    IN  /\ WF_v(Create \/ TimeUp \/ Join \/ StressEnds)
        /\ \A i \in 1 .. Most : WF_v(BurnEnds(i))
        /\ WF_v(Works)
        /\ WF_v(Eat \/ Hold \/ LeakEnds)
        /\ WF_v(Tests)

-----------------------------------------------------------------------------
LoadTypeOK ==
    /\ stress \in {"ready", "creates", "joins", "ended", "crashed"}
    /\ threads \in 0 .. Most /\ nth \in 1 .. threads + 1
    /\ burning \subseteq created /\ created \subseteq 1 .. threads
    /\ pressing \in BOOLEAN /\ working \in BOOLEAN /\ load \in {"no", "some", "all"}
    /\ rounds \in 0 .. 3 /\ slows \in 0 .. rounds /\ verdict \in {"none", "ok", "degraded"}
    /\ leak \in {"ready", "eats", "holds", "ended", "killed"} /\ size \in Leaks \cup {0}
    /\ eaten \in 0 .. size /\ block \in 0 .. 1 /\ Free \in 0 .. Memory
    /\ tester \in {"idle", "writes", "judges"} /\ round \in 0 .. 4
    /\ before \in 0 .. Memory /\ base \in -1 .. Memory /\ level \in 0 .. 3

\* An injector that was started comes to its end, and nothing of it stays: all
\* threads are joined, or die with the program, also when some of them could
\* not be created; and the leak is released, or was killed (cpu_injector,
\* memleak_injector).
LoadsEnd ==
    /\ (stress = "creates") ~> (stress \in {"ended", "crashed"} /\ burning = {})
    /\ (leak = "eats") ~> (leak \in {"ended", "killed"} /\ eaten = 0)

\* The alarm ceases: once the load is gone the victim finds its machine as good
\* as it was, whenever its baseline was measured (cpu_worker, memory_tester).
\* Excepted is a tester whose malloc failed in the round of the baseline: it
\* has none, and calls every later round critical.
AlarmsCease ==
    /\ <>[](stress \in {"ended", "crashed"} /\ keep_running) => <>[](verdict = "ok")
    /\ <>[](leak \in {"ended", "killed"} /\ Alive /\ keep_running /\ base >= 0)
          => <>[](level = 0)
=============================================================================
