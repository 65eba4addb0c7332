--------------------------- MODULE PtraceInjectors ---------------------------
(***************************************************************************)
(* vm_injection/reg_injector.c and mem_injector.c: tools that stop a       *)
(* process with ptrace, change one register or one word of its memory and  *)
(* let it go.  Several of them may work on the same process, which runs,   *)
(* receives signals of its own and may die between any two of their calls. *)
(*                                                                         *)
(* What the kernel does is modelled from ptrace(2): to attach sends a      *)
(* SIGSTOP; a traced process stops at every signal, whichever it is; to    *)
(* detach drops the signal it stopped at; when the tracer exits instead,   *)
(* that signal is delivered.  A process that has died is a zombie until    *)
(* its tracer, if any, has waited for it or exited, and then its parent    *)
(* has waited; to attach to it is refused, for want of permission.         *)
(***************************************************************************)
EXTENDS Integers, FiniteSets

CONSTANTS RegTools,     \* invocations of reg_injector
          MemTools,     \* invocations of mem_injector
          Loops,        \* -l: injections of each reg_injector, 0 for no end
          Invocations,  \* how the tools may have been called, together
          Width,        \* bound: the bits of a register or word, 64 in the code
          Low,          \* bound: its low bits that some faults hit, 8 in the code
          FaultOf,      \* the type of fault and the bit of each tool, -1: random
          MaxSignals,   \* bound: signals sent to the process by others
          Nobody

ASSUME ToolsAssumption ==
    /\ RegTools \cap MemTools = {} /\ Nobody \notin RegTools \cup MemTools
    /\ Loops \in [RegTools -> Nat]
    /\ MaxSignals \in Nat
ASSUME WidthAssumption == Width \in Nat \ {0} /\ Low \in 1 .. Width

Tools == RegTools \cup MemTools

\* -w: none, less than a second, or 1000000 us and more, which ualarm refuses.
\* What is in the way: the user may not trace the process, or (reg_injector)
\* there is no register of that name.
Calls == [wait : {"none", "short", "long"}, hurdle : {"none", "permission", "register"}]
ASSUME InvocationsAssumption == Invocations \subseteq [Tools -> Calls]

Bits == 0 .. Width - 1

\* -t and -b of both tools.  A bit outside the word would be a shift by more
\* than its width, which C leaves undefined; the usage asks for 0-63.
RegFaults == {"flip1", "flip2", "zero1", "zero2", "set1", "set2", "low0", "low1", "lowerr",
              "add1", "add2", "add3", "add4", "add5"}
MemFaults == {"flip", "set0", "set1", "byte"}
ASSUME FaultsAssumption ==
    /\ \A t \in RegTools : FaultOf[t].type \in RegFaults /\ FaultOf[t].bit \in Bits \cup {-1}
    /\ \A t \in MemTools : FaultOf[t].type \in MemFaults /\ FaultOf[t].bit \in Bits

VARIABLES
    \* the process
    alive,
    reaped,     \* dead, and waited for by its parent
    word,       \* word["reg"], word["mem"]: the set of the bits that are one
    tracer,     \* the tool that traces it
    trapped,    \* it is stopped for its tracer
    at,         \* the signal it is stopped at
    stopped,    \* it is stopped for good, until a SIGCONT
    pending,    \* signals sent and not yet delivered
    signals,    \* how many others have sent
    \* the tools
    args,       \* how they were called
    pc,
    seen,       \* the value a tool has read and is about to change
    count,      \* injection_count
    written,    \* the writes that succeeded
    keep,       \* keep_running
    alarm,      \* the timer of the delay: "off", "armed", "fired"
    abandoned   \* history: a tool exited without detaching

process == <<alive, reaped, word, tracer, trapped, at, stopped, pending, signals>>
tools == <<args, pc, seen, count, written, keep, alarm, abandoned>>
vars == <<process, tools>>

-----------------------------------------------------------------------------
(* The faults *)

Toggle(v, bits) == (v \ bits) \cup (bits \ v)

\* Mutant: the carry leaves the register.
Plus1_NoWrap(v) ==
    LET zeros == (0 .. Width) \ v
        least == CHOOSE b \in zeros : \A c \in zeros : b <= c
    IN  (v \ 0 .. least) \cup {least}

\* v + 1: the run of ones at the bottom turns over.
Plus1(v) ==
    LET zeros == Bits \ v
        least == CHOOSE b \in zeros : \A c \in zeros : b <= c
    IN  IF zeros = {} THEN {} ELSE (v \ 0 .. least) \cup {least}

Plus2(v) == Plus1(Plus1(v))

LowBits == 0 .. Low - 1

\* What may become of the value v; the second bit is always random.
apply_fault(v, type, bit) ==
    LET first  == IF bit >= 0 THEN {bit} ELSE Bits
        second == Bits
    IN  CASE type = "flip1"  -> {Toggle(v, {b}) : b \in first}
          [] type = "flip2"  -> {Toggle(Toggle(v, {b}), {c}) : b \in first, c \in second}
          [] type = "zero1"  -> {v \ {b} : b \in first}
          [] type = "zero2"  -> {v \ {b, c} : b \in first, c \in second}
          [] type = "set1"   -> {v \cup {b} : b \in first}
          [] type = "set2"   -> {v \cup {b, c} : b \in first, c \in second}
          [] type = "low0"   -> {v \ LowBits}
          [] type = "low1"   -> {v \cup LowBits}
          [] type = "lowerr" -> {Toggle(v, s) : s \in SUBSET LowBits}
          [] type = "add1"   -> {Plus1(v)}
          [] type = "add2"   -> {Plus2(v)}
          [] type = "add3"   -> {Plus1(Plus2(v))}
          [] type = "add4"   -> {Plus2(Plus2(v))}
          [] type = "add5"   -> {Plus1(Plus2(Plus2(v)))}

\* rand() % 0xFF: the low bits become anything but all ones.
apply_fault_logic(v, type, bit) ==
    CASE type = "flip" -> {Toggle(v, {bit})}
      [] type = "set0" -> {v \ {bit}}
      [] type = "set1" -> {v \cup {bit}}
      [] type = "byte" -> {(v \ LowBits) \cup s : s \in SUBSET LowBits \ {LowBits}}

Cell(t) == IF t \in RegTools THEN "reg" ELSE "mem"
FaultsAt(t, v) ==
    IF t \in RegTools THEN apply_fault(v, FaultOf[t].type, FaultOf[t].bit)
                      ELSE apply_fault_logic(v, FaultOf[t].type, FaultOf[t].bit)
Faults(t) == FaultsAt(t, seen[t])

-----------------------------------------------------------------------------
Init ==
    /\ alive = TRUE /\ reaped = FALSE
    /\ word \in [{"reg", "mem"} -> SUBSET Bits]
    /\ tracer = Nobody /\ trapped = FALSE /\ at = "none"
    /\ stopped = FALSE /\ pending = {} /\ signals = 0
    /\ args \in Invocations
    /\ pc = [t \in Tools |-> "attach"]
    /\ seen = [t \in Tools |-> {}]
    /\ count = [t \in Tools |-> 0]
    /\ written = [t \in Tools |-> 0]
    /\ keep = [t \in Tools |-> TRUE]
    /\ alarm = [t \in Tools |-> "off"]
    /\ abandoned = FALSE

-----------------------------------------------------------------------------
(* The process and the kernel *)

Runs == alive /\ ~ trapped /\ (stopped => tracer # Nobody)

\* It computes: its registers and its memory change.
Work ==
    /\ Runs
    /\ \E c \in DOMAIN word, v \in SUBSET Bits : word' = [word EXCEPT ![c] = v]
    /\ UNCHANGED <<alive, reaped, tracer, trapped, at, stopped, pending, signals, tools>>

\* A signal reaches it.  While it is traced it stops there.
Deliver(sig) ==
    /\ Runs /\ sig \in pending
    /\ pending' = pending \ {sig}
    /\ IF tracer # Nobody
       THEN trapped' = TRUE /\ at' = sig /\ UNCHANGED stopped
       ELSE stopped' = (stopped \/ sig = "STOP") /\ UNCHANGED <<trapped, at>>
    /\ UNCHANGED <<alive, reaped, word, tracer, signals, tools>>

\* Somebody sends a signal that the process handles: a timer, SIGCHLD, ...
Send ==
    /\ alive /\ signals < MaxSignals
    /\ signals' = signals + 1
    /\ pending' = pending \cup {"OTHER"}
    /\ UNCHANGED <<alive, reaped, word, tracer, trapped, at, stopped, tools>>

\* process_injector 3: SIGCONT also discards a SIGSTOP not yet delivered.
Continue ==
    /\ alive /\ signals < MaxSignals
    /\ signals' = signals + 1
    /\ stopped' = FALSE
    /\ pending' = (pending \ {"STOP"}) \cup {"OTHER"}
    /\ UNCHANGED <<alive, reaped, word, tracer, trapped, at, tools>>

\* SIGKILL, or an end of its own.
Dies ==
    /\ alive
    /\ alive' = FALSE
    /\ trapped' = FALSE /\ at' = "none"
    /\ stopped' = FALSE /\ pending' = {}
    /\ UNCHANGED <<reaped, word, tracer, signals, tools>>

\* Its parent waits for it, if ever; not before its tracer is done with it.
Reap ==
    /\ ~ alive /\ ~ reaped /\ tracer = Nobody
    /\ reaped' = TRUE
    /\ UNCHANGED <<alive, word, tracer, trapped, at, stopped, pending, signals, tools>>

-----------------------------------------------------------------------------
(* Calls both tools make *)

Goto(t, where) == pc' = [pc EXCEPT ![t] = where]
Held(t) == alive /\ tracer = t /\ trapped
NotCounting == UNCHANGED <<args, count, written, keep>>

\* PTRACE_ATTACH: a process that is stopped already is handed over at once.
Traces(t) ==
    /\ alive /\ tracer = Nobody /\ args[t].hurdle # "permission"
    /\ tracer' = t
    /\ pending' = pending \cup {"STOP"}
    /\ trapped' = stopped
    /\ UNCHANGED <<alive, reaped, word, at, stopped, signals>>

\* PTRACE_DETACH, without a signal.
Released(t) ==
    IF Held(t)
    THEN /\ tracer' = Nobody /\ trapped' = FALSE /\ at' = "none"
         /\ UNCHANGED <<alive, reaped, word, stopped, pending, signals>>
    ELSE UNCHANGED process

\* The tool exits while it traces.
Orphaned(t) ==
    IF tracer = t
    THEN /\ tracer' = Nobody /\ trapped' = FALSE /\ at' = "none"
         /\ stopped' = (stopped \/ at = "STOP")
         /\ UNCHANGED <<alive, reaped, word, pending, signals>>
    ELSE UNCHANGED process

\* waitpid(pid): it has stopped, or it has died and is no longer traced.
Waited(t) ==
    /\ Held(t) \/ ~ alive
    /\ tracer' = IF alive THEN tracer ELSE Nobody
    /\ UNCHANGED <<alive, reaped, word, trapped, at, stopped, pending, signals>>

\* Bound: what never ends is counted to one.
Infinite(t) == t \in RegTools /\ Loops[t] = 0
Counted(t, n) == IF Infinite(t) THEN 1 ELSE n + 1

Wrote(t) ==
    /\ \E v \in Faults(t) : word' = [word EXCEPT ![Cell(t)] = v]
    /\ written' = [written EXCEPT ![t] = Counted(t, @)]
    /\ UNCHANGED <<alive, reaped, tracer, trapped, at, stopped, pending, signals>>

-----------------------------------------------------------------------------
(* reg_injector: the loop of main *)

GoesOn(t) == keep[t] /\ (Infinite(t) \/ count[t] < Loops[t])

\* Any refusal but that there is no such process is tried again, for ever:
\* another tool traces it, the user may not, it is a zombie.
RegAttach(t) ==
    /\ pc[t] = "attach" /\ GoesOn(t)
    /\ Traces(t) /\ Goto(t, "waiting")
    /\ UNCHANGED <<seen, alarm, abandoned>> /\ NotCounting

\* Mutant: a process that is gone is waited for.
RegEnd_Retries(t) ==
    /\ pc[t] = "attach" /\ ~ GoesOn(t)
    /\ Orphaned(t) /\ Goto(t, "done") /\ alarm' = [alarm EXCEPT ![t] = "off"]
    /\ UNCHANGED <<seen, abandoned>> /\ NotCounting

\* The loop is over, or the process is gone; the timer goes with the tool.
RegEnd(t) ==
    /\ pc[t] = "attach" /\ (~ GoesOn(t) \/ reaped)
    /\ Orphaned(t) /\ Goto(t, "done") /\ alarm' = [alarm EXCEPT ![t] = "off"]
    /\ UNCHANGED <<seen, abandoned>> /\ NotCounting

RegWait(t) ==
    /\ pc[t] = "waiting" /\ Waited(t)
    /\ Goto(t, IF args[t].wait # "none" /\ count[t] = 0 THEN "delay" ELSE "read")
    /\ UNCHANGED <<seen, alarm, abandoned>> /\ NotCounting

\* ualarm, which nobody asks whether it was accepted, then PTRACE_CONT: the
\* process runs on, still traced.
RegDelay(t) ==
    /\ pc[t] = "delay"
    /\ IF Held(t)
       THEN /\ trapped' = FALSE /\ at' = "none" /\ Goto(t, "delaying")
            /\ alarm' = IF args[t].wait = "short" THEN [alarm EXCEPT ![t] = "armed"] ELSE alarm
            /\ UNCHANGED <<alive, reaped, word, tracer, stopped, pending, signals>>
       ELSE /\ Orphaned(t) /\ Goto(t, "done") /\ UNCHANGED alarm
    /\ UNCHANGED <<seen, abandoned>> /\ NotCounting

\* alarm_handler: kill(pid, SIGSTOP), wherever the tool is by now.
Alarm(t) ==
    /\ alarm[t] = "armed"
    /\ alarm' = [alarm EXCEPT ![t] = "fired"]
    /\ pending' = IF alive THEN pending \cup {"STOP"} ELSE pending
    /\ UNCHANGED <<alive, reaped, word, tracer, trapped, at, stopped, signals, pc, seen, abandoned>>
    /\ NotCounting

\* Mutant: the delay is not waited for.
RegDelayed_NoWait(t) ==
    /\ pc[t] = "delaying"
    /\ Goto(t, IF alive THEN "read" ELSE "done")
    /\ alarm' = IF alive THEN alarm ELSE [alarm EXCEPT ![t] = "off"]
    /\ UNCHANGED <<process, seen, abandoned>> /\ NotCounting

\* The second waitpid returns at any stop, the alarm's or another.
RegDelayed(t) ==
    /\ pc[t] = "delaying" /\ Waited(t)
    /\ Goto(t, IF alive THEN "read" ELSE "done")
    /\ alarm' = IF alive THEN alarm ELSE [alarm EXCEPT ![t] = "off"]
    /\ UNCHANGED <<seen, abandoned>> /\ NotCounting

\* Mutant: the process runs between the read and the write.
RegRead_LetsGo(t) ==
    /\ pc[t] = "read"
    /\ seen' = [seen EXCEPT ![t] = word["reg"]]
    /\ count' = [count EXCEPT ![t] = Counted(t, @)]
    /\ Released(t) /\ Goto(t, "write")
    /\ UNCHANGED <<args, written, keep, alarm, abandoned>>

\* PTRACE_GETREGSET; then the fault is computed and counted.
RegRead(t) ==
    /\ pc[t] = "read" /\ ~ (Held(t) /\ args[t].hurdle = "register")
    /\ IF Held(t)
       THEN /\ seen' = [seen EXCEPT ![t] = word["reg"]]
            /\ count' = [count EXCEPT ![t] = Counted(t, @)]
            /\ Goto(t, "write")
       ELSE Goto(t, "attach") /\ UNCHANGED <<seen, count>>
    /\ UNCHANGED <<process, args, written, keep, alarm, abandoned>>

\* No register of that name: it detaches and exits with an error.
RegUnknown(t) ==
    /\ pc[t] = "read" /\ t \in RegTools /\ Held(t) /\ args[t].hurdle = "register"
    /\ Released(t) /\ Goto(t, "failed") /\ alarm' = [alarm EXCEPT ![t] = "off"]
    /\ UNCHANGED <<seen, abandoned>> /\ NotCounting

\* PTRACE_SETREGSET; a failure is printed, and the round counts all the same.
RegWrite(t) ==
    /\ pc[t] = "write" /\ t \in RegTools
    /\ IF Held(t) THEN Wrote(t) ELSE UNCHANGED <<process, written>>
    /\ Goto(t, "detach")
    /\ seen' = [seen EXCEPT ![t] = {}]
    /\ UNCHANGED <<args, count, keep, alarm, abandoned>>

RegDetach(t) ==
    /\ pc[t] = "detach" /\ t \in RegTools
    /\ Released(t) /\ Goto(t, "attach")
    /\ UNCHANGED <<seen, alarm, abandoned>> /\ NotCounting

\* Ctrl-C: sigint_handler.
Interrupt(t) ==
    /\ keep[t] /\ pc[t] # "done"
    /\ keep' = [keep EXCEPT ![t] = FALSE]
    /\ UNCHANGED <<process, args, pc, seen, count, written, alarm, abandoned>>

RegStep(t) ==
    \/ RegAttach(t) \/ RegEnd(t) \/ RegWait(t) \/ RegDelay(t) \/ RegDelayed(t)
    \/ RegRead(t) \/ RegUnknown(t) \/ RegWrite(t) \/ RegDetach(t)

-----------------------------------------------------------------------------
(* mem_injector: main, once *)

Ends(t, how) ==
    /\ Goto(t, how)
    /\ UNCHANGED <<seen, alarm>> /\ NotCounting

\* die() and exit(): the tool ends as it is.
Abandons(t) ==
    /\ Orphaned(t) /\ Ends(t, "failed")
    /\ abandoned' = (abandoned \/ (alive /\ tracer = t))

MemAttach(t) ==
    /\ pc[t] = "attach"
    /\ Traces(t) /\ Goto(t, "waiting")
    /\ UNCHANGED <<seen, alarm, abandoned>> /\ NotCounting

\* ptrace_attach: "Attach failed", for whatever reason.
MemRefused(t) ==
    /\ pc[t] = "attach"
    /\ ~ alive \/ tracer # Nobody \/ args[t].hurdle = "permission"
    /\ Abandons(t)

MemWait(t) ==
    /\ pc[t] = "waiting" /\ Waited(t)
    /\ Goto(t, "search")
    /\ UNCHANGED <<seen, alarm, abandoned>> /\ NotCounting

\* -a, the guess or the scan yields an address.
MemFound(t) ==
    /\ pc[t] = "search" /\ Goto(t, "read")
    /\ UNCHANGED <<process, seen, alarm, abandoned>> /\ NotCounting

\* Mutant: the scan that finds nothing just exits.
MemNotFound_NoDetach(t) ==
    /\ pc[t] = "search"
    /\ Orphaned(t) /\ Ends(t, "failed")
    /\ UNCHANGED abandoned

\* scan_memory_for_pattern finds nothing: it detaches and exits.
MemNotFound(t) ==
    /\ pc[t] = "search"
    /\ IF alive THEN Released(t) ELSE Orphaned(t)
    /\ Ends(t, "failed")
    /\ UNCHANGED abandoned

\* No such region, or no maps file: exit without a detach.
MemNoRegion(t) == pc[t] = "search" /\ Abandons(t)

\* PTRACE_PEEKDATA, whose error is not looked at.
MemRead(t) ==
    /\ pc[t] = "read" /\ t \in MemTools
    /\ seen' = [seen EXCEPT ![t] = IF Held(t) THEN word["mem"] ELSE Bits]
    /\ Goto(t, "write")
    /\ UNCHANGED <<process, alarm, abandoned>> /\ NotCounting

\* PTRACE_POKEDATA
MemWrite(t) ==
    /\ pc[t] = "write" /\ t \in MemTools
    /\ Held(t) /\ Wrote(t)
    /\ Goto(t, "detach")
    /\ seen' = [seen EXCEPT ![t] = {}]
    /\ UNCHANGED <<args, count, keep, alarm, abandoned>>

\* "Write memory failed": an address that is not mapped, or no process.
MemWriteFails(t) == pc[t] = "write" /\ t \in MemTools /\ Abandons(t)

MemDetach(t) ==
    /\ pc[t] = "detach" /\ t \in MemTools
    /\ IF Held(t) THEN Released(t) /\ Ends(t, "done") ELSE Orphaned(t) /\ Ends(t, "failed")
    /\ UNCHANGED abandoned

\* Ctrl-C: mem_injector has no handler.
MemInterrupt(t) == pc[t] \notin {"attach", "done", "failed"} /\ Abandons(t)

MemStep(t) ==
    \/ MemAttach(t) \/ MemRefused(t) \/ MemWait(t) \/ MemFound(t) \/ MemNotFound(t)
    \/ MemNoRegion(t) \/ MemRead(t) \/ MemWrite(t) \/ MemWriteFails(t) \/ MemDetach(t)

-----------------------------------------------------------------------------
Kernel == \E sig \in pending : Deliver(sig)

Ended(t) == pc[t] \in {"done", "failed"}

\* Every tool has ended: what the process does from here on is its own affair.
AllEnded == (\A t \in Tools : Ended(t)) /\ UNCHANGED vars

Next ==
    \/ Work \/ Kernel \/ Send \/ Continue \/ Dies \/ Reap
    \/ \E t \in RegTools : RegStep(t) \/ Alarm(t) \/ Interrupt(t)
    \/ \E t \in MemTools : MemStep(t) \/ MemInterrupt(t)
    \/ AllEnded

\* The kernel delivers a signal to a process that runs, timers expire and the
\* tools are scheduled.  A reg_injector that is refused tries again every 50 ms,
\* and a looping one leaves the process alone for as long: it gets its turn.
Fairness ==
    /\ WF_vars(Kernel)
    /\ \A t \in RegTools : SF_vars(RegStep(t)) /\ WF_vars(Alarm(t))
    /\ \A t \in MemTools : WF_vars(MemStep(t))

Spec == Init /\ [][Next]_vars /\ Fairness

-----------------------------------------------------------------------------
(* Properties *)

Places == {"attach", "waiting", "delay", "delaying", "search", "read", "write",
           "detach", "done", "failed"}

\* The type of every variable of the two tools and of their process.
TypeOK ==
    /\ alive \in BOOLEAN /\ reaped \in BOOLEAN /\ trapped \in BOOLEAN /\ stopped \in BOOLEAN
    /\ word \in [{"reg", "mem"} -> SUBSET Bits]
    /\ tracer \in Tools \cup {Nobody} /\ at \in {"none", "STOP", "OTHER"}
    /\ pending \subseteq {"STOP", "OTHER"} /\ signals \in 0 .. MaxSignals
    /\ args \in [Tools -> Calls]
    /\ pc \in [Tools -> Places]
    /\ seen \in [Tools -> SUBSET Bits]
    /\ count \in [Tools -> Nat] /\ written \in [Tools -> Nat]
    /\ keep \in [Tools -> BOOLEAN]
    /\ alarm \in [Tools -> {"off", "armed", "fired"}]
    /\ abandoned \in BOOLEAN

\* With no signals but those of the tools, and no tool that exited without
\* detaching, a process that nobody traces runs: no SIGSTOP of an attach or of
\* a delay is left behind for it.
NotLeftStopped ==
    (signals = 0 /\ ~ abandoned /\ tracer = Nobody) => ~ stopped /\ pending = {}

\* With no signals but those of the tools, and none of them gone without
\* detaching, an injection with -w comes when its delay is over, and not at
\* somebody else's stop (reg_injector.c: the second waitpid takes any stop).
DelayHonoured ==
    (signals = 0 /\ ~ abandoned) =>
        \A t \in RegTools :
            args[t].wait # "none" /\ pc[t] = "read" => alarm[t] = "fired" \/ ~ alive

\* It waits for the timer that ualarm refused to set: no other stop, no Ctrl-C
\* (signal() restarts the waitpid) and no end of the wait.
Wedged(t) == pc[t] = "delaying" /\ alarm[t] = "off" /\ alive

\* Why a tool may go on for ever: it was asked to; its own delay of a second or
\* more; or the attach is refused again and again, as it is by a process that
\* the user may not trace, that is dead and not reaped (since its parent does
\* not, or since this tool itself still traces the zombie), or that a wedged
\* tool keeps.
Stuck(t) ==
    \/ Infinite(t) /\ keep[t]
    \/ Wedged(t)
    \/ /\ pc[t] = "attach" /\ t \in RegTools /\ GoesOn(t) /\ ~ reaped
       /\ \/ args[t].hurdle = "permission" \/ ~ alive
          \/ \E u \in Tools : tracer = u /\ Wedged(u)

\* However many tools compete for the process and whatever becomes of it, every
\* invocation ends, except for the reasons that Stuck names; mem_injector and an
\* invocation that was interrupted between its injections always do.
InvocationsEnd == \A t \in Tools : <>Ended(t) \/ <>[]Stuck(t)

\* What the tools promise together (module AtomicFaults): however their calls
\* interleave with each other, with signals and with the death of the process,
\* each injection is one atomic fault of the value that is there, -l is never
\* exceeded, and the number reported at the end is the number injected
\* (mem_injector.c: the attach comes before the address is computed;
\* reg_injector.c: injection_count).
Claim(t) ==
    CASE pc[t] = "done" -> IF t \in RegTools THEN count[t] ELSE 1
      [] pc[t] = "failed" -> -2
      [] OTHER -> -1

Atomic == INSTANCE AtomicFaults WITH
    Cells <- {"reg", "mem"}, Values <- SUBSET Bits,
    Place <- [t \in Tools |-> Cell(t)],
    Outcome <- [t \in Tools |-> [v \in SUBSET Bits |-> FaultsAt(t, v)]],
    Limit <- [t \in Tools |-> IF t \in RegTools /\ ~ Infinite(t) THEN Loops[t] ELSE 1],
    hits <- written, claimed <- [t \in Tools |-> Claim(t)]

FaultsAreAtomic == Atomic!Spec

\* mem_injector ends with "injection done, the process has resumed": then it is
\* not stopped, and nothing is under way that will stop it.
Resumes ==
    \A t \in MemTools : pc[t] = "done" => ~ stopped /\ "STOP" \notin pending
=============================================================================
