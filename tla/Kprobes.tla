------------------------------- MODULE Kprobes -------------------------------
(***************************************************************************)
(* The kernel modules of kvm_injection: a kprobe on a kernel function      *)
(* injects a fault into the next calls of it, as many as the operator      *)
(* asked for through files under /proc.  The handler runs on every CPU     *)
(* that calls the function, and shares plain integers with the other CPUs  *)
(* and with the /proc files, without a lock: every access is one step.     *)
(*                                                                         *)
(* The modules come in three families, which differ in when they count and *)
(* when they disarm:                                                       *)
(*   "at-zero"   inject, count down, disarm when zero is stored            *)
(*               (cpu-reg, pt-load, pt-update, kswapd, file-read,          *)
(*               file-write, kvm-state, kvm-version)                       *)
(*   "after"     count down, inject; the call that finds zero disarms; -1  *)
(*               never ends (resource, memory)                             *)
(*   "one-shot"  inject once, disarm (vm-migration)                        *)
(***************************************************************************)
EXTENDS Integers, Sequences

CONSTANTS
    CPUs,       \* the processors that may run the handler at the same time
    Counts,     \* the numbers of faults an operator may ask for; -1: no end
    Settings,   \* the fault parameters: type, position, aim, class...
    Cap         \* history counters stop here, above every number asked for

ASSUME Parameters ==
    /\ Counts \subseteq Int /\ \A n \in Counts : n >= -1
    /\ Cap \in Nat \ {0} /\ \A n \in Counts : n <= Cap
    /\ Settings # {}

Families == {"at-zero", "after", "one-shot"}

VARIABLES
    family,     \* which kind of module is loaded
    signal,     \* inject_signal
    times,      \* fault_times, time_cnt
    setting,    \* fault_type, position, fault_aim, target_class...
    pc,         \* pc[c]: where CPU c is in the handler
    reg,        \* reg[c]: the value of times CPU c has loaded
    writes,     \* the /proc writes the operator's tool has still to make
    \* history, read by properties only
    asked,      \* the number of faults the campaign asks for
    wanted,     \* the parameters it asks for
    spent,      \* how many faults have been counted down since
    hits,       \* how many faults have been injected since
    overlapped, \* two CPUs have been in the handler at once since
    rearmed,    \* the module was still on when the operator started it
    faults      \* the parameters of the faults injected since

modVars  == <<family, signal, times, setting>>
cpuVars  == <<pc, reg>>
histVars == <<asked, wanted, spent, hits, overlapped, rearmed, faults>>
vars     == <<modVars, cpuVars, writes, histVars>>

Init ==
    /\ family \in Families
    /\ signal = 0 /\ times = 0 /\ setting \in Settings
    /\ pc  = [c \in CPUs |-> "out"]
    /\ reg = [c \in CPUs |-> 0]
    /\ writes = <<>>
    /\ asked = 0 /\ wanted = setting /\ spent = 0 /\ hits = 0
    /\ overlapped = FALSE /\ rearmed = FALSE /\ faults = {}

Bump(n) == IF n < Cap THEN n + 1 ELSE n
-----------------------------------------------------------------------------
(* The operator's tool: one echo per parameter, the switch last.           *)

Quiet == \A c \in CPUs : pc[c] = "out"

W(file, val) == [file |-> file, val |-> val]

ToolScript_SwitchEarly(set, n) ==
    IF family = "one-shot" THEN <<W("signal", 1)>>
    ELSE <<W("times", n), W("signal", 1), W("setting", set)>>

\* One echo per parameter, the switch last; the one-shot module has no
\* parameter.
ToolScript(set, n) ==
    IF family = "one-shot" THEN <<W("signal", 1)>>
    ELSE <<W("setting", set), W("times", n), W("signal", 1)>>

\* The tool asks its questions one by one: the next campaign starts when the
\* last one is over, or will never be (no fault asked for, or no end).
RunTool(set, n) ==
    /\ writes = <<>>
    /\ Quiet /\ (signal = 0 \/ asked <= 0)
    /\ writes' = ToolScript(set, n)
    /\ asked' = IF family = "one-shot" THEN 1 ELSE n
    /\ wanted' = set
    /\ rearmed' = (signal = 1)
    /\ spent' = 0 /\ hits' = 0 /\ overlapped' = FALSE /\ faults' = {}
    /\ UNCHANGED <<modVars, cpuVars>>

Writes(file) == writes # <<>> /\ Head(writes).file = file /\ writes' = Tail(writes)

WriteSetting ==
    /\ Writes("setting")
    /\ setting' = Head(writes).val
    /\ UNCHANGED <<family, signal, times, cpuVars, histVars>>

WriteTimes ==
    /\ Writes("times")
    /\ times' = Head(writes).val
    /\ UNCHANGED <<family, signal, setting, cpuVars, histVars>>

WriteSignal_Number ==
    /\ Writes("signal")
    /\ signal' = asked
    /\ UNCHANGED <<family, times, setting, cpuVars, histVars>>

WriteSignal ==
    /\ Writes("signal")
    /\ signal' = Head(writes).val
    /\ UNCHANGED <<family, times, setting, cpuVars, histVars>>
-----------------------------------------------------------------------------
(* The handler on CPU c                                                     *)

Goto(c, where) == pc' = [pc EXCEPT ![c] = where]

\* The function is called and the switch is read; unless it is on, the
\* handler returns at once.  So it does for a call of the other class
\* (memory) or with another result (kvm-version): those calls leave no trace.
Enter(c) ==
    /\ pc[c] = "out" /\ signal # 0
    /\ Goto(c, IF family = "one-shot" THEN "inject" ELSE "test")
    /\ overlapped' = (overlapped \/ ~Quiet)
    /\ UNCHANGED <<modVars, reg, writes, asked, wanted, spent, hits, rearmed, faults>>

TestZero_GE(c) ==
    /\ pc[c] = "test" /\ family = "at-zero"
    /\ Goto(c, IF times >= 0 THEN "inject" ELSE "out")
    /\ UNCHANGED <<modVars, reg, writes, histVars>>

\* if (inject_signal && fault_times > 0)
TestZero(c) ==
    /\ pc[c] = "test" /\ family = "at-zero"
    /\ Goto(c, IF times > 0 THEN "inject" ELSE "out")
    /\ UNCHANGED <<modVars, reg, writes, histVars>>

TestAfter_DisarmAtOne(c) ==
    /\ pc[c] = "test" /\ family = "after"
    /\ reg' = [reg EXCEPT ![c] = times]
    /\ Goto(c, IF times = -1 THEN "inject" ELSE IF times > 1 THEN "store" ELSE "disarm")
    /\ UNCHANGED <<modVars, writes, histVars>>

\* if (time_cnt != -1) { if (time_cnt > 0) ... else ... }: one load.
TestAfter(c) ==
    /\ pc[c] = "test" /\ family = "after"
    /\ reg' = [reg EXCEPT ![c] = times]
    /\ Goto(c, IF times = -1 THEN "inject" ELSE IF times > 0 THEN "store" ELSE "disarm")
    /\ UNCHANGED <<modVars, writes, histVars>>

\* The fault itself: inject_fault_arm64, change_arm64, a forced result...
Inject(c) ==
    /\ pc[c] = "inject"
    /\ hits'   = Bump(hits)
    /\ faults' = faults \cup {setting}
    /\ Goto(c, CASE family = "at-zero"  -> "load"
                 [] family = "after"    -> "out"
                 [] family = "one-shot" -> "disarm")
    /\ UNCHANGED <<modVars, reg, writes, asked, wanted, spent, overlapped, rearmed>>

\* fault_times--, first half: the load comes after calls into the kernel.
Load(c) ==
    /\ pc[c] = "load"
    /\ reg' = [reg EXCEPT ![c] = times]
    /\ Goto(c, "store")
    /\ UNCHANGED <<modVars, writes, histVars>>

\* fault_times--, second half, and the test of what was stored.
Store(c) ==
    /\ pc[c] = "store"
    /\ times' = reg[c] - 1
    /\ spent' = Bump(spent)
    /\ Goto(c, IF family = "after" THEN "inject"
               ELSE IF reg[c] - 1 <= 0 THEN "disarm" ELSE "out")
    /\ UNCHANGED <<family, signal, setting, reg, writes, asked, wanted, hits,
                   overlapped, rearmed, faults>>

Disarm_Keep(c) ==
    /\ pc[c] = "disarm"
    /\ Goto(c, "out")
    /\ UNCHANGED <<modVars, reg, writes, histVars>>

\* inject_signal = 0
Disarm(c) ==
    /\ pc[c] = "disarm"
    /\ signal' = 0
    /\ Goto(c, "out")
    /\ UNCHANGED <<family, times, setting, reg, writes, histVars>>

Handler(c) ==
    Enter(c) \/ TestZero(c) \/ TestAfter(c) \/ Inject(c) \/ Load(c) \/ Store(c) \/ Disarm(c)

Tool == WriteSetting \/ WriteTimes \/ WriteSignal

Next ==
    \/ \E set \in Settings, n \in Counts : RunTool(set, n)
    \/ Tool
    \/ \E c \in CPUs : Handler(c)

Spec == Init /\ [][Next]_vars

\* The tool runs to its end, and every CPU keeps calling the probed function
\* (the operator is told to make calls that trigger it).
FairSpec == Spec /\ WF_vars(Tool) /\ \A c \in CPUs : WF_vars(Handler(c))
-----------------------------------------------------------------------------
(* Properties *)

Entries == [file : {"setting"}, val : Settings] \cup [file : {"times"}, val : Counts]
           \cup [file : {"signal"}, val : {1}]

Places == {"out", "test", "inject", "load", "store", "disarm"}

\* The type of every variable (the static variables of the modules).
TypeOK ==
    /\ family \in Families
    /\ signal \in {0, 1} /\ times \in Int /\ setting \in Settings
    /\ pc \in [CPUs -> Places] /\ reg \in [CPUs -> Int]
    /\ writes \in Seq(Entries)
    /\ asked \in -1..Cap /\ wanted \in Settings
    /\ spent \in 0..Cap /\ hits \in 0..Cap
    /\ overlapped \in BOOLEAN /\ rearmed \in BOOLEAN /\ faults \subseteq Settings

Counted == family # "one-shot" /\ asked > 0 /\ ~rearmed

\* However the CPUs race on the counter, a counting module never gives up
\* early: when a CPU is about to disarm it, all the faults asked for have been
\* counted down.
NeverFewerThanAsked ==
    Counted => \A c \in CPUs : pc[c] = "disarm" => spent >= asked

\* As long as no two CPUs were in the handler at once, a module injects no
\* fault too many, and exactly the number asked for by the time it is disarmed.
ExactWhenSerial ==
    (asked >= 0 /\ writes = <<>> /\ ~overlapped /\ ~rearmed) =>
        /\ hits <= asked
        /\ signal = 0 /\ Quiet => hits = asked

\* A fault is injected with the parameters of its own campaign: none is left
\* from the one before, and the tool has set them all when the first call comes.
FaultsHaveTheirSettings ==
    (family # "one-shot" /\ ~rearmed) => faults \subseteq {wanted}

\* A campaign of a finite number of faults ends, whatever the races: an
\* overwritten count is never worked off for ever.
CampaignsEnd == (signal = 1 /\ asked > 0 /\ ~rearmed) ~> signal = 0

\* The number of faults is the number the operator asked for.
NeverMoreThanAsked == (asked >= 0 /\ ~rearmed) => hits <= asked
=============================================================================
