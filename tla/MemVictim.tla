------------------------------ MODULE MemVictim ------------------------------
(***************************************************************************)
(* vm_injection/target_mem.c, and the mem_watcher of target.c: a thread    *)
(* that looks at every bait once a second, reports the ones that do not    *)
(* hold the canary and puts it back.  mem_injector (PtraceInjectors) stops *)
(* the thread that has the number of the process, which is main: the       *)
(* watcher runs on between the read and the write of a tool.               *)
(* A bait is modelled by the bits that differ from the canary.             *)
(***************************************************************************)
EXTENDS Victim

CONSTANTS Baits,        \* the words, in the order they are looked at
          Static,       \* those that hold the canary before the watcher starts
          Width,        \* bound: the bits of a bait, 64 in the code
          MemTools,     \* invocations of mem_injector
          Flips         \* the fault of each: the bait and its bit

Words == {Baits[n] : n \in DOMAIN Baits}

ASSUME BaitsAssumption ==
    /\ Baits \in Seq(STRING) /\ Width \in Nat \ {0}
    /\ \A t \in MemTools : Flips[t].word \in Words /\ Flips[t].bit \in 0 .. Width - 1

VARIABLES diff,     \* diff[w]: actual ^ expected
          deployed,
          watcher,  \* what mem_watcher is at
          i,        \* the bait it looks at
          total,    \* total_corruptions
          tool,     \* what each mem_injector is at
          seen,     \* what it has read
          visible,  \* history: the writes that changed an intact bait
          undone    \* history: the writes that made a changed bait intact

memVars == <<diff, deployed, watcher, i, total, tool, seen, visible, undone>>
toolVars == <<tool, seen, visible, undone>>

MemInit ==
    /\ diff = [w \in Words |-> {}]
    /\ deployed = FALSE /\ watcher = "deploy" /\ i = 1 /\ total = 0
    /\ tool = [t \in MemTools |-> "attach"]
    /\ seen = [t \in MemTools |-> {}]
    /\ visible = 0 /\ undone = 0

-----------------------------------------------------------------------------
(* mem_watcher *)

At(where) == Runs("mem_watcher") /\ watcher = where

\* The array, the heap and the stack get the canary now; without memory for
\* the heap the thread returns.
Deploy ==
    /\ At("deploy")
    /\ \/ /\ deployed' = TRUE /\ watcher' = "check"
          /\ diff' = [w \in Words |-> IF w \in Static THEN diff[w] ELSE {}]
          /\ UNCHANGED mainVars
       \/ Returns("mem_watcher") /\ watcher' = "ended" /\ UNCHANGED <<diff, deployed>>
    /\ UNCHANGED <<i, total, toolVars>>

Check ==
    /\ At("check") /\ i <= Len(Baits)
    /\ IF diff[Baits[i]] # {} THEN watcher' = "report" /\ UNCHANGED i
                              ELSE i' = i + 1 /\ UNCHANGED watcher
    /\ UNCHANGED <<mainVars, diff, deployed, total, toolVars>>

\* Mutant: the bait is reported and left as it is.
Repair_ReportOnly ==
    /\ At("report")
    /\ total' = total + 1
    /\ watcher' = "check" /\ i' = i + 1
    /\ UNCHANGED <<mainVars, diff, deployed, toolVars>>

\* The report reads the bait again; then the canary is written over whatever
\* is there by now.
Repair ==
    /\ At("report")
    /\ diff' = [diff EXCEPT ![Baits[i]] = {}]
    /\ total' = total + 1
    /\ watcher' = "check" /\ i' = i + 1
    /\ UNCHANGED <<mainVars, deployed, toolVars>>

\* A second passes, and the flag is looked at.
NextRound ==
    /\ At("check") /\ i > Len(Baits)
    /\ IF keep_running
       THEN i' = 1 /\ UNCHANGED <<mainVars, watcher>>
       ELSE Returns("mem_watcher") /\ watcher' = "ended" /\ UNCHANGED i
    /\ UNCHANGED <<diff, deployed, total, toolVars>>

-----------------------------------------------------------------------------
(* mem_injector, from the attach of main to its release *)

Tool(t, from, to) == Alive /\ tool[t] = from /\ tool' = [tool EXCEPT ![t] = to]
Word(t) == Flips[t].word

\* A bait is found by its pattern: it holds the canary, or it did.
Attach(t) ==
    /\ program = "target_mem" /\ held = None
    /\ Word(t) \in Static \/ deployed
    /\ Tool(t, "attach", "peek") /\ held' = t
    /\ UNCHANGED <<program, keep_running, main, returned, diff, deployed, watcher, i, total,
                   seen, visible, undone>>

Peek(t) ==
    /\ Tool(t, "peek", "poke")
    /\ seen' = [seen EXCEPT ![t] = diff[Word(t)]]
    /\ UNCHANGED <<mainVars, diff, deployed, watcher, i, total, visible, undone>>

Toggled(v, b) == IF b \in v THEN v \ {b} ELSE v \cup {b}

\* The watcher is about to write over what is in the bait.
InWindow(w) == watcher = "report" /\ Baits[i] = w

Poke(t) ==
    LET w == Word(t)
        v == Toggled(seen[t], Flips[t].bit)
    IN  /\ Tool(t, "poke", "detach")
        /\ diff' = [diff EXCEPT ![w] = v]
        /\ visible' = IF diff[w] = {} /\ v # {} /\ ~ InWindow(w) THEN visible + 1 ELSE visible
        /\ undone' = IF diff[w] # {} /\ v = {} /\ ~ InWindow(w) THEN undone + 1 ELSE undone
        /\ UNCHANGED <<mainVars, deployed, watcher, i, total, seen>>

Detach(t) ==
    /\ Tool(t, "detach", "done") /\ held' = None
    /\ UNCHANGED <<program, keep_running, main, returned, diff, deployed, watcher, i, total,
                   seen, visible, undone>>

Watch == Deploy \/ Check \/ Repair \/ NextRound
MemTool(t) == Attach(t) \/ Peek(t) \/ Poke(t) \/ Detach(t)
MemStep == Watch \/ \E t \in MemTools : MemTool(t)

MemFairness ==
    /\ WF_<<mainVars, memVars>>(Watch)
    /\ \A t \in MemTools : WF_<<mainVars, memVars>>(Peek(t) \/ Poke(t) \/ Detach(t))

-----------------------------------------------------------------------------
MemTypeOK ==
    /\ diff \in [Words -> SUBSET (0 .. Width - 1)]
    /\ deployed \in BOOLEAN /\ watcher \in {"deploy", "check", "report", "ended"}
    /\ i \in 1 .. Len(Baits) + 1
    /\ total \in Nat /\ visible \in Nat /\ undone \in Nat
    /\ tool \in [MemTools -> {"attach", "peek", "poke", "detach", "done"}]
    /\ seen \in [MemTools -> SUBSET (0 .. Width - 1)]

\* The baits that are to be reported still.
Changed == {w \in Words : diff[w] # {} \/ InWindow(w)}

\* Every injection that changed an intact bait is reported once, and only once,
\* but for those that another injection took back before the watcher came by
\* and those that hit a bait whose report was under way; and nothing else is
\* reported (mem_watcher: total_corruptions).
HitsAreReportedOnce == visible = total + undone + Cardinality(Changed)
=============================================================================
