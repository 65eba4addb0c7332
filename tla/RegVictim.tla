------------------------------ MODULE RegVictim ------------------------------
(***************************************************************************)
(* vm_injection/target_reg.c: main counts in the register x19 and, beside  *)
(* it, in memory; now and then it compares the two, and the third          *)
(* comparison in a row that is off raises the alert.  reg_injector changes *)
(* the register between any two instructions, in one atomic step           *)
(* (PtraceInjectors!FaultsAreAtomic: this victim has one thread).          *)
(* The counters are modelled by how far they are ahead of the shadow.      *)
(***************************************************************************)
EXTENDS Victim

CONSTANTS Tolerance,    \* bound: 1000 in the code
          Offsets,      \* what the injections add to the register
          MaxFaults,    \* bound: the injections
          MaxDrift      \* bound: how far the counters drift apart

ASSUME DriftAssumption ==
    /\ Tolerance \in Nat \ {0} /\ MaxDrift \in Nat /\ MaxFaults \in Nat
    /\ Offsets \subseteq Int

VARIABLES drift,    \* counter - g_shadow_counter
          shared,   \* g_shared_counter - g_shadow_counter
          loop,     \* the statement of the loop it is at
          mismatch, \* mismatch_count, up to three
          status,   \* the last line it printed
          faults,   \* the injections so far
          quiet     \* history: comparisons since the last injection, up to four

regVars == <<drift, shared, loop, mismatch, status, faults, quiet>>

RegInit ==
    /\ drift = 0 /\ shared = 0 /\ loop = "counter" /\ mismatch = 0
    /\ status = "OK" /\ faults = 0 /\ quiet = 0

-----------------------------------------------------------------------------
Doing(here, next) == MainRuns("target_reg") /\ loop = here /\ loop' = next
UpTo(most, n) == IF n < most THEN n + 1 ELSE most
Off(e) == e > Tolerance \/ e < -Tolerance

Count ==
    /\ Doing("counter", "shadow") /\ drift' = drift + 1
    /\ UNCHANGED <<mainVars, shared, mismatch, status, faults, quiet>>

Shadow ==
    /\ Doing("shadow", "share")
    /\ drift' = drift - 1 /\ shared' = shared - 1
    /\ UNCHANGED <<mainVars, mismatch, status, faults, quiet>>

\* Most rounds print nothing: the sample mask, and less than half a second.
Share ==
    /\ \E next \in {"report", "test"} : Doing("share", next)
    /\ shared' = drift
    /\ UNCHANGED <<mainVars, drift, mismatch, status, faults, quiet>>

\* Mutant: the fourth comparison in a row raises the alert.
Report_Late ==
    /\ Doing("report", "test")
    /\ mismatch' = IF Off(shared) THEN UpTo(3, mismatch) ELSE 0
    /\ status' = IF ~ Off(shared) THEN "OK" ELSE IF mismatch >= 3 THEN "ALERT" ELSE "CHECK"
    /\ quiet' = UpTo(4, quiet)
    /\ UNCHANGED <<mainVars, drift, shared, faults>>

Report ==
    /\ Doing("report", "test")
    /\ mismatch' = IF Off(shared) THEN UpTo(3, mismatch) ELSE 0
    /\ status' = IF ~ Off(shared) THEN "OK" ELSE IF mismatch >= 2 THEN "ALERT" ELSE "CHECK"
    /\ quiet' = UpTo(4, quiet)
    /\ UNCHANGED <<mainVars, drift, shared, faults>>

\* while (running): with no thread to join, the end of the loop ends main.
Test ==
    /\ Doing("test", "counter")
    /\ main' = IF keep_running THEN main ELSE "ended"
    /\ UNCHANGED <<program, keep_running, returned, held, drift, shared, mismatch, status,
                   faults, quiet>>

\* reg_injector, on x19.
RegFault ==
    /\ MainRuns("target_reg") /\ faults < MaxFaults
    /\ \E k \in Offsets :
          /\ drift + k \in -MaxDrift .. MaxDrift
          /\ drift' = drift + k
    /\ faults' = faults + 1 /\ quiet' = 0
    /\ UNCHANGED <<mainVars, shared, loop, mismatch, status>>

CountLoop == Count \/ Shadow \/ Share \/ Report \/ Test
RegStep == CountLoop \/ RegFault

RegFairness == WF_<<mainVars, regVars>>(CountLoop)

-----------------------------------------------------------------------------
RegTypeOK ==
    /\ drift \in -MaxDrift - 1 .. MaxDrift + 1 /\ shared \in -MaxDrift - 2 .. MaxDrift + 1
    /\ loop \in {"counter", "shadow", "share", "report", "test"}
    /\ mismatch \in 0 .. 3 /\ status \in {"OK", "CHECK", "ALERT"}
    /\ faults \in 0 .. MaxFaults /\ quiet \in 0 .. 4

\* The verdict settles: four comparisons after the last injection (the first of
\* them may have read the counter before it) the line says ALERT if the two
\* counters are further apart than the tolerance, and OK if they are not.
RegVerdictSettles ==
    quiet = 4 /\ loop \in {"test", "counter"} =>
        status = IF Off(drift) THEN "ALERT" ELSE "OK"
=============================================================================
