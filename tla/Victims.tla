------------------------------- MODULE Victims -------------------------------
(***************************************************************************)
(* The victims of vm_injection/, one of which runs, under the injectors    *)
(* that are meant for it.                                                  *)
(***************************************************************************)
EXTENDS MemVictim, RegVictim, NetVictim, LoadVictims

vars == <<mainVars, memVars, regVars, netVars, cpuVars, resVars>>

Init == VictimInit /\ MemInit /\ RegInit /\ NetInit /\ LoadInit

Next ==
    \/ (Interrupt \/ MainEnds) /\ UNCHANGED <<memVars, regVars, netVars, cpuVars, resVars>>
    \/ MemStep /\ UNCHANGED <<regVars, netVars, cpuVars, resVars>>
    \/ RegStep /\ UNCHANGED <<memVars, netVars, cpuVars, resVars>>
    \/ NetStep /\ UNCHANGED <<memVars, regVars, cpuVars, resVars>>
    \/ LoadStep /\ UNCHANGED <<memVars, regVars, netVars>>

\* The threads of the victims and of the tools are scheduled; nobody has to
\* inject anything, or to interrupt a victim.
Fairness ==
    WF_mainVars(MainEnds) /\ MemFairness /\ RegFairness /\ NetFairness /\ LoadFairness

Spec == Init /\ [][Next]_vars /\ Fairness

-----------------------------------------------------------------------------
\* Every variable keeps its type.
TypeOK == VictimTypeOK /\ MemTypeOK /\ RegTypeOK /\ NetTypeOK /\ LoadTypeOK

\* What stays wrong is noticed, and what has gone is not reported any more.
AlarmsFollowFaults == FaultsAreNoticed /\ AlarmsCease

\* A victim that is interrupted ends, whatever its threads wait for and whoever
\* has stopped it (every thread looks at keep_running between two waits, each of
\* which has a timeout); and so does every load.
EverythingEnds == (~ keep_running ~> main = "ended") /\ LoadsEnd
=============================================================================
