------------------------------- MODULE Console -------------------------------
(***************************************************************************)
(* The web console with the start of its server.  A screen with controls   *)
(* has its virtual machines already, so that the startup event of a server *)
(* that comes back skips every node; the screen without any is the time    *)
(* before: the starters are at work, and the server serves once one of     *)
(* them is through.                                                        *)
(***************************************************************************)
EXTENDS WebController, VmStart

consoleVars == <<vars, startVars>>

ConsoleInit == Init /\ StartInit

\* Port 8080 goes to the first server; one that is left over ends.
Serves(s) ==
    /\ StartupDone(s)
    /\ IF serving THEN UNCHANGED vars ELSE Restart /\ UNCHANGED open

\* Before the server is up, there is no page to click on.
Starting(s) == open = {} /\ Starter(s)
Booting(n) == open = {} /\ Qemu(n)

ConsoleNext ==
    \/ (Step \/ (open # {} /\ Restart)) /\ UNCHANGED <<open, startVars>>
    \/ (\E s \in Starters : Starting(s) \/ (open = {} /\ Again(s))) /\ UNCHANGED vars
    \/ (\E n \in Names : Booting(n) \/ (open = {} /\ Exits(n))) /\ UNCHANGED vars
    \/ open = {} /\ \E s \in Starters : Serves(s)

\* The starters and QEMU are processes that are scheduled.
ConsoleSpec ==
    /\ ConsoleInit /\ [][ConsoleNext]_consoleVars /\ Fairness
    /\ \A s \in Starters : WF_startVars(Starting(s)) /\ WF_consoleVars(open = {} /\ Serves(s))
    /\ \A n \in Names : WF_startVars(Booting(n))

-----------------------------------------------------------------------------
\* Every variable of the console and of the start keeps its type.
ConsoleTypeOK == TypeOK /\ StartTypeOK
=============================================================================
