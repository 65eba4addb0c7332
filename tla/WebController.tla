---------------------------- MODULE WebController ----------------------------
(***************************************************************************)
(* The web console: the browser pages (static/app.js, static/test.js), the *)
(* HTTP handlers (app.py) and the command lines they run.                  *)
(*                                                                         *)
(* A slot is one control of a page: a card, the one-click                  *)
(* recovery, or the run and cleanup buttons of a test page.  A control is  *)
(* disabled while its request is under way, so a slot has one request at   *)
(* a time, but the slots are independent and the handlers run in a thread  *)
(* pool: requests overlap freely.  A handler runs the command lines of its *)
(* request one after the other and goes on after a failure.  A command     *)
(* that outlives its timeout loses its local client only: the program on   *)
(* the node goes on as a stray and may still take effect.                  *)
(***************************************************************************)
EXTENDS Naturals, Sequences, FiniteSets, Functions

CONSTANTS Cards,        \* the cards in the open browsers
          RecoverAll,   \* the one-click recovery buttons
          TestPages,    \* the open functional tests
          Screens,      \* bound: the sets of controls that are used together
          Menu,         \* the requests of the cards: [action, arg] records
          Tests,        \* the requests of the functional tests
          Workers,      \* the slaves, in the order they are started
          Sudo,         \* the actions run under sudo by a server that is not root
          Fragile,      \* bound: the daemons that may exit by themselves
          MaxStrays,    \* bound: programs that run on after a timeout
          MaxCrashes    \* bound: crashes of the server, per screen

ASSUME BoundsAssumption == MaxStrays \in Nat /\ \A b \in Screens : MaxCrashes[b] \in Nat

VARIABLES open,     \* the controls that are used in this behaviour
          doing,    \* what each slot is at
          req,      \* the request it posted last
          pc,       \* the command line its handler is at
          allok,    \* all(r["ok"]) over the commands that ended
          answer,   \* the answer that is under way to the slot
          step,     \* the step of the recovery plan
          serving,  \* the server is up
          crashes,
          up,       \* the Hadoop daemons that run
          faults,   \* the faults in place on the host and the nodes
          strays,   \* commands whose client was killed, still running
          sure,     \* history: nothing overlapped; but for a recovery, nothing failed
          owes      \* history: what the posted requests have left to remove

Slots == Cards \cup RecoverAll \cup TestPages

slot == <<doing, req, pc, allok, answer, step>>
world == <<up, faults, strays>>
history == <<sure, owes>>
vars == <<open, slot, serving, crashes, world, history>>

-----------------------------------------------------------------------------
(* The command lines behind a request *)

On(daemon) == [i \in DOMAIN Workers |-> <<daemon, Workers[i]>>]

\* hdfs --daemon start, yarn --daemon start: one command line per daemon.
Order == << <<"nn", "master">>, <<"snn", "master">> >> \o On("dn")
            \o << <<"rm", "master">> >> \o On("nm")
Daemons == Range(Order)
Yarn == {d \in Daemons : d[1] \in {"rm", "nm"}}

\* A command line, by what it does to the daemons or to the faults.
Command(op, on) == [op |-> op, on |-> on]

StartAll == [i \in DOMAIN Order |-> Command("start", {Order[i]})]
StopAll == <<Command("stop", Yarn), Command("stop", Daemons \ Yarn)>>
Sleep3 == <<Command("none", {})>>

\* The fault a card injects, and what a clearing card removes: delay, loss,
\* reordering and the slow heartbeat are all the root qdisc of the interface.
Fault == [delay |-> "shape", loss |-> "shape", reorder |-> "shape",
          heartbeat |-> "shape", isolate |-> "isolation",
          mem_stress |-> "ballast", disk_fill |-> "disk", hdfs_disk |-> "disk",
          io_slow |-> "io", yarn_unhealthy |-> "unhealthy",
          hdfs_safe |-> "safemode", process_fault |-> "hung",
          vm_network |-> "vmnet", kvm_perf_delay |-> "throttle",
          kvm_cpu_hotplug |-> "offline"]

Clears == [delay_clear |-> "shape", loss_clear |-> "shape",
           reorder_clear |-> "shape", isolate_clear |-> "isolation",
           mem_stress_clear |-> "ballast", disk_fill_clear |-> "disk",
           kvm_perf_clear |-> "throttle", kvm_clear |-> "offline"]

\* The arguments that make a card undo its own fault.
Undo == {"off", "leave", "resume", "clear", "online"}

\* PARAM_ENUMS: the choices of the cards, "none" if there is none.
Arguments == Undo \cup {"none", "on", "enter", "crash", "hang", "delay", "loss",
                        "partition", "corrupt", "offline"}

\* ACTIONS; the last ones leave nothing behind when they end.
Actions == DOMAIN Fault \cup DOMAIN Clears
           \cup {"hadoop_start", "hadoop_stop", "hadoop_restart"}
           \cup {"cluster_status", "inject_list", "delay_show", "cpu_stress"}

Requests == [action : Actions, arg : Arguments]

ASSUME Pages ==
    /\ Menu \cup Tests \subseteq Requests
    /\ Sudo \subseteq Actions
    /\ Workers \in Seq(STRING)
    /\ IsFiniteSet(Slots)

cmds(r) ==
    CASE r.action = "hadoop_start"   -> StartAll
      [] r.action = "hadoop_stop"    -> StopAll
      [] r.action = "hadoop_restart" -> StopAll \o Sleep3 \o StartAll
      [] r.action \in DOMAIN Clears  -> <<Command("clear", {Clears[r.action]})>>
      [] r.action = "process_fault" /\ r.arg = "crash"
                                     -> <<Command("stop", {Order[1]})>>
      [] r.action \in DOMAIN Fault /\ ~ (r.action = "process_fault" /\ r.arg = "crash")
             -> <<Command(IF r.arg \in Undo THEN "clear" ELSE "inject",
                          {Fault[r.action]})>>
      [] OTHER -> Sleep3

Request(action) == [action |-> action, arg |-> "none"]

\* Cards with a required choice: a request without it is refused.
Choices == {"io_slow", "yarn_unhealthy", "hdfs_safe", "process_fault",
            "vm_network", "kvm_cpu_hotplug"}
Refused(r) == r.action \in Choices /\ r.arg = "none"

-----------------------------------------------------------------------------
Init ==
    /\ open \in Screens
    /\ doing = [s \in Slots |-> "idle"]
    /\ req = [s \in Slots |-> Request("cluster_status")]
    /\ pc = [s \in Slots |-> 0]
    /\ allok = [s \in Slots |-> TRUE]
    /\ answer = [s \in Slots |-> "none"]
    /\ step = [s \in Slots |-> 0]
    /\ serving = TRUE
    /\ crashes = 0
    /\ up = {}
    /\ faults = {}
    /\ strays = {}
    /\ sure = [s \in Slots |-> FALSE]
    /\ owes = [s \in Slots |-> {}]

Busy(s) == doing[s] \in {"action", "recover", "test", "cleanup"}
Handled(s) == Busy(s) /\ answer[s] = "none"
Script(s) == cmds(req[s])

-----------------------------------------------------------------------------
(* The pages *)

\* fetch: it fails if the server is down or refuses the parameters.  A request
\* that removes a fault has one command line.
Post(s, r) ==
    /\ req' = [req EXCEPT ![s] = r]
    /\ pc' = [pc EXCEPT ![s] = 1]
    /\ allok' = [allok EXCEPT ![s] = TRUE]
    /\ answer' = [answer EXCEPT ![s] = IF serving /\ ~ Refused(r) THEN "none" ELSE "error"]
    /\ owes' = [owes EXCEPT ![s] = (IF doing[s] = "recover" THEN @ ELSE {})
                                      \cup (cmds(r)[1].on \cap faults)]

\* The first request of an operation: only one that starts alone, with no
\* stray about, can be sure of what it did, and it unsettles all the others.
Begin(s, what, r) ==
    /\ ~ Busy(s) /\ s \in open
    /\ doing' = [doing EXCEPT ![s] = what]
    /\ Post(s, r)
    /\ sure' = [t \in Slots |-> /\ t = s
                                /\ strays = {}
                                /\ \A u \in Slots \ {s} : ~ Busy(u)]
    /\ UNCHANGED <<serving, crashes, world>>

runAction(s, r) == Begin(s, "action", r) /\ UNCHANGED step

\* Mutant: the plan forgets the network of the virtual machines.
Plan_NoVmNetwork == << Request("delay_clear"), Request("loss_clear"),
           Request("reorder_clear"), Request("isolate_clear"),
           Request("mem_stress_clear"), Request("disk_fill_clear"), Request("kvm_clear") >>

\* The recovery plan, in its order.
Plan == << Request("delay_clear"), Request("loss_clear"),
           Request("reorder_clear"), Request("isolate_clear"),
           Request("mem_stress_clear"), Request("disk_fill_clear"),
           [action |-> "vm_network", arg |-> "clear"], Request("kvm_clear") >>

runRecoveryAll(s) == Begin(s, "recover", Plan[1]) /\ step' = [step EXCEPT ![s] = 1]

executeTest(s, t) == Begin(s, "test", t) /\ UNCHANGED step

\* The cleanup button posts the action named like the test, not the cleanup
\* action of the scenario, with the fields of the form: of the choices above
\* only vm_network has its own there.
executeCleanup(s) ==
    /\ doing[s] = "tested"
    /\ Begin(s, "cleanup", IF req[s].action = "vm_network" THEN req[s]
                                                          ELSE Request(req[s].action))
    /\ UNCHANGED step

\* Mutant: a failed fetch is not caught inside the loop, the plan stops there.
NextStep_NoCatch(s) ==
    /\ doing[s] = "recover" /\ step[s] < Len(Plan) /\ answer[s] # "error"
    /\ step' = [step EXCEPT ![s] = @ + 1]
    /\ Post(s, Plan[step[s] + 1])
    /\ UNCHANGED doing

\* The answer arrives.  The recovery takes its next step whatever the answer
\* was; the cleanup banner needs an HTTP 200 only, and the cleanup button is
\* enabled by any rendered result.
NextStep(s) ==
    /\ doing[s] = "recover" /\ step[s] < Len(Plan)
    /\ step' = [step EXCEPT ![s] = @ + 1]
    /\ Post(s, Plan[step[s] + 1])
    /\ UNCHANGED doing

Outcome(s) ==
    CASE doing[s] = "action"  -> "acted"
      [] doing[s] = "recover" -> "recovered"
      [] doing[s] = "test"    -> IF answer[s] = "error" THEN "idle" ELSE "tested"
      [] OTHER                -> IF answer[s] = "error" THEN "tested" ELSE "restored"

LastStep(s) ==
    /\ doing[s] = "recover" => step[s] = Len(Plan)
    /\ doing' = [doing EXCEPT ![s] = Outcome(s)]
    /\ answer' = [answer EXCEPT ![s] = "none"]
    /\ pc' = [pc EXCEPT ![s] = 0]
    /\ allok' = [allok EXCEPT ![s] = TRUE]
    /\ step' = [step EXCEPT ![s] = 0]
    /\ UNCHANGED <<req, owes>>

Receive(s) ==
    /\ Busy(s) /\ answer[s] # "none"
    /\ sure' = [sure EXCEPT ![s] = @ /\ (answer[s] = "ok" \/ doing[s] = "recover")]
    /\ NextStep(s) \/ LastStep(s)
    /\ UNCHANGED <<serving, crashes, world>>

-----------------------------------------------------------------------------
(* The handlers *)

\* The handler of a test catches what goes wrong with its action.
Raise(s) == answer' = [answer EXCEPT ![s] = IF doing[s] = "test" THEN "failed" ELSE "error"]

\* A validation error, or a local tool that was never built.
Reject(s) ==
    /\ Handled(s) /\ pc[s] = 1
    /\ Raise(s)
    /\ UNCHANGED <<doing, req, pc, allok, step, serving, crashes, world, history>>

\* What a command line does.
TakeEffect(c) ==
    /\ up' = CASE c.op = "start" -> up \cup c.on
               [] c.op = "stop"  -> up \ c.on
               [] OTHER          -> up
    /\ faults' = CASE c.op = "inject" -> faults \cup c.on
                   [] c.op = "clear"  -> faults \ c.on
                   [] OTHER           -> faults

\* Mutant: after a failure the next command line is skipped.
Ended_Skips(s, ok) ==
    /\ pc' = [pc EXCEPT ![s] = @ + IF ok THEN 1 ELSE 2]
    /\ allok' = [allok EXCEPT ![s] = @ /\ ok]
    /\ UNCHANGED <<doing, req, answer, step, serving, crashes>>

Ended(s, ok) ==
    /\ pc' = [pc EXCEPT ![s] = @ + 1]
    /\ allok' = [allok EXCEPT ![s] = @ /\ ok]
    /\ UNCHANGED <<doing, req, answer, step, serving, crashes>>

Running(s) == Handled(s) /\ pc[s] <= Len(Script(s))

CarriesOut(s) ==
    /\ TakeEffect(Script(s)[pc[s]])
    /\ owes' = [owes EXCEPT ![s] = @ \ Script(s)[pc[s]].on]

\* It does its work and exits; a daemon that already runs is not started.
Works(s) ==
    /\ Running(s)
    /\ CarriesOut(s)
    /\ Ended(s, ~ (Script(s)[pc[s]].op = "start" /\ Script(s)[pc[s]].on \subseteq up))
    /\ UNCHANGED <<strays, sure>>

\* A node is out of reach.  The injector does not look at the status of its
\* ssh calls and exits with 0 all the same.
Misses(s) ==
    /\ Running(s)
    /\ \/ Ended(s, FALSE)
       \/ Script(s)[pc[s]].op # "start" /\ Ended(s, TRUE)
    /\ UNCHANGED <<world, history>>

\* Mutant: a command that timed out does not count as failed.
TimesOut_NotAFailure(s) ==
    /\ Running(s)
    /\ Ended(s, TRUE)
    /\ Cardinality(strays) < MaxStrays
    /\ strays' = strays \cup {Script(s)[pc[s]]}
    /\ UNCHANGED <<up, faults, history>>

\* The timeout kills the direct child, an ssh or the tool, and counts as a
\* failure.
TimesOut(s) ==
    /\ Running(s) /\ req[s].action \notin Sudo
    /\ Ended(s, FALSE)
    /\ \/ UNCHANGED strays
       \/ /\ Cardinality(strays) < MaxStrays
          /\ strays' = strays \cup {Script(s)[pc[s]]}
    /\ UNCHANGED <<up, faults, history>>

\* The sudo of root it must not kill: the call goes on to wait for the program,
\* however long, and raises a PermissionError when that is over.
Outlives(s) ==
    /\ Running(s) /\ req[s].action \in Sudo
    /\ CarriesOut(s) \/ UNCHANGED <<up, faults, owes>>
    /\ Raise(s)
    /\ UNCHANGED <<doing, req, pc, allok, step, serving, crashes, strays, sure>>

Reply(s) ==
    /\ Handled(s) /\ pc[s] > Len(Script(s))
    /\ answer' = [answer EXCEPT ![s] = IF allok[s] THEN "ok" ELSE "failed"]
    /\ UNCHANGED <<doing, req, pc, allok, step, serving, crashes, world, history>>

-----------------------------------------------------------------------------
(* Around the server *)

\* A stray ends, with or without having taken effect.
StrayEnds(c) ==
    /\ c \in strays
    /\ strays' = strays \ {c}
    /\ TakeEffect(c) \/ UNCHANGED <<up, faults>>
    /\ UNCHANGED <<slot, serving, crashes, history>>

\* The server dies: its requests fail, their commands run on.
Crash ==
    /\ serving /\ crashes < MaxCrashes[open]
    /\ serving' = FALSE
    /\ crashes' = crashes + 1
    /\ answer' = [s \in Slots |-> IF Handled(s) THEN "error" ELSE answer[s]]
    /\ \E left \in SUBSET {Script(s)[pc[s]] : s \in {t \in Slots : Running(t)}} :
          /\ Cardinality(strays \cup left) <= MaxStrays
          /\ strays' = strays \cup left
    /\ UNCHANGED <<doing, req, pc, allok, step, up, faults, history>>

Restart ==
    /\ ~ serving
    /\ serving' = TRUE
    /\ UNCHANGED <<slot, crashes, world, history>>

\* A daemon exits by itself.
Dies(d) ==
    /\ d \in up \cap Fragile
    /\ up' = up \ {d}
    /\ sure' = [s \in Slots |-> FALSE]
    /\ UNCHANGED <<slot, serving, crashes, faults, strays, owes>>

Handler(s) ==
    Reject(s) \/ Works(s) \/ Misses(s) \/ TimesOut(s) \/ Outlives(s) \/ Reply(s)

Step ==
    \/ \E s \in Cards, r \in Menu : runAction(s, r)
    \/ \E s \in RecoverAll : runRecoveryAll(s)
    \/ \E s \in TestPages : executeCleanup(s) \/ \E t \in Tests : executeTest(s, t)
    \/ \E s \in Slots : Receive(s) \/ Handler(s)
    \/ \E c \in strays : StrayEnds(c)
    \/ Crash
    \/ \E d \in Daemons : Dies(d)

Next == (Step \/ Restart) /\ UNCHANGED open

\* A command that can be killed ends by itself or by its timeout, a handler
\* thread is scheduled, and a page handles what it receives.
Fairness == \A s \in Slots : WF_slot(TimesOut(s) \/ Reply(s) \/ Receive(s))

Spec == Init /\ [][Next]_vars /\ Fairness

-----------------------------------------------------------------------------
(* Properties *)

\* Every variable keeps its type: the answers, the plan's steps and the sets
\* the handlers of app.py and the pages work on.
TypeOK ==
    /\ open \in Screens
    /\ doing \in [Slots -> {"idle", "action", "acted", "recover", "recovered",
                            "test", "tested", "cleanup", "restored"}]
    /\ req \in [Slots -> Requests]
    /\ \A s \in Slots : pc[s] \in 0 .. Len(Script(s)) + 1
    /\ allok \in [Slots -> BOOLEAN]
    /\ answer \in [Slots -> {"none", "ok", "failed", "error"}]
    /\ step \in [Slots -> 0 .. Len(Plan)]
    /\ serving \in BOOLEAN /\ crashes \in 0 .. MaxCrashes[open]
    /\ up \subseteq Daemons
    /\ faults \subseteq {Fault[a] : a \in DOMAIN Fault}
    /\ Cardinality(strays) <= MaxStrays
    /\ sure \in [Slots -> BOOLEAN]
    /\ owes \in [Slots -> SUBSET {Fault[a] : a \in DOMAIN Fault}]

\* A start or restart of Hadoop that was answered "ok", and that nothing
\* overlapped, left every daemon running (app.py: api_action, hadoop_restart):
\* a stop that outlived its timeout and kills what was started after it must
\* have spoilt the answer.
RestartIsComplete ==
    \A s \in Slots :
        doing[s] = "acted" /\ sure[s] /\ req[s].action \in {"hadoop_start", "hadoop_restart"}
            => up = Daemons

\* The faults whose card has a quick cleanup button (getQuickActionSpec).
QuickActions == {"delay", "loss", "reorder", "isolate", "mem_stress", "disk_fill", "vm_network"}

\* A one-click recovery that nothing overlapped gets to every fault that a
\* card's own cleanup button would remove, whatever fails, times out, outlives
\* its timeout or crashes on the way: only a fault whose own steps were not
\* carried out is left, and their answers may have been "ok" (app.js:
\* runRecoveryAll against getQuickActionSpec).
RecoveryClears ==
    \A s \in Slots :
        doing[s] = "recovered" /\ sure[s] => faults \cap {Fault[a] : a \in QuickActions} \subseteq owes[s]

\* The request of a slot is at a program that nothing but itself can end.
Unkillable(s) == Running(s) /\ req[s].action \in Sudo

\* Every click comes back: whatever fails, hangs or crashes, each operation of a
\* page ends and its button is enabled again, unless it is for ever at one and
\* the same program under sudo (app.py: run_command's timeout, app.js: the catch
\* of every step).
ClicksComeBack == \A s \in Slots : []<>(~ Busy(s)) \/ <>[]Unkillable(s)

\* The banner of the test page, "cleanup done, the system is restored": once it
\* shows, and nothing overlapped, the fault of the test is gone
\* (test.js: executeCleanup).
CleanupRestores ==
    \A s \in Slots :
        doing[s] = "restored" /\ sure[s] /\ req[s].action \in DOMAIN Fault
            => Fault[req[s].action] \notin faults
=============================================================================
