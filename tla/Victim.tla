-------------------------------- MODULE Victim --------------------------------
(***************************************************************************)
(* What the victims of vm_injection/ (target.c and target_*.c), the        *)
(* programs that the injectors are tried on, have in common: main starts   *)
(* the threads, waits for Ctrl-C or SIGTERM, and joins them; the threads   *)
(* share keep_running.  One victim runs at a time, and main is the thread  *)
(* that a tracer of the process stops.                                     *)
(***************************************************************************)
EXTENDS Integers, FiniteSets, Sequences

CONSTANTS Programs,     \* the victims that may be started
          None

VARIABLES program,      \* the one that runs
          keep_running,
          main,         \* "running" or "ended"
          returned,     \* the threads that have returned
          held          \* the tool that has stopped main, or None

mainVars == <<program, keep_running, main, returned, held>>

\* target: of its six threads, the two of the network; the others are those of
\* the other victims.  target_reg has main only.
Threads ==
    [target     |-> {"net_server", "net_prober"},
     target_mem |-> {"mem_watcher"},
     target_reg |-> {},
     target_net |-> {"tcp_server", "udp_server", "tcp_prober", "udp_prober", "stats_display"},
     target_cpu |-> {"cpu_worker"},
     target_res |-> {"memory_tester"}]

ASSUME ProgramsAssumption == Programs \subseteq DOMAIN Threads

VictimInit ==
    /\ program \in Programs
    /\ keep_running = TRUE /\ main = "running" /\ returned = {} /\ held = None

Alive == main # "ended"

\* The thread may take a step; main's own loop stands still while it is held.
Runs(t) == Alive /\ t \in Threads[program] \ returned
MainRuns(p) == Alive /\ program = p /\ held = None

\* sig_handler: it may run at any time, in any thread.
Interrupt ==
    /\ Alive /\ keep_running
    /\ keep_running' = FALSE
    /\ UNCHANGED <<program, main, returned, held>>

Returns(t) ==
    /\ returned' = returned \cup {t}
    /\ UNCHANGED <<program, keep_running, main, held>>

\* The loop of main sees the flag; pthread_join of every thread; return.
MainEnds ==
    /\ Alive /\ ~ keep_running /\ held = None
    /\ Threads[program] \subseteq returned
    /\ main' = "ended"
    /\ UNCHANGED <<program, keep_running, returned, held>>

VictimTypeOK ==
    /\ program \in Programs /\ keep_running \in BOOLEAN
    /\ main \in {"running", "ended"}
    /\ returned \subseteq Threads[program]
=============================================================================
