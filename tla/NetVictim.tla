------------------------------ MODULE NetVictim ------------------------------
(***************************************************************************)
(* vm_injection/target_net.c and the network threads of target.c: servers  *)
(* on ports of the loopback interface, threads that probe them with a new  *)
(* socket each time, statistics under a lock, and a thread that prints     *)
(* them.  The packets meet what iptables (network_injector 3) and a netem  *)
(* on the loopback do to them; network_injector puts its own netem on the  *)
(* interface of the default route, which these probes do not cross.  Of    *)
(* the verdicts only those of net_prober are told apart; the others words  *)
(* of target_net are its statistics.                                       *)
(***************************************************************************)
EXTENDS Victim

CONSTANTS MaxProbes,    \* bound: the probes of each prober with statistics
          Ports,        \* bound: the port numbers of UDP sockets
          Kinds         \* of "block", "delay", "loss" and "corrupt": what befalls a victim

Counting == {"tcp_prober", "udp_prober"}    \* those with statistics

ASSUME ProbesAssumption ==
    /\ MaxProbes \in [Counting -> Nat] /\ None # "stats_display"
    /\ \A p \in {"target", "target_net"} : Kinds[p] \subseteq {"block", "delay", "loss", "corrupt"}

Tcp == {"tcp_prober", "net_prober"}
Probers == Counting \cup Tcp
Server == [tcp_prober |-> "tcp_server", udp_prober |-> "udp_server", net_prober |-> "net_server"]

VARIABLES wire,     \* the netem on the loopback, "clean" without one
          blocked,  \* packets to the TCP port are dropped
          server,   \* of each server: "starting", "up", "down"
          at,       \* what each prober, and the display, is at
          conn,     \* a request: "none", "queued", "answered", "reset"
          upset,    \* its probe met "no" fault, "some", or delay all the time
          port,     \* the port of the UDP socket
          flying,   \* the ports that echoes are under way to
          stats,    \* NetStats: sent, recv and timeout of each protocol
          corrupt,  \* udp_corrupt
          shown,    \* what the display has read for its lines
          lock,     \* stats_lock: the thread that holds it, or None
          baseline, \* baseline_latency: "unset", "fast", "slow"
          first,    \* probe_count, up to four
          fails,    \* consecutive_fails, up to three
          said      \* the last verdict of net_prober

netVars == <<wire, blocked, server, at, conn, upset, port, flying, stats, corrupt, shown,
             lock, baseline, first, fails, said>>
links == <<conn, port, flying>>
counts == <<stats, corrupt, shown, lock>>
judged == <<baseline, first, fails, said>>

Zero == [sent |-> 0, recv |-> 0, timeout |-> 0]

NetInit ==
    /\ wire = "clean" /\ blocked = FALSE
    /\ server = [s \in {Server[p] : p \in Probers} |-> "starting"]
    /\ at = [p \in Probers \cup {"stats_display"} |-> "idle"]
    /\ conn = [p \in Probers |-> "none"]
    /\ upset = [p \in Probers |-> "no"]
    /\ port = None /\ flying = {}
    /\ stats = [p \in Counting |-> Zero] /\ corrupt = 0
    /\ shown = [p \in Counting |-> Zero] /\ lock = None
    /\ baseline = "unset" /\ first = 0 /\ fails = 0 /\ said = "nothing"

Goto(t, where) == at' = [at EXCEPT ![t] = where]

-----------------------------------------------------------------------------
(* The network *)

\* network_injector 3 and 0; tc on the loopback.  The probes under way have
\* met some fault now.
NetFault ==
    /\ Alive /\ program \in {"target", "target_net"}
    /\ \/ "block" \in Kinds[program] /\ blocked' = ~ blocked /\ UNCHANGED wire
       \/ wire' \in ({"clean"} \cup Kinds[program]) \ {wire, "block"} /\ UNCHANGED blocked
    /\ upset' = [p \in Probers |-> IF at[p] = "idle" THEN upset[p] ELSE "some"]
    /\ UNCHANGED <<mainVars, server, at, links, counts, judged>>

\* An echo is lost, or comes to a socket that is closed.
Lose(n) ==
    /\ Alive /\ n \in flying
    /\ wire = "loss" \/ n # port
    /\ flying' = flying \ {n}
    /\ UNCHANGED <<mainVars, wire, blocked, server, at, conn, upset, port, counts, judged>>

-----------------------------------------------------------------------------
(* The servers *)

\* bind fails if the port is taken: the thread returns.
Bind(s) ==
    /\ Runs(s) /\ server[s] = "starting"
    /\ \/ server' = [server EXCEPT ![s] = "up"] /\ UNCHANGED mainVars
       \/ server' = [server EXCEPT ![s] = "down"] /\ Returns(s)
    /\ UNCHANGED <<wire, blocked, at, links, upset, counts, judged>>

Queued(p) == Runs(Server[p]) /\ server[Server[p]] = "up" /\ conn[p] = "queued"

\* accept, recv (which gives up after a second), send, close.
Serve(p) ==
    /\ p \in Tcp /\ Queued(p)
    /\ conn' = [conn EXCEPT ![p] = "answered"]
    /\ UNCHANGED <<mainVars, wire, blocked, server, at, upset, port, flying, counts, judged>>

\* recvfrom, sendto: the probe goes back to the port it came from.
Echo ==
    /\ Queued("udp_prober")
    /\ conn' = [conn EXCEPT !["udp_prober"] = "none"]
    /\ flying' = flying \cup {port}
    /\ UNCHANGED <<mainVars, wire, blocked, server, at, upset, port, counts, judged>>

\* The flag is looked at between two clients; what waits in the backlog is reset.
ServerEnds(s) ==
    /\ Runs(s) /\ server[s] = "up" /\ ~ keep_running
    /\ server' = [server EXCEPT ![s] = "down"] /\ Returns(s)
    /\ conn' = [p \in Probers |-> IF Server[p] = s /\ conn[p] = "queued" THEN "reset" ELSE conn[p]]
    /\ UNCHANGED <<wire, blocked, at, upset, port, flying, counts, judged>>

Serves == Echo \/ \E p \in Tcp : Serve(p)
ServerStep(s) == Bind(s) \/ ServerEnds(s)

-----------------------------------------------------------------------------
(* The probers *)

Probing(p, where) == Runs(p) /\ at[p] = where
Closes(p) == Goto(p, "idle") /\ upset' = [upset EXCEPT ![p] = "no"]
CanCount(p) == p \in Counting => lock = None
Bump(p, field) == stats' = IF p \in Counting THEN [stats EXCEPT ![p][field] = @ + 1] ELSE stats

\* while (keep_running): a new round, which ends at once without a socket.
Round(p) ==
    /\ Probing(p, "idle") /\ keep_running
    /\ p \in Counting => stats[p].sent < MaxProbes[p]
    /\ first' = IF p = "net_prober" /\ first < 4 THEN first + 1 ELSE first

NoSocket(p) ==
    /\ Round(p)
    /\ UNCHANGED <<mainVars, wire, blocked, server, at, links, upset, counts, baseline, fails, said>>

\* TCP counts the probe before it is sent, UDP after.
Open(p) ==
    /\ Round(p)
    /\ upset' = [upset EXCEPT ![p] = IF wire = "delay" THEN "all"
                                     ELSE IF wire = "clean" /\ ~ blocked THEN "no" ELSE "some"]
    /\ IF p = "udp_prober"
       THEN port' \in Ports /\ Goto(p, "unsent") /\ UNCHANGED stats
       ELSE CanCount(p) /\ Bump(p, "sent") /\ Goto(p, "open") /\ UNCHANGED port
    /\ UNCHANGED <<mainVars, wire, blocked, server, conn, flying, corrupt, shown, lock,
                   baseline, fails, said>>

\* sendto, and then udp_sent++.
Send(p) ==
    /\ p = "udp_prober" /\ Probing(p, "unsent") /\ lock = None
    /\ \/ server["udp_server"] = "up" /\ conn' = [conn EXCEPT ![p] = "queued"]
       \/ (wire = "loss" \/ server["udp_server"] # "up") /\ UNCHANGED conn
    /\ upset' = IF server["udp_server"] = "up" THEN upset ELSE [upset EXCEPT ![p] = "some"]
    /\ Bump(p, "sent") /\ Goto(p, "waiting")
    /\ UNCHANGED <<mainVars, wire, blocked, server, port, flying, corrupt, shown, lock, judged>>

\* connect: the kernel accepts for a server that listens.
Connect(p) ==
    /\ p \in Tcp /\ Probing(p, "open")
    /\ server[Server[p]] = "up" /\ ~ blocked
    /\ conn' = [conn EXCEPT ![p] = "queued"]
    /\ Goto(p, "waiting")
    /\ UNCHANGED <<mainVars, wire, blocked, server, upset, port, flying, counts, judged>>

\* Mutant: the third failure in a row is said to be one more timeout.
Failure_Plain == fails' = (IF fails < 3 THEN fails + 1 ELSE 3) /\ said' = "failed"

\* The third failure in a row is put down to a blocked port.
Failure ==
    /\ fails' = IF fails < 3 THEN fails + 1 ELSE 3
    /\ said' = IF fails >= 2 THEN "blocked" ELSE "failed"

\* Refused, as nobody listens; or, after three seconds, no answer to the SYN.
ConnectFails(p) ==
    /\ p \in Tcp /\ Probing(p, "open") /\ CanCount(p)
    /\ server[Server[p]] # "up" \/ blocked \/ wire = "loss"
    /\ Bump(p, "timeout") /\ Closes(p)
    /\ IF p = "net_prober" THEN Failure ELSE UNCHANGED <<fails, said>>
    /\ UNCHANGED <<mainVars, wire, blocked, server, links, corrupt, shown, lock,
                   baseline, first>>

\* Under a delay that lasts the whole probe the answer is slow, and without any
\* fault it is fast; slow means more than ten times fast.
Latencies(p) ==
    CASE upset[p] = "all" -> {"slow"} [] upset[p] = "no" -> {"fast"} [] OTHER -> {"fast", "slow"}

\* net_prober takes its baseline from its first three probes, or never.
Judge(latency) ==
    /\ fails' = 0
    /\ IF baseline = "unset"
       THEN baseline' = (IF first <= 3 THEN latency ELSE baseline) /\ UNCHANGED said
       ELSE /\ said' = IF baseline = "fast" /\ latency = "slow" THEN "delay" ELSE "ok"
            /\ UNCHANGED baseline

Judges(p, latencies) ==
    IF p = "net_prober" THEN \E l \in latencies : Judge(l) ELSE UNCHANGED <<fails, baseline, said>>

\* recv yields the answer of the server.
Answered(p) ==
    /\ p \in Tcp /\ Probing(p, "waiting") /\ conn[p] = "answered" /\ CanCount(p)
    /\ Bump(p, "recv") /\ Closes(p)
    /\ conn' = [conn EXCEPT ![p] = "none"]
    /\ Judges(p, Latencies(p))
    /\ UNCHANGED <<mainVars, wire, blocked, server, port, flying, corrupt, shown, lock, first>>

\* recvfrom yields 24 bytes that came to the port of this socket, the echo of
\* this probe or of an earlier one that had the same port: the number in it is
\* not compared.  It counts, and then its checksum is looked at.
Echoed(p) ==
    /\ p = "udp_prober" /\ Probing(p, "waiting") /\ port \in flying /\ lock = None
    /\ flying' = flying \ {port}
    /\ Bump(p, "recv")
    /\ Closes(p) \/ (wire = "corrupt" /\ Goto(p, "corrupt") /\ UNCHANGED upset)
    /\ UNCHANGED <<mainVars, wire, blocked, server, conn, port, corrupt, shown, lock, judged>>

Corrupt(p) ==
    /\ p = "udp_prober" /\ Probing(p, "corrupt") /\ lock = None
    /\ corrupt' = corrupt + 1
    /\ Closes(p)
    /\ UNCHANGED <<mainVars, wire, blocked, server, links, stats, shown, lock, judged>>

\* The receive timeout, or a reset.  net_prober does not look at what recv
\* returned: to it the connection was answered, late.
NoAnswer(p) ==
    /\ Probing(p, "waiting") /\ CanCount(p)
    /\ upset[p] # "no" \/ server[Server[p]] = "down" \/ conn[p] = "reset"
    /\ Bump(p, "timeout") /\ Closes(p)
    /\ conn' = [conn EXCEPT ![p] = "none"]
    /\ Judges(p, {"slow"} \cup IF conn[p] = "reset" THEN {"fast"} ELSE {})
    /\ UNCHANGED <<mainVars, wire, blocked, server, port, flying, corrupt, shown, lock, first>>

ProberEnds(p) ==
    /\ Probing(p, "idle") /\ ~ keep_running
    /\ Returns(p)
    /\ UNCHANGED netVars

ProberStep(p) ==
    \/ Open(p) \/ Send(p) \/ Connect(p) \/ ConnectFails(p) \/ Answered(p) \/ Echoed(p)
    \/ Corrupt(p) \/ NoAnswer(p) \/ ProberEnds(p)

-----------------------------------------------------------------------------
(* stats_display *)

Displaying(here, next) ==
    Runs("stats_display") /\ at["stats_display"] = here /\ Goto("stats_display", next)

Rest ==
    /\ Displaying("idle", "rest") /\ keep_running
    /\ UNCHANGED <<mainVars, wire, blocked, server, links, upset, counts, judged>>

\* Mutant: the lock is not taken.
Display_NoLock ==
    /\ Displaying("rest", "shows")
    /\ shown' = [p \in Counting |-> [shown[p] EXCEPT !.sent = stats[p].sent]]
    /\ UNCHANGED <<mainVars, wire, blocked, server, links, upset, stats, corrupt, lock, judged>>

\* pthread_mutex_lock; the figures are read one after the other ...
Display ==
    /\ Displaying("rest", "shows") /\ lock = None
    /\ lock' = "stats_display"
    /\ shown' = [p \in Counting |-> [shown[p] EXCEPT !.sent = stats[p].sent]]
    /\ UNCHANGED <<mainVars, wire, blocked, server, links, upset, stats, corrupt, judged>>

Tally ==
    /\ Displaying("shows", "shown")
    /\ shown' = [p \in Counting |-> [stats[p] EXCEPT !.sent = shown[p].sent]]
    /\ UNCHANGED <<mainVars, wire, blocked, server, links, upset, stats, corrupt, lock, judged>>

\* ... and printed, and the lock is released.
Displayed ==
    /\ Displaying("shown", "idle")
    /\ shown' = [p \in Counting |-> Zero]
    /\ lock' = None
    /\ UNCHANGED <<mainVars, wire, blocked, server, links, upset, stats, corrupt, judged>>

DisplayEnds ==
    /\ Runs("stats_display") /\ at["stats_display"] = "idle" /\ ~ keep_running
    /\ Returns("stats_display")
    /\ UNCHANGED netVars

DisplayStep == Rest \/ Display \/ Tally \/ Displayed \/ DisplayEnds

NetStep ==
    \/ NetFault \/ (\E n \in Ports : Lose(n))
    \/ Serves \/ (\E s \in DOMAIN server : ServerStep(s))
    \/ (\E p \in Probers : NoSocket(p) \/ ProberStep(p))
    \/ DisplayStep

\* Threads are scheduled, sockets are had in the end, and waits have timeouts.
NetFairness ==
    LET v == <<mainVars, netVars>>
    IN  /\ WF_v(Serves)
        /\ \A s \in {Server[p] : p \in Probers} : WF_v(ServerStep(s))
        /\ \A p \in Probers : WF_v(ProberStep(p))
        /\ WF_v(DisplayStep)

-----------------------------------------------------------------------------
NetTypeOK ==
    /\ wire \in {"clean", "delay", "loss", "corrupt"} /\ blocked \in BOOLEAN
    /\ server \in [{Server[p] : p \in Probers} -> {"starting", "up", "down"}]
    /\ at \in [Probers \cup {"stats_display"} -> {"idle", "unsent", "open", "waiting", "corrupt",
                                                  "rest", "shows", "shown"}]
    /\ conn \in [Probers -> {"none", "queued", "answered", "reset"}]
    /\ upset \in [Probers -> {"no", "some", "all"}]
    /\ port \in Ports \cup {None} /\ flying \subseteq Ports
    /\ stats \in [Counting -> [sent : Nat, recv : Nat, timeout : Nat]]
    /\ shown \in [Counting -> [sent : Nat, recv : Nat, timeout : Nat]]
    /\ \A p \in Counting : stats[p].sent <= MaxProbes[p]
    /\ corrupt \in Nat /\ lock \in {None, "stats_display"}
    /\ baseline \in {"unset", "fast", "slow"} /\ first \in 0 .. 4 /\ fails \in 0 .. 3
    /\ said \in {"nothing", "failed", "blocked", "ok", "delay"}

\* What the display prints adds up: of each protocol, every probe was answered
\* or timed out but for the one that may be under way, although the figures are
\* read one after the other while the probers count (stats_lock), echoes are
\* late and meet other sockets; and the broken echoes are among the received.
StatsBalance ==
    /\ \A p \in Counting :
          at["stats_display"] = "shown" =>
              shown[p].sent - shown[p].recv - shown[p].timeout \in {0, 1}
    /\ corrupt <= stats["udp_prober"].recv

\* A port that stays blocked is called so in the end, and a delay that stays
\* is called one if a clean baseline was had before (net_prober): whatever was
\* under way when it began, the run of failures is counted through.
FaultsAreNoticed ==
    /\ <>[](blocked /\ program = "target" /\ keep_running) => <>[](said = "blocked")
    /\ <>[](wire = "delay" /\ ~ blocked /\ baseline = "fast" /\ keep_running
            /\ program = "target" /\ server["net_server"] = "up") => <>[](said = "delay")
=============================================================================
