---------------------------- MODULE VictimsProofs ----------------------------
(***************************************************************************)
(* Theorems about Victims, for any baits, tools, faults and tolerance.     *)
(* Each victim keeps its own variables, so that each has its own inductive *)
(* invariant.                                                              *)
(***************************************************************************)
EXTENDS Victims, FiniteSetTheorems, TLAPS

(***************************************************************************)
(* 1. The memory victim.                                                   *)
(***************************************************************************)

LEMMA WordsFinite == IsFiniteSet(Words)
<1> DEFINE f == [n \in 1 .. Len(Baits) |-> Baits[n]]
<1>1. Len(Baits) \in Nat /\ DOMAIN Baits = 1 .. Len(Baits)
  BY BaitsAssumption
<1>2. f \in Surjection(1 .. Len(Baits), Words)
  BY <1>1 DEF Surjection, Words
<1>3. QED
  BY <1>1, <1>2, FS_Interval, FS_Surjection

LEMMA ChangedFinite == IsFiniteSet(Changed) /\ Cardinality(Changed) \in Nat
<1>1. Changed \in SUBSET Words
  BY DEF Changed
<1>2. QED
  BY <1>1, WordsFinite, FS_Subset, FS_CardinalityType

LEMMA ChangedFinitePrime == IsFiniteSet(Changed') /\ Cardinality(Changed') \in Nat
<1>1. Changed' \in SUBSET Words
  BY DEF Changed
<1>2. QED
  BY <1>1, WordsFinite, FS_Subset, FS_CardinalityType

\* Before the watcher has put the baits out, nobody works on those it makes.
NotYet ==
    watcher = "deploy" =>
        /\ ~ deployed
        /\ \A w \in Words \ Static : diff[w] = {}
        /\ \A t \in MemTools : Word(t) \notin Static => tool[t] = "attach"

MemInv ==
    /\ MemTypeOK /\ NotYet
    /\ watcher = "report" => i \in DOMAIN Baits
    /\ ~ deployed => \A t \in MemTools : Word(t) \notin Static => tool[t] = "attach"
    /\ HitsAreReportedOnce

LEMMA MemInitInv == MemInit => MemInv
<1> SUFFICES ASSUME MemInit PROVE MemInv
  OBVIOUS
<1>1. Len(Baits) \in Nat
  BY BaitsAssumption
<1>2. MemTypeOK
  <2>1. diff \in [Words -> SUBSET (0 .. Width - 1)] /\ seen \in [MemTools -> SUBSET (0 .. Width - 1)]
    BY DEF MemInit
  <2>2. tool \in [MemTools -> {"attach", "peek", "poke", "detach", "done"}]
    BY DEF MemInit
  <2>3. i \in 1 .. Len(Baits) + 1
    BY <1>1 DEF MemInit
  <2>4. QED
    BY <2>1, <2>2, <2>3 DEF MemInit, MemTypeOK
<1>3. Changed = {}
  BY DEF MemInit, Changed, InWindow
<1>4. HitsAreReportedOnce
  BY <1>3, FS_EmptySet DEF MemInit, HitsAreReportedOnce
<1>5. QED
  BY <1>2, <1>4 DEF MemInit, MemInv, NotYet

\* The watcher.
LEMMA WatchInv ==
    ASSUME MemInv, Watch
    PROVE  MemInv'
<1> USE BaitsAssumption DEF toolVars
<1>0. MemTypeOK /\ Len(Baits) \in Nat /\ DOMAIN Baits = 1 .. Len(Baits)
  BY DEF MemInv
<1>1. CASE Deploy
  <2>1. diff' = diff
    BY <1>0, <1>1 DEF Deploy, At, MemInv, NotYet, MemTypeOK
  <2>2. MemTypeOK'
    BY <1>0, <1>1, <2>1 DEF Deploy, MemTypeOK
  <2>3. Changed' = Changed
    BY <1>1, <2>1 DEF Deploy, At, Changed, InWindow
  <2>4. HitsAreReportedOnce'
    BY <1>1, <2>3 DEF Deploy, HitsAreReportedOnce, MemInv
  <2>5. QED
    BY <1>1, <2>2, <2>4 DEF Deploy, At, MemInv, NotYet, Word
<1>2. CASE Check
  <2>1. MemTypeOK'
    BY <1>0, <1>2 DEF Check, At, MemTypeOK
  <2>2. Changed' = Changed
    BY <1>2 DEF Check, At, Changed, InWindow
  <2>3. HitsAreReportedOnce'
    BY <1>2, <2>2 DEF Check, HitsAreReportedOnce, MemInv
  <2>4. watcher' = "report" => i' \in DOMAIN Baits
    BY <1>0, <1>2 DEF Check, At, MemTypeOK
  <2>5. QED
    BY <1>2, <2>1, <2>3, <2>4 DEF Check, At, MemInv, NotYet, Word
<1>3. CASE Repair
  <2>1. i \in DOMAIN Baits /\ Baits[i] \in Words
    BY <1>3 DEF Repair, At, MemInv, Words
  <2>2. MemTypeOK'
    BY <1>0, <1>3, <2>1 DEF Repair, At, MemTypeOK
  <2>3. Changed' = Changed \ {Baits[i]} /\ Baits[i] \in Changed
    BY <1>0, <1>3, <2>1 DEF Repair, At, Changed, InWindow, MemTypeOK
  <2>4. Cardinality(Changed') = Cardinality(Changed) - 1
    BY <2>3, ChangedFinite, FS_RemoveElement
  <2>5. HitsAreReportedOnce'
    BY <1>0, <1>3, <2>4, ChangedFinite DEF Repair, HitsAreReportedOnce, MemInv, MemTypeOK
  <2>6. QED
    BY <1>3, <2>2, <2>5 DEF Repair, At, MemInv, NotYet, Word
<1>4. CASE NextRound
  <2>1. MemTypeOK'
    BY <1>0, <1>4 DEF NextRound, At, MemTypeOK
  <2>2. Changed' = Changed
    BY <1>4 DEF NextRound, At, Changed, InWindow
  <2>3. HitsAreReportedOnce'
    BY <1>4, <2>2 DEF NextRound, HitsAreReportedOnce, MemInv
  <2>4. QED
    BY <1>4, <2>1, <2>3 DEF NextRound, At, MemInv, NotYet, Word
<1>5. QED
  BY <1>1, <1>2, <1>3, <1>4 DEF Watch

\* A tool.
LEMMA ToolInv ==
    ASSUME MemInv, NEW t \in MemTools, MemTool(t)
    PROVE  MemInv'
<1> USE BaitsAssumption
<1>0. MemTypeOK /\ NotYet
  BY DEF MemInv
<1>1. CASE Attach(t)
  <2>1. MemTypeOK'
    BY <1>0, <1>1 DEF Attach, Tool, MemTypeOK
  <2>2. HitsAreReportedOnce'
    BY <1>1 DEF Attach, HitsAreReportedOnce, MemInv, Changed, InWindow
  <2>3. Word(t) \in Static \/ deployed
    BY <1>1 DEF Attach
  <2>4. QED
    BY <1>0, <1>1, <2>1, <2>2, <2>3 DEF Attach, Tool, MemInv, MemTypeOK, NotYet, Word
<1>2. CASE Peek(t)
  <2>1. MemTypeOK'
    BY <1>0, <1>2 DEF Peek, Tool, MemTypeOK, Word
  <2>2. HitsAreReportedOnce'
    BY <1>2 DEF Peek, HitsAreReportedOnce, MemInv, Changed, InWindow
  <2>3. QED
    BY <1>0, <1>2, <2>1, <2>2 DEF Peek, Tool, MemInv, MemTypeOK, NotYet, Word
<1>3. CASE Poke(t)
  <2> DEFINE w == Word(t)
             v == Toggled(seen[t], Flips[t].bit)
  <2>1. w \in Words /\ v \in SUBSET (0 .. Width - 1)
    BY <1>0 DEF Word, Toggled, MemTypeOK
  <2>2. diff' = [diff EXCEPT ![w] = v] /\ UNCHANGED <<deployed, watcher, i, total, seen>>
    BY <1>3 DEF Poke
  <2>3. /\ visible' = IF diff[w] = {} /\ v # {} /\ ~ InWindow(w) THEN visible + 1 ELSE visible
        /\ undone' = IF diff[w] # {} /\ v = {} /\ ~ InWindow(w) THEN undone + 1 ELSE undone
    BY <1>3 DEF Poke
  <2>4. tool[t] = "poke" /\ tool' = [tool EXCEPT ![t] = "detach"]
    BY <1>3 DEF Poke, Tool
  <2> HIDE DEF w, v
  <2>5. MemTypeOK'
    <3>1. diff' \in [Words -> SUBSET (0 .. Width - 1)]
      BY <1>0, <2>1, <2>2 DEF MemTypeOK
    <3>2. visible' \in Nat /\ undone' \in Nat
      BY <1>0, <2>3 DEF MemTypeOK
    <3>3. QED
      BY <1>0, <2>2, <2>4, <3>1, <3>2 DEF MemTypeOK
  <2>6. Changed' = IF v # {} \/ InWindow(w) THEN Changed \cup {w} ELSE Changed \ {w}
    BY <1>0, <2>1, <2>2 DEF Changed, InWindow, MemTypeOK
  <2>7. w \in Changed <=> diff[w] # {} \/ InWindow(w)
    BY <2>1 DEF Changed
  <2>8. HitsAreReportedOnce'
    <3>1. visible = total + undone + Cardinality(Changed)
      BY DEF MemInv, HitsAreReportedOnce
    <3>2. CASE w \in Changed /\ (v # {} \/ InWindow(w))
      <4>1. Changed' = Changed /\ visible' = visible /\ undone' = undone
        BY <2>3, <2>6, <2>7, <3>2
      <4>2. QED
        BY <2>2, <3>1, <4>1 DEF HitsAreReportedOnce
    <3>3. CASE w \notin Changed /\ (v # {} \/ InWindow(w))
      <4>1. Cardinality(Changed') = Cardinality(Changed) + 1
        BY <2>6, <3>3, ChangedFinite, FS_AddElement
      <4>2. visible' = visible + 1 /\ undone' = undone
        BY <2>3, <2>7, <3>3
      <4>3. QED
        BY <1>0, <2>2, <3>1, <4>1, <4>2, ChangedFinite DEF HitsAreReportedOnce, MemTypeOK
    <3>4. CASE w \in Changed /\ ~ (v # {} \/ InWindow(w))
      <4>1. Cardinality(Changed') = Cardinality(Changed) - 1
        BY <2>6, <3>4, ChangedFinite, FS_RemoveElement
      <4>2. visible' = visible /\ undone' = undone + 1
        BY <2>3, <2>7, <3>4
      <4>3. QED
        BY <1>0, <2>2, <3>1, <4>1, <4>2, ChangedFinite DEF HitsAreReportedOnce, MemTypeOK
    <3>5. CASE w \notin Changed /\ ~ (v # {} \/ InWindow(w))
      <4>1. Changed' = Changed /\ visible' = visible /\ undone' = undone
        BY <2>3, <2>6, <2>7, <3>5
      <4>2. QED
        BY <2>2, <3>1, <4>1 DEF HitsAreReportedOnce
    <3>6. QED
      BY <3>2, <3>3, <3>4, <3>5
  <2>9. watcher = "deploy" => w \in Static
    BY <1>0, <2>4 DEF NotYet, w
  <2>10. NotYet'
    BY <1>0, <2>1, <2>2, <2>4, <2>9 DEF NotYet, MemTypeOK, Word
  <2>11. ~ deployed' => \A u \in MemTools : Word(u) \notin Static => tool'[u] = "attach"
    BY <1>0, <2>2, <2>4 DEF MemInv, MemTypeOK
  <2>12. QED
    BY <2>2, <2>5, <2>8, <2>10, <2>11 DEF MemInv, Word
<1>4. CASE Detach(t)
  <2>1. MemTypeOK'
    BY <1>0, <1>4 DEF Detach, Tool, MemTypeOK
  <2>2. HitsAreReportedOnce'
    BY <1>4 DEF Detach, HitsAreReportedOnce, MemInv, Changed, InWindow
  <2>3. QED
    BY <1>0, <1>4, <2>1, <2>2 DEF Detach, Tool, MemInv, MemTypeOK, NotYet, Word
<1>5. QED
  BY <1>1, <1>2, <1>3, <1>4 DEF MemTool

LEMMA MemStepInv == ASSUME MemInv, MemStep \/ UNCHANGED memVars PROVE MemInv'
<1>1. CASE UNCHANGED memVars
  BY <1>1 DEF memVars, MemInv, MemTypeOK, NotYet, HitsAreReportedOnce, Changed, InWindow, Word
<1>2. CASE MemStep
  BY <1>2, WatchInv, ToolInv DEF MemStep
<1>3. QED
  BY <1>1, <1>2

(***************************************************************************)
(* 2. The register victim.  How far the counters are apart when the loop   *)
(* compares them; from the second comparison after an injection on, each   *)
(* has seen that.                                                          *)
(***************************************************************************)

Apart == IF loop = "shadow" THEN drift - 1 ELSE drift

RegInv ==
    /\ RegTypeOK
    /\ Apart \in -MaxDrift - 1 .. MaxDrift
    /\ loop # "shadow" => drift \in -MaxDrift - 1 .. MaxDrift
    /\ loop # "share" => shared \in -MaxDrift - 1 .. MaxDrift
    /\ quiet >= 1 /\ loop = "report" => shared = drift
    /\ quiet >= 2 =>
          IF Off(Apart) THEN mismatch >= quiet - 1 /\ (quiet = 4 => status = "ALERT")
                        ELSE mismatch = 0 /\ status = "OK"

LEMMA RegInitInv == RegInit => RegInv
BY DriftAssumption DEF RegInit, RegInv, RegTypeOK, Apart, Off

LEMMA RegStepInv == ASSUME RegInv, RegStep \/ UNCHANGED regVars PROVE RegInv'
<1> USE DriftAssumption DEF RegInv
<1>0. RegTypeOK
  OBVIOUS
<1>1. CASE UNCHANGED regVars
  BY <1>1 DEF regVars, RegTypeOK, Apart, Off
<1>2. CASE Count
  BY <1>2 DEF Count, Doing, RegTypeOK, Apart, Off
<1>3. CASE Shadow
  BY <1>3 DEF Shadow, Doing, RegTypeOK, Apart, Off
<1>4. CASE Share
  BY <1>4 DEF Share, Doing, RegTypeOK, Apart, Off
<1>5. CASE Report
  BY <1>5 DEF Report, Doing, RegTypeOK, Apart, Off, UpTo
<1>6. CASE Test
  BY <1>6 DEF Test, Doing, RegTypeOK, Apart, Off
<1>7. CASE RegFault
  BY <1>7 DEF RegFault, RegTypeOK, Apart, Off
<1>8. QED
  BY <1>1, <1>2, <1>3, <1>4, <1>5, <1>6, <1>7 DEF RegStep, CountLoop

LEMMA RegInvSettles == RegInv => RegVerdictSettles
BY DEF RegInv, RegVerdictSettles, Apart

(***************************************************************************)
(* 3. The network victim.  The display holds the lock while it reads, so   *)
(* that nobody counts between its reads; and of each prober at most one    *)
(* probe is sent and not accounted for.                                    *)
(***************************************************************************)

UnderWay(p) == IF at[p] \in {"open", "waiting"} THEN 1 ELSE 0
Sums(p) == stats[p].sent = stats[p].recv + stats[p].timeout + UnderWay(p)

Places ==
    /\ \A p \in Tcp : at[p] \in {"idle", "open", "waiting"}
    /\ at["udp_prober"] \in {"idle", "unsent", "waiting", "corrupt"}
    /\ at["stats_display"] \in {"idle", "rest", "shows", "shown"}
    /\ lock = "stats_display" <=> at["stats_display"] \in {"shows", "shown"}

Books ==
    /\ \A p \in Counting : Sums(p)
    /\ at["udp_prober"] = "unsent" => stats["udp_prober"].sent < MaxProbes["udp_prober"]
    /\ corrupt + (IF at["udp_prober"] = "corrupt" THEN 1 ELSE 0) <= stats["udp_prober"].recv
    /\ \A p \in Counting :
          /\ at["stats_display"] = "shows" => shown[p].sent = stats[p].sent
          /\ at["stats_display"] = "shown" => shown[p] = stats[p]

\* An echo goes back to the port of a socket that was opened.
Socket == at["udp_prober"] # "idle" \/ conn["udp_prober"] # "none" => port \in Ports

NetInv == NetTypeOK /\ Socket /\ Places /\ Books

LEMMA NetInitInv == NetInit => NetInv
<1> SUFFICES ASSUME NetInit PROVE NetInv
  OBVIOUS
<1>1. NetTypeOK
  <2>1. Zero \in [sent : Nat, recv : Nat, timeout : Nat] /\ Zero.sent = 0
    BY DEF Zero
  <2>2. /\ stats \in [Counting -> [sent : Nat, recv : Nat, timeout : Nat]]
        /\ shown \in [Counting -> [sent : Nat, recv : Nat, timeout : Nat]]
        /\ \A p \in Counting : stats[p].sent <= MaxProbes[p]
    BY <2>1, ProbesAssumption DEF NetInit
  <2>3. /\ server \in [{Server[p] : p \in Probers} -> {"starting", "up", "down"}]
        /\ conn \in [Probers -> {"none", "queued", "answered", "reset"}]
        /\ upset \in [Probers -> {"no", "some", "all"}]
        /\ at \in [Probers \cup {"stats_display"} -> {"idle", "unsent", "open", "waiting", "corrupt",
                                                      "rest", "shows", "shown"}]
    BY DEF NetInit
  <2>4. /\ wire \in {"clean", "delay", "loss", "corrupt"} /\ blocked \in BOOLEAN
        /\ port \in Ports \cup {None} /\ flying \subseteq Ports
        /\ corrupt \in Nat /\ lock \in {None, "stats_display"}
        /\ baseline \in {"unset", "fast", "slow"} /\ first \in 0 .. 4 /\ fails \in 0 .. 3
        /\ said \in {"nothing", "failed", "blocked", "ok", "delay"}
    <3>1. blocked \in BOOLEAN /\ flying \subseteq Ports
      BY Zenon DEF NetInit
    <3>2. QED
      BY <3>1 DEF NetInit
  <2>5. QED
    BY <2>2, <2>3, <2>4 DEF NetTypeOK
<1>2. Places
  BY ProbesAssumption DEF NetInit, Places, Probers, Counting, Tcp
<1>3. Books
  BY DEF NetInit, Books, Sums, UnderWay, Probers, Counting, Tcp, Zero
<1>4. Socket
  BY DEF NetInit, Socket, Probers, Counting
<1>5. QED
  BY <1>1, <1>2, <1>3, <1>4 DEF NetInv

LEMMA NetInvBalances == NetInv => StatsBalance
<1> SUFFICES ASSUME NetInv PROVE StatsBalance
  OBVIOUS
<1>1. corrupt <= stats["udp_prober"].recv
  BY DEF NetInv, NetTypeOK, Books, Counting
<1>2. ASSUME NEW p \in Counting, at["stats_display"] = "shown"
      PROVE  shown[p].sent - shown[p].recv - shown[p].timeout \in {0, 1}
  <2>1. shown[p] = stats[p] /\ Sums(p)
    BY <1>2 DEF NetInv, Books
  <2>2. stats[p].sent \in Nat /\ stats[p].recv \in Nat /\ stats[p].timeout \in Nat
    BY DEF NetInv, NetTypeOK
  <2>3. QED
    BY <2>1, <2>2 DEF Sums, UnderWay
<1>3. QED
  BY <1>1, <1>2 DEF StatsBalance

\* Steps that count nothing and move nobody.
LEMMA StillInv ==
    ASSUME NetInv, UNCHANGED <<at, counts>>
    PROVE  Places' /\ Books'
BY DEF NetInv, Places, Books, Sums, UnderWay, counts

\* Counting a probe raises one figure of one prober.
Raises(p, s, r, t) ==
    /\ stats' \in [Counting -> [sent : Nat, recv : Nat, timeout : Nat]]
    /\ \A q \in Counting : q # p => stats'[q] = stats[q]
    /\ stats'[p].sent = stats[p].sent + s
    /\ stats'[p].recv = stats[p].recv + r
    /\ stats'[p].timeout = stats[p].timeout + t

LEMMA Bumps ==
    ASSUME NetTypeOK, NEW p \in Counting
    PROVE  /\ Bump(p, "sent") => Raises(p, 1, 0, 0)
           /\ Bump(p, "recv") => Raises(p, 0, 1, 0)
           /\ Bump(p, "timeout") => Raises(p, 0, 0, 1)
<1>1. stats[p] \in [sent : Nat, recv : Nat, timeout : Nat]
  BY DEF NetTypeOK
<1>2. ASSUME Bump(p, "sent") PROVE Raises(p, 1, 0, 0)
  BY <1>1, <1>2 DEF Bump, Raises, NetTypeOK
<1>3. ASSUME Bump(p, "recv") PROVE Raises(p, 0, 1, 0)
  BY <1>1, <1>3 DEF Bump, Raises, NetTypeOK
<1>4. ASSUME Bump(p, "timeout") PROVE Raises(p, 0, 0, 1)
  BY <1>1, <1>4 DEF Bump, Raises, NetTypeOK
<1>5. QED
  BY <1>2, <1>3, <1>4

LEMMA ProberNames ==
    ASSUME NEW p \in Probers
    PROVE  \/ p = "udp_prober" /\ p \in Counting /\ p \notin Tcp
           \/ p = "tcp_prober" /\ p \in Counting /\ p \in Tcp
           \/ p = "net_prober" /\ p \notin Counting /\ p \in Tcp
BY DEF Probers, Counting, Tcp

\* The rest of the network, and what the verdict may be.
LEMMA JudgesType ==
    ASSUME NetTypeOK, NEW p, NEW L \in SUBSET {"fast", "slow"}, Judges(p, L)
    PROVE  /\ baseline' \in {"unset", "fast", "slow"} /\ fails' \in 0 .. 3
           /\ said' \in {"nothing", "failed", "blocked", "ok", "delay"}
BY DEF Judges, Judge, NetTypeOK

\* A TCP or UDP prober that goes on without counting, the server's side, and
\* the faults.
LEMMA NetworkInv ==
    ASSUME NetInv, NetFault \/ (\E n \in Ports : Lose(n)) \/ Serves
                   \/ \E s \in DOMAIN server : ServerStep(s)
    PROVE  NetInv'
<1> USE DEF links, counts, judged
<1>0. NetTypeOK
  BY DEF NetInv
<1>1. CASE NetFault
  <2>1. NetTypeOK'
    BY <1>0, <1>1, ProbesAssumption DEF NetFault, NetTypeOK
  <2>2. QED
    BY <1>1, <2>1, StillInv DEF NetFault, NetInv, Socket
<1>2. ASSUME NEW n \in Ports, Lose(n) PROVE NetInv'
  <2>1. NetTypeOK'
    BY <1>0, <1>2 DEF Lose, NetTypeOK
  <2>2. QED
    BY <1>2, <2>1, StillInv DEF Lose, NetInv, Socket
<1>3. CASE Echo
  <2>1. port \in Ports
    BY <1>3 DEF Echo, Queued, Socket, NetInv
  <2>2. NetTypeOK'
    BY <1>0, <1>3, <2>1 DEF Echo, NetTypeOK
  <2>3. QED
    BY <1>3, <2>2, StillInv DEF Echo, NetInv, Socket
<1>4. ASSUME NEW p \in Tcp, Serve(p) PROVE NetInv'
  <2>1. NetTypeOK'
    BY <1>0, <1>4 DEF Serve, NetTypeOK
  <2>2. QED
    BY <1>0, <1>4, <2>1, StillInv DEF Serve, NetInv, Socket, Tcp, NetTypeOK
<1>5. ASSUME NEW s \in DOMAIN server, Bind(s) PROVE NetInv'
  <2>1. NetTypeOK'
    BY <1>0, <1>5 DEF Bind, NetTypeOK
  <2>2. QED
    BY <1>5, <2>1, StillInv DEF Bind, NetInv, Socket
<1>6. ASSUME NEW s \in DOMAIN server, ServerEnds(s) PROVE NetInv'
  <2>1. NetTypeOK'
    BY <1>0, <1>6 DEF ServerEnds, NetTypeOK
  <2>2. QED
    BY <1>0, <1>6, <2>1, StillInv DEF ServerEnds, NetInv, Socket, Probers, Counting, NetTypeOK
<1>7. QED
  BY <1>1, <1>2, <1>3, <1>4, <1>5, <1>6 DEF Serves, ServerStep, Serve

LEMMA OpenInv == ASSUME NetInv, NEW p \in Probers, Open(p) PROVE NetInv'
<1>0. NetTypeOK /\ Socket /\ Places /\ Books
  BY DEF NetInv
<1>1. /\ upset' \in [Probers -> {"no", "some", "all"}]
      /\ first' \in 0 .. 4
      /\ UNCHANGED <<wire, blocked, server, conn, flying, corrupt, shown, lock, baseline, fails, said>>
  BY <1>0 DEF Open, Round, NetTypeOK
<1>2. p \in Counting => stats[p].sent < MaxProbes[p]
  BY DEF Open, Round
<1>3. at[p] = "idle"
  BY DEF Open, Round, Probing
<1>4. CASE p = "udp_prober"
  <2>1. port' \in Ports /\ at' = [at EXCEPT ![p] = "unsent"] /\ stats' = stats
    BY <1>4 DEF Open, Goto
  <2>2. NetTypeOK' /\ Socket'
    BY <1>0, <1>1, <2>1 DEF NetTypeOK, Socket
  <2>3. Places' /\ Books'
    BY <1>0, <1>1, <1>2, <1>3, <1>4, <2>1
    DEF Places, Books, Sums, UnderWay, NetTypeOK, Probers, Counting, Tcp
  <2>4. QED
    BY <2>2, <2>3 DEF NetInv
<1>5. CASE p = "tcp_prober"
  <2>1. port' = port /\ at' = [at EXCEPT ![p] = "open"] /\ lock = None /\ Raises(p, 1, 0, 0)
    BY <1>0, <1>5, ProberNames, Bumps DEF Open, Goto, CanCount
  <2>2. NetTypeOK' /\ Socket'
    BY <1>0, <1>1, <1>2, <1>5, <2>1, ProbesAssumption
    DEF NetTypeOK, Socket, Raises, Probers, Counting, Tcp
  <2>3. Places' /\ Books'
    BY <1>0, <1>1, <1>3, <1>5, <2>1, ProbesAssumption
    DEF Places, Books, Sums, UnderWay, NetTypeOK, Raises, Probers, Counting, Tcp
  <2>4. QED
    BY <2>2, <2>3 DEF NetInv
<1>6. CASE p = "net_prober"
  <2>1. port' = port /\ at' = [at EXCEPT ![p] = "open"] /\ stats' = stats
    BY <1>6, ProberNames DEF Open, Goto, Bump
  <2>2. NetTypeOK' /\ Socket'
    BY <1>0, <1>1, <1>6, <2>1 DEF NetTypeOK, Socket, Probers, Counting, Tcp
  <2>3. Places' /\ Books'
    BY <1>0, <1>1, <1>3, <1>6, <2>1
    DEF Places, Books, Sums, UnderWay, NetTypeOK, Probers, Counting, Tcp
  <2>4. QED
    BY <2>2, <2>3 DEF NetInv
<1>7. QED
  BY <1>4, <1>5, <1>6, ProberNames

\* A round without a socket, and the end of a thread.
LEMMA NoRoundInv ==
    ASSUME NetInv, UNCHANGED netVars \/ \E p \in Probers : NoSocket(p)
    PROVE  NetInv'
<1> USE DEF links, counts, judged
<1>0. NetTypeOK
  BY DEF NetInv
<1>1. CASE UNCHANGED netVars
  <2>1. NetTypeOK' /\ Socket'
    BY <1>0, <1>1 DEF netVars, NetTypeOK, NetInv, Socket
  <2>2. QED
    BY <1>1, <2>1, StillInv DEF netVars, NetInv
<1>2. ASSUME NEW p \in Probers, NoSocket(p) PROVE NetInv'
  <2>1. NetTypeOK' /\ Socket'
    BY <1>0, <1>2 DEF NoSocket, Round, NetTypeOK, NetInv, Socket
  <2>2. QED
    BY <1>2, <2>1, StillInv DEF NoSocket, NetInv
<1>3. QED
  BY <1>1, <1>2

LEMMA SendInv == ASSUME NetInv, NEW p \in Probers, Send(p) PROVE NetInv'
<1>0. NetTypeOK /\ Socket /\ Places /\ Books
  BY DEF NetInv
<1>1. /\ p = "udp_prober" /\ at[p] = "unsent" /\ lock = None /\ at' = [at EXCEPT ![p] = "waiting"]
      /\ Raises(p, 1, 0, 0)
      /\ UNCHANGED <<wire, blocked, server, port, flying, corrupt, shown, lock, baseline, first,
                     fails, said>>
  BY <1>0, Bumps, ProberNames DEF Send, Probing, Goto, judged
<1>2. /\ upset' \in [Probers -> {"no", "some", "all"}]
      /\ conn' \in [Probers -> {"none", "queued", "answered", "reset"}]
  BY <1>0 DEF Send, NetTypeOK
<1>3. stats[p].sent < MaxProbes[p]
  BY <1>0, <1>1 DEF Books
<1>4. NetTypeOK' /\ Socket'
  BY <1>0, <1>1, <1>2, <1>3, ProbesAssumption
  DEF NetTypeOK, Socket, Raises, Probers, Counting, Tcp
<1>5. Places' /\ Books'
  BY <1>0, <1>1, ProbesAssumption
  DEF Places, Books, Sums, UnderWay, NetTypeOK, Raises, Probers, Counting, Tcp
<1>6. QED
  BY <1>4, <1>5 DEF NetInv

LEMMA ConnectInv == ASSUME NetInv, NEW p \in Probers, Connect(p) PROVE NetInv'
<1>0. NetTypeOK /\ Socket /\ Places /\ Books
  BY DEF NetInv
<1>1. /\ p \in Tcp /\ at[p] = "open" /\ at' = [at EXCEPT ![p] = "waiting"]
      /\ conn' = [conn EXCEPT ![p] = "queued"]
      /\ UNCHANGED <<wire, blocked, server, upset, port, flying, stats, corrupt, shown, lock, baseline,
                     first, fails, said>>
  BY DEF Connect, Probing, Goto, counts, judged
<1>2. NetTypeOK' /\ Socket'
  BY <1>0, <1>1 DEF NetTypeOK, Socket, Probers, Counting, Tcp
<1>3. Places' /\ Books'
  BY <1>0, <1>1 DEF Places, Books, Sums, UnderWay, NetTypeOK, Probers, Counting, Tcp
<1>4. QED
  BY <1>2, <1>3 DEF NetInv

\* A TCP probe is over: it counts as received or as timed out, or, of
\* net_prober, not at all.
LEMMA ClosedInv ==
    ASSUME NetInv, NEW p \in Tcp, at[p] \in {"open", "waiting"}, Closes(p), CanCount(p),
           Bump(p, "recv") \/ Bump(p, "timeout"),
           conn' = conn \/ conn' = [conn EXCEPT ![p] = "none"],
           UNCHANGED <<wire, blocked, server, port, flying, corrupt, shown, lock, first>>,
           /\ baseline' \in {"unset", "fast", "slow"} /\ fails' \in 0 .. 3
           /\ said' \in {"nothing", "failed", "blocked", "ok", "delay"}
    PROVE  NetInv'
<1>0. NetTypeOK /\ Socket /\ Places /\ Books
  BY DEF NetInv
<1>1. at' = [at EXCEPT ![p] = "idle"] /\ upset' = [upset EXCEPT ![p] = "no"]
  BY DEF Closes, Goto
<1>2. CASE p = "tcp_prober"
  <2>1. lock = None /\ (Raises(p, 0, 1, 0) \/ Raises(p, 0, 0, 1))
    BY <1>0, <1>2, Bumps DEF CanCount, Counting
  <2>2. NetTypeOK' /\ Socket'
    BY <1>0, <1>1, <1>2, <2>1, ProbesAssumption
    DEF NetTypeOK, Socket, Raises, Probers, Counting, Tcp
  <2>3. Places' /\ Books'
    BY <1>0, <1>1, <1>2, <2>1, ProbesAssumption
    DEF Places, Books, Sums, UnderWay, NetTypeOK, Raises, Probers, Counting, Tcp
  <2>4. QED
    BY <2>2, <2>3 DEF NetInv
<1>3. CASE p = "net_prober"
  <2>1. stats' = stats
    BY <1>3 DEF Bump, Counting
  <2>2. NetTypeOK' /\ Socket'
    BY <1>0, <1>1, <1>3, <2>1 DEF NetTypeOK, Socket, Probers, Counting, Tcp
  <2>3. Places' /\ Books'
    BY <1>0, <1>1, <1>3, <2>1 DEF Places, Books, Sums, UnderWay, NetTypeOK, Probers, Counting, Tcp
  <2>4. QED
    BY <2>2, <2>3 DEF NetInv
<1>4. QED
  BY <1>2, <1>3 DEF Tcp

LEMMA AnswerInv ==
    ASSUME NetInv, NEW p \in Tcp, ConnectFails(p) \/ Answered(p) \/ NoAnswer(p)
    PROVE  NetInv'
<1>0. NetTypeOK
  BY DEF NetInv
<1>1. CASE ConnectFails(p)
  <2>1. /\ baseline' \in {"unset", "fast", "slow"} /\ fails' \in 0 .. 3
        /\ said' \in {"nothing", "failed", "blocked", "ok", "delay"}
    BY <1>0, <1>1 DEF ConnectFails, Failure, NetTypeOK
  <2>2. QED
    BY <1>1, <2>1, ClosedInv DEF ConnectFails, Probing, links
<1>2. CASE Answered(p)
  <2>1. Latencies(p) \in SUBSET {"fast", "slow"}
    BY DEF Latencies
  <2>2. /\ baseline' \in {"unset", "fast", "slow"} /\ fails' \in 0 .. 3
        /\ said' \in {"nothing", "failed", "blocked", "ok", "delay"}
    BY <1>0, <1>2, <2>1, JudgesType DEF Answered
  <2>3. QED
    BY <1>2, <2>2, ClosedInv DEF Answered, Probing
<1>3. CASE NoAnswer(p)
  <2> DEFINE L == {"slow"} \cup IF conn[p] = "reset" THEN {"fast"} ELSE {}
  <2>1. L \in SUBSET {"fast", "slow"} /\ Judges(p, L)
    BY <1>3 DEF NoAnswer
  <2> HIDE DEF L
  <2>2. /\ baseline' \in {"unset", "fast", "slow"} /\ fails' \in 0 .. 3
        /\ said' \in {"nothing", "failed", "blocked", "ok", "delay"}
    BY <1>0, <2>1, JudgesType
  <2>3. QED
    BY <1>3, <2>2, ClosedInv DEF NoAnswer, Probing
<1>4. QED
  BY <1>1, <1>2, <1>3

\* What a UDP probe comes to.
LEMMA UdpInv ==
    ASSUME NetInv, NEW p \in Probers, p = "udp_prober", Echoed(p) \/ Corrupt(p) \/ NoAnswer(p)
    PROVE  NetInv'
<1>0. NetTypeOK /\ Socket /\ Places /\ Books /\ p \in Counting /\ p \notin Tcp
  BY ProberNames DEF NetInv
<1>1. CASE Echoed(p)
  <2>1. /\ at[p] = "waiting" /\ lock = None /\ Raises(p, 0, 1, 0)
        /\ flying' \subseteq flying
        /\ UNCHANGED <<wire, blocked, server, conn, port, corrupt, shown, lock, baseline, first,
                       fails, said>>
    BY <1>0, <1>1, Bumps DEF Echoed, Probing, judged
  <2>2. /\ upset' \in [Probers -> {"no", "some", "all"}]
        /\ at' = [at EXCEPT ![p] = "idle"] \/ at' = [at EXCEPT ![p] = "corrupt"]
    BY <1>0, <1>1 DEF Echoed, Closes, Goto, NetTypeOK
  <2>3. NetTypeOK' /\ Socket'
    BY <1>0, <2>1, <2>2, ProbesAssumption
    DEF NetTypeOK, Socket, Raises, Probers, Counting, Tcp
  <2>4. Places' /\ Books'
    BY <1>0, <2>1, <2>2, ProbesAssumption
    DEF Places, Books, Sums, UnderWay, NetTypeOK, Raises, Probers, Counting, Tcp
  <2>5. QED
    BY <2>3, <2>4 DEF NetInv
<1>2. CASE Corrupt(p)
  <2>1. /\ at[p] = "corrupt" /\ at' = [at EXCEPT ![p] = "idle"] /\ corrupt' = corrupt + 1
        /\ upset' = [upset EXCEPT ![p] = "no"]
        /\ UNCHANGED <<wire, blocked, server, conn, port, flying, stats, shown, lock, baseline, first,
                       fails, said>>
    BY <1>2 DEF Corrupt, Probing, Closes, Goto, links, judged
  <2>2. NetTypeOK' /\ Socket'
    BY <1>0, <2>1 DEF NetTypeOK, Socket, Probers, Counting, Tcp
  <2>3. Places' /\ Books'
    BY <1>0, <2>1 DEF Places, Books, Sums, UnderWay, NetTypeOK, Probers, Counting, Tcp
  <2>4. QED
    BY <2>2, <2>3 DEF NetInv
<1>3. CASE NoAnswer(p)
  <2>1. /\ at[p] = "waiting" /\ lock = None /\ Raises(p, 0, 0, 1)
        /\ at' = [at EXCEPT ![p] = "idle"] /\ upset' = [upset EXCEPT ![p] = "no"]
        /\ conn' = [conn EXCEPT ![p] = "none"]
        /\ UNCHANGED <<wire, blocked, server, port, flying, corrupt, shown, lock, baseline, first,
                       fails, said>>
    BY <1>0, <1>3, Bumps DEF NoAnswer, Probing, CanCount, Closes, Goto, Judges
  <2>2. NetTypeOK' /\ Socket'
    BY <1>0, <2>1, ProbesAssumption
    DEF NetTypeOK, Socket, Raises, Probers, Counting, Tcp
  <2>3. Places' /\ Books'
    BY <1>0, <2>1, ProbesAssumption
    DEF Places, Books, Sums, UnderWay, NetTypeOK, Raises, Probers, Counting, Tcp
  <2>4. QED
    BY <2>2, <2>3 DEF NetInv
<1>4. QED
  BY <1>1, <1>2, <1>3

LEMMA ProberInv == ASSUME NetInv, NEW p \in Probers, ProberStep(p) PROVE NetInv'
<1>1. CASE Open(p)
  BY <1>1, OpenInv
<1>2. CASE Send(p)
  BY <1>2, SendInv
<1>3. CASE Connect(p)
  BY <1>3, ConnectInv
<1>4. CASE ConnectFails(p) \/ Answered(p) \/ Echoed(p) \/ Corrupt(p) \/ NoAnswer(p)
  <2>1. CASE p \in Tcp
    BY <1>4, <2>1, AnswerInv, ProberNames DEF Echoed, Corrupt
  <2>2. CASE p \notin Tcp
    BY <1>4, <2>2, UdpInv, ProberNames DEF ConnectFails, Answered
  <2>3. QED
    BY <2>1, <2>2
<1>5. CASE ProberEnds(p)
  BY <1>5, NoRoundInv DEF ProberEnds
<1>6. QED
  BY <1>1, <1>2, <1>3, <1>4, <1>5 DEF ProberStep

\* The display.
LEMMA DisplayInv == ASSUME NetInv, DisplayStep PROVE NetInv'
<1> USE DEF links, judged
<1>0. NetTypeOK /\ Socket /\ Places /\ Books
  BY DEF NetInv
<1>1. CASE Rest
  <2>1. NetTypeOK' /\ Socket'
    BY <1>0, <1>1 DEF Rest, Displaying, Goto, NetTypeOK, Socket, counts
  <2>2. Places' /\ Books'
    BY <1>0, <1>1
    DEF Rest, Displaying, Goto, Places, Books, Sums, UnderWay, NetTypeOK, counts, Probers, Counting, Tcp
  <2>3. QED
    BY <2>1, <2>2 DEF NetInv
<1>2. CASE Display
  <2>1. /\ at["stats_display"] = "rest" /\ at' = [at EXCEPT !["stats_display"] = "shows"]
        /\ lock = None /\ lock' = "stats_display"
        /\ UNCHANGED <<wire, blocked, server, conn, upset, port, flying, stats, corrupt, baseline,
                       first, fails, said>>
    BY <1>2 DEF Display, Displaying, Goto
  <2>2. /\ shown' \in [Counting -> [sent : Nat, recv : Nat, timeout : Nat]]
        /\ \A p \in Counting : shown'[p].sent = stats[p].sent
    BY <1>0, <1>2 DEF Display, NetTypeOK
  <2>3. NetTypeOK' /\ Socket'
    BY <1>0, <2>1, <2>2 DEF NetTypeOK, Socket
  <2>4. Places' /\ Books'
    BY <1>0, <2>1, <2>2 DEF Places, Books, Sums, UnderWay, NetTypeOK, Probers, Counting, Tcp
  <2>5. QED
    BY <2>3, <2>4 DEF NetInv
<1>3. CASE Tally
  <2>1. /\ at["stats_display"] = "shows" /\ at' = [at EXCEPT !["stats_display"] = "shown"]
        /\ UNCHANGED <<wire, blocked, server, conn, upset, port, flying, stats, corrupt, lock, baseline,
                       first, fails, said>>
    BY <1>3 DEF Tally, Displaying, Goto
  <2>2. /\ shown' \in [Counting -> [sent : Nat, recv : Nat, timeout : Nat]]
        /\ \A p \in Counting : shown'[p] = stats[p]
    <3>1. \A p \in Counting : /\ stats[p] \in [sent : Nat, recv : Nat, timeout : Nat]
                              /\ shown[p].sent = stats[p].sent
      BY <1>0, <2>1 DEF NetTypeOK, Books
    <3>2. \A p \in Counting : [stats[p] EXCEPT !.sent = shown[p].sent] = stats[p]
      BY <3>1
    <3>3. shown' = [p \in Counting |-> stats[p]]
      BY <1>3, <3>2 DEF Tally
    <3>4. QED
      BY <3>1, <3>3
  <2>3. NetTypeOK' /\ Socket'
    BY <1>0, <2>1, <2>2 DEF NetTypeOK, Socket
  <2>4. Places' /\ Books'
    BY <1>0, <2>1, <2>2 DEF Places, Books, Sums, UnderWay, NetTypeOK, Probers, Counting, Tcp
  <2>5. QED
    BY <2>3, <2>4 DEF NetInv
<1>4. CASE Displayed
  <2>1. /\ at["stats_display"] = "shown" /\ at' = [at EXCEPT !["stats_display"] = "idle"]
        /\ lock' = None
        /\ UNCHANGED <<wire, blocked, server, conn, upset, port, flying, stats, corrupt, baseline, first,
                       fails, said>>
    BY <1>4 DEF Displayed, Displaying, Goto
  <2>2. shown' \in [Counting -> [sent : Nat, recv : Nat, timeout : Nat]]
    BY <1>4 DEF Displayed, Zero
  <2>3. NetTypeOK' /\ Socket'
    BY <1>0, <2>1, <2>2 DEF NetTypeOK, Socket
  <2>4. Places' /\ Books'
    BY <1>0, <2>1, ProbesAssumption
    DEF Places, Books, Sums, UnderWay, NetTypeOK, Probers, Counting, Tcp
  <2>5. QED
    BY <2>3, <2>4 DEF NetInv
<1>5. CASE DisplayEnds
  BY <1>5, NoRoundInv DEF DisplayEnds
<1>6. QED
  BY <1>1, <1>2, <1>3, <1>4, <1>5 DEF DisplayStep

LEMMA NetStepInv == ASSUME NetInv, NetStep \/ UNCHANGED netVars PROVE NetInv'
<1>1. CASE UNCHANGED netVars
  BY <1>1, NoRoundInv
<1>2. CASE NetStep
  BY <1>2, NetworkInv, NoRoundInv, ProberInv, DisplayInv DEF NetStep
<1>3. QED
  BY <1>1, <1>2

(***************************************************************************)
(* 4. The loads and their victims.                                         *)
(***************************************************************************)

StressInv ==
    /\ stress \in {"ready", "creates", "joins", "ended", "crashed"}
    /\ threads \in 0 .. Most /\ nth \in 1 .. threads + 1
    /\ burning \subseteq created /\ created \subseteq 1 .. threads
    /\ stress = "ready" => nth = 1 /\ created = {}

WorkerInv ==
    /\ load \in {"no", "some", "all"}
    /\ rounds \in 0 .. 3 /\ slows \in 0 .. rounds /\ verdict \in {"none", "ok", "degraded"}

LoadFlags == pressing \in BOOLEAN /\ working \in BOOLEAN

MemoryInv ==
    /\ leak \in {"ready", "eats", "holds", "ended", "killed"} /\ size \in Leaks \cup {0}
    /\ eaten \in 0 .. size /\ block \in 0 .. 1 /\ Free \in 0 .. Memory
    /\ tester \in {"idle", "writes", "judges"} /\ round \in 0 .. 4
    /\ before \in 0 .. Memory /\ base \in -1 .. Memory /\ level \in 0 .. 3
    /\ leak = "ready" => eaten = 0
    /\ tester # "judges" => block = 0

LoadInv == StressInv /\ WorkerInv /\ MemoryInv

LEMMA LoadInvType == LoadInv /\ LoadFlags => LoadTypeOK
BY Zenon DEF LoadInv, LoadFlags, StressInv, WorkerInv, MemoryInv, LoadTypeOK

LEMMA LoadInitInv == LoadInit => LoadInv
<1> SUFFICES ASSUME LoadInit PROVE LoadInv
  OBVIOUS
<1> USE LoadAssumption
<1>1. StressInv
  BY DEF LoadInit, StressInv
<1>2. WorkerInv
  BY DEF LoadInit, WorkerInv
<1>3. MemoryInv
  BY DEF LoadInit, MemoryInv, Free
<1>4. QED
  BY <1>1, <1>2, <1>3 DEF LoadInv

LEMMA LoadStill ==
    ASSUME LoadInv
    PROVE  /\ UNCHANGED stressVars => StressInv'
           /\ UNCHANGED workerVars => WorkerInv'
           /\ UNCHANGED resVars => MemoryInv'
<1>1. ASSUME UNCHANGED stressVars PROVE StressInv'
  BY <1>1 DEF LoadInv, stressVars, StressInv
<1>2. ASSUME UNCHANGED workerVars PROVE WorkerInv'
  BY <1>2 DEF LoadInv, workerVars, WorkerInv
<1>3. ASSUME UNCHANGED resVars PROVE MemoryInv'
  BY <1>3 DEF LoadInv, resVars, leakVars, testerVars, MemoryInv, Free
<1>4. QED
  BY <1>1, <1>2, <1>3

LEMMA BurningInv == ASSUME LoadInv, NEW b, Burning(b) PROVE WorkerInv'
BY DEF LoadInv, WorkerInv, Burning, Load

LEMMA StressStepInv == ASSUME LoadInv, StressStep PROVE LoadInv'
<1> USE LoadAssumption
<1>0. StressInv
  BY DEF LoadInv
<1>1. CASE StressStarts
  <2>1. \A n \in Threadings : num_threads(n) \in 0 .. Most
    BY DEF num_threads
  <2>2. StressInv'
    BY <1>0, <1>1, <2>1 DEF StressStarts, StressInv
  <2>3. QED
    BY <1>1, <2>2, LoadStill DEF StressStarts, LoadInv
<1>2. CASE Create
  <2>1. StressInv'
    <3>1. /\ stress = "creates" /\ nth <= threads /\ nth' = nth + 1
          /\ \/ created' = created \cup {nth} /\ burning' = burning \cup {nth}
             \/ created' = created /\ burning' = burning
          /\ stress' = stress /\ threads' = threads
      BY <1>2 DEF Create, Burning
    <3>2. nth \in 1 .. threads /\ nth' \in 1 .. threads + 1
      BY <1>0, <3>1 DEF StressInv
    <3>3. created' \subseteq 1 .. threads /\ burning' \subseteq created'
      BY <1>0, <3>1, <3>2 DEF StressInv
    <3>4. QED
      BY <1>0, <3>1, <3>2, <3>3 DEF StressInv
  <2>2. WorkerInv'
    BY <1>2, BurningInv, LoadStill DEF Create
  <2>3. QED
    BY <1>2, <2>1, <2>2, LoadStill DEF Create, LoadInv
<1>3. CASE TimeUp
  <2>1. StressInv'
    BY <1>0, <1>3 DEF TimeUp, StressInv
  <2>2. QED
    BY <1>3, <2>1, LoadStill DEF TimeUp, LoadInv
<1>4. ASSUME NEW n \in burning, BurnEnds(n) PROVE LoadInv'
  <2>1. StressInv'
    BY <1>0, <1>4 DEF BurnEnds, StressInv, Burning
  <2>2. QED
    BY <1>4, <2>1, BurningInv, LoadStill DEF BurnEnds, LoadInv
<1>5. CASE Join
  <2>1. StressInv'
    <3>1. /\ stress = "joins" /\ nth <= threads /\ nth' \in {nth, nth + 1}
          /\ burning' \in {burning, {}} /\ stress' \in {stress, "crashed"}
          /\ created' = created /\ threads' = threads
      BY <1>5 DEF Join, Burning
    <3>2. QED
      BY <1>0, <3>1 DEF StressInv
  <2>2. WorkerInv'
    BY <1>5, BurningInv, LoadStill DEF Join
  <2>3. QED
    BY <1>5, <2>1, <2>2, LoadStill DEF Join, LoadInv
<1>6. CASE StressEnds
  <2>1. StressInv'
    BY <1>0, <1>6 DEF StressEnds, StressInv, Burning
  <2>2. QED
    BY <1>6, <2>1, BurningInv, LoadStill DEF StressEnds, LoadInv
<1>7. QED
  BY <1>1, <1>2, <1>3, <1>4, <1>5, <1>6 DEF StressStep

LEMMA WorkInv == ASSUME LoadInv, Works PROVE LoadInv'
<1>0. WorkerInv
  BY DEF LoadInv
<1>1. CASE RoundBegins
  <2>1. WorkerInv'
    BY <1>0, <1>1 DEF RoundBegins, WorkerInv, Load
  <2>2. QED
    BY <1>1, <2>1, LoadStill DEF RoundBegins, LoadInv
<1>2. CASE RoundEnds
  <2>1. \A score : Verdicts(score) \subseteq {"none", "ok", "degraded"}
    BY DEF Verdicts
  <2>2. WorkerInv'
    BY <1>0, <1>2, <2>1 DEF RoundEnds, WorkerInv
  <2>3. QED
    BY <1>2, <2>2, LoadStill DEF RoundEnds, LoadInv
<1>3. CASE WorkerEnds
  BY <1>3, LoadStill DEF WorkerEnds, LoadInv, cpuVars
<1>4. QED
  BY <1>1, <1>2, <1>3 DEF Works

\* The memory that the leak and the victim share.
LEMMA MemoryStepInv == ASSUME LoadInv, LeakStep \/ Tests PROVE LoadInv'
<1> USE LoadAssumption
<1>0. MemoryInv
  BY DEF LoadInv
<1>1. StressInv' /\ WorkerInv'
  BY LoadStill
  DEF LeakStep, LeakStarts, Eat, LeakIsKilled, VictimIsKilled, Hold, LeakEnds, Tests, Ask, Write,
      Assess, TesterEnds, cpuVars
<1>2. ASSUME LeakIsKilled PROVE MemoryInv'
  BY <1>0, <1>2 DEF LeakIsKilled, MemoryInv, Free, testerVars
<1>3. ASSUME VictimIsKilled PROVE MemoryInv'
  BY <1>0, <1>3 DEF VictimIsKilled, MemoryInv, Free, leakVars
<1>4. MemoryInv'
  <2>1. CASE LeakStarts
    BY <1>0, <2>1 DEF LeakStarts, MemoryInv, Free, testerVars
  <2>2. CASE Eat
    BY <1>0, <1>2, <1>3, <2>2 DEF Eat, MemoryInv, Free, testerVars
  <2>3. CASE Hold
    BY <1>0, <2>3 DEF Hold, MemoryInv, Free, testerVars
  <2>4. CASE LeakEnds
    BY <1>0, <2>4 DEF LeakEnds, MemoryInv, Free, testerVars
  <2>5. CASE Ask
    BY <1>0, <2>5 DEF Ask, Testing, MemoryInv, Free, leakVars
  <2>6. CASE Write
    BY <1>0, <1>2, <1>3, <2>6 DEF Write, MemoryInv, Free, leakVars
  <2>7. CASE Assess
    BY <1>0, <2>7 DEF Assess, Testing, MemoryInv, Free, leakVars
  <2>8. CASE TesterEnds
    BY <2>8, LoadStill DEF TesterEnds
  <2>9. QED
    BY <2>1, <2>2, <2>3, <2>4, <2>5, <2>6, <2>7, <2>8 DEF LeakStep, Tests
<1>5. QED
  BY <1>1, <1>4 DEF LoadInv

LEMMA LoadStepInv == ASSUME LoadInv, LoadStep \/ UNCHANGED <<cpuVars, resVars>> PROVE LoadInv'
<1>1. CASE UNCHANGED <<cpuVars, resVars>>
  BY <1>1, LoadStill DEF cpuVars, LoadInv
<1>2. CASE LoadStep
  BY <1>2, StressStepInv, WorkInv, MemoryStepInv DEF LoadStep
<1>3. QED
  BY <1>1, <1>2

(***************************************************************************)
(* 5. All of them.                                                         *)
(***************************************************************************)

\* What a step may do to the victim as such.
MainStep ==
    /\ program' = program
    /\ keep_running' = keep_running \/ keep_running' = FALSE
    /\ main' \in {main, "ended"}
    /\ \/ returned' = returned
       \/ \E t \in Threads[program] : returned' = returned \cup {t}

LEMMA MemMain == MemStep => MainStep
BY DEF MemStep, Watch, Deploy, Check, Repair, NextRound, At, Runs, Returns, MemTool, Attach, Peek, Poke,
       Detach, Tool, mainVars, MainStep

LEMMA RegMain == RegStep => MainStep
BY DEF RegStep, CountLoop, Count, Shadow, Share, Report, Test, RegFault, mainVars, MainStep

LEMMA NetMain == NetStep => MainStep
BY DEF NetStep, NetFault, Lose, Serves, Echo, Serve, ServerStep, Bind, ServerEnds, NoSocket, ProberStep,
       Open, Send, Connect, ConnectFails, Answered, Echoed, Corrupt, NoAnswer, ProberEnds, DisplayStep,
       Rest, Display, Tally, Displayed, DisplayEnds, Probing, Displaying, Runs, Returns, mainVars,
       MainStep

LEMMA LoadMain == LoadStep => MainStep
BY DEF LoadStep, StressStep, StressStarts, Create, TimeUp, BurnEnds, Join, StressEnds, Works, RoundBegins,
       RoundEnds, WorkerEnds, LeakStep, LeakStarts, Eat, LeakIsKilled, VictimIsKilled, Hold, LeakEnds,
       Tests, Ask, Write, Assess, TesterEnds, Testing, Runs, Returns, mainVars, MainStep

LEMMA MainInv == ASSUME VictimTypeOK, MainStep PROVE VictimTypeOK'
<1>1. keep_running' \in BOOLEAN
  BY Zenon DEF VictimTypeOK, MainStep
<1>2. program' \in Programs /\ main' \in {"running", "ended"} /\ returned' \subseteq Threads[program']
  BY DEF VictimTypeOK, MainStep
<1>3. QED
  BY <1>1, <1>2 DEF VictimTypeOK

LEMMA FlagsInv == ASSUME LoadFlags, LoadStep PROVE LoadFlags'
<1>1. pressing' = pressing \/ pressing' = FALSE
  BY Zenon DEF LoadStep, StressStep, StressStarts, Create, TimeUp, BurnEnds, Join, StressEnds, Works, RoundBegins,
       RoundEnds, WorkerEnds, LeakStep, LeakStarts, Eat, LeakIsKilled, VictimIsKilled, Hold, LeakEnds,
       Tests, Ask, Write, Assess, TesterEnds, cpuVars, stressVars
<1>2. working' = working \/ working' = FALSE \/ working' = TRUE
  BY Zenon DEF LoadStep, StressStep, StressStarts, Create, TimeUp, BurnEnds, Join, StressEnds, Works, RoundBegins,
       RoundEnds, WorkerEnds, LeakStep, LeakStarts, Eat, LeakIsKilled, VictimIsKilled, Hold, LeakEnds,
       Tests, Ask, Write, Assess, TesterEnds, cpuVars, workerVars, Burning
<1>3. QED
  BY Zenon, <1>1, <1>2 DEF LoadFlags

IInv == VictimTypeOK /\ MemInv /\ RegInv /\ NetInv /\ LoadInv /\ LoadFlags

LEMMA InitInv == Init => IInv
<1> SUFFICES ASSUME Init PROVE IInv
  OBVIOUS
<1>1. VictimTypeOK
  BY Zenon DEF Init, VictimInit, VictimTypeOK
<1>2. LoadFlags
  BY Zenon DEF Init, LoadInit, LoadFlags
<1>3. QED
  BY <1>1, <1>2, MemInitInv, RegInitInv, NetInitInv, LoadInitInv DEF Init, IInv

LEMMA StepInv == ASSUME IInv, [Next]_vars PROVE IInv'
<1> USE DEF IInv
<1>1. CASE UNCHANGED vars
  <2>1. MainStep
    BY <1>1 DEF vars, mainVars, MainStep
  <2>2. LoadFlags'
    BY Zenon, <1>1 DEF vars, cpuVars, stressVars, workerVars, LoadFlags
  <2>3. QED
    BY <1>1, <2>1, <2>2, MainInv, MemStepInv, RegStepInv, NetStepInv, LoadStepInv DEF vars
<1>2. CASE LoadStep /\ UNCHANGED <<memVars, regVars, netVars>>
  BY <1>2, LoadMain, MainInv, FlagsInv, MemStepInv, RegStepInv, NetStepInv, LoadStepInv
<1>3. CASE /\ (Interrupt \/ MainEnds) \/ MemStep \/ RegStep \/ NetStep
           /\ MemStep \/ UNCHANGED memVars
           /\ RegStep \/ UNCHANGED regVars
           /\ NetStep \/ UNCHANGED netVars
           /\ UNCHANGED <<cpuVars, resVars>>
  <2>1. MainStep
    BY <1>3, MemMain, RegMain, NetMain DEF Interrupt, MainEnds, MainStep
  <2>2. LoadFlags'
    BY Zenon, <1>3 DEF cpuVars, stressVars, workerVars, LoadFlags
  <2>3. QED
    BY <1>3, <2>1, <2>2, MainInv, MemStepInv, RegStepInv, NetStepInv, LoadStepInv
<1>4. QED
  BY <1>1, <1>2, <1>3 DEF Next

LEMMA Invariance == Spec => []IInv
BY InitInv, StepInv, PTL DEF Spec

\* Every variable of the victims and of what befalls them keeps its type, for
\* any number of baits, tools, injections, probes, cores and blocks.
THEOREM TypeCorrect == Spec => []TypeOK
<1>1. IInv => TypeOK
  BY LoadInvType DEF IInv, MemInv, RegInv, NetInv, TypeOK
<1>2. QED
  BY <1>1, Invariance, PTL

\* The count of target_mem: every injection that changed an intact bait has
\* been reported once or is to be, unless another took it back.
THEOREM ReportedOnce == Spec => []HitsAreReportedOnce
<1>1. IInv => HitsAreReportedOnce
  BY DEF IInv, MemInv
<1>2. QED
  BY <1>1, Invariance, PTL

\* The line of target_reg settles on the right word, whatever the tolerance
\* and the injections.
THEOREM VerdictSettles == Spec => []RegVerdictSettles
<1>1. IInv => RegVerdictSettles
  BY RegInvSettles DEF IInv
<1>2. QED
  BY <1>1, Invariance, PTL

\* The figures of target_net add up whenever they are printed.
THEOREM Balanced == Spec => []StatsBalance
<1>1. IInv => StatsBalance
  BY NetInvBalances DEF IInv
<1>2. QED
  BY <1>1, Invariance, PTL
=============================================================================
