------------------------------- MODULE VmStart -------------------------------
(***************************************************************************)
(* The start of the virtual machines: start_frontend.sh goes through the   *)
(* nodes, runs run_cluster.sh in the background for each that has no       *)
(* machine in the process list, and becomes the web server, which on its   *)
(* startup event goes through the nodes once more (app.py).  Nothing       *)
(* reserves a node between the look and the start, so a machine may be     *)
(* started twice; QEMU then refuses the second one, as the first has       *)
(* locked the disk image and the forwarded port.                           *)
(***************************************************************************)
EXTENDS Naturals, Sequences, FiniteSets

CONSTANTS Nodes,        \* in the order they are started
          Starters,     \* invocations of start_frontend.sh
          MaxExits      \* bound: machines that exit

ASSUME StartAssumption ==
    /\ MaxExits \in Nat /\ IsFiniteSet(Starters)
    /\ Nodes \in Seq(STRING)
    /\ \A i, j \in DOMAIN Nodes : Nodes[i] = Nodes[j] => i = j

VARIABLES executable,   \* run_cluster.sh is there and may be executed
          at,           \* of each starter: "script", "server", "ended", "refused"
          nth,          \* the node it is at
          found,        \* it did not see a machine there
          launched,     \* of each node: the run_cluster.sh that are not QEMU yet
          opening,      \* those that are, and have not opened the image
          machine,      \* the node's machine runs
          exits,
          gone          \* history: nodes whose machine exited, and nobody looked since

startVars == <<executable, at, nth, found, launched, opening, machine, exits, gone>>

Names == {Nodes[i] : i \in DOMAIN Nodes}
At(s) == Nodes[nth[s]]

StartInit ==
    /\ executable \in BOOLEAN
    /\ at = [s \in Starters |-> "script"]
    /\ nth = [s \in Starters |-> 1]
    /\ found = [s \in Starters |-> FALSE]
    /\ launched = [n \in Names |-> 0] /\ opening = [n \in Names |-> 0]
    /\ machine = [n \in Names |-> FALSE]
    /\ exits = 0 /\ gone = {}

-----------------------------------------------------------------------------
\* Without run_cluster.sh the script gives up before it looks at any node.
GivesUp(s) ==
    /\ at[s] = "script" /\ ~ executable
    /\ at' = [at EXCEPT ![s] = "refused"]
    /\ UNCHANGED <<executable, nth, found, launched, opening, machine, exits, gone>>

Looking(s) ==
    /\ at[s] \in {"script", "server"} /\ executable
    /\ nth[s] <= Len(Nodes) /\ ~ found[s]

\* Mutant: the pattern matches the machine of any node.
is_vm_running_Any(n) == \E m \in Names : opening[m] > 0 \/ machine[m]

\* qemu-system-aarch64 with the name of the node; its shell does not match.
is_vm_running(n) == opening[n] > 0 \/ machine[n]

\* "already running".
Skip(s) ==
    /\ Looking(s) /\ is_vm_running(At(s))
    /\ nth' = [nth EXCEPT ![s] = @ + 1]
    /\ gone' = gone \ {At(s)}
    /\ UNCHANGED <<executable, at, found, launched, opening, machine, exits>>

\* None is seen; the server sees none either when ps fails or takes too long.
Miss(s) ==
    /\ Looking(s) /\ (~ is_vm_running(At(s)) \/ at[s] = "server")
    /\ found' = [found EXCEPT ![s] = TRUE]
    /\ gone' = gone \ {At(s)}
    /\ UNCHANGED <<executable, at, nth, launched, opening, machine, exits>>

\* nohup run_cluster.sh &, Popen.
Launch(s) ==
    /\ found[s]
    /\ launched' = [launched EXCEPT ![At(s)] = @ + 1]
    /\ nth' = [nth EXCEPT ![s] = @ + 1]
    /\ found' = [found EXCEPT ![s] = FALSE]
    /\ UNCHANGED <<executable, at, opening, machine, exits, gone>>

\* exec uvicorn; the startup event begins at the first node.
ExecServer(s) ==
    /\ at[s] = "script" /\ nth[s] > Len(Nodes)
    /\ at' = [at EXCEPT ![s] = "server"]
    /\ nth' = [nth EXCEPT ![s] = 1]
    /\ UNCHANGED <<executable, found, launched, opening, machine, exits, gone>>

\* The startup event is over: the server binds its port and serves, or finds
\* another one there and ends.
StartupDone(s) ==
    /\ at[s] = "server" /\ nth[s] > Len(Nodes)
    /\ at' = [at EXCEPT ![s] = "ended"]
    /\ UNCHANGED <<executable, nth, found, launched, opening, machine, exits, gone>>

\* The operator runs it again; a bound: not before every launch has settled.
Again(s) ==
    /\ at[s] \in {"ended", "refused"}
    /\ \A n \in Names : launched[n] = 0 /\ opening[n] = 0
    /\ at' = [at EXCEPT ![s] = "script"]
    /\ nth' = [nth EXCEPT ![s] = 1]
    /\ UNCHANGED <<executable, found, launched, opening, machine, exits, gone>>

Starter(s) == GivesUp(s) \/ Skip(s) \/ Miss(s) \/ Launch(s) \/ ExecServer(s)

-----------------------------------------------------------------------------
(* run_cluster.sh and QEMU *)

RunsQemu(n) ==
    /\ launched[n] > 0
    /\ launched' = [launched EXCEPT ![n] = @ - 1]
    /\ opening' = [opening EXCEPT ![n] = @ + 1]
    /\ UNCHANGED <<executable, at, nth, found, machine, exits, gone>>

\* The first gets the image and the port, the others end.
OpensImage(n) ==
    /\ opening[n] > 0
    /\ opening' = [opening EXCEPT ![n] = @ - 1]
    /\ machine' = [machine EXCEPT ![n] = TRUE]
    /\ UNCHANGED <<executable, at, nth, found, launched, exits, gone>>

\* It is shut down, or a fault kills it.
Exits(n) ==
    /\ machine[n] /\ exits < MaxExits
    /\ machine' = [machine EXCEPT ![n] = FALSE]
    /\ exits' = exits + 1 /\ gone' = gone \cup {n}
    /\ UNCHANGED <<executable, at, nth, found, launched, opening>>

Qemu(n) == RunsQemu(n) \/ OpensImage(n)

\* Every variable keeps its type.  A starter launches a node's machine once as
\* the script and once as the server, and is not run again before they settle.
StartTypeOK ==
    /\ executable \in BOOLEAN
    /\ at \in [Starters -> {"script", "server", "ended", "refused"}]
    /\ nth \in [Starters -> 1 .. Len(Nodes) + 1] /\ found \in [Starters -> BOOLEAN]
    /\ launched \in [Names -> Nat] /\ opening \in [Names -> Nat]
    /\ \A n \in Names : launched[n] + opening[n] <= 2 * Cardinality(Starters)
    /\ machine \in [Names -> BOOLEAN]
    /\ exits \in 0 .. MaxExits /\ gone \subseteq Names

\* Once a starter is through, every node has its machine in the end, or had one
\* that exited since anybody looked: whoever starts what at the same time, a
\* node is skipped only if a machine is on its way, and of two that are started
\* one remains (start_vm, _ensure_vm_running).
MachinesComeUp ==
    \A s \in Starters : (at[s] = "ended") ~> (\A n \in Names : machine[n] \/ n \in gone)
=============================================================================
