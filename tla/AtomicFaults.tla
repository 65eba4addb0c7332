----------------------------- MODULE AtomicFaults -----------------------------
(***************************************************************************)
(* What the injectors of registers and memory promise of a process of one  *)
(* thread: every injection is one atomic change of one cell, a fault of    *)
(* the value the cell has at that instant; no tool injects more often than *)
(* it was asked to; and a tool that ends with a number of injections says  *)
(* the truth, unless the process died under its last one.  How the tools   *)
(* stop the process and who else competes for it does not show here.       *)
(***************************************************************************)
EXTENDS Integers

CONSTANTS Tools,
          Cells,    \* the register and the word of memory
          Values,   \* what they hold
          Place,    \* Place[t]: the cell that a tool works on
          Outcome,  \* Outcome[t][v]: what a fault of t may make of v
          Limit     \* Limit[t]: the injections it was asked for

VARIABLES alive,    \* the process
          word,     \* the values of its cells
          hits,     \* the injections of each tool
          claimed   \* the number it ended with, -1 before, -2 if it gave up

vars == <<alive, word, hits, claimed>>

Working(t) == claimed[t] = -1

Init ==
    /\ alive = TRUE
    /\ word \in [Cells -> Values]
    /\ hits = [t \in Tools |-> 0]
    /\ claimed = [t \in Tools |-> -1]

\* The process computes: between two injections anything may change.
Work ==
    /\ alive /\ word' \in [Cells -> Values]
    /\ UNCHANGED <<alive, hits, claimed>>

Dies ==
    /\ alive /\ alive' = FALSE
    /\ UNCHANGED <<word, hits, claimed>>

Inject(t) ==
    /\ alive /\ Working(t) /\ hits[t] < Limit[t]
    /\ \E v \in Outcome[t][word[Place[t]]] : word' = [word EXCEPT ![Place[t]] = v]
    /\ hits' = [hits EXCEPT ![t] = @ + 1]
    /\ UNCHANGED <<alive, claimed>>

\* Its last injection may have met a process that was gone.
Reports(t, n) ==
    /\ Working(t)
    /\ n = hits[t] \/ (~ alive /\ n = hits[t] + 1)
    /\ claimed' = [claimed EXCEPT ![t] = n]
    /\ UNCHANGED <<alive, word, hits>>

\* An error, or Ctrl-C: it says nothing of how often it has injected.
GivesUp(t) ==
    /\ Working(t)
    /\ claimed' = [claimed EXCEPT ![t] = -2]
    /\ UNCHANGED <<alive, word, hits>>

Next ==
    \/ Work \/ Dies
    \/ \E t \in Tools : Inject(t) \/ GivesUp(t) \/ \E n \in 0 .. Limit[t] : Reports(t, n)

Spec == Init /\ [][Next]_vars
=============================================================================
