----------------------------- MODULE MCKprobes -----------------------------
(* Instances of Kprobes: two processors, up to two faults or faults without *)
(* end, and two kinds of fault.                                             *)
EXTENDS Kprobes

MCCounts == {-1, 0, 1, 2}
=============================================================================
