------------------------------ MODULE MCPtrace ------------------------------
(* Instances of PtraceInjectors: a process under two register injectors and *)
(* one memory injector, and under the memory injector alone.                *)
EXTENDS PtraceInjectors

CONSTANTS r1, r2, m1

TwoLoops == [t \in RegTools |-> IF t = r1 THEN 2 ELSE 0]
F(type, bit) == [type |-> type, bit |-> bit]
MCFaults == [t \in Tools |-> IF t = r1 THEN F("flip1", -1)
                             ELSE IF t = r2 THEN F("add1", -1) ELSE F("flip", 0)]

\* One of the register injectors has a delay that works; or the 1000000 us that
\* fault_controller suggests; or a register X31; or neither may trace.  The bound:
\* the memory injector joins in the first and the last case.
Call(wait, hurdle) == [wait |-> wait, hurdle |-> hurdle]
Plain == [t \in Tools |-> Call("none", "none")]
MCInvocations ==
    {[Plain EXCEPT ![r1] = Call("short", "none")],
     [Plain EXCEPT ![r1] = Call("long", "none"), ![m1] = Call("none", "permission")],
     [Plain EXCEPT ![r1] = Call("none", "register"), ![m1] = Call("none", "permission")],
     [Plain EXCEPT ![r1] = Call("none", "permission"), ![r2] = Call("none", "permission")]}
JustPlain == {Plain}
=============================================================================
