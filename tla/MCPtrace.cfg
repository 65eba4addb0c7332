SPECIFICATION Spec
CONSTANTS
    r1 = r1
    r2 = r2
    m1 = m1
    Nobody = Nobody
    RegTools = {r1, r2}
    MemTools = {m1}
    Loops <- TwoLoops
    Invocations <- MCInvocations
    Width = 1
    Low = 1
    FaultOf <- MCFaults
    MaxSignals = 1
INVARIANT TypeOK
INVARIANT NotLeftStopped
INVARIANT DelayHonoured
PROPERTY FaultsAreAtomic
PROPERTY InvocationsEnd
