SPECIFICATION Spec
CONSTANTS
    r1 = r1
    r2 = r2
    m1 = m1
    Nobody = Nobody
    RegTools = {}
    MemTools = {m1}
    Loops <- TwoLoops
    Invocations <- JustPlain
    Width = 1
    Low = 1
    FaultOf <- MCFaults
    MaxSignals = 1
INVARIANT Resumes
