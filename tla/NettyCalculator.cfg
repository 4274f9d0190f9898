\* Three threads share one client; responses may be cut anywhere.
SPECIFICATION Spec
CONSTANTS
    Callers = {t1, t2, t3}
    NoCall = NoCall
    Garbage = Garbage
    MaxCalls = 2
SYMMETRY CallerSymmetry
INVARIANTS SumsAreReal MixUpsHang
\* Threads hang, and everything may be stopped.
CHECK_DEADLOCK FALSE
