CONSTANTS
    Callers = {c1, c2, c3}
    NoCaller = NoCaller
    ResolveMayFail = TRUE
SPECIFICATION Spec
INVARIANTS NoCallRendersNilTemplate
CHECK_DEADLOCK FALSE
