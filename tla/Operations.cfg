SPECIFICATION Spec
CONSTANTS
    Request = {r1, r2, r3}
    Input = {i1, i2}
    MaxRestarts = 1
CHECK_DEADLOCK FALSE
SYMMETRY Symmetry
INVARIANTS DispatchedAtMostOnce VerdictKept
PROPERTIES KeepsPromise
