\* Two keys, two names, two handlers at a time, a restart and a failed write.
SPECIFICATION Spec
CONSTANTS
    Key = {k1, k2}
    Nick = {x, y}
    Job = {j1, j2}
    None = none
    MaxFaults = 2
SYMMETRY TrustSymmetry
INVARIANTS VerifiedAsMarked NewcomersBadged
CHECK_DEADLOCK FALSE
