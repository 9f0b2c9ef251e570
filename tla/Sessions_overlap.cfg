\* A node that starts a second attempt while its first one runs; no failure.
SPECIFICATION Spec
CONSTANTS
    Node = {1, 2}
    Link = {l1, l2}
    None = none
    MaxFaults = 0
    MaxInFlight = 2
INVARIANT ConvergeOnSurvivor
CHECK_DEADLOCK FALSE
