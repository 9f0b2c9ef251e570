\* One attempt at a time at each end, a failure, and fairness.
SPECIFICATION FairSpec
CONSTANTS
    Node = {1, 2}
    Link = {l1, l2, l3}
    None = none
    MaxFaults = 1
    MaxInFlight = 1
INVARIANT ConvergeOnSurvivor
PROPERTY Converges
CHECK_DEADLOCK FALSE
