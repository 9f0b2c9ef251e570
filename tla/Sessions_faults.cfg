\* Two nodes, overlapping attempts, one failure of any kind.
SPECIFICATION Spec
CONSTANTS
    Node = {1, 2}
    Link = {l1, l2, l3}
    None = none
    MaxFaults = 1
    MaxInFlight = 2
SYMMETRY LinkSymmetry
INVARIANTS NoOrphanEntry NoStraySession IInv
PROPERTY SurvivorIsStable
CHECK_DEADLOCK FALSE
