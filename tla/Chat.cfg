SPECIFICATION FairSpec
CONSTANTS
    Node = {a, b, c}
    Link = {l1, l2}
    Msg = {m1}
    None = none
    MaxFaults = 2
INVARIANTS TypeOK MarksBelong
PROPERTIES KeepsPromise AckedUnlessBroken
CHECK_DEADLOCK FALSE
