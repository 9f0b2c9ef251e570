\* One page, one attempt to connect at a time, failures and drops.
SPECIFICATION FairSpec
CONSTANTS
    Session = {s1, s2}
    Stream = {e1, e2}
    Attempt = {a1}
    HostMsg = {m1}
    OwnMsg = {g1}
    None = none
    QueueDepth = 2
    MaxWire = 1
    MaxFaults = 1
INVARIANTS TypeOK NothingMissed ClosedMeansDropped
PROPERTIES ComesBack ShownInTheEnd
CHECK_DEADLOCK FALSE
