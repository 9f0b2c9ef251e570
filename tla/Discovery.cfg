\* A clock of coarse units that keeps the order of the real intervals:
\* announce every 2, maintenance every 1, timeout 4, freshness window 5.
SPECIFICATION FairSpec
CONSTANTS
    AnnounceEvery = 2
    TickEvery = 1
    PeerTimeout = 4
    ClockSkew = 5
    MaxNet = 2
    None = none
INVARIANTS TypeOK NoReplayWhileKnown
PROPERTIES NoFalseDown GhostsGo PeersFound
CHECK_DEADLOCK FALSE
