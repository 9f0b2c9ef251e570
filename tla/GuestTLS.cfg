\* Two runs of the gateway.
SPECIFICATION FairSpec
CONSTANTS
    Gateway = {g1, g2}
    Conn = {c1}
    None = none
    Depth = 1
PROPERTY PortsReleased
CHECK_DEADLOCK FALSE
