\* Expiry dates and one operator request at a time.
SPECIFICATION Spec
CONSTANTS
    Invite = {i1, i2}
    Session = {s1}
    Op = {p1}
    Reaper = {r1, r2}
    None = none
    Expire = TRUE
    MaxInvites = 2
    MaxSessions = 1
    MaxHello = 1
    MaxFaults = 0
INVARIANT GatewayOnlyWhileLive
CHECK_DEADLOCK FALSE
