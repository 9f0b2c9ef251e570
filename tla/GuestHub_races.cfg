\* Overlapping operator requests, expiry, failed calls and restarts; no guests.
SPECIFICATION Spec
CONSTANTS
    Invite = {i1, i2, i3}
    Session = {}
    Op = {p1, p2}
    Reaper = {r1}
    None = none
    Expire = TRUE
    MaxInvites = 1
    MaxSessions = 1
    MaxHello = 0
    MaxFaults = 2
SYMMETRY HubSymmetry
INVARIANTS InviteCap
PROPERTIES LeftOpenInVain StopsOnlyWhenNoneLive NeverUsableAgain
CHECK_DEADLOCK FALSE
