\* Two hellos at a time against one operator request, expiry and two reap loops.
SPECIFICATION Spec
CONSTANTS
    Invite = {i1, i2}
    Session = {s1, s2, s3}
    Op = {p1}
    Reaper = {r1, r2}
    None = none
    Expire = TRUE
    MaxInvites = 1
    MaxSessions = 1
    MaxHello = 2
    MaxFaults = 0
SYMMETRY HubSymmetry
INVARIANTS ReaperRuns DeadSessionsGo
PROPERTIES TabsBounded
CHECK_DEADLOCK FALSE
