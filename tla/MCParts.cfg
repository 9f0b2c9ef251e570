\* One component at a time, each with the instance described in the README.
SPECIFICATION PartsSpec
CONSTANTS
    None = none
    Refused = refused
    Depth = 2
    Counter = {0, 1, 2, 3, 4, 5, 6, 7, 8, 9}
    Width = 4
    Source = {ip1}
    Hello = {h1, h2, h3}
    AuthFails = 2
    AuthWindow = 4
    BanMax = 8
    DurationBits = 5
    Code = {c1, c2, c3}
    HandoffMax = 2
    MaxUses = 1
    Lifetime = 2
    Proc = {x1, x2, x3}
    Msg = {m1, m2}
    MaxClears = 1
    MaxOpens = 2
    MaxBreaks = 1
    MaxFlips = 3
    Lengths = {14, 15, 27, 62, 106, 214}
    Gateway = {g1, g2}
    Conn = {k1}
    Invite = {i1, i2}
    Session = {s1}
    Op = {p1}
    Reaper = {r1, r2}
    Expire = TRUE
    MaxInvites = 2
    MaxSessions = 1
    MaxHello = 1
    MaxFaults = 0
INVARIANTS PartsTypeOK AcceptedOnce MaskExact NewestCodesWork OneCopy ClearedStaysCleared Decodes
PROPERTIES BanServed BanEnds ShownAsItIs ExpiryNoticed
CHECK_DEADLOCK FALSE
