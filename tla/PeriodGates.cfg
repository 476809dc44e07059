SPECIFICATION PeriodOnly
CONSTANTS
    p1 = p1
    p2 = p2
    l1 = l1
    l2 = l2
    l3 = l3
    k1 = k1
    k2 = k2
    Press = {p1, p2}
    Ladder <- MCLadder
    MaxSessions = 1
    Clerk = {p1, p2, p3}
    MaxUnseen = 2
    a1 = a1
    a2 = a2
    a3 = a3
    s1 = s1
    s2 = s2
    Seat = {a1, a2, a3}
    ChainStep = {s1, s2}
    StepOf <- MCStepOf
    Required <- MCRequired
    Handler = {p1, p2}
    MaxAttempts = 2
    Biller = {p1, p2}
    Resumer = {r1}
    Interval = 2
    First = 0
    Horizon = 4
    MaxDates = 1
    Officer = {p1, p2}
    Leg = {l1, l2, l3}
    Line = {k1, k2}
    Fits <- MCFits
    NoLine = NoLine
    Teller = {p1, p2, p3}
    User = {p1, p2}
    Call = {x1, x2}
    Shift = {sh1}
    MaxDrawer = 1
    Nobody = Nobody
INVARIANTS
    SkipsAreDocumented
CHECK_DEADLOCK FALSE
