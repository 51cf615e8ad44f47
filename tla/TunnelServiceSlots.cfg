SPECIFICATION FairSpec
CONSTANTS
    c1 = c1  c2 = c2  c3 = c3
    q1 = q1  q2 = q2  q3 = q3  q4 = q4  q5 = q5
    t1 = t1  t2 = t2
    None = None
    Clients = {c1, c2, c3}
    Requests = {q1, q3, q4, q5}
    Targets = {t1, t2}
    ClientOf <- ThreeOneOne
    TargetOf <- TwoTargets
    MaxTunnels = 1
    LateEvents = FALSE
    CloseAnytime = FALSE
    Refusals = FALSE
    MaxCloses = 1
    MaxDisconnects = 1
CHECK_DEADLOCK FALSE
INVARIANTS SlotsHold LeasesHold
PROPERTIES ImplementsSlotPool EveryoneIsServed
