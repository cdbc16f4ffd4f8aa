SPECIFICATION Spec
CONSTANTS
    t1 = t1  t2 = t2  r1 = r1  r2 = r2  a1 = a1  a2 = a2
    Threads = {t1, t2}
    Runs = {r1, r2}
    Asks = {a1, a2}
    Unnamed = {a2}
    RecoveryAttempts = 1
    Threshold = 2
    Casts <- MCCasts
PROPERTIES
    PollsBlockNobody
    AnswersReachTheirRun
CHECK_DEADLOCK FALSE
