CONSTANTS
    Keys = {k1, k2}
    MaxLate = 1
    Slots = 3
    Threshold = 2
    Window = 3
    Cooldown = 4
    Tracks = 1
    MaxNow = 8
    Buckets = {b1, b2, b3}
    Rate = 2
    Span = 3
    MaxBuckets = 2
    MaxClock = 6
    Sessions = {s1, s2}
    Profiles = {d1}
    May <- MayManage
    MaxChallenges = 2
    MaxMade = 3
    MaxConfigs = 2
    MaxRotations = 1
    Payers = {1, 2}
    Edited = {2}
    MaxMonth = 2
    MaxBreaks = 1
    Metered = {m1}
    Collectors = {c1, c2}
    MaxCarried = 3
    MaxEpoch = 2
SPECIFICATION Spec
INVARIANT TypeOK
INVARIANT GuessesBounded
INVARIANT AdmissionsBounded
INVARIANT ConfirmedAsShown
INVARIANT NotifiedMeansSent
INVARIANT SentOnce
INVARIANT NeverUndercounted
INVARIANT ExactWhenSerial
PROPERTY EventuallyNotified
CHECK_DEADLOCK FALSE
