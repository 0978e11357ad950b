CONSTANTS
    Messages = {m1, m2}
    Runners = {w1, w2, d1}
    Drivers = {d1}
    MaxThroughput <- Throughput
    MaxAwaits = 1
    NoMessage = NoMessage
SPECIFICATION LiveSpec
CHECK_DEADLOCK FALSE
INVARIANTS
    TypeOK
    RunnerExclusion
    NoLostWakeup
    SuspendedNotStranded
    ScheduledHasJob
    QuietAfterDrain
    SettledAtDeath
PROPERTIES
    FateFinal
    ImplementsContract
    AcceptedSettles
    DestructorEnds
