SPECIFICATION LiveSpec
CHECK_DEADLOCK FALSE
INVARIANTS
    NeverUsedAfterFree
    PollerNeverRefused
    OutcomeFaithful
    LeakOnlyByOvertaking
PROPERTIES
    FlagsMonotonic
    AwaiterLeaves
