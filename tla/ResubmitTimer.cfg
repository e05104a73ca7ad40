\* Resubmission timer under the monotonic clock spec §2 assumes: a sync is
\* abandoned only after more than ABANDON_THRESHOLD timeouts of real time.
CONSTANTS
    Width = 5
    ResubmitTimeout = 2
    AbandonThreshold = 3
    ClockMonotonic = TRUE
    StartTime = 1
    MaxStepBack = 2
    MaxTime = 14
SPECIFICATION Spec
INVARIANT TypeOK
INVARIANT AbandonNotEarly
