SPECIFICATION Spec
CONSTANTS
    VM_WINDOW_SECONDS = 5
    ThresholdMg = 90
    BucketThreshold = 2
    QuietTimeout = 5000
    ReportInterval = 2000
    Still <- MCStill
    Shaking <- MCShaking
    MaxElapsed = 9000
    SampleInterval = 500
    MaxLostUpdates = 2
    MaxFailedReads = 1
INVARIANTS
    ReportedStateIsCurrent
    NeverAsleepRunning
PROPERTIES
    ShakingIsReported
    QuietLeadsToSleep
    LostUpdateIsRepaired
    StepsOfDetector
