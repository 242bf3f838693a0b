SPECIFICATION Spec
CONSTANTS
    VM_WINDOW_SECONDS = 4
    ThresholdMg = 90
    BucketThreshold = 2
    QuietTimeout = 3999
    ReportInterval = 2000
    Magnitudes <- MCMagnitudes
    TickSizes <- MCTickSizes
    MaxElapsed = 12000
INVARIANTS
    TypeOK
    SleepOnlyWhenWindowEmpty
PROPERTIES
    ImplementsSlidingWindow
    TickMatchesLoop
