SPECIFICATION Spec
CONSTANTS
    EspWakeupTimer = 4
    MaxResets = 1
    MaxIdentifies = 1
    MaxDeafWindows = 1
INVARIANTS
    TypeOK
    AsleepReportsStopped
PROPERTIES
    AlwaysWakes
    ReportLeadsToSleep
    ShakingIsMonitored
