SPECIFICATION Spec
CONSTANTS
    Temps <- MCTemps
    RmtChannels = 2
    MaxFaults = 1
    MaxIdentifies = 1
    MaxThreadEvents = 2
INVARIANTS
    TypeOK
    ProvisioningReleases
    NeverMadeUp
PROPERTIES
    FoundSensorIsReported
    AttachedIsAdvertised
