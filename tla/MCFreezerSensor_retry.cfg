SPECIFICATION Spec
CONSTANTS
    Temps <- MCTemps
    RmtChannels = 1
    MaxFaults = 0
    MaxIdentifies = 0
    MaxThreadEvents = 1
PROPERTY
    RetrySucceeds
