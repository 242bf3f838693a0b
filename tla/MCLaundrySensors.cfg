SPECIFICATION Spec
CONSTANTS
    Measurements <- MCMeasurements
    Charges <- MCCharges
    Disturbances <- MCDisturbances
    MaxBusErrors = 2
    MaxRefusals = 1
INVARIANTS
    TypeOK
    ReadingsBelongTogether
PROPERTIES
    ReportsFollowSensors
