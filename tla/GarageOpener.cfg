SPECIFICATION Spec
CONSTANTS
    Doors = {"open", "closed"}
    PollInterval = 2
    LedDuration = 2
    MaxTurn = 3
    MaxEdges = 2
INVARIANTS
    TypeOK
    NoUnaskedToggle
PROPERTIES
    NoPollRightAfterPress
    PressIsTaken
    ButtonLedGoesOut
    PixelShowsDoor
    PixelAdmitsIgnorance
