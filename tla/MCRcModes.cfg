SPECIFICATION Spec
CONSTANTS
    Tables <- TwoTables
    Aux = {1, 2, 3}
    GraceSeconds = 3
    MinArmed = 2
    HalfRange = 3
    OverrideMin = 1
    OverrideMax = 3
    Timeouts = {0, 2, 4}
    DisarmTicks = 1
INVARIANTS TypeOK ModesMatch
PROPERTIES ForcedModesLapse GroundRearmIsChecked PrearmCycles
