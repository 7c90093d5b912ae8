SPECIFICATION Spec
CONSTANTS
    Locations = {l1, l2}
    Weathers <- CalmHeatStorm
    MaxCycles = 2
    MaxKills = 1
INVARIANTS
    EveryLocationPolled
