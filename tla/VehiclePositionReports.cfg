SPECIFICATION Spec
CONSTANTS
    Sources = {device, phone}
    Reports = {1, 2, 3}
    MaxEvents = 3
    Points = {0, 2}
    MaxRank = 2
    FutureLimit = 1
    Freshness = 0
    Hysteresis = 1
    TopSpeed = 1
    MaxWait = 1
    Horizon = 1
INVARIANTS CurrentIsNewestCounted OnePositionPerTime SwitchesExplainSource NoOscillation
SYMMETRY Alike
