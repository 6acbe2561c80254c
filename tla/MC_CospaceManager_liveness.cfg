\* Every hosted request is eventually resolved, Dedicated placement.
CONSTANTS
    c1 = c1
    c2 = c2
    c3 = c3
    Cospaces <- MC_Cospaces
    Strategies <- MC_StrategiesCode
    MaxQueries <- MC_NoQueries
SPECIFICATION Spec
PROPERTY PlacementResolves
CHECK_DEADLOCK FALSE
