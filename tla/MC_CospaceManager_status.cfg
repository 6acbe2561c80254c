\* The status handler against the placement task, Dedicated placement.
CONSTANTS
    c1 = c1
    c2 = c2
    c3 = c3
    Cospaces <- MC_Cospaces
    Strategies <- MC_StrategiesCode
    MaxQueries <- MC_MaxQueries
SYMMETRY MC_Symmetry
SPECIFICATION Spec
INVARIANT StatusNeverLosesKnown
CHECK_DEADLOCK FALSE
