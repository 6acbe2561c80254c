\* All three placements; registry disjointness and the lifecycle refinement.
CONSTANTS
    c1 = c1
    c2 = c2
    c3 = c3
    Cospaces <- MC_Cospaces
    Strategies <- MC_StrategiesAll
    MaxQueries <- MC_MaxQueries
SYMMETRY MC_Symmetry
SPECIFICATION Spec
INVARIANT RegistryDisjoint
INVARIANT IInv
PROPERTY LifecycleRefined
\* The server idles once the bounded requests are served.
CHECK_DEADLOCK FALSE
