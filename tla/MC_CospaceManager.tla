------------------------- MODULE MC_CospaceManager -------------------------
(* Model-checking instance of CospaceManager: three cospace ids, two status *)
(* requests.                                                               *)
EXTENDS CospaceManager, TLC

CONSTANTS c1, c2, c3

MC_Cospaces == {c1, c2, c3}

\* resolve_cospace_host_node_from_session_request always answers Dedicated.
MC_StrategiesCode == {"Dedicated"}

\* The three placements CospaceManager implements (Main and Shared are kept
\* by the source for future use).
MC_StrategiesAll == {"Main", "Shared", "Dedicated"}

MC_MaxQueries == 2

\* No status requests: the liveness run is about the placement tasks.
MC_NoQueries == 0

\* Ids are only compared for equality.
MC_Symmetry == Permutations(MC_Cospaces)
=============================================================================
