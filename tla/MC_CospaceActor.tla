-------------------------- MODULE MC_CospaceActor --------------------------
EXTENDS CospaceActor, TLC

CONSTANTS c1, c2, Core, Presence

MC_Conns == {c1, c2}
MC_PoolServices == {Core, Presence}
MC_Sends == 1
MC_Sends2 == 2
MC_Calls == 1
MC_Zero == 0
MC_OneService == {Core}
=============================================================================
