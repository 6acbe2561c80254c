--------------------------- MODULE MC_SdkBroker ---------------------------
EXTENDS SdkBroker, TLC

CONSTANTS bad

MC_Width2 == 2
MC_Joins2 == 2
MC_Push2 == 2
MC_Push1 == 1
MC_Texts1 == 1
=============================================================================
