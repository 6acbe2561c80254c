------------------------- MODULE MC_ServerEndpoint -------------------------
EXTENDS ServerEndpoint, TLC

CONSTANTS bad

MC_Width2 == 2
MC_Width1 == 1
MC_Asks2 == 2
MC_Asks4 == 4
MC_Reqs == 2
MC_Reqs1 == 1
MC_Answers1 == 1
MC_Zero == 0
MC_Answers == 2
MC_Noise == 1
MC_Tells == 1
MC_AskSenders == {"Core", "Presence"}
MC_PeerServices == {"Core"}
=============================================================================
