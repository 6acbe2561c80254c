\* A service tells the client a binary payload.
CONSTANTS
    bad = bad
    Nil = Nil
    Garbage = Garbage
    Malformed = bad
    IdWidth <- MC_Width2
    MaxAsks <- MC_Zero
    MaxReqs <- MC_Reqs1
    MaxAnswers <- MC_Zero
    MaxNoise <- MC_Zero
    MaxTells <- MC_Tells
    AskSenders <- MC_AskSenders
    PeerServices <- MC_PeerServices
    Overflow = "wrap"
SPECIFICATION Spec
INVARIANT ServerFramesDecode
