\* The first ask of the services gets request id 0.
CONSTANTS
    bad = bad
    Nil = Nil
    Garbage = Garbage
    Malformed = bad
    IdWidth <- MC_Width2
    MaxAsks <- MC_Asks2
    MaxReqs <- MC_Reqs1
    MaxAnswers <- MC_Answers1
    MaxNoise <- MC_Zero
    MaxTells <- MC_Zero
    AskSenders <- MC_AskSenders
    PeerServices <- MC_PeerServices
    Overflow = "wrap"
SPECIFICATION Spec
INVARIANT AskReachesPeer
