\* Two asks of two services, two requests of the peer, no counter wrap.
CONSTANTS
    bad = bad
    Nil = Nil
    Garbage = Garbage
    Malformed = bad
    IdWidth <- MC_Width2
    MaxAsks <- MC_Asks2
    MaxReqs <- MC_Reqs
    MaxAnswers <- MC_Answers
    MaxNoise <- MC_Noise
    MaxTells <- MC_Tells
    AskSenders <- MC_AskSenders
    PeerServices <- MC_PeerServices
    Overflow = "wrap"
SPECIFICATION Spec
INVARIANT AskAnswerCorrelated
PROPERTY HandshakeAnswered
CHECK_DEADLOCK FALSE
