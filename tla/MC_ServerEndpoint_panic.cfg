\* A debug build: the counter panics at 2^IdWidth after three asks are out.
CONSTANTS
    bad = bad
    Nil = Nil
    Garbage = Garbage
    Malformed = bad
    IdWidth <- MC_Width2
    MaxAsks <- MC_Asks4
    MaxReqs <- MC_Reqs1
    MaxAnswers <- MC_Answers1
    MaxNoise <- MC_Zero
    MaxTells <- MC_Zero
    AskSenders <- MC_AskSenders
    PeerServices <- MC_PeerServices
    Overflow = "panic"
SPECIFICATION Spec
INVARIANT AskAnswerCorrelated IInv
CHECK_DEADLOCK FALSE
