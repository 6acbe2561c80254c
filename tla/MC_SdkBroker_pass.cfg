\* Two join_session calls of one application, two frames pushed unasked.
\* The application may stop calling: no deadlock check.
CONSTANTS
    bad = bad
    Nil = Nil
    Garbage = Garbage
    Malformed = bad
    IdWidth <- MC_Width2
    MaxJoins <- MC_Joins2
    MaxPush <- MC_Push2
    MaxTexts <- MC_Texts1
SPECIFICATION Spec
INVARIANT PromisesBorrowed IInv
PROPERTY HandshakeResolves
CHECK_DEADLOCK FALSE
