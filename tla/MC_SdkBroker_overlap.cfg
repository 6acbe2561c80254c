\* Spec 8, scenario 4: two join_session calls whose handshakes overlap.
CONSTANTS
    bad = bad
    Nil = Nil
    Garbage = Garbage
    Malformed = bad
    IdWidth <- MC_Width2
    MaxJoins <- MC_Joins2
    MaxPush <- MC_Push1
    MaxTexts <- MC_Texts1
SPECIFICATION Spec
INVARIANT NoBorrowPanic
CHECK_DEADLOCK FALSE
