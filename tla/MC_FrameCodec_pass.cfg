\* Frame codec: RoundTrip.
CONSTANTS
    p1 = p1
    bad = bad
    Payloads <- MC_Payloads
    Malformed = bad
    Nil = Nil
    Garbage = Garbage
    IdWidth <- MC_IdWidth
INIT CodecInitState
NEXT Use
INVARIANT RoundTrip
