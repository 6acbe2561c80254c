\* A client's text against its own Connect: one frame per client.
CONSTANTS
    c1 = c1
    c2 = c2
    Core = Core
    Presence = Presence
    Nil = Nil
    Conns <- MC_Conns
    PoolServices <- MC_OneService
    MaxSends <- MC_Sends
    MaxSvcCalls <- MC_Zero
SPECIFICATION Spec
PROPERTY TextAlwaysReplied
CHECK_DEADLOCK FALSE
