\* Two sockets, one service of the pool, one frame per client and one own
\* call of the service.  Clients stop sending: no deadlock check.
CONSTANTS
    c1 = c1
    c2 = c2
    Core = Core
    Presence = Presence
    Nil = Nil
    Conns <- MC_Conns
    PoolServices <- MC_OneService
    MaxSends <- MC_Sends
    MaxSvcCalls <- MC_Calls
SPECIFICATION Spec
INVARIANT ReplyRoutedToSender IInv
PROPERTY TextReplied ClientIdsRefined
CHECK_DEADLOCK FALSE
