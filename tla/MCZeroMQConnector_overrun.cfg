SPECIFICATION FairSpec
CONSTANTS
    p1 = p1
    p2 = p2
    p3 = p3
    small = small
    large = large
    Message = {p1, p2, p3, small, large}
    Bytes <- Sizes
    Foreign = {small, large}
    Undefined = Undefined
    maxQueueSize = 2
    MaxRestarts = 1
\* The program ends when the reader is closed.
CHECK_DEADLOCK FALSE
INVARIANTS
    TypeOK
    FrontExists
    HeaderMeetsPayload
    DropsWhatWasHandled
    HandledInOrder
PROPERTIES
    PacketIsHandled
    StopReturns
