SPECIFICATION FairSpec
CONSTANTS
    A = A
    B = B
    C = C
    a1 = a1
    a2 = a2
    b1 = b1
    Station = {A, B, C}
    Following <- Ring
    Address <- Addresses
    Group <- Groups
    Message = {a1, a2, b1}
    Type <- Types
    Script <- Scripts
    Source <- Sources
    Destination <- Destinations
    Listener <- Listeners
    QueueSize = 1
    Octet = {1}
    Lossy = {C}
    MaxLosses = 1
\* The stations stop when all messages were sent and handled.
CHECK_DEADLOCK FALSE
INVARIANTS
    TypeOK
    HandledOnce
    FramesWhole
    OrderKept
PROPERTIES
    ArrivesEverywhere
    RingFallsSilent
    QueueDrains
