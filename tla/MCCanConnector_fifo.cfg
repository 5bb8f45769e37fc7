SPECIFICATION FairSpec
CONSTANTS
    A = A
    B = B
    C = C
    Node = {A, B, C}
    Script <- TwoToOne
    TxSlots = 1
    RxSlots = 1
    InOrder = TRUE
    MaxWaiting = 2
    MaxLosses = 0
    MaxWarnings = 1
\* All packets of the script are sent and received in the end.
CHECK_DEADLOCK FALSE
INVARIANTS
    FragmentedInOrder
PROPERTIES
    PacketArrives
    ImplementsChannel
