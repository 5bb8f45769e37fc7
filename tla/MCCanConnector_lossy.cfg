SPECIFICATION Spec
CONSTANTS
    A = A
    B = B
    C = C
    Node = {A, B}
    Script <- TwoTalk
    TxSlots = 2
    RxSlots = 1
    InOrder = FALSE
    MaxWaiting = 2
    MaxLosses = 2
    MaxWarnings = 0
\* All packets of the script are sent and received in the end.
CHECK_DEADLOCK FALSE
INVARIANTS
    TypeOK
    FragmentMeetsItsPacket
PROPERTIES
    ImplementsChannel
