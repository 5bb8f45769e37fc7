SPECIFICATION FairSpec
CONSTANTS
    A = A
    B = B
    ping = ping
    pong = pong
    stray = stray
    news = news
    Board = {A, B}
    Component = {1, 2, 3}
    Home <- OneHome
    Registered <- ThreeRegistered
    Listens <- SomeListens
    Call = {ping, pong, news}
    Source <- LocalSource
    Destination <- LocalDestination
    Identifier <- LocalIdentifier
    WithCallback = {ping}
    ResponseType = {"RESPONSE"}
    Reorder = FALSE
    MaxLosses = 0
    MaxTimeouts = 0
INVARIANTS
    ResponsesFirst
    PassLeavesOnlyResponses
    EventRunsOnce
PROPERTIES
    AnswerArrives
