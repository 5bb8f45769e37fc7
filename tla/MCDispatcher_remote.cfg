SPECIFICATION Spec
CONSTANTS
    A = A
    B = B
    ping = ping
    pong = pong
    stray = stray
    news = news
    Board = {A, B}
    Component = {1, 2}
    Home <- TwoHomes
    Registered <- TwoRegistered
    Listens <- NoListens
    Call = {ping, pong, stray}
    Source <- OppositeSource
    Destination <- OppositeDestination
    Identifier <- OppositeIdentifier
    WithCallback = {ping}
    ResponseType = {"RESPONSE"}
    Reorder = TRUE
    MaxLosses = 1
    MaxTimeouts = 1
INVARIANTS
    ReplyMeetsItsEntry
    NoSilentLoss
    AckMeansHandled
