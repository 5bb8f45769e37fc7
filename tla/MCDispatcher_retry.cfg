SPECIFICATION FairSpec
CONSTANTS
    A = A
    B = B
    ping = ping
    pong = pong
    stray = stray
    news = news
    Board = {A, B}
    Component = {1, 2}
    Home <- TwoHomes
    Registered <- TwoRegistered
    Listens <- NoListens
    Call = {ping}
    Source <- SingleSource
    Destination <- SingleDestination
    Identifier <- SingleIdentifier
    WithCallback = {ping}
    ResponseType = {"NEGATIVE_RESPONSE"}
    Reorder = TRUE
    MaxLosses = 1
    MaxTimeouts = 3
INVARIANTS
    TypeOK
    CallbackGetsOwnAnswer
    AnswerNotLost
    RunsAtMostOncePerTry
PROPERTIES
    AnswerArrives
