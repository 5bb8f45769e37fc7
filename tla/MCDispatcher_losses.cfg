SPECIFICATION FairSpec
CONSTANTS
    A = A
    B = B
    ping = ping
    pong = pong
    stray = stray
    news = news
    Board = {A, B}
    Component = {1, 2}
    Home <- TwoHomes
    Registered <- TwoRegistered
    Listens <- NoListens
    Call = {ping, stray}
    Source <- PartlySource
    Destination <- PartlyDestination
    Identifier <- PartlyIdentifier
    WithCallback = {ping}
    ResponseType = {}
    Reorder = TRUE
    MaxLosses = 2
    MaxTimeouts = 6
PROPERTIES
    CallRunsDespiteLosses
    EntrySettles
