SPECIFICATION FairSpec
CONSTANTS
    A = A
    B = B
    M = M
    Slave = {A, B}
    Master = M
    Script <- Dialogue
    ActionList <- Actions
    AnswerLength <- Answers
    maxPayloadLength = 2
    Echo = TRUE
    KeepsUp = TRUE
    MaxLosses = 1
\* The program ends with its script.
CHECK_DEADLOCK FALSE
INVARIANTS
    TypeOK
    HandledIsWhole
    HandledOnce
    VerdictIsTrue
    OneTalks
PROPERTIES
    QueryCompletes
