SPECIFICATION Spec
CONSTANTS
    A = A
    B = B
    M = M
    Slave = {A}
    Master = M
    Script <- Single
    ActionList <- Actions
    AnswerLength <- Answers
    maxPayloadLength = 2
    Echo = TRUE
    KeepsUp = FALSE
    MaxLosses = 0
\* The program ends with its script.
CHECK_DEADLOCK FALSE
INVARIANTS
    HandledIsWhole
