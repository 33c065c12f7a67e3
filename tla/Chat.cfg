\* Lines cut and glued, buffers small enough to fill.
CONSTANTS
    c1 = c1
    Client <- MCClient
    Me = c1
    Line <- MCLine
    BUFF_SIZE = 3
    SNDBUF = 1
    CAP = 2
    MaxLines = 3
    MaxBytes = 9
SPECIFICATION FairSpec
INVARIANTS AnswerOwed BlockedOnlyWhenFull
PROPERTIES ChatEnds
CHECK_DEADLOCK FALSE
