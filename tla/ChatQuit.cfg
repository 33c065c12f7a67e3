\* A line that starts with "q" may be read as "q" and the rest.
CONSTANTS
    c1 = c1
    Client <- MCClient
    Me = c1
    Line <- MCLine
    BUFF_SIZE = 3
    SNDBUF = 1
    CAP = 2
    MaxLines = 3
    MaxBytes = 9
SPECIFICATION Spec
INVARIANTS QuitsOnSingleQ
CHECK_DEADLOCK FALSE
