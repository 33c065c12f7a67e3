\* Two clients in turn; messages longer than the send buffer, cut anywhere.
CONSTANTS
    Client = {c1, c2}
    BUFF_SIZE = 3
    SNDBUF = 1
    MaxBytes = 2
SPECIFICATION FairTurnSpec
INVARIANTS AllEchoedBeforeClose
PROPERTIES ImplementsEcho ServesInTurn
CHECK_DEADLOCK FALSE
