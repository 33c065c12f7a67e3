\* Two clients served at once, with buffers that fill, wrap and overflow.
CONSTANTS
    Client = {c1, c2}
    Listener = Listener
    BUFF_SIZE = 3
    MAX_EVENTS = 2
    SNDBUF = 1
    MAX_FDS = 2
    MaxBytes = 4
SPECIFICATION Spec
INVARIANTS TypeOK BufferHoldsBacklog KilledOnlyInWindow OutWatchedWhileOwed NoUseAfterFree EdgesNotLost
PROPERTIES CutOffOnlyWhenFull ImplementsEcho
SYMMETRY Symmetry
CHECK_DEADLOCK FALSE
