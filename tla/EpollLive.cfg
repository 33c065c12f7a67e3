\* Two clients, one event at a time and a single descriptor to hand out.
CONSTANTS
    Client = {c1, c2}
    Listener = Listener
    BUFF_SIZE = 3
    MAX_EVENTS = 1
    SNDBUF = 1
    MAX_FDS = 1
    MaxBytes = 2
SPECIFICATION FairSpec
PROPERTIES Responsive
CHECK_DEADLOCK FALSE
