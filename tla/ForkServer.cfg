\* Two clients served at once by two children.
CONSTANTS
    Client = {c1, c2}
    Nobody = Nobody
    BUFF_SIZE = 2
    SNDBUF = 1
    MaxBytes = 1
SPECIFICATION FairSpec
INVARIANTS ZombieNoticed SocketReleased
PROPERTIES NobodyLeftBehind
CHECK_DEADLOCK FALSE
