\* Two producers, and a node left for stack_destroy().
CONSTANTS
    Producer = {p1, p2}
    Consumer = {c1}
    Addr = {a1, a2, a3}
    NULL = NULL
    n_pushes = 2
    n_pops = 3
    EmptyPop = {NULL}
SPECIFICATION FairSpec
INVARIANTS NoUseAfterFree
PROPERTIES ImplementsLifo Terminates
CHECK_DEADLOCK FALSE
