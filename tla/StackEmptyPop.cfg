\* What the return register holds when stack_pop() runs off its end is not NULL by rule.
CONSTANTS
    Producer = {p1}
    Consumer = {c1}
    Addr = {a1, a2}
    NULL = NULL
    n_pushes = 2
    n_pops = 2
    EmptyPop = {NULL, Junk}
SPECIFICATION Spec
INVARIANTS UsesWhatItPopped
CHECK_DEADLOCK FALSE
