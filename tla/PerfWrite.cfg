\* A buffer that holds two bytes and a NUL at first, and lines both shorter and longer.
CONSTANTS
    PerfProgram = {"perf_printf", "perf_write"}
    FirstAlloc = 3
    MaxLine = 4
    MaxInput = 5
SPECIFICATION Spec
INVARIANT PrintsWhatItRead
CHECK_DEADLOCK FALSE
