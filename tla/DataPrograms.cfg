\* Small data: buffers of 3 or 4 bytes, 4-bit ints, 2 lanes, lines of 4 ints.
CONSTANTS
    capacity = 4
    MaxLine = 3
    MaxInput = 6
    CopyProgram = {"basic_io", "sized_io", "error_handling_io", "simple_reprinter",
                   "smart_reprinter", "read_retry"}
    BUFFER_SIZE = 4
    MaxWords = 3
    MaxCopies = 2
    Key = {"a", "b"}
    MaxSize = 2
    LoopProgram = {"fib_loop", "fib_rec", "my_sum", "avx_sum", "sum_n"}
    WIDTH = 4
    LANES = 2
    MaxArray = 5
    BenchProgram = {"cache_line_benchmark", "list_traversal", "naive"}
    INTS_PER_CACHE_LINE = 4
    MaxElements = 10
    MaxStride = 3
    MaxNodes = 4
    SIDE = 2
    Entry = {0, 3, 7}
SPECIFICATION DataSpec
INVARIANTS CopiesTheStart StreamKept AnswersInStep TreeFaithful LoopsCompute BenchmarksSound
PROPERTY DataProgramsEnd
CHECK_DEADLOCK FALSE
