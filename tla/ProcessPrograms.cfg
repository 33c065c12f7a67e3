\* Small programs: up to four signals, two threads, three units of output, four lines.
CONSTANTS
    Program = {"sigaction", "sigsuspend", "sigprocmask", "sigwaitinfo", "signalfd",
               "sigqueue"}
    MaxSent = 4
    DemoProgram = {"atomic", "mutex", "no-sync", "no-sync-fix", "problem",
                   "multiple-create"}
    THREADS_COUNT = 2
    Rounds = 3
    Iterations = 2
    PipeProgram = {"pipe", "fifo"}
    CAP = 2
    MaxOutput = 3
    MaxShellLines = 4
    PrintProgram = {"fork-buffer", "mmap_shared", "simple_fork"}
SPECIFICATION ProgramsSpec
INVARIANTS SignalLostOnlyBeforeReset SignalsExactUnlessCrowded ThreadOutcomes PipelineReaped RunsPerFailure PrintsAsShown
PROPERTIES BlockedSignalReported ProgramsEnd
CHECK_DEADLOCK FALSE
