-------------------------- MODULE ProcessPrograms --------------------------
(***************************************************************************)
(* Any one of the small programs of seminars 7 to 9 that are about         *)
(* processes, threads and signals: SignalLoops, PthreadDemos,              *)
(* PipeProcesses, Shell or ForkedOutput.  Which it is, is chosen at the    *)
(* start; the variables of the others do not change.                       *)
(***************************************************************************)
EXTENDS SignalLoops

CONSTANTS
    DemoProgram, THREADS_COUNT, Rounds, Iterations,
    PipeProgram, CAP, MaxOutput,
    MaxShellLines,
    PrintProgram

ASSUME ProgramsAssumption ==
    /\ DemoProgram \subseteq {"faulty", "atomic", "mutex", "no-sync", "no-sync-fix",
                              "problem", "multiple-create"}
    /\ PipeProgram \subseteq {"pipe", "fifo"}
    /\ PrintProgram \subseteq {"fork-buffer", "mmap_shared", "simple_fork"}
    /\ THREADS_COUNT \in Nat /\ THREADS_COUNT > 0
    /\ Rounds \in Nat /\ Rounds > 1
    /\ CAP \in Nat /\ MaxOutput \in Nat

VARIABLES
    memory, store, reg, owner, accesses, created, joined, i, aborted,
    at, holds, content, written, counted, unborn, failed,
    terminal, lines, shells, runs, forkFailed,
    step, stdio, mapping, forked, output

Demos == INSTANCE PthreadDemos WITH Program <- DemoProgram, pc <- accesses
Pipe  == INSTANCE PipeProcesses
Sh    == INSTANCE Shell
Output == INSTANCE ForkedOutput WITH memory <- mapping

demoVars  == <<memory, store, reg, owner, accesses, created, joined, i, aborted>>
pipeVars  == <<at, holds, content, written, counted, unborn, failed>>
shellVars == <<lines, shells, runs, forkFailed>>
printVars == <<step, stdio, mapping, forked, output>>
signalVars == <<sent, pending, blocked, frames, pc, received_sigint, last, shown,
                printed, parent, reported, handledAt, crowded>>
allVars == <<program, demoVars, pipeVars, terminal, shellVars, printVars, signalVars>>

Signalling == program \in Program
Sharing    == program \in DemoProgram
Piping     == program \in PipeProgram
Shelling   == program = "simple_shell"
Printing   == program \in PrintProgram

\* The variables of a program that does not run.
Unused == 0
NoDemo ==
    /\ memory = Unused /\ store = Unused /\ reg = Unused /\ owner = Unused
    /\ accesses = Unused /\ created = Unused /\ joined = Unused /\ i = Unused
    /\ aborted = Unused
NoPipe ==
    /\ at = Unused /\ holds = Unused /\ content = Unused /\ written = Unused
    /\ counted = Unused /\ unborn = Unused /\ failed = Unused
NoShell ==
    /\ lines = Unused /\ shells = Unused /\ runs = Unused /\ forkFailed = Unused
NoPrint ==
    /\ step = Unused /\ stdio = Unused /\ mapping = Unused /\ forked = Unused
    /\ output = Unused
NoSignals ==
    /\ sent = Unused /\ pending = Unused /\ blocked = Unused /\ frames = Unused
    /\ pc = Unused /\ received_sigint = Unused /\ last = Unused /\ shown = Unused
    /\ printed = Unused /\ parent = Unused /\ reported = Unused
    /\ handledAt = Unused /\ crowded = Unused

ProgramsInit ==
    \/ Init /\ NoDemo /\ NoPipe /\ terminal = Unused /\ NoShell /\ NoPrint
    \/ Demos!Init /\ NoSignals /\ NoPipe /\ terminal = Unused /\ NoShell /\ NoPrint
    \/ Pipe!Init /\ NoSignals /\ NoDemo /\ terminal = Unused /\ NoShell /\ NoPrint
    \/ Sh!Init /\ NoSignals /\ NoDemo /\ NoPipe /\ NoPrint
    \/ Output!Init /\ NoSignals /\ NoDemo /\ NoPipe /\ NoShell

ProgramsNext ==
    \/ /\ Signalling /\ Next
       /\ UNCHANGED <<demoVars, pipeVars, terminal, shellVars, printVars>>
    \/ /\ Sharing /\ Demos!Next
       /\ UNCHANGED <<signalVars, pipeVars, terminal, shellVars, printVars>>
    \/ /\ Piping /\ Pipe!Next
       /\ UNCHANGED <<signalVars, demoVars, terminal, shellVars, printVars>>
    \/ /\ Shelling /\ Sh!Next
       /\ UNCHANGED <<signalVars, demoVars, pipeVars, printVars>>
    \/ /\ Printing /\ Output!Next
       /\ UNCHANGED <<signalVars, demoVars, pipeVars, shellVars>>

(* The processes and threads of a program are scheduled.  Those of the last  *)
(* three cannot go on for ever: that one of them takes a step is enough.     *)
ProgramsSpec ==
    /\ ProgramsInit /\ [][ProgramsNext]_allVars
    /\ WF_allVars(Signalling /\ Main /\ ProgramsNext)
    /\ WF_allVars(Signalling /\ Handler /\ ProgramsNext)
    /\ WF_allVars(Signalling /\ Deliver /\ ProgramsNext)
    /\ WF_allVars(Sharing /\ Demos!Main /\ ProgramsNext)
    /\ \A t \in Demos!Thread :
          /\ WF_allVars(Sharing /\ Demos!ThreadStep(t) /\ ProgramsNext)
          /\ WF_allVars(Sharing /\ Demos!Flush(t) /\ ProgramsNext)
    /\ WF_allVars((Piping \/ Shelling \/ Printing) /\ ProgramsNext)
-----------------------------------------------------------------------------
(* Properties *)

\* A SIGINT is lost only if its handler comes between the printing and the
\* assignment that clears received_sigint.
SignalLostOnlyBeforeReset == Signalling => LostOnlyBeforeReset

\* sigqueue's child prints each signal once, in order and with its own value as
\* long as no signal is queued before the child sleeps again.
SignalsExactUnlessCrowded == Signalling => ExactUnlessCrowded

\* A blocked SIGINT is reported.
BlockedSignalReported ==
    \A n \in 1 .. MaxSent :
        (Signalling /\ blocked /\ pending # << >> /\ Head(pending) = n)
            ~> (Signalling /\ reported >= n)

\* The synchronised tests never abort, the counters end between two and the
\* number of increments and exactly there if they are atomic, and the threads
\* of multiple-create read each its own number.
ThreadOutcomes ==
    Sharing => Demos!NotBroken /\ Demos!CounterOutcome /\ Demos!OwnNumbers

\* A parent that returns has reaped its children, and all that was written into
\* the pipe was read; pipe.c aborts exactly if a fork() failed.
PipelineReaped == Piping => Pipe!PipelineReaped

\* simple_shell.c runs each line once per shell that reads it: twice as many
\* from a pipe with each line before it that names no command.
RunsPerFailure == Shelling => Sh!RunsPerFailure

\* What is printed around a fork() is what the notebook shows, on a terminal
\* and in a pipe.
PrintsAsShown == Printing => Output!PrintsAsShown

\* The program has ended.  Those that wait for signals do so until one ends them.
Over ==
    \/ Signalling
    \/ Sharing /\ Demos!Ended
    \/ Piping /\ Pipe!Ended
    \/ Shelling /\ Sh!Ended
    \/ Printing /\ Output!Ended

\* The program waits, and will for ever: the two threads of problem.c for each
\* other, or fifo.c for a writer that was never created.
Stuck ==
    \/ Sharing /\ Demos!CircularWait
    \/ Piping /\ Pipe!NoWriter

\* Each program comes to its end, and there are only these two ways to get stuck.
ProgramsEnd == <>[](Over \/ Stuck)
=============================================================================
