--------------------------- MODULE PipeProcesses ---------------------------
(***************************************************************************)
(* sem07-processes/snippets/pipe.c (a parent, "ps" as the first and "tail" *)
(* as the second child, joined by a pipe) and sem09-signals/snippets/fifo/ *)
(* fifo.c (a parent that counts what a command, the first child, writes    *)
(* into a named pipe).                                                     *)
(*                                                                         *)
(* fork() copies the descriptors: the reader sees the end of the pipe only *)
(* when nobody holds a write end, the writer is killed by SIGPIPE once     *)
(* nobody holds a read end.  The pipe, the commands and waitpid() are      *)
(* external.                                                               *)
(***************************************************************************)
EXTENDS Naturals

CONSTANTS
    PipeProgram,    \* "pipe", "fifo"
    CAP,            \* the capacity of the pipe
    MaxOutput       \* bound: how much the writing command writes

VARIABLES
    program,
    at,         \* where each process is
    holds,      \* its descriptors of the pipe: fd[1] is "out", fd[0] is "in"
    content,    \* how much the pipe holds
    written,    \* how much the first child has written
    counted,    \* how much was read
    unborn,     \* the children that fork() failed to create
    failed      \* the children whose execlp() failed

Child   == {"first", "second"}
Process == Child \cup {"parent"}

forks == <<unborn, failed>>
flow  == <<content, written, counted>>
vars  == <<program, at, holds, content, written, counted, unborn, failed>>

Open(end) == \E p \in Process : end \cap holds[p] # {}
WriteEnd  == {"out", "stdout"}
ReadEnd   == {"in", "stdin"}

Step(p, here, there) == at[p] = here /\ at' = [at EXCEPT ![p] = there]

\* Process p ends: its descriptors are closed, it waits to be waited for.
Exit(p) ==
    /\ at' = [at EXCEPT ![p] = "zombie"]
    /\ holds' = [holds EXCEPT ![p] = {}]
-----------------------------------------------------------------------------
(* The parent *)

\* Where the parent goes on after it has forked a child.
AfterFork(c) ==
    IF program = "fifo" THEN "open" ELSE IF c = "first" THEN "closeOut" ELSE "closeIn"

Fork(c) ==
    /\ at["parent"] = c
    /\ at' = [at EXCEPT !["parent"] = AfterFork(c), ![c] = "new"]
    /\ holds' = [holds EXCEPT ![c] = holds["parent"]]
    /\ UNCHANGED <<program, flow, forks>>

\* fork() returns -1, which is taken for the process id of a child.
ForkFails(c) ==
    /\ Step("parent", c, AfterFork(c))
    /\ unborn' = unborn \cup {c}
    /\ UNCHANGED <<program, holds, flow, failed>>

\* Deviation: close(fd[1]) is missing (line 22).
CloseNothing ==
    /\ Step("parent", "closeOut", "second")
    /\ UNCHANGED <<program, holds, flow, forks>>

CloseOut ==
    /\ Step("parent", "closeOut", "second")
    /\ holds' = [holds EXCEPT !["parent"] = @ \ {"out"}]
    /\ UNCHANGED <<program, flow, forks>>

CloseIn ==
    /\ Step("parent", "closeIn", "wait first")
    /\ holds' = [holds EXCEPT !["parent"] = @ \ {"in"}]
    /\ UNCHANGED <<program, flow, forks>>

\* waitpid() of child c; where fork() failed, of any child.
Awaited(c) == IF c \in unborn THEN Child ELSE {c}

\* Deviation: the second waitpid() is missing (line 34).
AfterOneWait(c) == "end"

AfterWait(c) == IF program = "pipe" /\ c = "first" THEN "wait second" ELSE "end"

Waiting(c) == at["parent"] = IF c = "first" THEN "wait first" ELSE "wait second"

Waitpid(c, child) ==
    /\ Waiting(c) /\ child \in Awaited(c)
    /\ at[child] = "zombie"
    /\ at' = [at EXCEPT !["parent"] = AfterWait(c), ![child] = "reaped"]
    /\ UNCHANGED <<program, holds, flow, forks>>

\* waitpid() has no child to wait for and returns -1; pipe.c asserts it does not.
WaitpidFails(c) ==
    /\ Waiting(c)
    /\ \A child \in Awaited(c) : at[child] \in {"none", "reaped"}
    /\ at' = [at EXCEPT !["parent"] = IF program = "pipe" THEN "aborted" ELSE "end"]
    /\ UNCHANGED <<program, holds, flow, forks>>
-----------------------------------------------------------------------------
(* The children *)

\* dup2(), and close() of what is left over.  The second child has no fd[1]:
\* the parent has closed it by then.
Redirect(c) ==
    /\ program = "pipe"
    /\ Step(c, "new", "exec")
    /\ holds' = [holds EXCEPT ![c] =
                    IF c = "first" THEN {"stdout"} ELSE (@ \ {"in"}) \cup {"stdin"}]
    /\ UNCHANGED <<program, flow, forks>>

\* open() of a fifo blocks until the other end is opened, too.
OpenFifo ==
    /\ at["parent"] = "open" /\ at["first"] = "new"
    /\ at' = [at EXCEPT !["parent"] = "read", !["first"] = "exec"]
    /\ holds' = [holds EXCEPT !["parent"] = {"stdin"}, !["first"] = {"stdout"}]
    /\ UNCHANGED <<program, flow, forks>>

Exec(c) ==
    /\ Step(c, "exec", "running")
    /\ UNCHANGED <<program, holds, flow, forks>>

\* execlp() fails: pipe.c aborts the child, fifo.c falls off the end of main().
ExecFails(c) ==
    /\ at[c] = "exec"
    /\ Exit(c)
    /\ failed' = failed \cup {c}
    /\ UNCHANGED <<program, flow, unborn>>
-----------------------------------------------------------------------------
(* The commands, and the loop of fifo.c that reads *)

Put ==
    /\ at["first"] = "running" /\ Open(ReadEnd)
    /\ content < CAP /\ written < MaxOutput
    /\ content' = content + 1
    /\ written' = written + 1
    /\ UNCHANGED <<program, at, holds, counted, forks>>

\* The command has written all it wants to, or SIGPIPE ends it.
WriterEnds ==
    /\ at["first"] = "running"
    /\ Exit("first")
    /\ UNCHANGED <<program, flow, forks>>

Reading(p) ==
    \/ p = "second" /\ at[p] = "running"
    \/ p = "parent" /\ at[p] = "read"

Take(p) ==
    /\ Reading(p)
    /\ content > 0
    /\ content' = content - 1
    /\ counted' = counted + 1
    /\ UNCHANGED <<program, at, holds, written, forks>>

\* read() returns 0: "tail" prints and ends, fifo.c prints and waits.
EndOfFile(p) ==
    /\ Reading(p)
    /\ content = 0 /\ ~Open(WriteEnd)
    /\ IF p = "second"
       THEN Exit(p)
       ELSE at' = [at EXCEPT ![p] = "wait first"] /\ UNCHANGED holds
    /\ UNCHANGED <<program, flow, forks>>
-----------------------------------------------------------------------------
Init ==
    /\ program \in PipeProgram
    /\ at = [p \in Process |-> IF p = "parent" THEN "first" ELSE "none"]
    /\ holds = [p \in Process |-> IF p = "parent" /\ program = "pipe"
                                  THEN {"in", "out"} ELSE {}]
    /\ content = 0
    /\ written = 0
    /\ counted = 0
    /\ unborn = {}
    /\ failed = {}

Parent ==
    \/ \E c \in Child :
          \/ Fork(c) \/ ForkFails(c) \/ WaitpidFails(c)
          \/ \E child \in Child : Waitpid(c, child)
    \/ CloseOut \/ CloseIn

Command ==
    \/ OpenFifo \/ Put \/ WriterEnds
    \/ \E c \in Child : Redirect(c) \/ Exec(c) \/ ExecFails(c)
    \/ \E p \in Process : Take(p) \/ EndOfFile(p)

Next == Parent \/ Command
-----------------------------------------------------------------------------
(* Properties *)

\* When the parent returns, both children are reaped and all that was written
\* into the pipe has come out at its other end, unless the program that should
\* have read it never started.  The assertions of pipe.c abort it exactly
\* when a fork() has failed.
PipelineReaped ==
    /\ at["parent"] = "end" =>
          /\ \A c \in Child : at[c] \in {"none", "reaped"}
          /\ program = "pipe" => unborn = {} /\ at["second"] = "reaped"
          /\ "second" \in failed \/ counted = written
    /\ at["parent"] = "aborted" => unborn # {}

\* The parent, which waits for processes that wait for the pipe, has ended.
Ended == at["parent"] \in {"end", "aborted"}

\* fifo.c after fork() has failed: open() waits for a writer that will not come.
NoWriter == program = "fifo" /\ unborn # {} /\ at["parent"] = "open"
=============================================================================
