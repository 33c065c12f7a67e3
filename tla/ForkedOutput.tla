---------------------------- MODULE ForkedOutput ----------------------------
(***************************************************************************)
(* Programs of sem07-processes/snippets that fork() once and print in both *)
(* processes.                                                              *)
(*                                                                         *)
(*   fork-buffer   prints before fork(): the text is still in stdout's     *)
(*                 buffer and is copied                                    *)
(*   mmap_shared   the child overwrites what the parent put into memory    *)
(*                 they share                                              *)
(*   simple_fork   the parent prints the child's exit status               *)
(*                                                                         *)
(* A text is printed when its process ends or, on a terminal, with the end *)
(* of its line; every text but fork-buffer's first has one.                *)
(***************************************************************************)
EXTENDS Naturals, Sequences

CONSTANT PrintProgram   \* the programs to run

VARIABLES
    program,
    terminal,   \* stdout is a terminal, not a pipe or file
    step,       \* what each process does next
    stdio,      \* the buffer of its stdout
    memory,     \* the content of the shared mapping
    forked,     \* fork() has not failed
    output

vars == <<program, terminal, step, stdio, memory, forked, output>>

Process == {"parent", "child"}

Goto(p, here, there) == step[p] = here /\ step' = [step EXCEPT ![p] = there]

Printf(p, text) ==
    LET buffered == Append(stdio[p], text) IN
    IF terminal /\ text # "Hello, world!"
    THEN /\ output' = output \o buffered
         /\ stdio' = [stdio EXCEPT ![p] = << >>]
    ELSE /\ stdio' = [stdio EXCEPT ![p] = buffered]
         /\ UNCHANGED output

\* What is printed, or stored, before fork().
Before ==
    /\ Goto("parent", "start", "fork")
    /\ IF program = "fork-buffer" THEN Printf("parent", "Hello, world!")
                                  ELSE UNCHANGED <<stdio, output>>
    /\ memory' = IF program = "mmap_shared" THEN "Hello" ELSE memory
    /\ UNCHANGED <<program, terminal, forked>>

\* Deviation: stdout is flushed first.
ForkFlushed ==
    /\ step["parent"] = "fork"
    /\ step' = [parent |-> "wait", child |-> "print"]
    /\ forked' = TRUE
    /\ output' = output \o stdio["parent"]
    /\ stdio' = [p \in Process |-> << >>]
    /\ UNCHANGED <<program, terminal, memory>>

Fork ==
    /\ step["parent"] = "fork"
    /\ step' = [parent |-> "wait", child |-> "print"]
    /\ forked' = TRUE
    /\ stdio' = [p \in Process |-> stdio["parent"]]
    /\ UNCHANGED <<program, terminal, memory, output>>

\* fork() returns -1; the programs go on in the parent's branch.
ForkFails ==
    /\ Goto("parent", "fork", "wait")
    /\ UNCHANGED <<program, terminal, stdio, memory, forked, output>>

ChildText == IF program = "mmap_shared" THEN memory ELSE "Hello from child"

ChildPrints ==
    /\ Goto("child", "print", IF program = "mmap_shared" THEN "store" ELSE "exit")
    /\ Printf("child", ChildText)
    /\ UNCHANGED <<program, terminal, memory, forked>>

ChildStores ==
    /\ Goto("child", "store", "exit")
    /\ memory' = "Hola"
    /\ UNCHANGED <<program, terminal, stdio, forked, output>>

\* The end of a process flushes what its buffer holds.
Exit(p) ==
    /\ Goto(p, "exit", "ended")
    /\ output' = output \o stdio[p]
    /\ stdio' = [stdio EXCEPT ![p] = << >>]
    /\ UNCHANGED <<program, terminal, memory, forked>>

\* waitpid() returns when the child has ended, or at once if there is none.
Waitpid ==
    /\ Goto("parent", "wait", IF program = "simple_fork" THEN "status" ELSE "print")
    /\ forked => step["child"] = "ended"
    /\ UNCHANGED <<program, terminal, stdio, memory, forked, output>>

\* The status is the child's; without a child it was never set.
PrintStatus ==
    /\ Goto("parent", "status", "print")
    /\ \E code \in IF forked THEN {"42"} ELSE {"0", "42", "255"} :
          Printf("parent", code)
    /\ UNCHANGED <<program, terminal, memory, forked>>

ParentPrints ==
    /\ Goto("parent", "print", "exit")
    /\ Printf("parent", IF program = "mmap_shared" THEN memory ELSE "Hello from parent")
    /\ UNCHANGED <<program, terminal, memory, forked>>

Init ==
    /\ program \in PrintProgram
    /\ terminal \in BOOLEAN
    /\ step = [parent |-> "start", child |-> "none"]
    /\ stdio = [p \in Process |-> << >>]
    /\ memory = ""
    /\ forked = FALSE
    /\ output = << >>

Next ==
    \/ Before \/ Fork \/ ForkFails \/ Waitpid \/ PrintStatus \/ ParentPrints
    \/ ChildPrints \/ ChildStores
    \/ \E p \in Process : Exit(p)
-----------------------------------------------------------------------------
(* Properties *)

Expected ==
    CASE program = "fork-buffer" /\ forked ->
            <<"Hello, world!", "Hello from child", "Hello, world!", "Hello from parent">>
      [] program = "fork-buffer" /\ ~forked -> <<"Hello, world!", "Hello from parent">>
      [] program = "mmap_shared" -> IF forked THEN <<"Hello", "Hola">> ELSE <<"Hello">>
      [] program = "simple_fork" -> <<"Hello from child", "42", "Hello from parent">>

\* The output is what the notebook of the seminar shows, in its order, on a
\* terminal and in a pipe: buffered text is doubled, the child's lines come
\* first, the shared memory holds the child's text.  (If fork() fails
\* simple_fork.c prints a status that was never set.)
PrintsAsShown ==
    step["parent"] = "ended" /\ (program = "simple_fork" => forked) => output = Expected

\* Both processes have ended.
Ended == step["parent"] = "ended" /\ step["child"] \in {"none", "ended"}
=============================================================================
