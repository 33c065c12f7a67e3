------------------------------- MODULE Shell -------------------------------
(***************************************************************************)
(* sem07-processes/snippets/simple_shell.c.                                *)
(*                                                                         *)
(* A child whose execvp() fails falls through into the loop of the shell   *)
(* and reads lines itself, until the end of the input, while its parent    *)
(* waits for it: there is a stack of shells, the innermost of which runs.  *)
(* From a pipe or file each reads from the copy of stdin's buffer it was   *)
(* forked with; from a terminal, where a line is read when it is asked     *)
(* for, they share the input.                                              *)
(*                                                                         *)
(* A line is "good" if it names a command that runs, "bad" if it does not: *)
(* an empty line, too, is execvp(NULL).  No line has ten words or more,    *)
(* which args has no room for.                                             *)
(***************************************************************************)
EXTENDS Naturals, Sequences, FiniteSets, SequencesExt

CONSTANT MaxShellLines  \* bound: the lines typed

VARIABLES
    program,
    terminal,   \* stdin is a terminal, not a pipe or file that fits its buffer
    lines,
    shells,     \* how many lines each shell has read, the innermost last
    runs,       \* how often each line was handed to execvp()
    forkFailed  \* some fork() has failed

vars == <<program, terminal, lines, shells, runs, forkFailed>>

Shells == 1 .. Len(shells)
Read   == Last(shells)

\* The shells after the innermost has read one line more.
Advanced == [s \in Shells |-> IF terminal \/ s = Len(shells) THEN Read + 1
                              ELSE shells[s]]

Line(kind) ==
    /\ shells # << >>
    /\ Read < Len(lines)
    /\ lines[Read + 1] = kind
    /\ UNCHANGED <<program, terminal, lines>>

\* The child runs the command, and the shell goes on when it has ended.
RunCommand ==
    /\ Line("good")
    /\ shells' = Advanced
    /\ runs' = [runs EXCEPT ![Read + 1] = @ + 1]
    /\ UNCHANGED forkFailed

\* Deviation: the child exits when execvp() has failed.
ReportFailure ==
    /\ Line("bad")
    /\ shells' = Advanced
    /\ runs' = [runs EXCEPT ![Read + 1] = @ + 1]
    /\ UNCHANGED forkFailed

\* The child cannot run it and becomes a shell.
FallThrough ==
    /\ Line("bad")
    /\ shells' = Append(Advanced, Read + 1)
    /\ runs' = [runs EXCEPT ![Read + 1] = @ + 1]
    /\ UNCHANGED forkFailed

\* fork() returns -1: the shell waits for nobody and prompts for the next line.
ForkFails ==
    /\ \E kind \in {"good", "bad"} : Line(kind)
    /\ shells' = Advanced
    /\ forkFailed' = TRUE
    /\ UNCHANGED runs

\* getline() returns -1: the innermost shell returns, its parent goes on.
EndOfInput ==
    /\ shells # << >>
    /\ Read = Len(lines)
    /\ shells' = Front(shells)
    /\ UNCHANGED <<program, terminal, lines, runs, forkFailed>>

Init ==
    /\ program = "simple_shell"
    /\ terminal \in BOOLEAN
    /\ lines \in UNION {[1 .. n -> {"good", "bad"}] : n \in 0 .. MaxShellLines}
    /\ shells = <<0>>
    /\ runs = [i \in DOMAIN lines |-> 0]
    /\ forkFailed = FALSE

Next == RunCommand \/ FallThrough \/ ForkFails \/ EndOfInput
-----------------------------------------------------------------------------
(* Properties *)

BadBefore(i) == {j \in 1 .. i - 1 : lines[j] = "bad"}

\* What a line that cannot be run leads to: from a pipe each later line is run
\* twice as often, once more by every shell there is; from a terminal each
\* line is run once, but the user has to end as many shells more.
RunsPerFailure ==
    /\ shells = << >> /\ ~forkFailed =>
          \A i \in DOMAIN lines :
              runs[i] = IF terminal THEN 1 ELSE 2 ^ Cardinality(BadBefore(i))
    /\ shells # << >> /\ terminal /\ ~forkFailed =>
          Len(shells) <= 1 + Cardinality(BadBefore(Read + 1))

\* The first shell has returned.
Ended == shells = << >>
=============================================================================
