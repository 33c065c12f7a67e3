------------------------------ MODULE FileCopy ------------------------------
(***************************************************************************)
(* The programs of sem03-lowlevel-io-fs that fill one buffer and write it  *)
(* out once.                                                               *)
(*                                                                         *)
(*   basic_io            one read(), one write()                           *)
(*   sized_io            both in a loop until a call returns 0             *)
(*   error_handling_io   the same, but an error other than EINTR or EAGAIN *)
(*                       ends the program with -1                          *)
(*   simple_reprinter    one read(), printed                               *)
(*   smart_reprinter     with _USE_READ: one read(), printed               *)
(*   read_retry          smart_reprinter with _USE_READ_RETRY              *)
(*                                                                         *)
(* A byte is its position in the input.  What a call returns is external:  *)
(* any part of what it is asked for, or an error.  A call that is repeated *)
(* after an error has changed nothing and is no step of its own.           *)
(***************************************************************************)
EXTENDS Naturals, Sequences

CONSTANTS
    CopyProgram,    \* the programs to run
    BUFFER_SIZE,    \* 16, or 4096 in the reprinters
    MaxInput        \* bound: the length of the input

VARIABLES
    program,
    pc,         \* "read", "write", "end" with status 0, "failed" with another
    total,      \* the length of the input
    taken,      \* how much of it was read
    buffer,
    done,       \* written_bytes
    output,
    broken,     \* descriptors that are not open, on which each call fails, and
                \* an output on which printing has failed
    nul         \* where the first NUL byte of the input is, or behind its end

vars == <<program, pc, total, taken, buffer, done, output, broken, nul>>

\* The bytes after position a, up to position b.
Bytes(a, b) == [k \in 1 .. b - a |-> a + k]

\* A byte that nobody wrote into the buffer.
Junk == 0

UntilZero == {"sized_io", "error_handling_io"}
Reprinter == {"simple_reprinter", "smart_reprinter", "read_retry"}

Lesser(a, b) == IF a < b THEN a ELSE b
-----------------------------------------------------------------------------
(* Reading *)

space == BUFFER_SIZE - Len(buffer)

\* read() returns n > 0 bytes; read_retry() goes on until the buffer is full.
Read(n) ==
    /\ pc = "read" /\ "input" \notin broken
    /\ n <= Lesser(space, total - taken)
    /\ buffer' = buffer \o Bytes(taken, taken + n)
    /\ taken' = taken + n
    /\ pc' = IF program \in UntilZero \/ (program = "read_retry" /\ n < space)
             THEN "read" ELSE "write"
    /\ UNCHANGED <<program, total, done, output, broken, nul>>

\* Deviation: only an error ends the loop, a read() of nothing is repeated.
ReadZeroAgain ==
    /\ pc = "read" /\ "input" \notin broken
    /\ taken = total \/ space = 0
    /\ pc' = IF program \in UntilZero THEN "read" ELSE "write"
    /\ UNCHANGED <<program, total, taken, buffer, done, output, broken, nul>>

\* read() returns 0: the end of the input, or no space was left.
ReadZero ==
    /\ pc = "read" /\ "input" \notin broken
    /\ taken = total \/ space = 0
    /\ pc' = "write"
    /\ UNCHANGED <<program, total, taken, buffer, done, output, broken, nul>>

\* Who gives up after an error; "transient" are EINTR and EAGAIN.
GivesUp(error) ==
    CASE program \in {"error_handling_io", "read_retry"} -> error = "fatal"
      [] program = "smart_reprinter"                     -> TRUE
      [] OTHER                                           -> FALSE

\* read() returns -1.  basic_io.c and simple_reprinter.c take that for a length:
\* a write() of -1 bytes fails, a precision of -1 prints what is in the buffer.
ReadError(error) ==
    /\ pc = "read"
    /\ "input" \in broken => error = "fatal"
    /\ \/ /\ GivesUp(error)
          /\ pc' = "failed"
          /\ UNCHANGED buffer
       \/ /\ program \in {"basic_io", "simple_reprinter"}
          /\ pc' = "write"
          /\ buffer' = IF program = "simple_reprinter" THEN <<Junk>> ELSE << >>
    /\ UNCHANGED <<program, total, taken, done, output, broken, nul>>
-----------------------------------------------------------------------------
(* Writing *)

\* Deviation: what was written already is written again.
WriteFromFront(n) ==
    /\ pc = "write" /\ program \notin Reprinter
    /\ "output" \notin broken
    /\ n <= Len(buffer) - done
    /\ n = 0 => done = Len(buffer)
    /\ output' = output \o SubSeq(buffer, 1, n)
    /\ done' = done + n
    /\ pc' = IF program \in UntilZero /\ n > 0 THEN "write" ELSE "end"
    /\ UNCHANGED <<program, total, taken, buffer, broken, nul>>

\* write() returns n bytes, 0 only if it was asked for none.
Write(n) ==
    /\ pc = "write" /\ program \notin Reprinter
    /\ "output" \notin broken
    /\ n <= Len(buffer) - done
    /\ n = 0 => done = Len(buffer)
    /\ output' = output \o SubSeq(buffer, done + 1, done + n)
    /\ done' = done + n
    /\ pc' = IF program \in UntilZero /\ n > 0 THEN "write" ELSE "end"
    /\ UNCHANGED <<program, total, taken, buffer, broken, nul>>

\* write() returns -1; basic_io.c does not look.
WriteError(error) ==
    /\ pc = "write" /\ program \notin Reprinter
    /\ "output" \in broken => error = "fatal"
    /\ GivesUp(error) \/ program = "basic_io"
    /\ pc' = IF GivesUp(error) THEN "failed" ELSE "end"
    /\ UNCHANGED <<program, total, taken, buffer, done, output, broken, nul>>

\* What %.*s prints of the buffer ends at the first NUL byte; where nobody has
\* written, that is anywhere.
printable == IF buffer = <<Junk>> THEN 0 .. 1 ELSE {Lesser(Len(buffer), nul - 1)}

\* printf(), and the flush at exit: n bytes get out before a write of stdout
\* fails, after which the rest is dropped.  The status is 0 all the same.
PrintBuffer(n) ==
    /\ pc = "write" /\ program \in Reprinter
    /\ "output" \in broken => n = 0
    /\ \E length \in printable :
          /\ n <= length
          /\ broken' = IF n < length THEN broken \cup {"output"} ELSE broken
    /\ output' = SubSeq(buffer, 1, n)
    /\ pc' = "end"
    /\ UNCHANGED <<program, total, taken, buffer, done, nul>>
-----------------------------------------------------------------------------
\* open() is not checked: a path that is not there gives a descriptor of -1.
Init ==
    /\ program \in CopyProgram
    /\ pc = "read"
    /\ total \in 0 .. MaxInput
    /\ taken = 0
    /\ buffer = << >>
    /\ done = 0
    /\ output = << >>
    /\ broken \in SUBSET {"input", "output"}
    /\ nul \in IF program \in Reprinter THEN 1 .. total + 1 ELSE {total + 1}

Next ==
    \/ \E n \in 1 .. BUFFER_SIZE : Read(n)
    \/ ReadZero
    \/ \E n \in 0 .. BUFFER_SIZE : Write(n)
    \/ \E error \in {"transient", "fatal"} : ReadError(error) \/ WriteError(error)
    \/ \E n \in 0 .. BUFFER_SIZE : PrintBuffer(n)
-----------------------------------------------------------------------------
(* Properties *)

Ended == pc \in {"end", "failed"}

\* What is written is always the beginning of the input, in order, whatever the
\* calls return; the one exception is simple_reprinter.c after a failed read().
\* basic_io.c and the reprinters end with a status of 0 whatever happened to
\* their output.  The programs that check write() end so only if they have copied
\* all that their buffer can hold, and read_retry has printed all of that up to
\* the first NUL byte unless its output failed, which it does not notice.
CopiesTheStart ==
    /\ output = Bytes(0, Len(output))
       \/ (program = "simple_reprinter" /\ output = <<Junk>>)
    /\ pc = "end" /\ program \in UntilZero
           => Len(output) = Lesser(BUFFER_SIZE, total)
    /\ pc = "end" /\ program = "read_retry" /\ "output" \notin broken
           => Len(output) = Lesser(BUFFER_SIZE, nul - 1)

\* sized_io.c where a descriptor is not open: it takes every error for one
\* that passes.
Spins == program = "sized_io" /\ broken # {}
=============================================================================
