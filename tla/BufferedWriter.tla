--------------------------- MODULE BufferedWriter ---------------------------
(***************************************************************************)
(* sem03-lowlevel-io-fs/buffered_perf.c: lines are gathered in a buffer of *)
(* fixed capacity that is written out when the next line does not fit, and *)
(* at the end.                                                             *)
(*                                                                         *)
(* A byte is its position in the input.  What write() returns is external: *)
(* any part of what it is asked for, or an error.  One that write_retry()  *)
(* repeats (EAGAIN, EINTR) has changed nothing and is no step of its own.  *)
(* The lines hold no NUL, at which strlen() would cut them.                *)
(***************************************************************************)
EXTENDS Naturals, Sequences

CONSTANTS
    capacity,       \* of the buffer, 1 MB
    MaxLine,        \* the longest line
    MaxInput        \* bound: the length of the input

\* buffered_write() relies on short lines and says so (lines 57 to 59).
ASSUME WriterAssumption ==
    /\ capacity \in Nat \ {0}
    /\ MaxLine \in 1 .. capacity
    /\ MaxInput \in Nat

VARIABLES
    program,
    pc,         \* "getline"; "flush", "close": in write_retry(); "end"
    total,      \* the length of the input
    taken,      \* how much of it getline() has read
    string,     \* what is not in the buffer yet of the line being written
    buffer,     \* its first writer->size bytes
    done,       \* cdata - data: how much of it write_retry() has written
    output,
    lost        \* write_retry() has returned early: its result is ignored

vars == <<program, pc, total, taken, string, buffer, done, output, lost>>

\* The bytes after position a, up to position b.
Bytes(a, b) == [k \in 1 .. b - a |-> a + k]
-----------------------------------------------------------------------------
(* buffered_write() *)

\* getline() returns n bytes, and all of them fit.
Keep(n) ==
    /\ pc = "getline"
    /\ taken + n <= total
    /\ Len(buffer) + n <= capacity
    /\ taken' = taken + n
    /\ buffer' = buffer \o Bytes(taken, taken + n)
    /\ UNCHANGED <<program, pc, total, string, done, output, lost>>

\* Deviation: first_part is not taken off the string.
FillTwice(n) ==
    LET first_part == capacity - Len(buffer) IN
    /\ pc = "getline"
    /\ taken + n <= total
    /\ n > first_part
    /\ taken' = taken + n
    /\ buffer' = buffer \o Bytes(taken, taken + first_part)
    /\ string' = Bytes(taken, taken + n)
    /\ pc' = "flush"
    /\ UNCHANGED <<program, total, done, output, lost>>

\* They do not fit: the buffer is filled and then written.
Fill(n) ==
    LET first_part == capacity - Len(buffer) IN
    /\ pc = "getline"
    /\ taken + n <= total
    /\ n > first_part
    /\ taken' = taken + n
    /\ buffer' = buffer \o Bytes(taken, taken + first_part)
    /\ string' = Bytes(taken + first_part, taken + n)
    /\ pc' = "flush"
    /\ UNCHANGED <<program, total, done, output, lost>>
-----------------------------------------------------------------------------
(* write_retry() *)

\* It returns: what is left of the line goes to the front of the buffer, or the
\* buffer is freed.
Returns ==
    /\ pc' = IF pc = "flush" THEN "getline" ELSE "end"
    /\ buffer' = string
    /\ string' = << >>
    /\ done' = 0

\* write() takes n bytes; the loop ends when there are no more.
Write(n) ==
    /\ pc \in {"flush", "close"}
    /\ done + n <= Len(buffer)
    /\ output' = output \o SubSeq(buffer, done + 1, done + n)
    /\ IF done + n = Len(buffer)
       THEN Returns
       ELSE done' = done + n /\ UNCHANGED <<pc, string, buffer>>
    /\ UNCHANGED <<program, total, taken, lost>>

\* write() returns 0, or an error that is not retried.
GiveUp ==
    /\ pc \in {"flush", "close"}
    /\ lost' = TRUE
    /\ Returns
    /\ UNCHANGED <<program, total, taken, output>>
-----------------------------------------------------------------------------
(* write_impl() *)

\* getline() returns -1; close_buffer() writes what the buffer holds.
EndOfInput ==
    /\ pc = "getline"
    /\ taken = total
    /\ pc' = IF buffer = << >> THEN "end" ELSE "close"
    /\ UNCHANGED <<program, total, taken, string, buffer, done, output, lost>>

Init ==
    /\ program = "buffered_perf"
    /\ pc = "getline"
    /\ total \in 0 .. MaxInput
    /\ taken = 0
    /\ string = << >>
    /\ buffer = << >>
    /\ done = 0
    /\ output = << >>
    /\ lost = FALSE

Next ==
    \/ \E n \in 1 .. MaxLine : Keep(n) \/ Fill(n)
    \/ \E n \in 1 .. capacity : Write(n)
    \/ GiveUp
    \/ EndOfInput

Spec == Init /\ [][Next]_vars
-----------------------------------------------------------------------------
(* Properties *)

\* What has been read but not yet handed to write(), in bytes.
Held == Len(buffer) - done + Len(string)

\* The buffer is never overrun.  The output followed by what is left of the
\* buffer and of the line is the input read so far, in order, each byte once;
\* where a write() that failed for good has torn holes in the output, what
\* there is of it still is in order and nothing is written twice.
StreamKept ==
    program = "buffered_perf" =>
        /\ Len(buffer) <= capacity
        /\ ~lost => output = Bytes(0, taken - Held)
        /\ \A k \in 1 .. Len(output) - 1 : output[k] < output[k + 1]
        /\ pc = "end" => taken = total /\ Held = 0
=============================================================================
