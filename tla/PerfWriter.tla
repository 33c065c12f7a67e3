----------------------------- MODULE PerfWriter -----------------------------
(***************************************************************************)
(* sem03-lowlevel-io-fs/perf.c: getline() and printf(), or with _USE_WRITE *)
(* getline() and write(), line by line.                                    *)
(*                                                                         *)
(* A byte is its position in the input.  getline() keeps its buffer from   *)
(* line to line, enlarges it when needed, and stores the buffer's size in  *)
(* len; the result of write() is not looked at and taken to be all of it.  *)
(***************************************************************************)
EXTENDS Naturals, Sequences

CONSTANTS
    PerfProgram,    \* "perf_printf", "perf_write"
    FirstAlloc,     \* the size of getline()'s first buffer, 120 in glibc
    MaxLine,        \* bound: the longest line
    MaxInput        \* bound: the length of the input

VARIABLES program, pc, total, taken, line, output

vars == <<program, pc, total, taken, line, output>>

Bytes(a, b) == [k \in 1 .. b - a |-> a + k]

\* The NUL behind the line, and what malloc() left in the buffer.
Stray == 0

\* The bytes of the line and a NUL over the front of a buffer that is doubled
\* until they fit; what was behind them stays.
Grown(old, n) ==
    LET size == IF n < Len(old) THEN Len(old)
                ELSE CHOOSE s \in {FirstAlloc, 2 * Len(old), n + 1} :
                        /\ s > n
                        /\ \A t \in {FirstAlloc, 2 * Len(old)} : s >= t
    IN  [k \in 1 .. size |-> IF k <= n THEN taken + k
                             ELSE IF n + 1 < k /\ k <= Len(old) THEN old[k]
                             ELSE Stray]

\* getline() reads n bytes and the program prints.
PrintLine(n) ==
    /\ pc = "getline"
    /\ taken + n <= total
    /\ taken' = taken + n
    /\ line' = Grown(line, n)
    /\ output' = output \o (IF program = "perf_write" THEN line'
                            ELSE SubSeq(line', 1, n))
    /\ UNCHANGED <<program, pc, total>>

EndOfInput ==
    /\ pc = "getline"
    /\ taken = total
    /\ pc' = "end"
    /\ UNCHANGED <<program, total, taken, line, output>>

Init ==
    /\ program \in PerfProgram
    /\ pc = "getline"
    /\ total \in 0 .. MaxInput
    /\ taken = 0
    /\ line = << >>
    /\ output = << >>

Next == EndOfInput \/ \E n \in 1 .. MaxLine : PrintLine(n)

Spec == Init /\ [][Next]_vars
-----------------------------------------------------------------------------
\* The notebook: the program reads the file line by line and sends it to
\* stdout.  With printf() it does; with write() it passes len, the size of the
\* buffer, for the length of the line.
PrintsWhatItRead == output = Bytes(0, taken)
=============================================================================
