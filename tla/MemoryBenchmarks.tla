-------------------------- MODULE MemoryBenchmarks --------------------------
(***************************************************************************)
(* sem06-memory/snippets: which memory the benchmarks touch, and whether   *)
(* it is what they report to have measured.                                *)
(*                                                                         *)
(*   cache_line_benchmark   one of several patterns over an array of ints  *)
(*   list_traversal         a linked list through shuffled nodes           *)
(*   naive                  a matrix product with one factor transposed    *)
(*                                                                         *)
(* The time taken is not modelled.                                         *)
(***************************************************************************)
EXTENDS Integers, Sequences, FiniteSets, SequencesExt

CONSTANTS
    BenchProgram,           \* the programs to run
    INTS_PER_CACHE_LINE,    \* 16
    MaxElements,            \* bound: ints in the array
    MaxStride,              \* bound: the stride
    MaxNodes,               \* bound: nodes in the list
    SIDE,                   \* N, the rows and columns of a matrix (700)
    Entry,                  \* what rand() may put into a matrix
    WIDTH                   \* the bits of an int (32)

VARIABLES
    program,
    pc,
    args,       \* benchmark_type, size_bytes, parameter
    shuffled,   \* random_offsets, or the order of the nodes
    touched,    \* the indices of one iteration over the array
    operations, \* how many of them it reports
    next,       \* the links of the list
    seen,       \* the nodes one iteration over the list has passed
    product     \* m1, m2 and what fast() makes of them

vars == <<program, pc, args, shuffled, touched, operations, next, seen, product>>

Line == INTS_PER_CACHE_LINE
Permutation(S) == {f \in [S -> S] : \A a, b \in S : f[a] = f[b] => a = b}
-----------------------------------------------------------------------------
(* latency/cache_line_benchmark.cpp *)

BenchmarkType == {"stride", "full_line", "one_per_line", "random_line",
                  "false_sharing", "varying_stride"}

elements == args.size_bytes \div 4

Below(limit) == 0 .. limit - 1
Every(stride, limit) == {i \in Below(limit) : i % stride = 0}
FullLines == Below(elements \div Line)

\* Deviation: the last element of each line is left out (line 39).
FullLineShort ==
    {block + offset : block \in Every(Line, elements), offset \in Below(Line - 1)}
        \cap Below(elements)

\* benchmark_cache_line_fully()
FullLine ==
    {block + offset : block \in Every(Line, elements), offset \in Below(Line)}
        \cap Below(elements)

\* benchmark_random_within_cache_line()
RandomLine ==
    {line * Line + shuffled[line % Line] : line \in FullLines} \cap Below(elements)

\* benchmark_false_sharing_pattern(), of four "threads"
FalseSharing ==
    {line * Line + thread : line \in FullLines, thread \in 0 .. 3} \cap Below(elements)

\* benchmark_stride() is passed the size in bytes and takes it for elements; the
\* others divide it.
Pattern ==
    CASE args.benchmark_type = "stride"         -> Every(args.parameter, args.size_bytes)
      [] args.benchmark_type = "full_line"      -> FullLine
      [] args.benchmark_type = "one_per_line"   -> Every(Line, elements)
      [] args.benchmark_type = "random_line"    -> RandomLine
      [] args.benchmark_type = "false_sharing"  -> FalseSharing
      [] args.benchmark_type = "varying_stride" -> Every(args.parameter, elements)

Measure ==
    /\ program = "cache_line_benchmark" /\ pc = "start"
    /\ IF args.benchmark_type \in BenchmarkType
       THEN touched' = Pattern /\ pc' = "report"
       ELSE pc' = "unknown type" /\ UNCHANGED touched
    /\ UNCHANGED <<program, args, shuffled, operations, next, seen, product>>

\* The operations of one iteration, from which ops_per_second is calculated.
Report ==
    /\ program = "cache_line_benchmark" /\ pc = "report"
    /\ operations' =
          CASE args.benchmark_type = "full_line"                       -> elements
            [] args.benchmark_type \in {"one_per_line", "random_line"} -> elements \div Line
            [] args.benchmark_type = "false_sharing"     -> (elements \div Line) * 4
            [] args.benchmark_type \in {"stride", "varying_stride"} ->
                  elements \div args.parameter
    /\ pc' = "end"
    /\ UNCHANGED <<program, args, shuffled, touched, next, seen, product>>
-----------------------------------------------------------------------------
(* latency/list_traversal.cpp, time() *)

NULL == 0

\* The nodes are linked in the order of the shuffle; the last links to nothing.
Link ==
    /\ program = "list_traversal" /\ pc = "start"
    /\ LET N == Len(shuffled) IN
       next' = [node \in 1 .. N |->
                  LET i == CHOOSE k \in 1 .. N : shuffled[k] = node
                  IN  IF i < N THEN shuffled[i + 1] ELSE NULL]
    /\ seen' = <<shuffled[1]>>
    /\ pc' = "traverse"
    /\ UNCHANGED <<program, args, shuffled, touched, operations, product>>

Follow ==
    /\ program = "list_traversal" /\ pc = "traverse"
    /\ IF next[Last(seen)] = NULL
       THEN pc' = "end" /\ UNCHANGED seen
       ELSE seen' = Append(seen, next[Last(seen)]) /\ UNCHANGED pc
    /\ UNCHANGED <<program, args, shuffled, touched, operations, next, product>>
-----------------------------------------------------------------------------
(* matmul/naive.cpp *)

Side == 1 .. SIDE

\* A sum that does not fit an int: undefined in C++, it wraps around in the build.
Wrapped(v) == ((v + 2 ^ (WIDTH - 1)) % 2 ^ WIDTH) - 2 ^ (WIDTH - 1)

\* res[i][j], from 0 on, over k.
Added(row, column) ==
    LET res[k \in 0 .. SIDE] ==
            IF k = 0 THEN 0 ELSE Wrapped(res[k - 1] + row[k] * column[k])
    IN  res[SIDE]

\* naive(), down the columns of m2
Naive(m1, m2) ==
    [i \in Side |-> [j \in Side |-> Added(m1[i], [k \in Side |-> m2[k][j]])]]

\* fast(), over the rows of a transposed copy of m2
Fast(m1, m2) ==
    LET m2T == [i \in Side |-> [j \in Side |-> m2[j][i]]]
    IN  [i \in Side |-> [j \in Side |-> Added(m1[i], m2T[j])]]

Multiply ==
    /\ program = "naive" /\ pc = "start"
    /\ product' = Append(product, Fast(product[1], product[2]))
    /\ pc' = "end"
    /\ UNCHANGED <<program, args, shuffled, touched, operations, next, seen>>
-----------------------------------------------------------------------------
None == << >>

\* avx_line is in the usage message, but not among the types main() knows.  Only
\* the strides use the parameter; one of 0 would never get on.
Arguments ==
    {a \in [benchmark_type : BenchmarkType \cup {"avx_line"},
            size_bytes : {4 * e : e \in 0 .. MaxElements}, parameter : 1 .. MaxStride] :
        a.benchmark_type \in {"stride", "varying_stride"} \/ a.parameter = 1}

Init ==
    /\ program \in BenchProgram
    /\ pc = "start"
    /\ args \in IF program = "cache_line_benchmark" THEN Arguments ELSE {None}
    /\ shuffled \in CASE program = "cache_line_benchmark" ->
                            IF args.benchmark_type = "random_line"
                            THEN Permutation(0 .. Line - 1) ELSE {None}
                      [] program = "list_traversal" ->
                            UNION {Permutation(1 .. N) : N \in 1 .. MaxNodes}
                      [] OTHER -> {None}
    /\ touched = {}
    /\ operations = 0
    /\ next = None
    /\ seen = None
    /\ product \in IF program = "naive" THEN [1 .. 2 -> [Side -> [Side -> Entry]]]
                                        ELSE {None}

Next == Measure \/ Report \/ Link \/ Follow \/ Multiply
-----------------------------------------------------------------------------
(* Properties *)

Ended == pc \in {"end", "unknown type"}

\* The patterns but benchmark_stride()'s stay in the array and touch as many
\* ints as the operations reported, up to one line or stride cut short at the
\* end.  A pass over the list sees each node once, and the product over the
\* transposed matrix is the product.
BenchmarksSound ==
    /\ pc \in {"report", "end"} /\ program = "cache_line_benchmark"
       /\ args.benchmark_type # "stride" => touched \subseteq Below(elements)
    /\ pc = "end" =>
          CASE program = "cache_line_benchmark" ->
                  args.benchmark_type = "stride"
                  \/ Cardinality(touched) = operations
                  \/ /\ args.benchmark_type \in {"one_per_line", "varying_stride"}
                     /\ Cardinality(touched) = operations + 1
            [] program = "list_traversal" ->
                  Len(seen) = Len(shuffled) /\ ToSet(seen) = DOMAIN shuffled
            [] program = "naive" -> product[3] = Naive(product[1], product[2])
=============================================================================
