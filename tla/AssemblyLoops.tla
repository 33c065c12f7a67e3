--------------------------- MODULE AssemblyLoops ---------------------------
(***************************************************************************)
(* The loops of sem04-asm-x86 and sem05-aarch64, register by register.     *)
(*                                                                         *)
(*   fib_loop, fib_rec   the Fibonacci numbers, the second by recursion    *)
(*   my_sum              x[0] - x[1] + x[2] - ... (memory/sum.s)           *)
(*   avx_sum             sums of two arrays, LANES of them at a time       *)
(*   sum_n               1 + 2 + ... + n (aarch64)                         *)
(*                                                                         *)
(* An int argument arrives in a register twice as wide, whose upper half   *)
(* the callers in C leave 0: a negative one looks like a large one to code *)
(* that compares the whole register, as all but my_sum does.               *)
(***************************************************************************)
EXTENDS Integers, Sequences, SequencesExt

CONSTANTS
    LoopProgram,    \* the programs to run
    WIDTH,          \* the bits of an int (32)
    LANES,          \* the floats of a vector register (8)
    MaxArray        \* bound: the length of an array

VARIABLES
    program,
    n,          \* the argument, as the caller means it
    x,          \* the array my_sum is passed
    pc,
    reg,        \* the registers
    stack,      \* fib_rec: return address, saved r12 and r13 of each call
    R           \* avx_sum: the array of results, by index

vars == <<program, n, x, pc, reg, stack, R>>

Register == {"rax", "r8", "rdi", "rsi", "r12", "r13", "x0", "x1", "x2"}

Values(w)  == 2 ^ w
Wrapped(v) == v % Values(2 * WIDTH)

\* What the lower w bits of a register mean as a signed number.
Signed(v, w) ==
    LET low == v % Values(w)
    IN  IF low < Values(w - 1) THEN low ELSE low - Values(w)
AsInt(v)  == Signed(v, WIDTH)
AsLong(v) == Signed(v, 2 * WIDTH)

Set(values) == reg' = [r \in Register |-> IF r \in DOMAIN values THEN Wrapped(values[r])
                                          ELSE reg[r]]
Input == <<program, n, x>>
-----------------------------------------------------------------------------
(* fib-loop/fib.s *)

\* Deviation: the sum is made after rax has been overwritten (lines 13 and 14).
FibAddLate ==
    /\ program = "fib_loop" /\ pc = "loop"
    /\ AsLong(reg["rdi"]) > 0
    /\ Set([rdi |-> reg["rdi"] - 1, rax |-> reg["r8"], r8 |-> reg["r8"] + reg["r8"]])
    /\ UNCHANGED <<Input, pc, stack, R>>

FibLoop ==
    /\ program = "fib_loop" /\ pc = "loop"
    /\ AsLong(reg["rdi"]) > 0
    /\ Set([rdi |-> reg["rdi"] - 1, rax |-> reg["r8"], r8 |-> reg["r8"] + reg["rax"]])
    /\ UNCHANGED <<Input, pc, stack, R>>

FibExit ==
    /\ program = "fib_loop" /\ pc = "loop"
    /\ AsLong(reg["rdi"]) <= 0
    /\ pc' = "ret"
    /\ UNCHANGED <<Input, reg, stack, R>>
-----------------------------------------------------------------------------
(* fib-rec/fib.s *)

\* A call pushes the return address and, first thing in fib, r12 and r13.
FirstCall ==
    /\ program = "fib_rec" /\ pc = "fib"
    /\ AsLong(reg["rdi"]) > 2
    /\ Set([rdi |-> reg["rdi"] - 1, r12 |-> reg["rdi"] - 1])
    /\ stack' = Append(stack, <<"first", reg'["r12"], reg["r13"]>>)
    /\ UNCHANGED <<Input, pc, R>>

\* The small arguments: 0 below 2, and 1 for 2.
Base ==
    /\ program = "fib_rec" /\ pc = "fib"
    /\ AsLong(reg["rdi"]) <= 2
    /\ Set([rax |-> IF AsLong(reg["rdi"]) = 2 THEN 1 ELSE 0])
    /\ pc' = "return"
    /\ UNCHANGED <<Input, stack, R>>

\* pop r13, pop r12, ret: to the caller, or behind one of the two calls.
SecondCall ==
    /\ program = "fib_rec" /\ pc = "return"
    /\ Last(stack)[1] = "first"
    /\ Set([rdi |-> Last(stack)[2] - 1, r12 |-> Last(stack)[2], r13 |-> reg["rax"]])
    /\ stack' = Append(Front(stack), <<"second", reg'["r12"], reg'["r13"]>>)
    /\ pc' = "fib"
    /\ UNCHANGED <<Input, R>>

AddBoth ==
    /\ program = "fib_rec" /\ pc = "return"
    /\ Last(stack)[1] = "second"
    /\ Set([rax |-> reg["rax"] + Last(stack)[3], r12 |-> Last(stack)[2],
            r13 |-> Last(stack)[3]])
    /\ stack' = Front(stack)
    /\ UNCHANGED <<Input, pc, R>>

BackToCaller ==
    /\ program = "fib_rec" /\ pc = "return"
    /\ Last(stack)[1] = "caller"
    /\ Set([r12 |-> Last(stack)[2], r13 |-> Last(stack)[3]])
    /\ stack' = << >>
    /\ pc' = "ret"
    /\ UNCHANGED <<Input, R>>
-----------------------------------------------------------------------------
(* memory/sum.s *)

\* One element is added, the next one taken off; rsi counts elements here.
SumOne(here, there, sign) ==
    /\ program = "my_sum" /\ pc = here
    /\ AsInt(reg["rdi"]) > 0
    /\ Set([rax |-> reg["rax"] + sign * x[reg["rsi"] + 1], rsi |-> reg["rsi"] + 1,
            rdi |-> reg["rdi"] - 1])
    /\ pc' = there
    /\ UNCHANGED <<Input, stack, R>>

SumReturns ==
    /\ program = "my_sum" /\ pc \in {"add", "sub"}
    /\ AsInt(reg["rdi"]) <= 0
    /\ pc' = "ret"
    /\ UNCHANGED <<Input, reg, stack, R>>
-----------------------------------------------------------------------------
(* avx-sum/add.S, from the end of the arrays *)

\* A[i] is i + 1, B[i] twice that; what stands in front of the arrays is not told
\* apart.
A(i) == i + 1
B(i) == 2 * (i + 1)

\* The block the next round loads begins here.
lower == AsLong(reg["rdi"] - LANES)

AddLanes ==
    LET block == lower .. lower + LANES - 1 IN
    /\ program = "avx_sum" /\ pc = "loop"
    /\ lower % LANES = 0
    /\ Set([rdi |-> reg["rdi"] - LANES])
    /\ R' = [i \in DOMAIN R \cup block |-> IF i \in block THEN A(i) + B(i) ELSE R[i]]
    /\ pc' = IF lower > 0 THEN "loop" ELSE "ret"
    /\ UNCHANGED <<Input, stack>>

\* vmovaps faults at an address that is no multiple of a vector's size, which the
\* arrays themselves begin at (add.c, 11-15): the first load ends the program.
LoadFaults ==
    /\ program = "avx_sum" /\ pc = "loop"
    /\ lower % LANES # 0
    /\ Set([rdi |-> reg["rdi"] - LANES])
    /\ pc' = "fault"
    /\ UNCHANGED <<Input, stack, R>>
-----------------------------------------------------------------------------
(* sum_n/sum_n.S *)

SumUp ==
    /\ program = "sum_n" /\ pc = "loop"
    /\ Set([x2 |-> reg["x2"] + 1, x0 |-> reg["x0"] + reg["x2"] + 1])
    /\ pc' = IF AsLong(reg["x2"] + 1) < AsLong(reg["x1"]) THEN "loop" ELSE "ret"
    /\ UNCHANGED <<Input, stack, R>>
-----------------------------------------------------------------------------
\* The arguments: any int for the loops, none below 0 for the recursion, the
\* length of the array for my_sum and avx_sum.
Arguments ==
    CASE program \in {"fib_loop", "sum_n"} -> -Values(WIDTH - 1) .. Values(WIDTH - 1) - 1
      [] program = "fib_rec"              -> 0 .. Values(WIDTH - 1) - 1
      [] program = "avx_sum"              -> 0 .. MaxArray
      [] program = "my_sum"               -> -1 .. MaxArray

\* What the first instructions put into the registers.  r12 and r13 are the
\* caller's.
Init ==
    /\ program \in LoopProgram
    /\ n \in Arguments
    /\ x \in IF program = "my_sum" /\ n > 0 THEN [1 .. n -> {1, 3}] ELSE {<< >>}
    /\ pc = CASE program = "fib_rec" -> "fib" [] program = "my_sum" -> "add"
             [] OTHER -> "loop"
    /\ reg = [r \in Register |->
                 CASE r \in {"rdi", "x1"}   -> n % Values(WIDTH)
                   [] r \in {"r8", "r12"}   -> 1
                   [] r = "r13"             -> 2
                   [] OTHER                 -> 0]
    /\ stack = IF program = "fib_rec" THEN <<<<"caller", 1, 2>>>> ELSE << >>
    /\ R = << >>

Next ==
    \/ FibLoop \/ FibExit
    \/ FirstCall \/ Base \/ SecondCall \/ AddBoth \/ BackToCaller
    \/ SumOne("add", "sub", 1) \/ SumOne("sub", "add", -1) \/ SumReturns
    \/ AddLanes \/ LoadFaults \/ SumUp
-----------------------------------------------------------------------------
(* Properties *)

Ended == pc \in {"ret", "fault"}

Fibonacci(k) ==
    LET fib[i \in 0 .. k] == IF i < 2 THEN i ELSE fib[i - 1] + fib[i - 2]
    IN  fib[k]

Alternating(s) ==
    LET sum[i \in 0 .. Len(s)] ==
            IF i = 0 THEN 0
            ELSE IF i % 2 = 1 THEN sum[i - 1] + s[i] ELSE sum[i - 1] - s[i]
    IN  sum[Len(s)]

\* The int the caller is given.  fib_rec is one number behind fib_loop: it returns
\* for n what fib_loop returns for n - 1, although both are called fib and are
\* offered as two ways of writing the same (main.ipynb of sem04, lines 391 and
\* 456); the callers in C pass 8 to the loop and 7 to the recursion.  The arguments
\* count as unsigned for the two loops that compare the whole register; sum_n tests
\* at the end and makes 1 of 0.
Result(v) == AsInt(reg[v])
RightNumber ==
    CASE program = "fib_loop" -> Result("rax") = AsInt(Fibonacci(n % Values(WIDTH)))
      [] program = "fib_rec"  -> Result("rax") = IF n = 0 THEN 0
                                                 ELSE AsInt(Fibonacci(n - 1))
      [] program = "my_sum"   -> Result("rax") = AsInt(Alternating(x))
      [] program = "sum_n"    ->
            LET k == n % Values(WIDTH)
            IN  Result("x0") = IF k = 0 THEN 1 ELSE AsInt((k * (k + 1)) \div 2)
      [] program = "avx_sum"  -> \A i \in 0 .. n - 1 : R[i] = 3 * (i + 1)

\* Where a loop returns it has computed what it is for, the recursion gives the
\* caller its stack and r12 and r13 back, and my_sum reads inside its array.
\* avx_sum returns exactly if the length is a multiple of what one vector holds,
\* having written all of its array and nothing else, but for a length of 0, when it
\* writes in front of it; else it faults before it has written anything.
LoopsCompute ==
    /\ pc = "ret" =>
          /\ RightNumber
          /\ stack = << >>
          /\ program = "fib_rec" => reg["r12"] = 1 /\ reg["r13"] = 2
    /\ program = "my_sum" => reg["rsi"] <= Len(x)
    /\ program = "avx_sum" /\ pc = "ret" =>
          n % LANES = 0 /\ DOMAIN R = IF n = 0 THEN -LANES .. -1 ELSE 0 .. n - 1
    /\ pc = "fault" => program = "avx_sum" /\ n % LANES # 0 /\ R = << >>
=============================================================================
