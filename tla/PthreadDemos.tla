---------------------------- MODULE PthreadDemos ----------------------------
(***************************************************************************)
(* Programs of sem08-pthread-sync/snippets whose threads run a few         *)
(* accesses to shared variables: faulty/atomic.c and faulty/mutex.c (each  *)
(* of two threads sets its own variable and reads the other's; main()      *)
(* aborts if both have read 0), no-sync (threads increment one counter     *)
(* that main() prints, an int in no-sync.c and _Atomic in no-sync-fix.c),  *)
(* mutex-problem/problem.c (two mutexes locked in opposite orders) and     *)
(* multiple-create (each thread prints the number main() passes it).       *)
(* faulty/faulty.c, the first test on plain variables, is "faulty".        *)
(*                                                                         *)
(* A plain store goes into the processor's store buffer (external, x86)    *)
(* and reaches memory later; its own thread reads it from there.  An       *)
(* _Atomic store or increment, unlocking a mutex and the end of a thread   *)
(* wait until the buffer is empty.                                         *)
(***************************************************************************)
EXTENDS Naturals, Sequences, FiniteSetsExt

CONSTANTS
    Program,        \* the programs to run
    THREADS_COUNT,  \* how many threads increment
    Rounds,         \* how often each of them does (30000 in the code)
    Iterations      \* how often main() of the other programs starts its
                    \* threads (1000 in problem.c, without end in faulty)

VARIABLES
    program,    \* the program
    memory,     \* the value of each variable
    store,      \* the store buffer of each thread: <<variable, value>>
    reg,        \* the value a thread has loaded last
    owner,      \* the owner of each mutex, or 0
    pc,         \* how many of its accesses each thread has made
    created, joined,    \* how many threads main() has created and joined
    i,          \* the iteration of main()
    aborted     \* main() has called abort()

thread == <<store, reg, pc>>
main   == <<created, joined, i, aborted>>
vars   == <<program, memory, store, reg, owner, pc, created, joined, i, aborted>>

Cell  == {"x", "y", "r1", "r2", "counter", "counter[0]", "counter[1]"}
Mutex == {"mutex", "mutex1", "mutex2"}

Counting == program \in {"no-sync", "no-sync-fix"}
Atomic   == program \in {"atomic", "no-sync-fix"}

Thread  == 1 .. (IF THREADS_COUNT > 2 THEN THREADS_COUNT ELSE 2)
Started == IF Counting THEN THREADS_COUNT ELSE 2

\* Deviation: all threads of multiple-create get a pointer to the same cell.
SameNumber(t) == "counter[0]"

\* The cell of multiple-create whose address thread t is passed; its value is t - 1.
Number(t) == IF t = 1 THEN "counter[0]" ELSE "counter[1]"
-----------------------------------------------------------------------------
(* The code of the threads: "set" stores 1, "put" stores what was loaded, *)
(* "put+1" one more; "inc" is an atomic increment.                        *)

SetThenLoad(t) ==
    IF t = 1 THEN <<<<"set", "x">>, <<"load", "y">>, <<"put", "r1">>>>
             ELSE <<<<"set", "y">>, <<"load", "x">>, <<"put", "r2">>>>

Locked(body) ==
    <<<<"lock", "mutex">>, body[1], body[2], body[3], <<"unlock", "mutex">>>>

Increments ==
    IF Atomic THEN [k \in 1 .. Rounds |-> <<"inc", "counter">>]
    ELSE [k \in 1 .. 2 * Rounds |->
             IF k % 2 = 1 THEN <<"load", "counter">> ELSE <<"put+1", "counter">>]

LockBoth(m, n) ==
    <<<<"lock", m>>, <<"lock", n>>, <<"unlock", n>>, <<"unlock", m>>>>

Code(t) ==
    IF Counting THEN Increments
    ELSE IF program = "problem"
         THEN IF t = 1 THEN LockBoth("mutex1", "mutex2") ELSE LockBoth("mutex2", "mutex1")
    ELSE IF program = "mutex" THEN Locked(SetThenLoad(t))
    ELSE IF program = "multiple-create" THEN <<<<"load", Number(t)>>>>
    ELSE SetThenLoad(t)
-----------------------------------------------------------------------------
(* The machine *)

\* What thread t reads: its latest buffered store, or memory.
Value(t, cell) ==
    LET own == {k \in DOMAIN store[t] : store[t][k][1] = cell} IN
    IF own = {} THEN memory[cell] ELSE store[t][Max(own)][2]

Drained(t) == store[t] = << >>

Running(t) == t <= created /\ pc[t] < Len(Code(t)) /\ ~aborted

\* The next access of thread t is op on what.
Access(t, op, what) ==
    /\ Running(t)
    /\ Code(t)[pc[t] + 1] = <<op, what>>
    /\ pc' = [pc EXCEPT ![t] = @ + 1]
    /\ UNCHANGED <<program, main>>

Store(t, op, cell) ==
    LET value == IF op = "set" THEN 1 ELSE IF op = "put" THEN reg[t] ELSE reg[t] + 1 IN
    /\ op \in {"set", "put", "put+1"}
    /\ Access(t, op, cell)
    /\ IF Atomic
       THEN /\ Drained(t)
            /\ memory' = [memory EXCEPT ![cell] = value]
            /\ UNCHANGED store
       ELSE /\ store' = [store EXCEPT ![t] = Append(@, <<cell, value>>)]
            /\ UNCHANGED memory
    /\ UNCHANGED <<reg, owner>>

Load(t, cell) ==
    /\ Access(t, "load", cell)
    /\ reg' = [reg EXCEPT ![t] = Value(t, cell)]
    /\ UNCHANGED <<memory, store, owner>>

Increment(t, cell) ==
    /\ Access(t, "inc", cell)
    /\ Drained(t)
    /\ memory' = [memory EXCEPT ![cell] = @ + 1]
    /\ UNCHANGED <<store, reg, owner>>

Lock(t, m) ==
    /\ Access(t, "lock", m)
    /\ owner[m] = 0
    /\ owner' = [owner EXCEPT ![m] = t]
    /\ UNCHANGED <<memory, store, reg>>

Unlock(t, m) ==
    /\ Access(t, "unlock", m)
    /\ Drained(t)
    /\ owner' = [owner EXCEPT ![m] = 0]
    /\ UNCHANGED <<memory, store, reg>>

\* The oldest store of the buffer reaches memory.
Flush(t) ==
    /\ ~Drained(t)
    /\ memory' = [memory EXCEPT ![Head(store[t])[1]] = Head(store[t])[2]]
    /\ store' = [store EXCEPT ![t] = Tail(@)]
    /\ UNCHANGED <<program, reg, owner, pc, main>>
-----------------------------------------------------------------------------
(* main() *)

LastIteration == IF Counting \/ program = "multiple-create" THEN 1 ELSE Iterations

\* The variables are cleared before the first thread is created, and a thread's
\* number is stored before it is.
Create ==
    /\ i < LastIteration /\ ~aborted
    /\ created < Started
    /\ created' = created + 1
    /\ memory' = IF program = "multiple-create"
                 THEN [memory EXCEPT ![Number(created + 1)] = created]
                 ELSE IF created = 0 THEN [cell \in Cell |-> 0] ELSE memory
    /\ UNCHANGED <<program, thread, owner, joined, i, aborted>>

Join ==
    /\ created = Started
    /\ joined < created
    /\ pc[joined + 1] = Len(Code(joined + 1))
    /\ Drained(joined + 1)
    /\ joined' = joined + 1
    /\ UNCHANGED <<program, memory, thread, owner, created, i, aborted>>

\* All are joined: faulty, atomic.c and mutex.c check what was read, and all
\* but the counters start over.
Check ==
    /\ joined = Started
    /\ i < LastIteration
    /\ i' = i + 1
    /\ aborted' = /\ program \in {"faulty", "atomic", "mutex"}
                  /\ memory["r1"] = 0 /\ memory["r2"] = 0
    /\ IF i + 1 < LastIteration
       THEN /\ created' = 0
            /\ joined' = 0
            /\ pc' = [t \in Thread |-> 0]
       ELSE UNCHANGED <<created, joined, pc>>
    /\ UNCHANGED <<program, memory, store, reg, owner>>
-----------------------------------------------------------------------------
Init ==
    /\ program \in Program
    /\ memory = [cell \in Cell |-> 0]
    /\ store = [t \in Thread |-> << >>]
    /\ reg = [t \in Thread |-> 0]
    /\ owner = [m \in Mutex |-> 0]
    /\ pc = [t \in Thread |-> 0]
    /\ created = 0
    /\ joined = 0
    /\ i = 0
    /\ aborted = FALSE

Main == Create \/ Join \/ Check

ThreadStep(t) ==
    \/ \E cell \in Cell :
          \/ Load(t, cell) \/ Increment(t, cell)
          \/ \E op \in {"set", "put", "put+1"} : Store(t, op, cell)
    \/ \E m \in Mutex : Lock(t, m) \/ Unlock(t, m)

Next == Main \/ \E t \in Thread : ThreadStep(t) \/ Flush(t)

Spec == Init /\ [][Next]_vars

(* main() and the threads are scheduled, and a store buffer drains. *)
FairSpec ==
    /\ Spec
    /\ WF_vars(Main)
    /\ \A t \in Thread : WF_vars(ThreadStep(t)) /\ WF_vars(Flush(t))
-----------------------------------------------------------------------------
(* Properties *)

\* atomic.c and mutex.c never print "CPU is broken": one of the threads sees
\* the other's store, whatever the store buffers hold back.
NotBroken == aborted => program = "faulty"

\* What the counters print: no-sync-fix.c the number of increments; no-sync.c
\* never more, and never less than two, since whoever stores last has loaded
\* a value that counts at least one increment.
CounterOutcome ==
    Counting /\ joined = Started =>
        /\ memory["counter"] <= THREADS_COUNT * Rounds
        /\ IF Atomic THEN memory["counter"] = THREADS_COUNT * Rounds
                     ELSE memory["counter"] >= 2

\* Each thread of multiple-create.c reads the number it was created with: its
\* cell is its own, and main() does not touch it again.
OwnNumbers ==
    program = "multiple-create" /\ joined = Started =>
        \A t \in 1 .. Started : reg[t] = t - 1

\* Each thread of problem.c holds one mutex and waits for the other's.
CircularWait ==
    /\ program = "problem" /\ created = 2
    /\ owner["mutex1"] = 1 /\ pc[1] = 1
    /\ owner["mutex2"] = 2 /\ pc[2] = 1

\* The program has ended.
Ended == i = LastIteration \/ aborted
=============================================================================
