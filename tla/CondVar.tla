------------------------------ MODULE CondVar ------------------------------
(***************************************************************************)
(* sem08-pthread-sync/snippets/condvar/condvar.c: main() starts NUMTHREADS *)
(* threads and sleeps on a condition variable until the last of them has   *)
(* counted itself in "done".  The threads are never joined: the counter    *)
(* and the condition variable are all that keeps main() from returning,    *)
(* and thereby ending the process, too early.                              *)
(*                                                                         *)
(* The mutex and the condition variable are pthreads' (external): waiting  *)
(* releases the mutex and falls asleep in one step, a signal wakes main()  *)
(* only if it is asleep at that moment, and a sleeper may wake up without  *)
(* a signal.  done++ is a read and a write.                                *)
(***************************************************************************)
EXTENDS Integers, FiniteSets

CONSTANT NUMTHREADS

ASSUME CondVarAssumption == NUMTHREADS \in Nat \ {0}

Worker == 0 .. NUMTHREADS - 1
Main   == -1        \* main() as an owner of the mutex
Nobody == -2        \* the mutex is free

VARIABLES
    done,       \* the counter
    mutex,      \* the thread that owns the mutex, or Nobody
    pc,         \* where each worker is
    read,       \* the value of done a worker has read in done++
    main,       \* where main() is
    t,          \* main()'s loop variable
    failed      \* the threads pthread_create() could not start

vars == <<done, mutex, pc, read, main, t, failed>>

\* main() returns and takes every thread with it.
Running == main # "exit"
-----------------------------------------------------------------------------
(* main() *)

\* The result of pthread_create() is not looked at.
Create ==
    /\ main = "create"
    /\ t < NUMTHREADS
    /\ \/ pc' = [pc EXCEPT ![t] = "work"] /\ UNCHANGED failed
       \/ failed' = failed \cup {t} /\ UNCHANGED pc
    /\ t' = t + 1
    /\ UNCHANGED <<done, mutex, read, main>>

MainLock ==
    /\ main = "create"
    /\ t = NUMTHREADS
    /\ mutex = Nobody
    /\ mutex' = Main
    /\ main' = "test"
    /\ UNCHANGED <<done, pc, read, t, failed>>

\* Deviation: while (done <= NUMTHREADS).
WaitOnceMore ==
    /\ main = "test"
    /\ done <= NUMTHREADS
    /\ mutex' = Nobody
    /\ main' = "asleep"
    /\ UNCHANGED <<done, pc, read, t, failed>>

\* while (done < NUMTHREADS) pthread_cond_wait(&cond, &mutex)
Wait ==
    /\ main = "test"
    /\ done < NUMTHREADS
    /\ mutex' = Nobody
    /\ main' = "asleep"
    /\ UNCHANGED <<done, pc, read, t, failed>>

SpuriousWakeup ==
    /\ main = "asleep"
    /\ main' = "woken"
    /\ UNCHANGED <<done, mutex, pc, read, t, failed>>

\* Deviation: if in place of while.
RelockAndLeave ==
    /\ main = "woken"
    /\ mutex = Nobody
    /\ mutex' = Main
    /\ main' = "unlock"
    /\ UNCHANGED <<done, pc, read, t, failed>>

\* pthread_cond_wait() returns with the mutex held.
Relock ==
    /\ main = "woken"
    /\ mutex = Nobody
    /\ mutex' = Main
    /\ main' = "test"
    /\ UNCHANGED <<done, pc, read, t, failed>>

LeaveLoop ==
    /\ main = "test"
    /\ done >= NUMTHREADS
    /\ main' = "unlock"
    /\ UNCHANGED <<done, mutex, pc, read, t, failed>>

MainUnlock ==
    /\ main = "unlock"
    /\ mutex' = Nobody
    /\ main' = "exit"
    /\ UNCHANGED <<done, pc, read, t, failed>>
-----------------------------------------------------------------------------
(* thread_entry() *)

At(w, here, there) ==
    /\ Running
    /\ pc[w] = here
    /\ pc' = [pc EXCEPT ![w] = there]
    /\ UNCHANGED <<t, failed>>

\* The costly work is over.
Work(w) == At(w, "work", "lock") /\ UNCHANGED <<done, mutex, read, main>>

\* Deviation: thread_entry() does not lock the mutex.
LockNothing(w) ==
    /\ At(w, "lock", "read")
    /\ UNCHANGED <<done, mutex, read, main>>

Lock(w) ==
    /\ At(w, "lock", "read")
    /\ mutex = Nobody
    /\ mutex' = w
    /\ UNCHANGED <<done, read, main>>

ReadDone(w) ==
    /\ At(w, "read", "write")
    /\ read' = [read EXCEPT ![w] = done]
    /\ UNCHANGED <<done, mutex, main>>

WriteDone(w) ==
    /\ At(w, "write", "signal")
    /\ done' = read[w] + 1
    /\ UNCHANGED <<mutex, read, main>>

\* Deviation: thread_entry() does not signal.
SignalNothing(w) ==
    /\ At(w, "signal", "unlock")
    /\ UNCHANGED <<done, mutex, read, main>>

Signal(w) ==
    /\ At(w, "signal", "unlock")
    /\ main' = IF main = "asleep" THEN "woken" ELSE main
    /\ UNCHANGED <<done, mutex, read>>

Unlock(w) ==
    /\ At(w, "unlock", "end")
    /\ mutex' = Nobody
    /\ UNCHANGED <<done, read, main>>
-----------------------------------------------------------------------------
Init ==
    /\ done = 0
    /\ mutex = Nobody
    /\ pc = [w \in Worker |-> "unborn"]
    /\ read = [w \in Worker |-> 0]
    /\ main = "create"
    /\ t = 0
    /\ failed = {}

MainStep ==
    \/ Create \/ MainLock \/ Wait \/ SpuriousWakeup \/ Relock \/ LeaveLoop
    \/ MainUnlock

WorkerStep(w) ==
    Work(w) \/ Lock(w) \/ ReadDone(w) \/ WriteDone(w) \/ Signal(w) \/ Unlock(w)

Next == MainStep \/ \E w \in Worker : WorkerStep(w)

Spec == Init /\ [][Next]_vars

(* Each thread is scheduled, and a thread that finds the mutex free again   *)
(* and again gets it in the end.  Nothing is asked of spurious wake-ups.    *)
Fairness ==
    /\ WF_vars(Create \/ Wait \/ LeaveLoop \/ MainUnlock)
    /\ SF_vars(MainLock \/ Relock)
    /\ \A w \in Worker :
          /\ WF_vars(Work(w) \/ ReadDone(w) \/ WriteDone(w) \/ Signal(w) \/ Unlock(w))
          /\ SF_vars(Lock(w))

FairSpec == Spec /\ Fairness
-----------------------------------------------------------------------------
(* Properties *)

\* The types of the variables.
TypeOK ==
    /\ done \in Nat
    /\ mutex \in Worker \cup {Main, Nobody}
    /\ pc \in [Worker -> {"unborn", "work", "lock", "read", "write", "signal",
                          "unlock", "end"}]
    /\ read \in [Worker -> Nat]
    /\ main \in {"create", "test", "asleep", "woken", "unlock", "exit"}
    /\ t \in 0 .. NUMTHREADS
    /\ failed \in SUBSET Worker

Counted == {w \in Worker : pc[w] \in {"signal", "unlock", "end"}}

\* No increment is lost: done is the number of threads that made theirs.
DoneCounts == done = Cardinality(Counted)

\* main() never sleeps past the last signal: while it does, some thread has
\* not sent its own (if every thread could be started).
NoLostWakeup ==
    main = "asleep" => \E w \in Worker : pc[w] \notin {"unlock", "end"}

\* main() returns only after every thread has counted itself and let go of
\* the mutex, although it joins none of them.
ExitAfterAll == main \in {"unlock", "exit"} => \A w \in Worker : pc[w] = "end"

\* If every thread could be started, main() returns.
Returns == <>(main = "exit" \/ failed # {})
=============================================================================
