--------------------------- MODULE CondVarProofs ---------------------------
(***************************************************************************)
(* Theorems about condvar.c, for any number of threads.                    *)
(***************************************************************************)
EXTENDS CondVar, FiniteSetTheorems, TLAPS

-----------------------------------------------------------------------------
(* The inductive invariant *)

\* The thread inside the critical section is the one that owns the mutex.
Owner ==
    /\ \A w \in Worker : pc[w] \in {"read", "write", "signal", "unlock"} <=> mutex = w
    /\ main \in {"test", "unlock"} <=> mutex = Main

\* What a thread read of done is still its value when it writes.
ReadIsFresh == \A w \in Worker : pc[w] = "write" => read[w] = done

\* The threads main() has still to create have not begun.
Unborn ==
    /\ \A w \in Worker : w >= t => pc[w] = "unborn"
    /\ main # "create" => t = NUMTHREADS

Inv ==
    /\ TypeOK
    /\ Unborn
    /\ Owner
    /\ ReadIsFresh
    /\ DoneCounts
    /\ NoLostWakeup
    /\ ExitAfterAll

-----------------------------------------------------------------------------
(* Lemmas *)

\* The counted threads are finitely many, and NUMTHREADS of them only if all
\* are counted.
LEMMA CountedFinite ==
    ASSUME TypeOK
    PROVE  /\ IsFiniteSet(Counted)
           /\ Cardinality(Counted) \in Nat
           /\ Cardinality(Counted) <= NUMTHREADS
           /\ Cardinality(Counted) = NUMTHREADS => Counted = Worker
<1>1. IsFiniteSet(Worker) /\ Cardinality(Worker) = NUMTHREADS
    BY CondVarAssumption, FS_Interval DEF Worker
<1>2. Counted \subseteq Worker
    BY DEF Counted
<1> QED
    BY <1>1, <1>2, FS_Subset, FS_CardinalityType

\* A step that moves no thread into or out of the counted ones.
LEMMA CountedUnchanged ==
    ASSUME DoneCounts, done' = done,
           \A w \in Worker : pc'[w] \in {"signal", "unlock", "end"}
                                 <=> pc[w] \in {"signal", "unlock", "end"}
    PROVE  DoneCounts'
<1>1. Counted' = Counted
    BY DEF Counted
<1> QED
    BY <1>1 DEF DoneCounts

\* The invariant holds at the start.
LEMMA InitInv == Init => Inv
<1> SUFFICES ASSUME Init PROVE Inv
    OBVIOUS
<1> USE CondVarAssumption DEF Init, Main, Nobody
<1>1. TypeOK
    BY DEF TypeOK, Worker
<1>2. Counted = {}
    BY DEF Counted
<1>3. DoneCounts
    BY <1>2, FS_EmptySet DEF DoneCounts
<1> QED
    BY <1>1, <1>3 DEF Inv, Unborn, Owner, ReadIsFresh, NoLostWakeup, ExitAfterAll, Worker

\* Each step keeps the invariant.
LEMMA InvInductive == Inv /\ [Next]_vars => Inv'
<1> SUFFICES ASSUME Inv, [Next]_vars PROVE Inv'
    OBVIOUS
<1> USE CondVarAssumption DEF Main, Nobody, Inv
<1>w. \A w \in Worker : w \in Nat
    BY DEF Worker
<1>1. CASE Create
    <2>1. t \in Worker /\ t + 1 \in 0 .. NUMTHREADS /\ pc[t] = "unborn"
        BY <1>1 DEF Create, TypeOK, Unborn, Worker
    <2>2. TypeOK'
        BY <1>1, <2>1 DEF Create, TypeOK
    <2>3. ASSUME NEW w \in Worker
          PROVE pc'[w] = pc[w] \/ (w = t /\ pc[w] = "unborn" /\ pc'[w] = "work")
        BY <1>1, <2>1 DEF Create, TypeOK
    <2>4. Unborn'
        BY <1>1, <2>1, <2>3, <1>w DEF Create, TypeOK, Unborn
    <2>5. DoneCounts'
        BY <1>1, <2>3, CountedUnchanged DEF Create
    <2>6. Owner' /\ ReadIsFresh'
        BY <1>1, <2>3 DEF Create, Owner, ReadIsFresh
    <2> QED BY <1>1, <2>2, <2>4, <2>5, <2>6 DEF Create, NoLostWakeup, ExitAfterAll
<1>2. CASE MainLock \/ Relock
    <2>1. TypeOK'
        BY <1>2 DEF MainLock, Relock, TypeOK
    <2>2. DoneCounts'
        BY <1>2, CountedUnchanged DEF MainLock, Relock
    <2> QED BY <1>2, <1>w, <2>1, <2>2
            DEF MainLock, Relock, Owner, Unborn, ReadIsFresh, NoLostWakeup, ExitAfterAll
<1>3. CASE Wait
    <2>1. TypeOK'
        BY <1>3 DEF Wait, TypeOK
    <2>2. DoneCounts'
        BY <1>3, CountedUnchanged DEF Wait
    <2>3. \E w \in Worker : w \notin Counted
        <3>1. Cardinality(Counted) < NUMTHREADS
            BY <1>3 DEF Wait, DoneCounts
        <3>2. Counted # Worker
            BY <3>1, FS_Interval DEF Worker
        <3> QED BY <3>2 DEF Counted
    <2>4. NoLostWakeup'
        BY <1>3, <2>3 DEF Wait, NoLostWakeup, Counted
    <2> QED BY <1>3, <1>w, <2>1, <2>2, <2>4
            DEF Wait, Owner, Unborn, ReadIsFresh, ExitAfterAll
<1>4. CASE SpuriousWakeup
    <2>1. TypeOK'
        BY <1>4 DEF SpuriousWakeup, TypeOK
    <2>2. DoneCounts'
        BY <1>4, CountedUnchanged DEF SpuriousWakeup
    <2> QED BY <1>4, <2>1, <2>2
            DEF SpuriousWakeup, Owner, Unborn, ReadIsFresh, NoLostWakeup, ExitAfterAll
<1>5. CASE LeaveLoop
    <2>1. TypeOK'
        BY <1>5 DEF LeaveLoop, TypeOK
    <2>2. DoneCounts'
        BY <1>5, CountedUnchanged DEF LeaveLoop
    <2>3. Counted = Worker
        BY <1>5, CountedFinite DEF LeaveLoop, DoneCounts, TypeOK
    <2>4. \A w \in Worker : pc[w] = "end"
        BY <1>5, <1>w, <2>3 DEF LeaveLoop, Counted, Owner
    <2> QED BY <1>5, <2>1, <2>2, <2>4
            DEF LeaveLoop, Owner, Unborn, ReadIsFresh, NoLostWakeup, ExitAfterAll
<1>6. CASE MainUnlock
    <2>1. TypeOK'
        BY <1>6 DEF MainUnlock, TypeOK
    <2>2. DoneCounts'
        BY <1>6, CountedUnchanged DEF MainUnlock
    <2> QED BY <1>6, <1>w, <2>1, <2>2
            DEF MainUnlock, Owner, Unborn, ReadIsFresh, NoLostWakeup, ExitAfterAll
<1>7. ASSUME NEW w \in Worker, Work(w) PROVE Inv'
    <2>1. TypeOK'
        BY <1>7 DEF Work, At, TypeOK
    <2>2. DoneCounts'
        BY <1>7, CountedUnchanged DEF Work, At, TypeOK
    <2> QED BY <1>7, <2>1, <2>2
            DEF Work, At, TypeOK, Owner, Unborn, ReadIsFresh, NoLostWakeup, ExitAfterAll
<1>8. ASSUME NEW w \in Worker, Lock(w) PROVE Inv'
    <2>1. TypeOK'
        BY <1>8 DEF Lock, At, TypeOK
    <2>2. DoneCounts'
        BY <1>8, CountedUnchanged DEF Lock, At, TypeOK
    <2> QED BY <1>8, <1>w, <2>1, <2>2
            DEF Lock, At, TypeOK, Owner, Unborn, ReadIsFresh, NoLostWakeup, ExitAfterAll
<1>9. ASSUME NEW w \in Worker, ReadDone(w) PROVE Inv'
    <2>1. TypeOK'
        BY <1>9 DEF ReadDone, At, TypeOK
    <2>2. DoneCounts'
        BY <1>9, CountedUnchanged DEF ReadDone, At, TypeOK
    <2> QED BY <1>9, <2>1, <2>2
            DEF ReadDone, At, TypeOK, Owner, Unborn, ReadIsFresh, NoLostWakeup, ExitAfterAll
<1>10. ASSUME NEW w \in Worker, WriteDone(w) PROVE Inv'
    <2>1. TypeOK'
        BY <1>10 DEF WriteDone, At, TypeOK
    <2>2. read[w] = done /\ mutex = w
        BY <1>10 DEF WriteDone, At, ReadIsFresh, Owner
    <2>3. w \notin Counted /\ Counted' = Counted \cup {w}
        BY <1>10 DEF WriteDone, At, TypeOK, Counted
    <2>4. DoneCounts'
        BY <1>10, <2>2, <2>3, CountedFinite, FS_AddElement DEF WriteDone, DoneCounts
    <2>5. ReadIsFresh'
        <3>1. ASSUME NEW v \in Worker PROVE pc'[v] # "write"
            BY <1>10, <2>2 DEF WriteDone, At, TypeOK, Owner
        <3> QED BY <3>1 DEF ReadIsFresh
    <2> QED BY <1>10, <2>1, <2>4, <2>5
            DEF WriteDone, At, TypeOK, Unborn, Owner, NoLostWakeup, ExitAfterAll
<1>11. ASSUME NEW w \in Worker, Signal(w) PROVE Inv'
    <2>1. TypeOK'
        BY <1>11 DEF Signal, At, TypeOK
    <2>2. DoneCounts'
        BY <1>11, CountedUnchanged DEF Signal, At, TypeOK
    <2> QED BY <1>11, <1>w, <2>1, <2>2
            DEF Signal, At, TypeOK, Owner, Unborn, ReadIsFresh, NoLostWakeup, ExitAfterAll
<1>12. ASSUME NEW w \in Worker, Unlock(w) PROVE Inv'
    <2>1. TypeOK'
        BY <1>12 DEF Unlock, At, TypeOK
    <2>2. DoneCounts'
        BY <1>12, CountedUnchanged DEF Unlock, At, TypeOK
    <2> QED BY <1>12, <1>w, <2>1, <2>2
            DEF Unlock, At, TypeOK, Owner, Unborn, ReadIsFresh, NoLostWakeup, ExitAfterAll
<1>13. CASE UNCHANGED vars
    <2>1. TypeOK' /\ DoneCounts'
        BY <1>13, CountedUnchanged DEF vars, TypeOK
    <2> QED BY <1>13, <2>1 DEF vars, Owner, Unborn, ReadIsFresh, NoLostWakeup, ExitAfterAll
<1> QED
    BY <1>1, <1>2, <1>3, <1>4, <1>5, <1>6, <1>7, <1>8, <1>9, <1>10, <1>11,
       <1>12, <1>13
    DEF Next, MainStep, WorkerStep

\* The invariant holds in every reachable state.
LEMMA InvAlways == Spec => []Inv
<1>1. Init => Inv
    BY InitInv
<1>2. Inv /\ [Next]_vars => Inv'
    BY InvInductive
<1> QED
    BY <1>1, <1>2, PTL DEF Spec

-----------------------------------------------------------------------------
(* The theorems *)

\* The variables keep their types.
THEOREM TypeCorrect == Spec => []TypeOK
<1>1. Inv => TypeOK
    BY DEF Inv
<1> QED
    BY <1>1, InvAlways, PTL

\* The mutex makes done++ atomic: no thread's increment is lost.
THEOREM NoLostIncrement == Spec => []DoneCounts
<1>1. Inv => DoneCounts
    BY DEF Inv
<1> QED
    BY <1>1, InvAlways, PTL

\* main() never sleeps through the last signal.
THEOREM LastSignalHeard == Spec => []NoLostWakeup
<1>1. Inv => NoLostWakeup
    BY DEF Inv
<1> QED
    BY <1>1, InvAlways, PTL

\* Returning from main() cuts off no thread before it has counted itself.
THEOREM NoThreadCutOff == Spec => []ExitAfterAll
<1>1. Inv => ExitAfterAll
    BY DEF Inv
<1> QED
    BY <1>1, InvAlways, PTL
=============================================================================
