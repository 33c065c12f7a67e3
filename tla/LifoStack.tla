----------------------------- MODULE LifoStack -----------------------------
(***************************************************************************)
(* The stack that users of stack_push() and stack_pop() have in mind: each *)
(* call takes effect at one instant, a pop returns the latest value that   *)
(* is still there, and every value is returned at most once.               *)
(***************************************************************************)
EXTENDS Naturals, Sequences

CONSTANT Value

VARIABLES
    items,      \* the values on the stack, the latest last
    popped      \* the values returned by pops, in order

lifoVars == <<items, popped>>

LifoInit ==
    /\ items = << >>
    /\ popped = << >>

Push(v) ==
    /\ items' = Append(items, v)
    /\ UNCHANGED popped

Pop ==
    /\ items # << >>
    /\ popped' = Append(popped, items[Len(items)])
    /\ items' = SubSeq(items, 1, Len(items) - 1)

LifoNext == Pop \/ \E v \in Value : Push(v)

LifoSpec == LifoInit /\ [][LifoNext]_lifoVars
=============================================================================
