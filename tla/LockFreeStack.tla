--------------------------- MODULE LockFreeStack ---------------------------
(***************************************************************************)
(* sem08-pthread-sync/snippets/lock-free/stack.c: a stack of malloc()ed    *)
(* nodes whose top is swung by compare-and-swap, a producer that pushes,   *)
(* a consumer that pops and frees, and main() that joins both and destroys *)
(* what is left.                                                           *)
(*                                                                         *)
(* One action is one access to shared memory.  free() leaves the contents  *)
(* of a node as they are and malloc() hands the same address out again, so *)
(* a pointer read earlier may come to mean another node.  main() starts    *)
(* one producer and one consumer; the sets are left open to say for which  *)
(* numbers of threads the stack is correct.                                *)
(***************************************************************************)
EXTENDS Naturals, Sequences

CONSTANTS
    Producer, Consumer,     \* the threads
    Addr,                   \* the addresses malloc() may return
    NULL,                   \* the null pointer
    n_pushes,               \* how often each producer pushes
    n_pops,                 \* how often each consumer pops (n_pushes in main)
    EmptyPop                \* what stack_pop() may return from an empty stack:
                            \* control runs off its end without a return

\* The value of curr until main() has joined the threads.
Nothing == "not yet"

ASSUME StackAssumption ==
    /\ NULL \notin Addr
    /\ Nothing \notin Addr \cup {NULL}
    /\ Producer \cap Consumer = {}
    /\ n_pushes \in Nat /\ n_pops \in Nat

VARIABLES
    pc,         \* where a thread is
    count,      \* i, the loop variable of producer() and consumer()
    node,       \* the local node of a thread
    seen,       \* the local top of stack_push() and stack_pop()
    next,       \* the value of top->prev handed to the compare-and-swap
    top,        \* stack->top
    alloc,      \* the addresses that are allocated
    payload, prev,  \* the fields of the node at an address
    got,        \* the values the consumers have printed, in order
    curr,       \* the local of stack_destroy(), in main()
    chain       \* history: the nodes pushed and not popped, the latest last

locals == <<pc, count, node, seen, next>>
heap   == <<alloc, payload, prev>>
vars   == <<pc, count, node, seen, next, top, alloc, payload, prev, got, curr,
            chain>>

Thread  == Producer \cup Consumer

\* The i-th value of producer p.  producer() pushes i itself; the name of the
\* thread keeps the values of several producers apart.
Val(p, i) == <<p, i>>

Value == Producer \X (0 .. n_pushes - 1)
-----------------------------------------------------------------------------
(* stack_push(), called by producer() *)

Goto(t, l) == pc' = [pc EXCEPT ![t] = l]

Malloc(p) ==
    /\ pc[p] = "malloc"
    /\ count[p] < n_pushes
    /\ \E a \in Addr \ alloc :
          /\ alloc' = alloc \cup {a}
          /\ node' = [node EXCEPT ![p] = a]
          /\ payload' = [payload EXCEPT ![a] = Val(p, count[p])]
    /\ Goto(p, "load")
    /\ UNCHANGED <<count, seen, next, top, prev, got, curr, chain>>

\* top = atomic_load(); node->prev = top: the node is still the thread's own.
PushLoad(p) ==
    /\ pc[p] = "load"
    /\ seen' = [seen EXCEPT ![p] = top]
    /\ prev' = [prev EXCEPT ![node[p]] = top]
    /\ Goto(p, "swap")
    /\ UNCHANGED <<count, node, next, top, alloc, payload, got, curr, chain>>

\* Deviation: top is stored (line 36) whether or not it has changed.
PushStore(p) ==
    /\ pc[p] = "swap"
    /\ top' = node[p]
    /\ chain' = Append(chain, node[p])
    /\ count' = [count EXCEPT ![p] = @ + 1]
    /\ Goto(p, "malloc")
    /\ UNCHANGED <<node, seen, next, heap, got, curr>>

PushSwap(p) ==
    /\ pc[p] = "swap"
    /\ top = seen[p]
    /\ top' = node[p]
    /\ chain' = Append(chain, node[p])
    /\ count' = [count EXCEPT ![p] = @ + 1]
    /\ Goto(p, "malloc")
    /\ UNCHANGED <<node, seen, next, heap, got, curr>>

\* Another thread was faster, or the weak compare-and-swap failed by itself.
PushRetry(p) ==
    /\ pc[p] = "swap"
    /\ Goto(p, "load")
    /\ UNCHANGED <<count, node, seen, next, top, heap, got, curr, chain>>
-----------------------------------------------------------------------------
(* stack_pop(), called by consumer() *)

PopLoad(c) ==
    /\ pc[c] = "poll"
    /\ count[c] < n_pops
    /\ top # NULL
    /\ seen' = [seen EXCEPT ![c] = top]
    /\ Goto(c, "read")
    /\ UNCHANGED <<count, node, next, top, heap, got, curr, chain>>

\* The loop of stack_pop() ends without a node; consumer() polls again if the
\* value it gets is NULL and takes any other for a node.
PopEmpty(c) ==
    /\ pc[c] = "poll"
    /\ count[c] < n_pops
    /\ top = NULL
    /\ seen' = [seen EXCEPT ![c] = NULL]
    /\ \E r \in EmptyPop :
          /\ node' = [node EXCEPT ![c] = r]
          /\ IF r = NULL THEN UNCHANGED pc ELSE Goto(c, "use")
    /\ UNCHANGED <<count, next, top, heap, got, curr, chain>>

\* The argument top->prev is read before the compare-and-swap.
PopRead(c) ==
    /\ pc[c] = "read"
    /\ next' = [next EXCEPT ![c] = prev[seen[c]]]
    /\ Goto(c, "cas")
    /\ UNCHANGED <<count, node, seen, top, heap, got, curr, chain>>

\* Deviation: stack_pop() frees the node it returns.
PopSwapFrees(c) ==
    /\ pc[c] = "cas"
    /\ top = seen[c]
    /\ top' = next[c]
    /\ node' = [node EXCEPT ![c] = seen[c]]
    /\ alloc' = alloc \ {seen[c]}
    /\ chain' = SubSeq(chain, 1, Len(chain) - 1)
    /\ Goto(c, "use")
    /\ UNCHANGED <<count, seen, next, payload, prev, got, curr>>

PopSwap(c) ==
    /\ pc[c] = "cas"
    /\ top = seen[c]
    /\ top' = next[c]
    /\ node' = [node EXCEPT ![c] = seen[c]]
    /\ chain' = SubSeq(chain, 1, Len(chain) - 1)
    /\ Goto(c, "use")
    /\ UNCHANGED <<count, seen, next, heap, got, curr>>

PopRetry(c) ==
    /\ pc[c] = "cas"
    /\ Goto(c, "poll")
    /\ UNCHANGED <<count, node, seen, next, top, heap, got, curr, chain>>

\* printf() of the payload.
Use(c) ==
    /\ pc[c] = "use"
    /\ node[c] \in Addr
    /\ got' = Append(got, payload[node[c]])
    /\ Goto(c, "free")
    /\ UNCHANGED <<count, node, seen, next, top, heap, curr, chain>>

Free(c) ==
    /\ pc[c] = "free"
    /\ alloc' = alloc \ {node[c]}
    /\ count' = [count EXCEPT ![c] = @ + 1]
    /\ Goto(c, "poll")
    /\ UNCHANGED <<node, seen, next, top, payload, prev, got, curr, chain>>
-----------------------------------------------------------------------------
(* main(): join both threads, then stack_destroy() *)

Joined ==
    /\ \A p \in Producer : count[p] = n_pushes
    /\ \A c \in Consumer : count[c] = n_pops

\* Deviation: stack_destroy() starts below the top.
DestroyBelow ==
    /\ Joined
    /\ curr = Nothing
    /\ curr' = IF top = NULL THEN NULL ELSE prev[top]
    /\ UNCHANGED <<locals, top, heap, got, chain>>

Destroy ==
    /\ Joined
    /\ curr = Nothing
    /\ curr' = top
    /\ UNCHANGED <<locals, top, heap, got, chain>>

DestroyNode ==
    /\ curr \in Addr
    /\ curr' = prev[curr]
    /\ alloc' = alloc \ {curr}
    /\ UNCHANGED <<locals, top, payload, prev, got, chain>>
-----------------------------------------------------------------------------
Init ==
    /\ pc = [t \in Thread |-> IF t \in Producer THEN "malloc" ELSE "poll"]
    /\ count = [t \in Thread |-> 0]
    /\ node = [t \in Thread |-> NULL]
    /\ seen = [t \in Thread |-> NULL]
    /\ next = [c \in Consumer |-> NULL]
    /\ top = NULL
    /\ alloc = {}
    /\ payload = [a \in Addr |-> NULL]
    /\ prev = [a \in Addr |-> NULL]
    /\ got = << >>
    /\ curr = Nothing
    /\ chain = << >>

Produce(p) == Malloc(p) \/ PushLoad(p) \/ PushSwap(p) \/ PushRetry(p)

Consume(c) ==
    \/ PopLoad(c) \/ PopEmpty(c) \/ PopRead(c) \/ PopSwap(c) \/ PopRetry(c)
    \/ Use(c) \/ Free(c)

Next ==
    \/ \E p \in Producer : Produce(p)
    \/ \E c \in Consumer : Consume(c)
    \/ Destroy \/ DestroyNode

Spec == Init /\ [][Next]_vars

(* Every thread is scheduled, and a compare-and-swap that could succeed     *)
(* again and again does not fail by itself for ever.                        *)
Fairness ==
    /\ \A p \in Producer : WF_vars(Produce(p)) /\ SF_vars(PushSwap(p))
    /\ \A c \in Consumer : WF_vars(Consume(c)) /\ SF_vars(PopSwap(c))
    /\ WF_vars(Destroy \/ DestroyNode)

FairSpec == Spec /\ Fairness
-----------------------------------------------------------------------------
(* Properties *)

\* No node that was freed is read, written or swung onto the stack.
NoUseAfterFree ==
    /\ curr = Nothing => \A i \in 1 .. Len(chain) : chain[i] \in alloc
    /\ \A p \in Producer : pc[p] \in {"load", "swap"} => node[p] \in alloc
    /\ \A c \in Consumer :
          /\ pc[c] = "read" => seen[c] \in alloc
          /\ pc[c] \in {"use", "free"} => node[c] \in alloc
    /\ curr \in Addr => curr \in alloc

\* The value a consumer gets is one it popped: "retry" in consumer() relies on
\* stack_pop() returning NULL, and nothing else, from an empty stack.
UsesWhatItPopped ==
    \A c \in Consumer : pc[c] \in {"use", "free"} => node[c] = seen[c] /\ node[c] \in Addr

\* Every push and pop completes, the stack is destroyed and nothing is left
\* allocated.
Terminates == <>(curr = NULL /\ alloc = {})

\* The stack is a LIFO stack whose calls take effect at their successful
\* compare-and-swap.
Items == [i \in 1 .. Len(chain) |-> payload[chain[i]]]

\* What was popped and not printed yet, by the single consumer of main().
Popped ==
    LET using == {c \in Consumer : pc[c] = "use"} IN
    IF using = {} THEN got
    ELSE Append(got, payload[node[CHOOSE c \in using : TRUE]])

Lifo == INSTANCE LifoStack WITH items <- Items, popped <- Popped

ImplementsLifo == Lifo!LifoSpec
=============================================================================
