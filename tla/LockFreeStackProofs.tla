------------------------ MODULE LockFreeStackProofs ------------------------
(***************************************************************************)
(* Theorems about the lock-free stack with one consumer, the use main()    *)
(* makes of it: for any number of producers, addresses and pushes no freed *)
(* node is touched, and the stack is a LIFO stack.                         *)
(***************************************************************************)
EXTENDS LockFreeStack, SequenceTheorems, TLAPS

\* main() starts one consumer; and an empty stack_pop() returns NULL, which
\* consumer() counts on.  With a second consumer both theorems fail.
AsInMain ==
    /\ \A c, d \in Consumer : c = d
    /\ EmptyPop = {NULL}

Pointer == Addr \cup {NULL}

-----------------------------------------------------------------------------
(* The inductive invariant *)

Types ==
    /\ node \in [Thread -> Pointer]
    /\ seen \in [Thread -> Pointer]
    /\ next \in [Consumer -> Pointer]
    /\ top \in Pointer
    /\ alloc \in SUBSET Addr
    /\ payload \in [Addr -> Value \cup {NULL}]
    /\ prev \in [Addr -> Pointer]
    /\ curr \in Pointer \cup {Nothing}
    /\ chain \in Seq(Addr)

\* How far each thread is, and main() behind them.
Control ==
    /\ pc \in [Thread -> {"malloc", "load", "swap", "poll", "read", "cas", "use", "free"}]
    /\ count \in [Thread -> Nat]
    /\ \A p \in Producer :
          /\ pc[p] \in {"malloc", "load", "swap"}
          /\ count[p] <= n_pushes
          /\ pc[p] # "malloc" => count[p] < n_pushes
    /\ \A c \in Consumer :
          /\ pc[c] \in {"poll", "read", "cas", "use", "free"}
          /\ count[c] <= n_pops
          /\ pc[c] # "poll" => count[c] < n_pops
    /\ curr # Nothing => Joined

On(stack, a) == \E i \in 1 .. Len(stack) : stack[i] = a

\* The prev pointers from top on are the chain, and end in NULL.
Linked ==
    /\ top = IF chain = << >> THEN NULL ELSE chain[Len(chain)]
    /\ \A i \in 1 .. Len(chain) :
          /\ prev[chain[i]] = IF i = 1 THEN NULL ELSE chain[i - 1]
          /\ payload[chain[i]] \in Value
    /\ \A i, j \in 1 .. Len(chain) : chain[i] = chain[j] => i = j

ChainAllocated ==
    curr = Nothing => \A i \in 1 .. Len(chain) : chain[i] \in alloc

\* A node between malloc() and the compare-and-swap that pushes it is its
\* producer's alone.
Pushing(p) == pc[p] \in {"load", "swap"}

PushOwned ==
    \A p \in Producer : Pushing(p) =>
        /\ node[p] \in alloc
        /\ ~On(chain, node[p])
        /\ payload[node[p]] \in Value
        /\ pc[p] = "swap" => prev[node[p]] = seen[p]
        /\ \A q \in Producer : Pushing(q) /\ node[q] = node[p] => q = p

\* The top that the consumer has seen stays on the stack - only the consumer
\* takes nodes off - so its prev is still the one that was read, and what the
\* consumer has popped is the consumer's alone.
PopOwned ==
    \A c \in Consumer :
        /\ pc[c] \in {"read", "cas"} => On(chain, seen[c])
        /\ pc[c] = "cas" => next[c] = prev[seen[c]]
        /\ pc[c] \in {"use", "free"} =>
              /\ node[c] \in alloc
              /\ ~On(chain, node[c])
              /\ \A p \in Producer : Pushing(p) => node[p] # node[c]

\* stack_destroy() has freed the nodes above curr and no other.
Destroying ==
    curr # Nothing =>
        \E k \in 0 .. Len(chain) :
            /\ curr = IF k = 0 THEN NULL ELSE chain[k]
            /\ \A i \in 1 .. k : chain[i] \in alloc

Inv ==
    /\ AsInMain
    /\ Types
    /\ Control
    /\ Linked
    /\ ChainAllocated
    /\ PushOwned
    /\ PopOwned
    /\ Destroying

-----------------------------------------------------------------------------
(* Lemmas about the chain *)

\* What is on the stack is an address.
LEMMA ChainFact ==
    ASSUME chain \in Seq(Addr)
    PROVE  /\ Len(chain) \in Nat
           /\ chain # << >> <=> Len(chain) > 0
           /\ \A i \in 1 .. Len(chain) : chain[i] \in Addr
           /\ \A a : On(chain, a) => a \in Addr
BY EmptySeq, ElementOfSeq, LenProperties DEF On

\* Swinging top to a node puts it at the end of the chain.
LEMMA PushFact ==
    ASSUME chain \in Seq(Addr), NEW a \in Addr, chain' = Append(chain, a)
    PROVE  /\ chain' \in Seq(Addr) /\ chain' # << >>
           /\ Len(chain') = Len(chain) + 1
           /\ \A i \in 1 .. Len(chain) : chain'[i] = chain[i]
           /\ chain'[Len(chain) + 1] = a
           /\ \A b : On(chain', b) <=> On(chain, b) \/ b = a
<1>1. /\ chain' \in Seq(Addr) /\ chain' # << >>
      /\ Len(chain') = Len(chain) + 1
      /\ \A i \in 1 .. Len(chain) : chain'[i] = chain[i]
      /\ chain'[Len(chain) + 1] = a
    BY AppendProperties
<1>2. ASSUME NEW b PROVE On(chain', b) <=> On(chain, b) \/ b = a
    <2>1. Len(chain) \in Nat
        BY ChainFact
    <2>2. \A i \in 1 .. Len(chain') : i \in 1 .. Len(chain) \/ i = Len(chain) + 1
        BY <1>1, <2>1
    <2>3. Len(chain) + 1 \in 1 .. Len(chain') /\ 1 .. Len(chain) \subseteq 1 .. Len(chain')
        BY <1>1, <2>1
    <2> QED BY <1>1, <2>2, <2>3 DEF On
<1> QED
    BY <1>1, <1>2

\* Swinging top to the node below takes one node off the end of the chain.
LEMMA PopFact ==
    ASSUME chain \in Seq(Addr), chain # << >>,
           chain' = SubSeq(chain, 1, Len(chain) - 1)
    PROVE  /\ chain' \in Seq(Addr)
           /\ Len(chain') = Len(chain) - 1
           /\ \A i \in 1 .. Len(chain') : chain'[i] = chain[i]
           /\ \A b : On(chain', b) => On(chain, b)
<1> DEFINE n == Len(chain) - 1
<1>1. Len(chain) \in Nat /\ Len(chain) > 0
    BY ChainFact
<1>2. n \in Nat /\ 1 .. n \subseteq 1 .. Len(chain)
    BY <1>1
<1>3. \A i \in 1 .. n : chain[i] \in Addr
    BY <1>2, ChainFact
<1>4. chain' = SubSeq(chain, 1, n)
    OBVIOUS
<1>5. Len(chain) = n + 1
    BY <1>1
<1> HIDE DEF n
<1>6. /\ SubSeq(chain, 1, n) \in Seq(Addr)
      /\ Len(SubSeq(chain, 1, n)) = IF 1 <= n THEN n - 1 + 1 ELSE 0
      /\ \A i \in 1 .. n - 1 + 1 : SubSeq(chain, 1, n)[i] = chain[1 + i - 1]
    BY <1>2, <1>3, SubSeqProperties
<1>7. Len(chain') = n
    BY <1>2, <1>4, <1>6
<1>8. \A i \in 1 .. n : chain'[i] = chain[i]
    BY <1>2, <1>4, <1>6
<1>9. \A b : On(chain', b) => On(chain, b)
    BY <1>2, <1>7, <1>8 DEF On
<1> QED
    BY <1>2, <1>4, <1>5, <1>6, <1>7, <1>8, <1>9

\* While a thread is at work main() waits for it.
LEMMA NotJoined ==
    ASSUME Control, \/ \E p \in Producer : Produce(p)
                    \/ \E c \in Consumer : Consume(c)
    PROVE  curr = Nothing
<1>1. ASSUME NEW p \in Producer, Produce(p) PROVE count[p] < n_pushes
    BY <1>1 DEF Control, Produce, Malloc, PushLoad, PushSwap, PushRetry
<1>2. ASSUME NEW c \in Consumer, Consume(c) PROVE count[c] < n_pops
    BY <1>2 DEF Control, Consume, PopLoad, PopEmpty, PopRead, PopSwap, PopRetry, Use, Free
<1>3. ~Joined
    <2>1. \A t \in Thread : count[t] \in Nat
        BY DEF Control
    <2> QED BY <1>1, <1>2, <2>1, StackAssumption DEF Joined, Thread
<1> QED
    BY <1>3 DEF Control
-----------------------------------------------------------------------------
(* Each part of the invariant is kept *)

\* A thread follows its program, and main() waits for all of them.
LEMMA ControlStep == Control /\ [Next]_vars => Control'
<1> SUFFICES ASSUME Control, [Next]_vars PROVE Control'
    OBVIOUS
<1> USE StackAssumption DEF Control, Thread, Goto
<1>1. ASSUME NEW p \in Producer, Produce(p) PROVE Control'
    <2>0. curr = Nothing /\ curr' = Nothing
        BY <1>1, NotJoined DEF Produce, Malloc, PushLoad, PushSwap, PushRetry
    <2>1. CASE Malloc(p)
        BY <2>0, <2>1 DEF Malloc
    <2>2. CASE PushLoad(p)
        BY <2>0, <2>2 DEF PushLoad
    <2>3. CASE PushSwap(p)
        BY <2>0, <2>3 DEF PushSwap
    <2>4. CASE PushRetry(p)
        BY <2>0, <2>4 DEF PushRetry
    <2> QED BY <1>1, <2>1, <2>2, <2>3, <2>4 DEF Produce
<1>2. ASSUME NEW c \in Consumer, Consume(c) PROVE Control'
    <2>0. curr = Nothing /\ curr' = Nothing
        BY <1>2, NotJoined
        DEF Consume, PopLoad, PopEmpty, PopRead, PopSwap, PopRetry, Use, Free
    <2>1. CASE PopLoad(c)
        BY <2>0, <2>1 DEF PopLoad
    <2>2. CASE PopEmpty(c)
        BY <2>0, <2>2 DEF PopEmpty
    <2>3. CASE PopRead(c)
        BY <2>0, <2>3 DEF PopRead
    <2>4. CASE PopSwap(c)
        BY <2>0, <2>4 DEF PopSwap
    <2>5. CASE PopRetry(c)
        BY <2>0, <2>5 DEF PopRetry
    <2>6. CASE Use(c)
        BY <2>0, <2>6 DEF Use
    <2>7. CASE Free(c)
        BY <2>0, <2>7 DEF Free
    <2> QED BY <1>2, <2>1, <2>2, <2>3, <2>4, <2>5, <2>6, <2>7 DEF Consume
<1>3. CASE Destroy \/ DestroyNode
    BY <1>3 DEF Destroy, DestroyNode, locals, Joined
<1>4. CASE UNCHANGED vars
    BY <1>4 DEF vars, Joined
<1> QED
    BY <1>1, <1>2, <1>3, <1>4 DEF Next

\* The variables keep their types.
LEMMA TypesStep == Inv /\ [Next]_vars => Types'
<1> SUFFICES ASSUME Inv, [Next]_vars PROVE Types'
    OBVIOUS
<1>0. Types /\ Control /\ PushOwned /\ PopOwned /\ AsInMain
    BY DEF Inv
<1> USE StackAssumption DEF Types, Pointer, Thread
<1>1. ASSUME NEW p \in Producer, Malloc(p) PROVE Types'
    <2>1. PICK a \in Addr \ alloc :
             /\ alloc' = alloc \cup {a}
             /\ node' = [node EXCEPT ![p] = a]
             /\ payload' = [payload EXCEPT ![a] = Val(p, count[p])]
        BY <1>1 DEF Malloc
    <2>2. Val(p, count[p]) \in Value
        BY <1>0, <1>1 DEF Malloc, Val, Value, Control
    <2> QED BY <1>0, <1>1, <2>1, <2>2 DEF Malloc
<1>2. ASSUME NEW p \in Producer, PushLoad(p) PROVE Types'
    BY <1>0, <1>2 DEF PushLoad
<1>3. ASSUME NEW p \in Producer, PushSwap(p) PROVE Types'
    <2>1. node[p] \in Addr
        BY <1>0, <1>3 DEF PushSwap, PushOwned, Pushing
    <2> QED BY <1>0, <1>3, <2>1, AppendProperties DEF PushSwap, heap
<1>4. ASSUME NEW p \in Producer, PushRetry(p) PROVE Types'
    BY <1>0, <1>4 DEF PushRetry, heap
<1>5. ASSUME NEW c \in Consumer, PopLoad(c) \/ PopEmpty(c) PROVE Types'
    BY <1>0, <1>5 DEF PopLoad, PopEmpty, heap, AsInMain
<1>6. ASSUME NEW c \in Consumer, PopRead(c) PROVE Types'
    <2>1. seen[c] \in Addr
        BY <1>0, <1>6, ChainFact DEF PopRead, PopOwned
    <2> QED BY <1>0, <1>6, <2>1 DEF PopRead, heap
<1>7. ASSUME NEW c \in Consumer, PopSwap(c) PROVE Types'
    <2>1. chain # << >>
        BY <1>0, <1>7, ChainFact DEF PopSwap, PopOwned, On
    <2> QED BY <1>0, <1>7, <2>1, PopFact DEF PopSwap, heap
<1>8. ASSUME NEW c \in Consumer, PopRetry(c) \/ Use(c) \/ Free(c) PROVE Types'
    BY <1>0, <1>8 DEF PopRetry, Use, Free, heap
<1>9. CASE Destroy
    BY <1>0, <1>9 DEF Destroy, locals, heap
<1>10. CASE DestroyNode
    BY <1>0, <1>10 DEF DestroyNode, locals
<1>11. CASE UNCHANGED vars
    BY <1>0, <1>11 DEF vars
<1> QED
    BY <1>1, <1>2, <1>3, <1>4, <1>5, <1>6, <1>7, <1>8, <1>9, <1>10, <1>11
    DEF Next, Produce, Consume

\* The chain stays linked and its nodes allocated: a push puts a node that
\* knows the old top on top of it, and a pop leaves the node below, which is
\* what the compare-and-swap was given.
LEMMA LinkedStep == Inv /\ [Next]_vars => (Linked /\ ChainAllocated)'
<1> SUFFICES ASSUME Inv, [Next]_vars PROVE (Linked /\ ChainAllocated)'
    OBVIOUS
<1>0. /\ Types /\ Control /\ Linked /\ ChainAllocated /\ PushOwned /\ PopOwned
      /\ AsInMain
      /\ prev \in [Addr -> Pointer] /\ payload \in [Addr -> Value \cup {NULL}]
      /\ node \in [Thread -> Pointer] /\ chain \in Seq(Addr)
    BY DEF Inv, Types
<1>f. ASSUME UNCHANGED <<top, prev, payload, chain>>,
             \A b \in alloc : curr' = Nothing /\ On(chain, b) => b \in alloc',
             curr' = Nothing => curr = Nothing
      PROVE  (Linked /\ ChainAllocated)'
    BY <1>0, <1>f DEF Linked, ChainAllocated, On
<1>1. ASSUME NEW p \in Producer, Malloc(p) PROVE (Linked /\ ChainAllocated)'
    <2>1. PICK a \in Addr \ alloc :
             /\ alloc' = alloc \cup {a}
             /\ payload' = [payload EXCEPT ![a] = Val(p, count[p])]
        BY <1>1 DEF Malloc
    <2>2. curr = Nothing /\ UNCHANGED <<top, prev, chain, curr>>
        BY <1>0, <1>1, NotJoined DEF Malloc, Produce
    <2>3. \A i \in 1 .. Len(chain) : chain[i] \in alloc /\ chain[i] \in Addr /\ chain[i] # a
        BY <1>0, <2>1, <2>2, ChainFact DEF ChainAllocated
    <2>4. \A i \in 1 .. Len(chain) : payload'[chain[i]] = payload[chain[i]]
        BY <1>0, <2>1, <2>3
    <2> QED BY <1>0, <2>1, <2>2, <2>3, <2>4 DEF Linked, ChainAllocated
<1>2. ASSUME NEW p \in Producer, PushLoad(p) PROVE (Linked /\ ChainAllocated)'
    <2>1. /\ UNCHANGED <<top, payload, chain, alloc, curr>>
          /\ prev' = [prev EXCEPT ![node[p]] = top]
        BY <1>2 DEF PushLoad
    <2>2. ~On(chain, node[p])
        BY <1>0, <1>2 DEF PushLoad, PushOwned, Pushing
    <2>3. \A i \in 1 .. Len(chain) : prev'[chain[i]] = prev[chain[i]]
        BY <1>0, <2>1, <2>2, ChainFact DEF On
    <2> QED BY <1>0, <2>1, <2>3 DEF Linked, ChainAllocated
<1>3. ASSUME NEW p \in Producer, PushSwap(p) PROVE (Linked /\ ChainAllocated)'
    <2> DEFINE n == Len(chain)
               a == node[p]
    <2>1. /\ a \in alloc /\ a \in Addr /\ ~On(chain, a) /\ payload[a] \in Value
          /\ prev[a] = seen[p]
        BY <1>0, <1>3 DEF PushSwap, PushOwned, Pushing, Types
    <2>2. /\ top' = a /\ top = seen[p] /\ chain' = Append(chain, a)
          /\ UNCHANGED <<prev, payload, alloc, curr>>
        BY <1>3 DEF PushSwap, heap
    <2> HIDE DEF a
    <2>3. /\ chain' \in Seq(Addr) /\ chain' # << >>
          /\ Len(chain') = n + 1
          /\ \A i \in 1 .. n : chain'[i] = chain[i]
          /\ chain'[n + 1] = a
        BY <1>0, <2>1, <2>2, PushFact
    <2>4. n \in Nat /\ (chain # << >> <=> n > 0)
        BY <1>0, ChainFact
    <2>5. top' = chain'[Len(chain')]
        BY <2>2, <2>3
    <2>6. ASSUME NEW i \in 1 .. Len(chain')
          PROVE  /\ prev[chain'[i]] = IF i = 1 THEN NULL ELSE chain'[i - 1]
                 /\ payload[chain'[i]] \in Value
                 /\ curr' = Nothing => chain'[i] \in alloc
        <3>1. CASE i \in 1 .. n
            <4>1. /\ prev[chain[i]] = IF i = 1 THEN NULL ELSE chain[i - 1]
                  /\ payload[chain[i]] \in Value
                BY <1>0, <3>1 DEF Linked
            <4>2. i # 1 => i - 1 \in 1 .. n
                BY <2>4, <3>1
            <4>3. curr = Nothing => chain[i] \in alloc
                BY <1>0, <3>1 DEF ChainAllocated
            <4> QED BY <2>2, <2>3, <3>1, <4>1, <4>2, <4>3
        <3>2. CASE i = n + 1
            <4>1. prev[a] = IF n = 0 THEN NULL ELSE chain[n]
                BY <1>0, <2>1, <2>2, <2>4 DEF Linked
            <4>2. n # 0 => n \in 1 .. n /\ (n + 1) - 1 = n
                BY <2>4
            <4>3. n = 0 <=> i = 1
                BY <2>4, <3>2
            <4> QED BY <2>1, <2>3, <3>2, <4>1, <4>2, <4>3
        <3> QED BY <2>3, <2>4, <3>1, <3>2
    <2>7. ASSUME NEW i \in 1 .. Len(chain'), NEW j \in 1 .. Len(chain'),
                 chain'[i] = chain'[j]
          PROVE  i = j
        <3>1. CASE i \in 1 .. n /\ j \in 1 .. n
            BY <1>0, <2>3, <2>7, <3>1 DEF Linked
        <3>2. CASE i \in 1 .. n /\ j = n + 1
            BY <2>1, <2>3, <2>7, <3>2 DEF On
        <3>3. CASE j \in 1 .. n /\ i = n + 1
            BY <2>1, <2>3, <2>7, <3>3 DEF On
        <3>4. CASE i = n + 1 /\ j = n + 1
            BY <3>4
        <3> QED BY <2>3, <2>4, <3>1, <3>2, <3>3, <3>4
    <2> QED BY <2>2, <2>3, <2>5, <2>6, <2>7 DEF Linked, ChainAllocated
<1>4. ASSUME NEW c \in Consumer, PopSwap(c) PROVE (Linked /\ ChainAllocated)'
    <2> DEFINE n == Len(chain)
    <2>1. On(chain, seen[c]) /\ next[c] = prev[seen[c]]
        BY <1>0, <1>4 DEF PopSwap, PopOwned
    <2>2. /\ top' = next[c] /\ top = seen[c]
          /\ chain' = SubSeq(chain, 1, Len(chain) - 1)
          /\ UNCHANGED <<prev, payload, alloc, curr>>
        BY <1>4 DEF PopSwap, heap
    <2>3. chain # << >> /\ n \in Nat /\ n > 0
        BY <1>0, <2>1, ChainFact DEF On
    <2>4. /\ chain' \in Seq(Addr)
          /\ Len(chain') = n - 1
          /\ \A i \in 1 .. Len(chain') : chain'[i] = chain[i]
        BY <1>0, <2>2, <2>3, PopFact
    <2>5. 1 .. n - 1 \subseteq 1 .. n /\ n \in 1 .. n
        BY <2>3
    <2>6. top' = IF n = 1 THEN NULL ELSE chain[n - 1]
        BY <1>0, <2>1, <2>2, <2>3, <2>5 DEF Linked
    <2>7. chain' # << >> <=> n - 1 > 0
        BY <2>3, <2>4, EmptySeq
    <2>8. top' = IF chain' = << >> THEN NULL ELSE chain'[Len(chain')]
        <3>1. n # 1 => n - 1 \in 1 .. n - 1
            BY <2>3
        <3> QED BY <2>3, <2>4, <2>6, <2>7, <3>1
    <2>9. ASSUME NEW i \in 1 .. Len(chain')
          PROVE  /\ prev[chain'[i]] = IF i = 1 THEN NULL ELSE chain'[i - 1]
                 /\ payload[chain'[i]] \in Value
                 /\ curr = Nothing => chain'[i] \in alloc
        <3>1. i # 1 => i - 1 \in 1 .. Len(chain')
            BY <2>3, <2>4
        <3>2. i \in 1 .. n
            BY <2>4, <2>5
        <3> QED BY <1>0, <2>4, <3>1, <3>2 DEF Linked, ChainAllocated
    <2>10. \A i, j \in 1 .. Len(chain') : chain'[i] = chain'[j] => i = j
        BY <1>0, <2>4, <2>5 DEF Linked
    <2> QED BY <2>2, <2>8, <2>9, <2>10 DEF Linked, ChainAllocated
<1>5. ASSUME NEW c \in Consumer, Free(c) PROVE (Linked /\ ChainAllocated)'
    <2>1. ~On(chain, node[c])
        BY <1>0, <1>5 DEF Free, PopOwned
    <2> QED BY <1>5, <1>f, <2>1 DEF Free
<1>6. CASE DestroyNode
    <2>1. curr # Nothing /\ curr' # Nothing
        BY <1>0, <1>6, StackAssumption DEF DestroyNode, Pointer
    <2> QED BY <1>6, <1>f, <2>1 DEF DestroyNode
<1>7. ASSUME NEW p \in Producer, PushRetry(p) PROVE (Linked /\ ChainAllocated)'
    BY <1>7, <1>f DEF PushRetry, heap
<1>8. ASSUME NEW c \in Consumer,
             PopLoad(c) \/ PopEmpty(c) \/ PopRead(c) \/ PopRetry(c) \/ Use(c)
      PROVE  (Linked /\ ChainAllocated)'
    BY <1>8, <1>f DEF PopLoad, PopEmpty, PopRead, PopRetry, Use, heap
<1>9. CASE Destroy
    BY <1>9, <1>f DEF Destroy, heap
<1>10. CASE UNCHANGED vars
    BY <1>10, <1>f DEF vars
<1> QED
    BY <1>1, <1>2, <1>3, <1>4, <1>5, <1>6, <1>7, <1>8, <1>9, <1>10
    DEF Next, Produce, Consume

\* A node that is not yet pushed stays its producer's own.
LEMMA PushOwnedStep == Inv /\ [Next]_vars => PushOwned'
<1> SUFFICES ASSUME Inv, [Next]_vars, NEW q \in Producer, Pushing(q)'
             PROVE  /\ node'[q] \in alloc'
                    /\ ~On(chain', node'[q])
                    /\ payload'[node'[q]] \in Value
                    /\ pc'[q] = "swap" => prev'[node'[q]] = seen'[q]
                    /\ \A r \in Producer : Pushing(r)' /\ node'[r] = node'[q] => r = q
    BY DEF PushOwned
<1> DEFINE Goal == /\ node'[q] \in alloc'
                   /\ ~On(chain', node'[q])
                   /\ payload'[node'[q]] \in Value
                   /\ pc'[q] = "swap" => prev'[node'[q]] = seen'[q]
                   /\ \A r \in Producer : Pushing(r)' /\ node'[r] = node'[q] => r = q
<1>0. /\ Types /\ Control /\ Linked /\ ChainAllocated /\ PushOwned /\ PopOwned /\ AsInMain
      /\ prev \in [Addr -> Pointer] /\ payload \in [Addr -> Value \cup {NULL}]
      /\ node \in [Thread -> Pointer] /\ chain \in Seq(Addr) /\ seen \in [Thread -> Pointer]
      /\ alloc \in SUBSET Addr
    BY DEF Inv, Types
<1>p. pc \in [Thread -> {"malloc", "load", "swap", "poll", "read", "cas", "use", "free"}]
    BY <1>0 DEF Control
<1> USE DEF Thread, Goto, Pushing
<1>f. ASSUME \A r \in Producer : Pushing(r)' => Pushing(r) /\ node'[r] = node[r],
             pc'[q] = "swap" => pc[q] = "swap" /\ prev'[node[q]] = prev[node[q]] /\ seen'[q] = seen[q],
             node[q] \in alloc', On(chain', node[q]) => On(chain, node[q]),
             payload' = payload
      PROVE  Goal
    BY <1>0, <1>f DEF PushOwned
<1>c. ASSUME NEW c \in Consumer, Goto(c, "poll") \/ Goto(c, "read") \/ Goto(c, "cas")
                \/ Goto(c, "use") \/ Goto(c, "free") \/ UNCHANGED pc
      PROVE  \A r \in Producer : pc'[r] = pc[r]
    BY <1>p, <1>c, StackAssumption
<1>1. ASSUME NEW p \in Producer, Malloc(p) PROVE Goal
    <2>1. PICK a \in Addr \ alloc :
             /\ alloc' = alloc \cup {a}
             /\ node' = [node EXCEPT ![p] = a]
             /\ payload' = [payload EXCEPT ![a] = Val(p, count[p])]
        BY <1>1 DEF Malloc
    <2>2. /\ curr = Nothing /\ UNCHANGED <<seen, prev, chain>>
          /\ pc' = [pc EXCEPT ![p] = "load"]
        BY <1>0, <1>1, NotJoined DEF Malloc, Produce
    <2>3. \A b : On(chain, b) => b \in alloc
        BY <1>0, <2>2 DEF ChainAllocated, On
    <2>4. \A b : On(chain', b) <=> On(chain, b)
        BY <2>2 DEF On
    <2>5. \A r \in Producer : r # p /\ Pushing(r)' =>
             node'[r] = node[r] /\ node[r] \in alloc /\ Pushing(r) /\ pc'[r] = pc[r]
        BY <1>0, <1>p, <2>1, <2>2 DEF PushOwned
    <2>6. CASE q = p
        <3>1. node'[q] = a /\ pc'[q] = "load"
            BY <1>0, <1>p, <2>1, <2>2, <2>6
        <3>2. payload'[a] \in Value
            <4>1. payload'[a] = Val(p, count[p])
                BY <1>0, <2>1
            <4>2. count[p] \in 0 .. n_pushes - 1
                BY <1>0, <1>1, StackAssumption DEF Malloc, Control
            <4> QED BY <4>1, <4>2 DEF Val, Value
        <3> QED BY <2>1, <2>3, <2>4, <2>5, <2>6, <3>1, <3>2
    <2>7. CASE q # p
        <3>1. node'[p] = a
            BY <1>0, <2>1
        <3>2. /\ node[q] \in alloc /\ ~On(chain, node[q]) /\ payload[node[q]] \in Value
              /\ pc[q] = "swap" => prev[node[q]] = seen[q]
              /\ \A r \in Producer : Pushing(r) /\ node[r] = node[q] => r = q
            BY <1>0, <2>5, <2>7 DEF PushOwned
        <3>3. payload'[node[q]] = payload[node[q]]
            BY <1>0, <2>1, <3>2
        <3>4. \A r \in Producer : Pushing(r)' /\ node'[r] = node'[q] => r = q
            BY <2>1, <2>5, <2>7, <3>1, <3>2
        <3> QED BY <2>1, <2>2, <2>4, <2>5, <2>7, <3>2, <3>3, <3>4
    <2> QED BY <2>6, <2>7
<1>2. ASSUME NEW p \in Producer, PushLoad(p) PROVE Goal
    <2>1. /\ seen' = [seen EXCEPT ![p] = top]
          /\ prev' = [prev EXCEPT ![node[p]] = top]
          /\ pc[p] = "load" /\ pc' = [pc EXCEPT ![p] = "swap"]
          /\ UNCHANGED <<node, alloc, payload, chain>>
        BY <1>2 DEF PushLoad
    <2>2. \A r \in Producer : Pushing(r)' => Pushing(r)
        BY <1>p, <2>1
    <2>3. node[q] \in Addr /\ node[p] \in Addr /\ (node[q] = node[p] => q = p)
        BY <1>0, <2>1, <2>2 DEF PushOwned
    <2>4. CASE q = p
        BY <1>0, <2>1, <2>2, <2>3, <2>4 DEF PushOwned, On
    <2>5. CASE q # p
        <3>1. prev'[node[q]] = prev[node[q]] /\ seen'[q] = seen[q] /\ pc'[q] = pc[q]
            BY <1>0, <1>p, <2>1, <2>3, <2>5
        <3> QED BY <1>0, <2>1, <2>2, <3>1 DEF PushOwned, On
    <2> QED BY <2>4, <2>5
<1>3. ASSUME NEW p \in Producer, PushSwap(p) PROVE Goal
    <2>1. /\ pc[p] = "swap" /\ pc' = [pc EXCEPT ![p] = "malloc"]
          /\ UNCHANGED <<node, alloc, payload, prev, seen>>
          /\ chain' = Append(chain, node[p])
        BY <1>3 DEF PushSwap, heap
    <2>2. q # p /\ \A r \in Producer : Pushing(r)' => Pushing(r)
        BY <1>p, <2>1
    <2>3. pc'[q] = pc[q]
        BY <1>p, <2>1, <2>2
    <2>4. node[p] \in Addr /\ node[q] # node[p] /\ node[q] \in alloc
        BY <1>0, <2>1, <2>2 DEF PushOwned
    <2>5. On(chain', node[q]) => On(chain, node[q])
        BY <1>0, <2>1, <2>4, PushFact
    <2> QED BY <1>f, <2>1, <2>2, <2>3, <2>4, <2>5
<1>4. ASSUME NEW p \in Producer, PushRetry(p) PROVE Goal
    <2>1. /\ pc[p] = "swap" /\ pc' = [pc EXCEPT ![p] = "load"]
          /\ UNCHANGED <<node, alloc, payload, prev, seen, chain>>
        BY <1>4 DEF PushRetry, heap
    <2>2. \A r \in Producer : Pushing(r)' => Pushing(r)
        BY <1>p, <2>1
    <2>3. pc'[q] = "swap" => pc[q] = "swap"
        BY <1>p, <2>1
    <2> QED BY <1>0, <1>f, <2>1, <2>2, <2>3 DEF PushOwned, On
<1>5. ASSUME NEW c \in Consumer, PopSwap(c) PROVE Goal
    <2>1. \A r \in Producer : pc'[r] = pc[r] /\ node'[r] = node[r]
        BY <1>0, <1>5, <1>c, StackAssumption DEF PopSwap
    <2>2. chain # << >>
        BY <1>0, <1>5, ChainFact DEF PopSwap, PopOwned, On
    <2>3. On(chain', node[q]) => On(chain, node[q])
        BY <1>0, <1>5, <2>2, PopFact DEF PopSwap
    <2> QED BY <1>0, <1>5, <1>f, <2>1, <2>3 DEF PopSwap, heap, PushOwned
<1>6. ASSUME NEW c \in Consumer, Free(c) PROVE Goal
    <2>1. \A r \in Producer : pc'[r] = pc[r]
        BY <1>6, <1>c DEF Free
    <2>2. Pushing(q) /\ node[q] # node[c]
        BY <1>0, <1>6, <2>1 DEF Free, PopOwned
    <2> QED BY <1>0, <1>6, <1>f, <2>1, <2>2 DEF Free, PushOwned, On
<1>7. ASSUME NEW c \in Consumer,
             PopLoad(c) \/ PopEmpty(c) \/ PopRead(c) \/ PopRetry(c) \/ Use(c)
      PROVE  Goal
    <2>1. \A r \in Producer : pc'[r] = pc[r]
        BY <1>7, <1>c, <1>0 DEF PopLoad, PopEmpty, PopRead, PopRetry, Use, AsInMain
    <2>2. \A r \in Producer : node'[r] = node[r] /\ seen'[r] = seen[r]
        BY <1>0, <1>7, StackAssumption DEF PopLoad, PopEmpty, PopRead, PopRetry, Use
    <2>3. UNCHANGED <<alloc, payload, prev, chain>>
        BY <1>7 DEF PopLoad, PopEmpty, PopRead, PopRetry, Use, heap
    <2> QED BY <1>0, <1>f, <2>1, <2>2, <2>3 DEF PushOwned, On
<1>8. CASE Destroy \/ DestroyNode
    <2>1. Joined /\ UNCHANGED pc
        BY <1>0, <1>8, StackAssumption DEF Destroy, DestroyNode, locals, Control, Pointer
    <2> QED BY <1>0, <2>1 DEF Joined, Control
<1>9. CASE UNCHANGED vars
    BY <1>0, <1>9, <1>f DEF vars, PushOwned, On
<1> QED
    BY <1>1, <1>2, <1>3, <1>4, <1>5, <1>6, <1>7, <1>8, <1>9
    DEF Next, Produce, Consume

\* What the single consumer has seen stays on the stack until it pops it, and
\* what it has popped stays off it.
LEMMA PopOwnedStep == Inv /\ [Next]_vars => PopOwned'
<1> SUFFICES ASSUME Inv, [Next]_vars, NEW d \in Consumer
             PROVE  /\ pc'[d] \in {"read", "cas"} => On(chain', seen'[d])
                    /\ pc'[d] = "cas" => next'[d] = prev'[seen'[d]]
                    /\ pc'[d] \in {"use", "free"} =>
                          /\ node'[d] \in alloc'
                          /\ ~On(chain', node'[d])
                          /\ \A p \in Producer : Pushing(p)' => node'[p] # node'[d]
    BY DEF PopOwned
<1> DEFINE Goal == /\ pc'[d] \in {"read", "cas"} => On(chain', seen'[d])
                   /\ pc'[d] = "cas" => next'[d] = prev'[seen'[d]]
                   /\ pc'[d] \in {"use", "free"} =>
                         /\ node'[d] \in alloc'
                         /\ ~On(chain', node'[d])
                         /\ \A p \in Producer : Pushing(p)' => node'[p] # node'[d]
<1>0. /\ Types /\ Control /\ Linked /\ ChainAllocated /\ PushOwned /\ PopOwned /\ AsInMain
      /\ prev \in [Addr -> Pointer] /\ next \in [Consumer -> Pointer]
      /\ node \in [Thread -> Pointer] /\ chain \in Seq(Addr) /\ seen \in [Thread -> Pointer]
      /\ alloc \in SUBSET Addr
    BY DEF Inv, Types
<1>p. pc \in [Thread -> {"malloc", "load", "swap", "poll", "read", "cas", "use", "free"}]
    BY <1>0 DEF Control
<1>d. /\ pc[d] \in {"read", "cas"} => On(chain, seen[d])
      /\ pc[d] = "cas" => next[d] = prev[seen[d]]
      /\ pc[d] \in {"use", "free"} =>
            /\ node[d] \in alloc
            /\ ~On(chain, node[d])
            /\ \A p \in Producer : Pushing(p) => node[p] # node[d]
    BY <1>0 DEF PopOwned
<1> USE DEF Thread, Goto, Pushing
<1>1. ASSUME NEW p \in Producer, Malloc(p) PROVE Goal
    <2>1. PICK a \in Addr \ alloc :
             /\ alloc' = alloc \cup {a}
             /\ node' = [node EXCEPT ![p] = a]
        BY <1>1 DEF Malloc
    <2>2. /\ UNCHANGED <<seen, next, prev, chain>>
          /\ pc' = [pc EXCEPT ![p] = "load"]
        BY <1>1 DEF Malloc
    <2>3. d # p /\ pc'[d] = pc[d] /\ node'[d] = node[d]
        BY <1>0, <1>p, <2>1, <2>2, StackAssumption
    <2>4. ASSUME NEW r \in Producer, Pushing(r)', pc[d] \in {"use", "free"}
          PROVE  node'[r] # node[d]
        <3>1. CASE r = p
            BY <1>0, <1>d, <2>1, <2>4, <3>1
        <3>2. CASE r # p
            BY <1>0, <1>d, <1>p, <2>1, <2>2, <2>4, <3>2
        <3> QED BY <3>1, <3>2
    <2> QED BY <1>d, <2>1, <2>2, <2>3, <2>4
<1>2. ASSUME NEW p \in Producer, PushLoad(p) PROVE Goal
    <2>1. /\ seen' = [seen EXCEPT ![p] = top]
          /\ prev' = [prev EXCEPT ![node[p]] = top]
          /\ pc[p] = "load" /\ pc' = [pc EXCEPT ![p] = "swap"]
          /\ UNCHANGED <<node, next, alloc, chain>>
        BY <1>2 DEF PushLoad
    <2>2. d # p /\ pc'[d] = pc[d] /\ seen'[d] = seen[d]
        BY <1>0, <1>p, <2>1, StackAssumption
    <2>3. \A r \in Producer : Pushing(r)' => Pushing(r)
        BY <1>p, <2>1
    <2>4. ~On(chain, node[p])
        BY <1>0, <2>1 DEF PushOwned
    <2>5. ASSUME pc[d] = "cas" PROVE prev'[seen[d]] = prev[seen[d]]
        <3>1. seen[d] # node[p] /\ seen[d] \in Addr
            BY <1>0, <1>d, <2>4, <2>5, ChainFact
        <3> QED BY <1>0, <2>1, <3>1
    <2> QED BY <1>d, <2>1, <2>2, <2>3, <2>5
<1>3. ASSUME NEW p \in Producer, PushSwap(p) PROVE Goal
    <2>1. /\ pc[p] = "swap" /\ pc' = [pc EXCEPT ![p] = "malloc"]
          /\ UNCHANGED <<node, alloc, prev, seen, next>>
          /\ chain' = Append(chain, node[p])
        BY <1>3 DEF PushSwap, heap
    <2>2. d # p /\ pc'[d] = pc[d]
        BY <1>0, <1>p, <2>1, StackAssumption
    <2>3. \A r \in Producer : Pushing(r)' => Pushing(r)
        BY <1>p, <2>1
    <2>4. node[p] \in Addr
        BY <1>0, <2>1 DEF PushOwned
    <2>5. \A b : On(chain', b) <=> On(chain, b) \/ b = node[p]
        BY <1>0, <2>1, <2>4, PushFact
    <2> QED BY <1>d, <2>1, <2>2, <2>3, <2>5
<1>4. ASSUME NEW p \in Producer, PushRetry(p) PROVE Goal
    <2>1. /\ pc[p] = "swap" /\ pc' = [pc EXCEPT ![p] = "load"]
          /\ UNCHANGED <<node, alloc, prev, seen, next, chain>>
        BY <1>4 DEF PushRetry, heap
    <2>2. d # p /\ pc'[d] = pc[d] /\ \A r \in Producer : Pushing(r)' => Pushing(r)
        BY <1>p, <2>1, StackAssumption
    <2> QED BY <1>d, <2>1, <2>2
<1>5. ASSUME NEW c \in Consumer, Consume(c) PROVE Goal
    <2>0. c = d
        BY <1>0 DEF AsInMain
    <2>1. pc' # pc => \A r \in Producer : pc'[r] = pc[r]
        BY <1>0, <1>5, <1>p, StackAssumption
        DEF Consume, PopLoad, PopEmpty, PopRead, PopSwap, PopRetry, Use, Free, AsInMain
    <2>2. CASE PopLoad(c)
        <3>1. pc'[c] = "read" /\ seen'[c] = top /\ chain' = chain /\ top # NULL
            BY <1>0, <1>p, <2>2 DEF PopLoad
        <3>2. On(chain, top)
            <4>1. chain # << >> /\ top = chain[Len(chain)]
                BY <1>0, <3>1 DEF Linked
            <4>2. Len(chain) \in 1 .. Len(chain)
                BY <1>0, <4>1, ChainFact
            <4> QED BY <4>1, <4>2 DEF On
        <3> QED BY <2>0, <3>1, <3>2
    <2>3. CASE PopEmpty(c)
        BY <1>0, <2>0, <2>3 DEF PopEmpty, AsInMain
    <2>4. CASE PopRead(c)
        <3>1. /\ pc'[c] = "cas" /\ next'[c] = prev[seen[c]] /\ pc[c] = "read"
              /\ UNCHANGED <<seen, prev, chain>>
            BY <1>0, <1>p, <2>4 DEF PopRead, heap
        <3> QED BY <1>d, <2>0, <3>1
    <2>5. CASE PopSwap(c)
        <3>1. /\ pc[c] = "cas" /\ pc'[c] = "use" /\ node'[c] = seen[c] /\ top = seen[c]
              /\ alloc' = alloc
              /\ chain' = SubSeq(chain, 1, Len(chain) - 1)
              /\ \A r \in Producer : node'[r] = node[r] /\ pc'[r] = pc[r]
            BY <1>0, <1>p, <2>5, StackAssumption DEF PopSwap, heap
        <3>2. PICK i \in 1 .. Len(chain) : chain[i] = seen[c]
            BY <1>d, <2>0, <3>1 DEF On
        <3>3. curr = Nothing
            BY <1>0, <1>5, NotJoined
        <3>4. seen[c] \in alloc
            BY <1>0, <3>2, <3>3 DEF ChainAllocated
        <3>5. /\ Len(chain) \in Nat /\ chain # << >> /\ Len(chain) \in 1 .. Len(chain)
              /\ seen[c] = chain[Len(chain)]
            BY <1>0, <3>1, <3>2, ChainFact DEF Linked
        <3>6. ~On(chain', seen[c])
            <4> SUFFICES ASSUME NEW j \in 1 .. Len(chain'), chain'[j] = seen[c]
                         PROVE  FALSE
                BY DEF On
            <4>1. Len(chain') = Len(chain) - 1 /\ chain'[j] = chain[j]
                BY <1>0, <3>1, <3>5, PopFact
            <4>2. j \in 1 .. Len(chain) /\ j # Len(chain)
                BY <3>5, <4>1
            <4> QED BY <1>0, <3>5, <4>1, <4>2 DEF Linked
        <3>7. \A r \in Producer : Pushing(r) => node[r] # seen[c]
            BY <1>0, <3>2 DEF PushOwned, On
        <3> QED BY <2>0, <3>1, <3>4, <3>6, <3>7
    <2>6. CASE PopRetry(c)
        BY <1>p, <2>0, <2>6 DEF PopRetry
    <2>7. CASE Use(c)
        <3>1. /\ pc[c] = "use" /\ pc'[c] = "free"
              /\ UNCHANGED <<node, alloc, chain>>
              /\ \A r \in Producer : pc'[r] = pc[r]
            BY <1>p, <2>1, <2>7 DEF Use, heap
        <3> QED BY <1>d, <2>0, <3>1
    <2>8. CASE Free(c)
        BY <1>p, <2>0, <2>8 DEF Free
    <2> QED BY <1>5, <2>2, <2>3, <2>4, <2>5, <2>6, <2>7, <2>8 DEF Consume
<1>6. CASE Destroy \/ DestroyNode
    <2>1. Joined /\ UNCHANGED pc
        BY <1>0, <1>6, StackAssumption DEF Destroy, DestroyNode, locals, Control, Pointer
    <2>2. pc[d] = "poll"
        BY <1>0, <2>1 DEF Joined, Control
    <2> QED BY <2>1, <2>2
<1>7. CASE UNCHANGED vars
    BY <1>7, <1>d DEF vars
<1> QED
    BY <1>1, <1>2, <1>3, <1>4, <1>5, <1>6, <1>7 DEF Next, Produce

\* stack_destroy() walks down the chain, freeing each node after it has read
\* its prev.
LEMMA DestroyingStep == Inv /\ [Next]_vars => Destroying'
<1> SUFFICES ASSUME Inv, [Next]_vars, curr' # Nothing
             PROVE  \E k \in 0 .. Len(chain') :
                       /\ curr' = IF k = 0 THEN NULL ELSE chain'[k]
                       /\ \A i \in 1 .. k : chain'[i] \in alloc'
    BY DEF Destroying
<1>0. /\ Types /\ Control /\ Linked /\ ChainAllocated /\ Destroying
      /\ chain \in Seq(Addr) /\ Len(chain) \in Nat
    BY ChainFact DEF Inv, Types
<1>1. CASE \/ \E p \in Producer : Produce(p)
           \/ \E c \in Consumer : Consume(c)
    <2>1. curr = Nothing
        BY <1>0, <1>1, NotJoined
    <2> QED BY <1>1, <2>1
            DEF Produce, Malloc, PushLoad, PushSwap, PushRetry, Consume, PopLoad,
                PopEmpty, PopRead, PopSwap, PopRetry, Use, Free
<1>2. CASE Destroy
    <2>1. /\ curr = Nothing /\ curr' = top /\ chain' = chain /\ alloc' = alloc
        BY <1>2 DEF Destroy, heap
    <2>2. curr' = IF Len(chain) = 0 THEN NULL ELSE chain[Len(chain)]
        BY <1>0, <2>1, ChainFact DEF Linked
    <2>3. Len(chain) \in 0 .. Len(chain)
        BY <1>0
    <2> QED BY <1>0, <2>1, <2>2, <2>3 DEF ChainAllocated
<1>3. CASE DestroyNode
    <2>1. /\ curr \in Addr /\ curr' = prev[curr] /\ chain' = chain
          /\ alloc' = alloc \ {curr}
        BY <1>3 DEF DestroyNode
    <2>2. PICK k \in 0 .. Len(chain) :
             /\ curr = IF k = 0 THEN NULL ELSE chain[k]
             /\ \A i \in 1 .. k : chain[i] \in alloc
        BY <1>0, <2>1, StackAssumption DEF Destroying
    <2>3. /\ k \in 1 .. Len(chain) /\ curr = chain[k] /\ k - 1 \in 0 .. Len(chain)
          /\ 1 .. k - 1 \subseteq 1 .. k
          /\ 1 .. k - 1 \subseteq 1 .. Len(chain)
          /\ k \notin 1 .. k - 1
          /\ (k - 1 = 0 <=> k = 1)
        BY <1>0, <2>1, <2>2, StackAssumption
    <2>4. curr' = IF k - 1 = 0 THEN NULL ELSE chain[k - 1]
        BY <1>0, <2>1, <2>3 DEF Linked
    <2>5. \A i \in 1 .. k - 1 : chain[i] \in alloc'
        BY <1>0, <2>1, <2>2, <2>3 DEF Linked
    <2> QED BY <2>1, <2>3, <2>4, <2>5
<1>4. CASE UNCHANGED vars
    BY <1>0, <1>4 DEF vars, Destroying
<1> QED
    BY <1>1, <1>2, <1>3, <1>4 DEF Next
-----------------------------------------------------------------------------
(* The theorems *)

\* The invariant holds at the start.
LEMMA InitInv == AsInMain /\ Init => Inv
<1> SUFFICES ASSUME AsInMain, Init PROVE Inv
    OBVIOUS
<1> USE StackAssumption DEF Init
<1>1. chain \in Seq(Addr) /\ Len(chain) = 0
    BY EmptySeq
<1>2. Types
    BY <1>1 DEF Types, Pointer
<1>3. Control
    BY DEF Control, Thread
<1>4. Linked /\ ChainAllocated /\ Destroying
    BY <1>1 DEF Linked, ChainAllocated, Destroying
<1>5. PushOwned
    BY DEF PushOwned, Pushing, Thread
<1>6. PopOwned
    BY DEF PopOwned, Thread
<1> QED
    BY <1>2, <1>3, <1>4, <1>5, <1>6 DEF Inv

\* Each step keeps the invariant.
LEMMA InvInductive == Inv /\ [Next]_vars => Inv'
<1> SUFFICES ASSUME Inv, [Next]_vars PROVE Inv'
    OBVIOUS
<1>1. AsInMain' /\ Control'
    BY ControlStep DEF Inv, AsInMain
<1> QED
    BY <1>1, TypesStep, LinkedStep, PushOwnedStep, PopOwnedStep, DestroyingStep DEF Inv

\* The invariant holds in every reachable state.
LEMMA InvAlways == AsInMain /\ Spec => []Inv
BY InitInv, InvInductive, PTL DEF Spec

\* With one consumer no node is read, written or swung onto the stack after it
\* was freed, however addresses are reused: the compare-and-swap of
\* stack_pop() is safe although it compares addresses only.
THEOREM NoNodeUsedAfterFree == AsInMain /\ Spec => []NoUseAfterFree
<1>1. Inv => NoUseAfterFree
    <2> SUFFICES ASSUME Inv PROVE NoUseAfterFree
        OBVIOUS
    <2>1. curr = Nothing => \A i \in 1 .. Len(chain) : chain[i] \in alloc
        BY DEF Inv, ChainAllocated
    <2>2. \A p \in Producer : pc[p] \in {"load", "swap"} => node[p] \in alloc
        BY DEF Inv, PushOwned, Pushing
    <2>3. ASSUME NEW c \in Consumer, pc[c] = "read" PROVE seen[c] \in alloc
        <3>1. curr = Nothing
            <4>1. count[c] \in Nat /\ count[c] < n_pops
                BY <2>3 DEF Inv, Control, Thread
            <4> QED BY <4>1, StackAssumption DEF Inv, Control, Joined
        <3> QED BY <2>1, <2>3, <3>1 DEF Inv, PopOwned, On
    <2>4. \A c \in Consumer : pc[c] \in {"use", "free"} => node[c] \in alloc
        BY DEF Inv, PopOwned
    <2>5. curr \in Addr => curr \in alloc
        <3> SUFFICES ASSUME curr \in Addr PROVE curr \in alloc
            OBVIOUS
        <3>1. PICK k \in 0 .. Len(chain) :
                 /\ curr = IF k = 0 THEN NULL ELSE chain[k]
                 /\ \A i \in 1 .. k : chain[i] \in alloc
            BY StackAssumption DEF Inv, Destroying
        <3>2. k # 0 /\ k \in 1 .. k
            BY <3>1, StackAssumption, ChainFact DEF Inv, Types
        <3> QED BY <3>1, <3>2
    <2> QED BY <2>1, <2>2, <2>3, <2>4, <2>5 DEF NoUseAfterFree
<1> QED
    BY <1>1, InvAlways, PTL
-----------------------------------------------------------------------------
(* Refinement *)

\* With one consumer, what was popped is what was printed and what the
\* consumer is about to print.
LEMMA PoppedFact ==
    ASSUME AsInMain, NEW c \in Consumer
    PROVE  /\ Popped = IF pc[c] = "use" THEN Append(got, payload[node[c]]) ELSE got
           /\ Popped' = IF pc'[c] = "use" THEN Append(got', payload'[node'[c]]) ELSE got'
<1>1. Consumer = {c}
    BY DEF AsInMain
<1>2. {d \in Consumer : pc[d] = "use"} = IF pc[c] = "use" THEN {c} ELSE {}
    BY <1>1
<1>3. {d \in Consumer : pc'[d] = "use"} = IF pc'[c] = "use" THEN {c} ELSE {}
    BY <1>1
<1>4. (CHOOSE d \in {c} : TRUE) = c
    OBVIOUS
<1>5. Popped = IF pc[c] = "use" THEN Append(got, payload[node[c]]) ELSE got
    BY <1>2, <1>4 DEF Popped
<1>6. Popped' = IF pc'[c] = "use" THEN Append(got', payload'[node'[c]]) ELSE got'
    BY <1>3, <1>4 DEF Popped
<1> QED
    BY <1>5, <1>6

\* Without a consumer nothing is popped.
LEMMA NothingPopped ==
    ASSUME Consumer = {} PROVE Popped = got /\ Popped' = got'
BY DEF Popped

\* The items on the stack are a sequence of values.
LEMMA ItemsFact ==
    ASSUME chain \in Seq(Addr), Linked
    PROVE  /\ Items \in Seq(Value)
           /\ Len(Items) = Len(chain)
           /\ \A i \in 1 .. Len(chain) : Items[i] = payload[chain[i]]
<1>1. Len(chain) \in Nat
    BY ChainFact
<1>2. \A i \in 1 .. Len(chain) : payload[chain[i]] \in Value
    BY DEF Linked
<1> QED
    BY <1>1, <1>2 DEF Items

\* Every step of the threads and of main() is a push, a pop, or leaves the
\* abstract stack as it is.
LEMMA LifoStep == Inv /\ Inv' /\ [Next]_vars => [Lifo!LifoNext]_(Lifo!lifoVars)
<1> SUFFICES ASSUME Inv, Inv', [Next]_vars
             PROVE  Lifo!LifoNext \/ UNCHANGED Lifo!lifoVars
    OBVIOUS
<1>0. /\ Types /\ Control /\ Linked /\ ChainAllocated /\ PushOwned /\ PopOwned /\ AsInMain
      /\ node \in [Thread -> Pointer] /\ chain \in Seq(Addr) /\ Len(chain) \in Nat
      /\ payload \in [Addr -> Value \cup {NULL}] /\ alloc \in SUBSET Addr
      /\ pc \in [Thread -> {"malloc", "load", "swap", "poll", "read", "cas", "use", "free"}]
    BY ChainFact DEF Inv, Types, Control
<1>1. /\ Items \in Seq(Value) /\ Len(Items) = Len(chain)
      /\ \A i \in 1 .. Len(chain) : Items[i] = payload[chain[i]]
    BY <1>0, ItemsFact
<1>i. ASSUME chain' = chain, \A i \in 1 .. Len(chain) : payload'[chain[i]] = payload[chain[i]]
      PROVE  Items' = Items
    BY <1>i DEF Items
\* What no thread prints or pops leaves Popped alone.
<1>q. ASSUME got' = got,
             \A c \in Consumer :
                /\ pc'[c] = "use" <=> pc[c] = "use"
                /\ pc[c] = "use" => payload'[node'[c]] = payload[node[c]]
      PROVE  Popped' = Popped
    <2>1. CASE Consumer = {}
        BY <1>q, <2>1, NothingPopped
    <2>2. ASSUME NEW c \in Consumer PROVE Popped' = Popped
        <3>1. /\ Popped = IF pc[c] = "use" THEN Append(got, payload[node[c]]) ELSE got
              /\ Popped' = IF pc'[c] = "use" THEN Append(got', payload'[node'[c]]) ELSE got'
            BY <1>0, <2>2, PoppedFact
        <3>2. CASE pc[c] = "use"
            BY <1>q, <2>2, <3>1, <3>2
        <3>3. CASE pc[c] # "use"
            BY <1>q, <2>2, <3>1, <3>3
        <3> QED BY <3>2, <3>3
    <2> QED BY <2>1, <2>2
<1> USE DEF Thread, Goto
<1>2. ASSUME NEW p \in Producer, Malloc(p) PROVE UNCHANGED Lifo!lifoVars
    <2>1. PICK a \in Addr \ alloc :
             /\ node' = [node EXCEPT ![p] = a]
             /\ payload' = [payload EXCEPT ![a] = Val(p, count[p])]
        BY <1>2 DEF Malloc
    <2>2. /\ curr = Nothing /\ UNCHANGED <<chain, got>>
          /\ pc' = [pc EXCEPT ![p] = "load"]
        BY <1>0, <1>2, NotJoined DEF Malloc, Produce
    <2>3. \A b \in alloc : payload'[b] = payload[b]
        BY <1>0, <2>1
    <2>4. Items' = Items
        BY <1>0, <1>i, <2>2, <2>3 DEF ChainAllocated
    <2>5. ASSUME NEW c \in Consumer
          PROVE  /\ pc'[c] = "use" <=> pc[c] = "use"
                 /\ pc[c] = "use" => payload'[node'[c]] = payload[node[c]]
        <3>1. c # p /\ pc'[c] = pc[c] /\ node'[c] = node[c]
            BY <1>0, <2>1, <2>2, StackAssumption
        <3> QED BY <1>0, <2>3, <3>1 DEF PopOwned
    <2> QED BY <1>q, <2>2, <2>4, <2>5 DEF Lifo!lifoVars
<1>3. ASSUME NEW p \in Producer, PushLoad(p) \/ PushRetry(p)
      PROVE  UNCHANGED Lifo!lifoVars
    <2>1. UNCHANGED <<node, payload, chain, got>>
        BY <1>3 DEF PushLoad, PushRetry, heap
    <2>2. \A c \in Consumer : pc'[c] = pc[c]
        BY <1>0, <1>3, StackAssumption DEF PushLoad, PushRetry
    <2> QED BY <1>i, <1>q, <2>1, <2>2 DEF Lifo!lifoVars
<1>4. ASSUME NEW p \in Producer, PushSwap(p) PROVE Lifo!LifoNext
    <2> DEFINE v == payload[node[p]]
               a == node[p]
    <2>1. a \in Addr /\ v \in Value
        BY <1>0, <1>4 DEF PushSwap, PushOwned, Pushing
    <2>2. /\ chain' = Append(chain, a) /\ UNCHANGED <<node, payload, got>>
          /\ \A c \in Consumer : pc'[c] = pc[c]
        BY <1>0, <1>4, StackAssumption DEF PushSwap, heap
    <2> HIDE DEF a
    <2>3. /\ chain' \in Seq(Addr) /\ Len(chain') = Len(chain) + 1
          /\ \A i \in 1 .. Len(chain) : chain'[i] = chain[i]
          /\ chain'[Len(chain) + 1] = a
        BY <1>0, <2>1, <2>2, PushFact
    <2>4. Linked'
        BY DEF Inv
    <2>5. /\ Items' \in Seq(Value) /\ Len(Items') = Len(chain')
          /\ \A i \in 1 .. Len(chain') : Items'[i] = payload'[chain'[i]]
        <3>1. \A i \in 1 .. Len(chain') : payload'[chain'[i]] \in Value
            BY <2>4 DEF Linked
        <3>2. Len(chain') \in Nat
            BY <1>0, <2>3
        <3> QED BY <3>1, <3>2 DEF Items
    <2>6. payload'[a] = v
        BY <2>2 DEF a
    <2> HIDE DEF v
    <2>7. /\ Append(Items, v) \in Seq(Value)
          /\ Len(Append(Items, v)) = Len(Items) + 1
          /\ \A i \in 1 .. Len(Items) : Append(Items, v)[i] = Items[i]
          /\ Append(Items, v)[Len(Items) + 1] = v
        BY <1>1, <2>1, AppendProperties
    <2>8. ASSUME NEW i \in 1 .. Len(Items') PROVE Items'[i] = Append(Items, v)[i]
        <3>1. CASE i \in 1 .. Len(chain)
            BY <1>1, <2>2, <2>3, <2>5, <2>7, <3>1
        <3>2. CASE i = Len(chain) + 1
            BY <1>1, <2>3, <2>5, <2>6, <2>7, <3>2
        <3>3. i \in 1 .. Len(chain) + 1
            BY <2>3, <2>5
        <3>4. i \in 1 .. Len(chain) \/ i = Len(chain) + 1
            BY <1>0, <3>3
        <3> QED BY <3>1, <3>2, <3>4
    <2>9. Items' = Append(Items, v)
        BY <1>1, <2>3, <2>5, <2>7, <2>8, SeqEqual
    <2>10. Popped' = Popped
        BY <1>q, <2>2
    <2> QED BY <2>1, <2>9, <2>10 DEF Lifo!LifoNext, Lifo!Push
<1>5. ASSUME NEW c \in Consumer, PopSwap(c) PROVE Lifo!LifoNext
    <2> DEFINE n == Len(chain) - 1
    <2>1. /\ pc[c] = "cas" /\ pc'[c] = "use" /\ node'[c] = seen[c] /\ top = seen[c]
          /\ UNCHANGED <<payload, got>>
          /\ chain' = SubSeq(chain, 1, Len(chain) - 1)
        BY <1>0, <1>5 DEF PopSwap, heap
    <2>2. On(chain, seen[c])
        BY <1>0, <2>1 DEF PopOwned
    <2>3. chain # << >> /\ Len(chain) > 0 /\ Len(chain) \in 1 .. Len(chain)
        BY <1>0, <2>2, ChainFact DEF On
    <2>4. seen[c] = chain[Len(chain)]
        BY <1>0, <2>1, <2>3 DEF Linked
    <2>5. /\ chain' \in Seq(Addr) /\ Len(chain') = n
          /\ \A i \in 1 .. Len(chain') : chain'[i] = chain[i]
        BY <1>0, <2>1, <2>3, PopFact
    <2>6. n \in Nat /\ 1 .. n \subseteq 1 .. Len(chain) /\ Len(Items) - 1 = n
        BY <1>0, <1>1, <2>3
    <2> HIDE DEF n
    <2>7. Items' = SubSeq(Items, 1, n)
        <3>1. \A i \in 1 .. n : Items[i] \in Value
            BY <1>1, <2>6, ElementOfSeq
        <3>2. /\ SubSeq(Items, 1, n) \in Seq(Value)
              /\ Len(SubSeq(Items, 1, n)) = IF 1 <= n THEN n - 1 + 1 ELSE 0
              /\ \A i \in 1 .. n - 1 + 1 : SubSeq(Items, 1, n)[i] = Items[1 + i - 1]
            BY <2>6, <3>1, SubSeqProperties
        <3>3. /\ Items' \in Seq(Value) /\ Len(Items') = n
              /\ \A i \in 1 .. n : Items'[i] = Items[i]
            <4>1. \A i \in 1 .. n : payload'[chain'[i]] = Items[i]
                BY <1>1, <2>1, <2>5, <2>6
            <4>2. Items' = [i \in 1 .. n |-> payload'[chain'[i]]]
                BY <2>5 DEF Items
            <4> QED BY <2>6, <3>1, <4>1, <4>2
        <3>4. \A i \in 1 .. n : SubSeq(Items, 1, n)[i] = Items[i]
            BY <2>6, <3>2
        <3>5. Len(SubSeq(Items, 1, n)) = n
            BY <2>6, <3>2
        <3> QED BY <3>2, <3>3, <3>4, <3>5, SeqEqual
    <2>8. Popped = got /\ Popped' = Append(got, payload[seen[c]])
        BY <1>0, <2>1, PoppedFact
    <2>9. Items[Len(Items)] = payload[seen[c]]
        BY <1>1, <2>3, <2>4
    <2>10. Items # << >>
        BY <1>1, <2>3, EmptySeq
    <2> QED BY <2>6, <2>7, <2>8, <2>9, <2>10 DEF Lifo!LifoNext, Lifo!Pop
<1>6. ASSUME NEW c \in Consumer, Use(c) PROVE UNCHANGED Lifo!lifoVars
    <2>1. /\ pc[c] = "use" /\ pc'[c] = "free" /\ got' = Append(got, payload[node[c]])
          /\ UNCHANGED <<payload, chain>>
        BY <1>0, <1>6 DEF Use, heap
    <2>2. Popped' = Popped
        BY <1>0, <2>1, PoppedFact
    <2> QED BY <1>i, <2>1, <2>2 DEF Lifo!lifoVars
<1>7. ASSUME NEW c \in Consumer,
             PopLoad(c) \/ PopEmpty(c) \/ PopRead(c) \/ PopRetry(c) \/ Free(c)
      PROVE  UNCHANGED Lifo!lifoVars
    <2>1. /\ pc[c] # "use" /\ pc'[c] # "use" /\ UNCHANGED <<payload, chain, got>>
        BY <1>0, <1>7 DEF PopLoad, PopEmpty, PopRead, PopRetry, Free, heap, AsInMain
    <2>2. Popped' = Popped
        BY <1>0, <2>1, PoppedFact
    <2> QED BY <1>i, <2>1, <2>2 DEF Lifo!lifoVars
<1>8. CASE Destroy \/ DestroyNode
    <2>1. UNCHANGED <<pc, node, payload, chain, got>>
        BY <1>8 DEF Destroy, DestroyNode, locals, heap
    <2> QED BY <1>i, <1>q, <2>1 DEF Lifo!lifoVars
<1>9. CASE UNCHANGED vars
    BY <1>9, <1>i, <1>q DEF vars, Lifo!lifoVars
<1> QED
    BY <1>2, <1>3, <1>4, <1>5, <1>6, <1>7, <1>8, <1>9 DEF Next, Produce, Consume

\* stack.c is a LIFO stack: its calls take effect one at a time, at their
\* successful compare-and-swap, for any number of producers.
THEOREM LinearizableStack == AsInMain /\ Spec => ImplementsLifo
<1>1. Init => Lifo!LifoInit
    <2> SUFFICES ASSUME Init PROVE Lifo!LifoInit
        OBVIOUS
    <2>1. Len(chain) = 0 /\ 1 .. 0 = {}
        BY EmptySeq DEF Init
    <2>2. Items = << >>
        BY <2>1 DEF Items
    <2>3. \A c \in Consumer : pc[c] = "poll"
        BY StackAssumption DEF Init, Thread
    <2>4. Popped = << >>
        BY <2>3 DEF Popped, Init
    <2> QED BY <2>2, <2>4 DEF Lifo!LifoInit
<1>2. Inv /\ Inv' /\ [Next]_vars => [Lifo!LifoNext]_(Lifo!lifoVars)
    BY LifoStep
<1> QED
    BY <1>1, <1>2, InvAlways, PTL DEF Spec, ImplementsLifo, Lifo!LifoSpec
=============================================================================
