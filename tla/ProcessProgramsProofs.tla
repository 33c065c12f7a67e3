----------------------- MODULE ProcessProgramsProofs -----------------------
(***************************************************************************)
(* Theorems about the programs of seminars 7 to 9, for every value of the  *)
(* constants: when a signal is lost, what sigqueue's child prints, who is  *)
(* reaped around a pipe, what is printed around a fork(), what threads make *)
(* of shared variables with and without a mutex, and how often the shells  *)
(* that failed commands leave run a line.                                  *)
(***************************************************************************)
EXTENDS ProcessPrograms, SequenceTheorems, FiniteSetTheorems, TLAPS

-----------------------------------------------------------------------------
(* SignalLoops: the inductive invariant *)

Frame == Nat \X {"signal", "value"}

SignalTypes ==
    /\ program \in Program
    /\ pc \in {"start", "top", "asleep", "test", "print", "reset", "dead"}
    /\ sent \in Nat /\ reported \in Nat
    /\ pending \in Seq(Nat) /\ frames \in Seq(Frame)
    /\ Queueing => pc # "start" /\ pc # "reset"
    /\ ~Queueing => parent = "end"

\* Nobody handles a signal before the handler is set, and while main() sleeps
\* no handler runs: one that starts wakes it.
Quiet ==
    /\ pc = "start" => frames = << >>
    /\ pc = "asleep" => frames = << >>

\* A SIGINT that was sent since the latest report is pending, in its handler or
\* in the flag, but for one that is handled when the flag is about to be reset.
Remembered ==
    Flagging /\ pc # "dead" /\ sent > reported =>
        \/ pending # << >> \/ frames # << >> \/ handledAt = "reset"
        \/ received_sigint /\ pc # "reset"

\* A handler that runs just before the reset came there.
LateHandler == Flagging /\ pc = "reset" /\ frames # << >> => handledAt = "reset"

FlagInv == Quiet /\ Remembered /\ LateHandler
-----------------------------------------------------------------------------
(* SignalLoops: flags *)

\* A handler that starts is the innermost; one that ends leaves the others.
LEMMA FrameFact ==
    ASSUME frames \in Seq(Frame), pending \in Seq(Nat)
    PROVE  /\ \A e \in Frame : Append(frames, e) \in Seq(Frame) /\ Append(frames, e) # << >>
           /\ frames # << >> => Returned \in Seq(Frame) /\ Top \in Frame
           /\ LET all == [k \in DOMAIN pending |-> <<pending[k], "signal">>]
              IN  all \in Seq(Frame) /\ (pending # << >> => all # << >>)
           /\ pending # << >> => Head(pending) \in Nat /\ Tail(pending) \in Seq(Nat)
<1>1. ASSUME NEW e \in Frame
      PROVE  Append(frames, e) \in Seq(Frame) /\ Append(frames, e) # << >>
    BY AppendProperties
<1>2. ASSUME frames # << >> PROVE Returned \in Seq(Frame) /\ Top \in Frame
    <2>1. Len(frames) \in Nat /\ Len(frames) # 0
        BY <1>2, EmptySeq, LenProperties
    <2>2. Len(frames) \in 1 .. Len(frames)
        BY <2>1
    <2>3. Top \in Frame
        BY <2>2, ElementOfSeq DEF Top
    <2>4. 1 \in 1 .. Len(frames) + 1 /\ Len(frames) - 1 \in 0 .. Len(frames)
        BY <2>1
    <2>5. Returned \in Seq(Frame)
        BY <2>4, SubSeqProperties DEF Returned
    <2>. QED BY <2>3, <2>5
<1>3. DEFINE all == [k \in DOMAIN pending |-> <<pending[k], "signal">>]
<1>4. all \in Seq(Frame) /\ (pending # << >> => all # << >>)
    <2>1. Len(pending) \in Nat /\ DOMAIN pending = 1 .. Len(pending)
        BY LenProperties
    <2>2. \A k \in 1 .. Len(pending) : <<pending[k], "signal">> \in Frame
        BY ElementOfSeq DEF Frame
    <2>3. all \in [1 .. Len(pending) -> Frame]
        BY <2>1, <2>2
    <2>4. all \in Seq(Frame) /\ DOMAIN all = 1 .. Len(pending)
        BY <2>1, <2>3 DEF Seq
    <2>5. pending # << >> => 1 \in DOMAIN all
        BY <2>1, <2>4, EmptySeq
    <2>. QED BY <2>4, <2>5
<1>5. pending # << >> => Head(pending) \in Nat /\ Tail(pending) \in Seq(Nat)
    BY HeadTailProperties
<1>. QED
    BY <1>1, <1>2, <1>4, <1>5

\* Each step keeps the types.
LEMMA SignalTypesStep == SignalTypes /\ [Next]_vars => SignalTypes'
<1>. SUFFICES ASSUME SignalTypes, [Next]_vars PROVE SignalTypes'
    OBVIOUS
<1>0. frames \in Seq(Frame) /\ pending \in Seq(Nat)
    BY DEF SignalTypes
<1>. USE SignalAssumption
    DEF SignalTypes, Flagging, Fetching, Queueing, At, kernel, stored, shows
<1>1. CASE Interrupt \/ Queue
    <2>1. pending' = pending \/ pending' = <<sent'>> \/ pending' = Append(pending, sent')
        BY <1>1 DEF Interrupt, Queue
    <2>2. sent' \in Nat
        BY <1>1 DEF Interrupt, Queue
    <2>3. \A n \in Nat : <<n>> \in Seq(Nat) /\ Append(pending, n) \in Seq(Nat)
        BY <1>0, AppendProperties
    <2>4. pending' \in Seq(Nat)
        BY <1>0, <2>1, <2>2, <2>3
    <2>. QED BY <1>1, <2>2, <2>4 DEF Interrupt, Queue
<1>2. CASE DefaultAction \/ Terminate \/ Kill \/ Waitpid
    BY <1>2 DEF DefaultAction, Terminate, Kill, Waitpid
<1>3. CASE Deliver
    <2>1. <<Head(pending), "signal">> \in Frame
        BY <1>0, <1>3, FrameFact DEF Deliver, Frame
    <2>2. frames' \in Seq(Frame) /\ pending' \in Seq(Nat)
        BY <1>0, <1>3, <2>1, FrameFact DEF Deliver
    <2>. QED BY <1>3, <2>2 DEF Deliver
<1>4. CASE Handler
    <2>1. frames # << >>
        BY <1>4 DEF Handler, SetFlag, SetSignal, SetValue
    <2>2. Returned \in Seq(Frame) /\ <<Top[1], "value">> \in Frame
        BY <1>0, <2>1, FrameFact DEF Frame
    <2>3. frames' = Returned \/ frames' = Append(Returned, <<Top[1], "value">>)
        BY <1>4 DEF Handler, SetFlag, SetSignal, SetValue
    <2>4. \A r \in Seq(Frame), e \in Frame : Append(r, e) \in Seq(Frame)
        BY AppendProperties
    <2>5. frames' \in Seq(Frame)
        BY <2>2, <2>3, <2>4
    <2>. QED BY <1>4, <2>5 DEF Handler, SetFlag, SetSignal, SetValue
<1>5. CASE Unblock
    <2>1. frames' \in Seq(Frame) /\ pending' \in Seq(Nat)
        BY <1>0, <1>5, FrameFact DEF Unblock
    <2>. QED BY <1>5, <2>1 DEF Unblock
<1>6. CASE Main /\ ~Unblock
    <2>1. frames' \in Seq(Frame) /\ pending' \in Seq(Nat)
        BY <1>0, <1>6, EmptySeq DEF Main, Install, Sleep, Block, Test, Report, Reset,
           Fetch, ReadFirst, PrintPair
    <2>. QED BY <1>6, <2>1 DEF Main, Install, Sleep, Block, Test, Report, Reset,
        Fetch, ReadFirst, PrintPair
<1>7. CASE UNCHANGED vars
    BY <1>7 DEF vars
<1>. QED
    BY <1>1, <1>2, <1>3, <1>4, <1>5, <1>6, <1>7 DEF Next, Parent

\* Each step keeps what is remembered.
LEMMA FlagStep == SignalTypes /\ FlagInv /\ [Next]_vars => FlagInv'
<1>. SUFFICES ASSUME SignalTypes, FlagInv, [Next]_vars PROVE FlagInv'
    OBVIOUS
<1>. USE DEF FlagInv, SignalTypes, Quiet, Remembered, LateHandler, Flagging, Fetching, Queueing, At,
         kernel, stored, shows
<1>1. CASE Interrupt
    BY <1>1 DEF Interrupt
<1>2. CASE DefaultAction \/ Terminate
    BY <1>2 DEF DefaultAction, Terminate
<1>3. CASE Deliver
    <2>1. frames' # << >>
        BY <1>3, FrameFact DEF Deliver, Frame
    <2>. QED BY <1>3, <2>1 DEF Deliver
<1>4. CASE Handler
    BY <1>4 DEF Handler, SetFlag, SetSignal, SetValue
<1>5. CASE Parent
    BY <1>5 DEF Parent, Queue, Kill, Waitpid
<1>6. CASE Unblock
    <2>1. pending # << >> => frames' # << >>
        BY <1>6, FrameFact DEF Unblock
    <2>. QED BY <1>6, <2>1 DEF Unblock
<1>7. CASE Main /\ ~Unblock
    <2>1. CASE Install \/ Sleep \/ Block \/ Fetch
        BY <2>1 DEF Install, Sleep, Block, Fetch
    <2>2. CASE Test
        BY <2>2 DEF Test
    <2>3. CASE Report \/ Reset
        BY <2>3 DEF Report, Reset
    <2>4. ASSUME NEW f \in Field, ReadFirst(f) \/ PrintPair(f) PROVE FlagInv'
        BY <2>4 DEF ReadFirst, PrintPair
    <2>. QED BY <1>7, <2>1, <2>2, <2>3, <2>4 DEF Main
<1>8. CASE UNCHANGED vars
    BY <1>8 DEF vars
<1>. QED
    BY <1>1, <1>2, <1>3, <1>4, <1>5, <1>6, <1>7, <1>8 DEF Next

\* It implies that a SIGINT is lost only before the flag is cleared.
LEMMA FlagKeeps == SignalTypes /\ FlagInv => LostOnlyBeforeReset
BY DEF SignalTypes, FlagInv, Quiet, Remembered, LostOnlyBeforeReset
-----------------------------------------------------------------------------
(* SignalLoops: the inductive invariant for sigqueue's child *)

\* The number and the value of a signal.
Pair(n) == [f \in Field |-> n]

QueueTypes ==
    /\ last \in [Field -> Nat] /\ shown \in [Field -> Nat]
    /\ printed \in Seq([Field -> Nat])

\* All that was sent has been printed, or the latest signal waits for the child
\* to wake, is in the handler, has been handled or is half read by printf().
AllPrinted ==
    /\ pc \in {"top", "asleep"} /\ pending = << >> /\ frames = << >>
    /\ shown = Unread /\ Len(printed) = sent

OneQueued ==
    /\ pc = "asleep" /\ pending = <<sent>> /\ frames = << >>
    /\ shown = Unread /\ Len(printed) + 1 = sent

OneInHandler ==
    /\ pc = "test" /\ pending = << >>
    /\ \/ frames = << <<sent, "signal">> >>
       \/ frames = << <<sent, "value">> >> /\ last["signal"] = sent
    /\ shown = Unread /\ Len(printed) + 1 = sent

OneHandled ==
    /\ pc = "test" /\ pending = << >> /\ frames = << >>
    /\ last = Pair(sent) /\ shown = Unread /\ Len(printed) + 1 = sent

OneHalfRead ==
    /\ pc = "print" /\ pending = << >> /\ frames = << >>
    /\ last = Pair(sent) /\ Len(printed) + 1 = sent
    /\ \E f \in Field : shown = [Unread EXCEPT ![f] = sent]

\* What was printed is one pair per signal, whatever has become of the child.
QueueInv ==
    Queueing =>
        /\ QueueTypes
        /\ ~crowded =>
              /\ \A k \in 1 .. Len(printed) : printed[k] = Pair(k)
              /\ pc # "dead" =>
                    AllPrinted \/ OneQueued \/ OneInHandler \/ OneHandled \/ OneHalfRead

\* The sequences of one element that the kernel and the handlers work on.
LEMMA Singletons ==
    /\ \A e : /\ Append(<< >>, e) = <<e>> /\ Head(<<e>>) = e /\ Tail(<<e>>) = << >>
             /\ Len(<<e>>) = 1 /\ <<e>> # << >> /\ SubSeq(<<e>>, 1, 0) = << >>
    /\ \A n \in Nat : Append(<<n>>, n + 1) # <<n + 1>>
<1>1. \A e : Append(<< >>, e) = <<e>> /\ Head(<<e>>) = e /\ Len(<<e>>) = 1 /\ <<e>> # << >>
    OBVIOUS
<1>2. \A e : Tail(<<e>>) = << >>
    OBVIOUS
<1>3. \A e : SubSeq(<<e>>, 1, 0) = << >>
    OBVIOUS
<1>4. \A n \in Nat : Append(<<n>>, n + 1) # <<n + 1>>
    OBVIOUS
<1>. QED
    BY <1>1, <1>2, <1>3, <1>4

\* Pairs, and how printf() and the handlers make them.
LEMMA PairFact ==
    ASSUME NEW n \in Nat, NEW l \in [Field -> Nat]
    PROVE  /\ Pair(n) \in [Field -> Nat] /\ Unread \in [Field -> Nat]
           /\ l["signal"] = n => [l EXCEPT !["value"] = n] = Pair(n)
           /\ \A f \in Field : [l EXCEPT ![f] = n] \in [Field -> Nat]
           /\ \A f \in Field : Pair(n)[f] = n /\ Unread[f] = 0
           /\ \A f, g \in Field :
                 n # 0 /\ [Unread EXCEPT ![f] = n][g] = 0
                     => [[Unread EXCEPT ![f] = n] EXCEPT ![g] = n] = Pair(n)
BY DEF Pair, Unread, Field

\* Each step keeps the child and its signals in step.
LEMMA QueueStep == SignalTypes /\ QueueInv /\ [Next]_vars => QueueInv'
<1>. SUFFICES ASSUME SignalTypes, QueueInv, [Next]_vars, Queueing' PROVE QueueInv'
    BY DEF QueueInv
<1>0. /\ Queueing /\ ~Flagging /\ ~Fetching /\ program' = program
      /\ sent \in Nat /\ reported \in Nat
      /\ pc \in {"top", "asleep", "test", "print", "dead"}
      /\ QueueTypes
    BY DEF SignalTypes, QueueInv, Queueing, Flagging, Fetching, vars, Next, Interrupt,
       DefaultAction, Deliver, Handler, SetFlag, SetSignal, SetValue, Main, Install,
       Sleep, Block, Unblock, Test, Report, Reset, Fetch, ReadFirst, PrintPair, Parent,
       Queue, Kill, Waitpid, Terminate
<1>. DEFINE Exact == \A k \in 1 .. Len(printed) : printed[k] = Pair(k)
            Stage == AllPrinted \/ OneQueued \/ OneInHandler \/ OneHandled \/ OneHalfRead
<1>1. ~crowded => Exact /\ (pc # "dead" => Stage)
    BY <1>0 DEF QueueInv
<1>2. QueueTypes' /\ (~crowded' => Exact' /\ (pc' # "dead" => Stage')) => QueueInv'
    BY DEF QueueInv
<1>3. CASE UNCHANGED vars \/ Kill \/ Waitpid
    BY <1>0, <1>1, <1>3 DEF vars, Kill, Waitpid, kernel, stored, shows, QueueInv,
       QueueTypes, AllPrinted, OneQueued, OneInHandler, OneHandled, OneHalfRead
<1>4. CASE Terminate
    BY <1>0, <1>1, <1>4 DEF Terminate, kernel, stored, shows, QueueInv, QueueTypes
<1>5. CASE Queue
    <2>1. /\ sent' = sent + 1 /\ pending' = Append(pending, sent') /\ pc' = pc
          /\ frames' = frames /\ last' = last /\ shown' = shown /\ printed' = printed
          /\ crowded' = (crowded \/ pc # "asleep" \/ pending # << >> \/ frames # << >>)
        BY <1>5 DEF Queue, stored, shows
    <2>2. ASSUME ~crowded' PROVE Exact' /\ (pc' # "dead" => Stage')
        <3>1. ~crowded /\ pc = "asleep" /\ pending = << >> /\ frames = << >>
            BY <2>1, <2>2
        <3>2. AllPrinted
            BY <1>1, <3>1, Singletons DEF OneQueued, OneInHandler, OneHandled, OneHalfRead
        <3>3. pending' = <<sent'>>
            BY <2>1, <3>1, Singletons
        <3>4. OneQueued'
            BY <1>0, <2>1, <3>1, <3>2, <3>3 DEF AllPrinted, OneQueued
        <3>. QED BY <1>1, <2>1, <3>1, <3>4
    <2>3. QueueTypes'
        BY <1>0, <2>1 DEF QueueTypes
    <2>. QED BY <1>2, <2>2, <2>3
<1>6. CASE Deliver
    <2>1. /\ pending # << >> /\ pc # "dead"
          /\ frames' = Append(frames, <<Head(pending), "signal">>)
          /\ pending' = Tail(pending)
          /\ pc' = IF pc = "asleep" THEN "test" ELSE pc
          /\ sent' = sent /\ last' = last /\ shown' = shown /\ printed' = printed
          /\ crowded' = crowded
        BY <1>6 DEF Deliver, stored, shows
    <2>2. ASSUME ~crowded PROVE OneInHandler'
        <3>1. OneQueued
            BY <1>1, <2>1, <2>2 DEF AllPrinted, OneInHandler, OneHandled, OneHalfRead
        <3>2. Head(pending) = sent /\ Tail(pending) = << >>
            BY <3>1, Singletons DEF OneQueued
        <3>3. frames' = << <<sent, "signal">> >>
            BY <2>1, <3>1, <3>2, Singletons DEF OneQueued
        <3>. QED BY <2>1, <3>1, <3>2, <3>3 DEF OneQueued, OneInHandler
    <2>3. QueueTypes'
        BY <1>0, <2>1 DEF QueueTypes
    <2>. QED BY <1>1, <1>2, <2>1, <2>2, <2>3
<1>7. CASE SetSignal \/ SetValue
    <2>1. /\ frames # << >> /\ pc # "dead" /\ pc' = pc /\ sent' = sent
          /\ pending' = pending /\ shown' = shown /\ printed' = printed
          /\ crowded' = crowded
          /\ \/ /\ Top[2] = "signal" /\ last' = [last EXCEPT !["signal"] = Top[1]]
                /\ frames' = Append(Returned, <<Top[1], "value">>)
             \/ /\ Top[2] = "value" /\ last' = [last EXCEPT !["value"] = Top[1]]
                /\ frames' = Returned
        BY <1>7 DEF SetSignal, SetValue, kernel, shows
    <2>2. Top[1] \in Nat
        BY <2>1, FrameFact DEF SignalTypes, Frame
    <2>3. QueueTypes'
        BY <1>0, <2>1, <2>2 DEF QueueTypes, Field
    <2>4. ASSUME ~crowded PROVE OneInHandler' \/ OneHandled'
        <3>1. OneInHandler
            BY <1>1, <2>1, <2>4 DEF AllPrinted, OneQueued, OneHandled, OneHalfRead
        <3>2. PICK what \in {"signal", "value"} : frames = << <<sent, what>> >>
            BY <3>1 DEF OneInHandler
        <3>3. Top = <<sent, what>> /\ Returned = << >>
            BY <3>2, Singletons DEF Top, Returned
        <3>4. Top[1] = sent /\ Top[2] = what
            BY <3>3
        <3>5. CASE what = "signal"
            <4>1. frames' = << <<sent, "value">> >> /\ last'["signal"] = sent
                BY <1>0, <2>1, <3>3, <3>4, <3>5, Singletons DEF QueueTypes, Field
            <4>. QED BY <2>1, <3>1, <4>1 DEF OneInHandler
        <3>6. CASE what = "value"
            <4>1. frames = << <<sent, "value">> >> /\ last["signal"] = sent
                BY <3>1, <3>2, <3>6 DEF OneInHandler
            <4>2. last' = Pair(sent) /\ frames' = << >>
                BY <1>0, <2>1, <3>3, <3>4, <3>6, <4>1, PairFact DEF QueueTypes
            <4>. QED BY <2>1, <3>1, <4>2 DEF OneInHandler, OneHandled
        <3>. QED BY <3>5, <3>6
    <2>. QED BY <1>1, <1>2, <2>1, <2>3, <2>4
<1>8. CASE Sleep
    BY <1>0, <1>1, <1>8 DEF Sleep, At, kernel, stored, shows, QueueInv, QueueTypes,
       AllPrinted, OneQueued, OneInHandler, OneHandled, OneHalfRead
<1>9. ASSUME NEW f \in Field, ReadFirst(f) PROVE QueueInv'
    <2>1. /\ frames = << >> /\ pc = "test" /\ pc' = "print"
          /\ shown' = [shown EXCEPT ![f] = last[f]]
          /\ frames' = frames /\ last' = last /\ printed' = printed /\ sent' = sent
          /\ pending' = pending /\ crowded' = crowded
        BY <1>9 DEF ReadFirst, At, kernel, stored
    <2>2. QueueTypes'
        BY <1>0, <2>1 DEF QueueTypes
    <2>3. ASSUME ~crowded PROVE OneHalfRead'
        <3>1. OneHandled
            BY <1>1, <2>1, <2>3, Singletons
            DEF AllPrinted, OneQueued, OneInHandler, OneHalfRead
        <3>2. last[f] = sent
            BY <1>0, <3>1, PairFact DEF OneHandled, QueueTypes
        <3>. QED BY <2>1, <3>1, <3>2 DEF OneHandled, OneHalfRead
    <2>. QED BY <1>1, <1>2, <2>1, <2>2, <2>3
<1>10. ASSUME NEW f \in Field, PrintPair(f) PROVE QueueInv'
    <2>. DEFINE pair == [shown EXCEPT ![f] = last[f]]
    <2>1. /\ frames = << >> /\ pc = "print" /\ pc' = "top" /\ shown[f] = 0
          /\ printed' = Append(printed, pair) /\ shown' = Unread
          /\ frames' = frames /\ last' = last /\ sent' = sent
          /\ pending' = pending /\ crowded' = crowded
        BY <1>10 DEF PrintPair, At, kernel, stored
    <2>2. pair \in [Field -> Nat]
        BY <1>0 DEF QueueTypes
    <2>3. ASSUME ~crowded PROVE pair = Pair(sent) /\ OneHalfRead
        <3>1. OneHalfRead
            BY <1>1, <2>1, <2>3 DEF AllPrinted, OneQueued, OneInHandler, OneHandled
        <3>2. PICK g \in Field : shown = [Unread EXCEPT ![g] = sent]
            BY <3>1 DEF OneHalfRead
        <3>3. last[f] = sent /\ sent # 0
            BY <1>0, <3>1, PairFact, LenProperties DEF OneHalfRead, QueueTypes
        <3>. QED BY <1>0, <2>1, <3>1, <3>2, <3>3, PairFact DEF QueueTypes
    <2>. HIDE DEF pair
    <2>4. /\ printed' \in Seq([Field -> Nat]) /\ Len(printed) \in Nat
          /\ Len(printed') = Len(printed) + 1
          /\ printed'[Len(printed) + 1] = pair
          /\ \A k \in 1 .. Len(printed) : printed'[k] = printed[k]
        BY <1>0, <2>1, <2>2, AppendProperties, LenProperties DEF QueueTypes
    <2>5. QueueTypes'
        BY <1>0, <2>1, <2>4, PairFact DEF QueueTypes
    <2>6. ASSUME ~crowded PROVE AllPrinted' /\ Exact'
        <3>1. Len(printed) + 1 = sent
            BY <2>3, <2>6 DEF OneHalfRead
        <3>2. AllPrinted'
            BY <2>1, <2>3, <2>4, <2>6, <3>1 DEF OneHalfRead, AllPrinted
        <3>3. ASSUME NEW k \in 1 .. Len(printed') PROVE printed'[k] = Pair(k)
            <4>1. CASE k = Len(printed) + 1
                BY <2>3, <2>4, <2>6, <3>1, <4>1
            <4>2. CASE k # Len(printed) + 1
                <5>1. k \in 1 .. Len(printed)
                    BY <2>4, <4>2
                <5>2. printed[k] = Pair(k)
                    BY <1>1, <2>6, <5>1
                <5>. QED BY <2>4, <5>1, <5>2
            <4>. QED BY <4>1, <4>2
        <3>. QED BY <3>2, <3>3
    <2>. QED BY <1>2, <2>1, <2>5, <2>6
<1>11. CASE Interrupt \/ DefaultAction \/ SetFlag
    BY <1>0, <1>11 DEF Interrupt, DefaultAction, SetFlag
<1>12. CASE Install \/ Block \/ Unblock \/ Test \/ Report \/ Reset \/ Fetch
    BY <1>0, <1>12 DEF Queueing, Install, Block, Unblock, Test, Report, Reset, Fetch, At
<1>. QED
    BY <1>3, <1>4, <1>5, <1>6, <1>7, <1>8, <1>9, <1>10, <1>11, <1>12
    DEF Next, Handler, Main, Parent

\* It implies that what the child prints is what was queued.
LEMMA QueueKeeps == SignalTypes /\ QueueInv => ExactUnlessCrowded
BY Singletons DEF SignalTypes, QueueInv, QueueTypes, ExactUnlessCrowded, Pair, AllPrinted,
   OneQueued, OneInHandler, OneHandled, OneHalfRead

\* The invariants hold at the start.
LEMMA SignalBegins == Init => SignalTypes /\ FlagInv /\ QueueInv
<1>. SUFFICES ASSUME Init PROVE SignalTypes /\ FlagInv /\ QueueInv
    OBVIOUS
<1>1. << >> \in Seq(Nat) /\ << >> \in Seq(Frame) /\ << >> \in Seq([Field -> Nat])
      /\ Len(<< >>) = 0
    BY EmptySeq
<1>2. SignalTypes /\ FlagInv
    BY <1>1, SignalAssumption DEF Init, SignalTypes, FlagInv, Quiet, Remembered, LateHandler,
       Flagging, Queueing
<1>3. QueueInv
    BY <1>1, PairFact DEF Init, QueueInv, QueueTypes, AllPrinted, Unread, Queueing
<1>. QED BY <1>2, <1>3
-----------------------------------------------------------------------------
(* PipeProcesses: the inductive invariant *)

PipeTypes ==
    /\ program \in PipeProgram
    /\ at \in [Pipe!Process ->
              {"first", "closeOut", "second", "closeIn", "open", "read", "wait first",
               "wait second", "end", "aborted",
               "none", "new", "exec", "running", "zombie", "reaped"}]
    /\ holds \in [Pipe!Process -> SUBSET {"in", "out", "stdin", "stdout"}]
    /\ content \in Nat /\ written \in Nat /\ counted \in Nat
    /\ unborn \subseteq Pipe!Child /\ failed \subseteq Pipe!Child

\* Where the parent is in either program, and each child once it is past it.
Places ==
    /\ at["parent"] \in
          IF program = "pipe"
          THEN {"first", "closeOut", "second", "closeIn", "wait first", "wait second",
                "end", "aborted"}
          ELSE {"first", "open", "read", "wait first", "end"}
    /\ \A c \in Pipe!Child :
          at[c] \in {"none", "new", "exec", "running", "zombie", "reaped"}
    /\ at["parent"] = "first" => unborn = {} /\ at["first"] = "none"
    /\ at["parent"] # "first" => (at["first"] = "none" <=> "first" \in unborn)
    /\ at["parent"] \in {"first", "closeOut", "second"} \/ program = "fifo" =>
          "second" \notin unborn /\ at["second"] = "none" /\ "second" \notin failed
    /\ program = "pipe" /\ at["parent"] \notin {"first", "closeOut", "second"} =>
          (at["second"] = "none" <=> "second" \in unborn)
    /\ program = "fifo" /\ at["parent"] = "open" => at["first"] \in {"none", "new"}
    /\ program = "fifo" /\ at["parent"] \in {"read", "wait first"} =>
          at["first"] \in {"exec", "running", "zombie"}

\* A child is reaped by the parent, and where fork() failed another may be.
Reaping ==
    /\ at["parent"] \notin {"wait second", "end", "aborted"} =>
          \A c \in Pipe!Child : at[c] # "reaped"
    /\ at["parent"] = "wait second" =>
          IF "first" \in unborn THEN at["second"] = "reaped"
          ELSE at["first"] = "reaped" /\ at["second"] # "reaped"
    /\ at["parent"] = "end" => unborn = {} /\ at["first"] = "reaped"
          /\ (program = "pipe" => at["second"] = "reaped")
    /\ at["parent"] = "aborted" => unborn # {}

\* The first child is the last to hold a write end, from fork() to its end.
WriteEnds ==
    /\ at["parent"] = "first" /\ program = "pipe" => "out" \in holds["parent"]
    /\ at["first"] = "new" /\ program = "pipe" => "out" \in holds["first"]
    /\ at["first"] \in {"exec", "running"} => "stdout" \in holds["first"]

\* Nothing is lost on the way, and who has seen the end of the pipe has read all.
Through ==
    /\ counted + content = written
    /\ at["second"] \in {"zombie", "reaped"} /\ "second" \notin failed =>
          content = 0 /\ at["first"] \in {"none", "zombie", "reaped"}
    /\ program = "fifo" /\ at["parent"] \in {"wait first", "end"} =>
          content = 0 /\ at["first"] \in {"zombie", "reaped"}

PipeInv == PipeTypes /\ Places /\ Reaping /\ WriteEnds /\ Through
-----------------------------------------------------------------------------

\* No process and no child runs before the first fork().
LEMMA PipeBegins == Pipe!Init => PipeInv
BY ProgramsAssumption DEF Pipe!Init, PipeInv, PipeTypes, Places, Reaping, WriteEnds,
   Through, Pipe!Process, Pipe!Child

\* fork() gives a child the parent's descriptors, or fails.
LEMMA ForkKeeps ==
    ASSUME PipeInv, NEW c \in Pipe!Child, Pipe!Fork(c) \/ Pipe!ForkFails(c)
    PROVE  PipeInv'
<1>. USE ProgramsAssumption DEF PipeInv, PipeTypes, Pipe!Process, Pipe!Child, Pipe!flow,
         Pipe!forks
<1>1. CASE Pipe!Fork(c)
    <2>1. PipeTypes'
        BY <1>1 DEF Pipe!Fork, Pipe!AfterFork
    <2>2. Places'
        BY <1>1 DEF Places, Pipe!Fork, Pipe!AfterFork
    <2>3. Reaping'
        BY <1>1 DEF Places, Reaping, Pipe!Fork, Pipe!AfterFork
    <2>4. WriteEnds'
        BY <1>1 DEF Places, WriteEnds, Pipe!Fork, Pipe!AfterFork
    <2>5. Through'
        BY <1>1 DEF Places, Through, Pipe!Fork, Pipe!AfterFork
    <2>. QED BY <2>1, <2>2, <2>3, <2>4, <2>5
<1>2. CASE Pipe!ForkFails(c)
    <2>1. PipeTypes'
        BY <1>2 DEF Pipe!ForkFails, Pipe!Step, Pipe!AfterFork
    <2>2. Places'
        BY <1>2 DEF Places, Pipe!ForkFails, Pipe!Step, Pipe!AfterFork
    <2>3. Reaping'
        BY <1>2 DEF Places, Reaping, Pipe!ForkFails, Pipe!Step, Pipe!AfterFork
    <2>4. WriteEnds'
        BY <1>2 DEF Places, WriteEnds, Pipe!ForkFails, Pipe!Step, Pipe!AfterFork
    <2>5. Through'
        BY <1>2 DEF Places, Through, Pipe!ForkFails, Pipe!Step, Pipe!AfterFork
    <2>. QED BY <2>1, <2>2, <2>3, <2>4, <2>5
<1>. QED BY <1>1, <1>2

\* The parent closes its ends of the pipe.
LEMMA CloseKeeps ==
    ASSUME PipeInv, Pipe!CloseOut \/ Pipe!CloseIn
    PROVE  PipeInv'
<1>. USE ProgramsAssumption DEF PipeInv, PipeTypes, Pipe!Process, Pipe!Child, Pipe!flow,
         Pipe!forks
<1>1. CASE Pipe!CloseOut
    <2>1. PipeTypes'
        BY <1>1 DEF Pipe!CloseOut, Pipe!Step
    <2>2. Places'
        BY <1>1 DEF Places, Pipe!CloseOut, Pipe!Step
    <2>3. Reaping'
        BY <1>1 DEF Places, Reaping, Pipe!CloseOut, Pipe!Step
    <2>4. WriteEnds'
        BY <1>1 DEF Places, WriteEnds, Pipe!CloseOut, Pipe!Step
    <2>5. Through'
        BY <1>1 DEF Places, Through, Pipe!CloseOut, Pipe!Step
    <2>. QED BY <2>1, <2>2, <2>3, <2>4, <2>5
<1>2. CASE Pipe!CloseIn
    <2>1. PipeTypes'
        BY <1>2 DEF Pipe!CloseIn, Pipe!Step
    <2>2. Places'
        BY <1>2 DEF Places, Pipe!CloseIn, Pipe!Step
    <2>3. Reaping'
        BY <1>2 DEF Places, Reaping, Pipe!CloseIn, Pipe!Step
    <2>4. WriteEnds'
        BY <1>2 DEF Places, WriteEnds, Pipe!CloseIn, Pipe!Step
    <2>5. Through'
        BY <1>2 DEF Places, Through, Pipe!CloseIn, Pipe!Step
    <2>. QED BY <2>1, <2>2, <2>3, <2>4, <2>5
<1>. QED BY <1>1, <1>2

\* waitpid() reaps the child it is called for, if there is one.
LEMMA WaitKeeps ==
    ASSUME PipeInv, NEW c \in Pipe!Child,
           Pipe!WaitpidFails(c) \/ \E d \in Pipe!Child : Pipe!Waitpid(c, d)
    PROVE  PipeInv'
<1>. USE ProgramsAssumption DEF PipeInv, PipeTypes, Pipe!Process, Pipe!Child, Pipe!flow,
         Pipe!forks
<1>1. CASE Pipe!WaitpidFails(c)
    <2>1. \/ c = "first" /\ at["parent"] = "wait first"
          \/ c = "second" /\ at["parent"] = "wait second"
        BY <1>1 DEF Pipe!WaitpidFails, Pipe!Waiting
    <2>2. c \notin unborn => at[c] \in {"none", "reaped"}
        BY <1>1 DEF Pipe!WaitpidFails, Pipe!Awaited
    <2>3. unborn # {}
        BY <2>1, <2>2 DEF Places, Reaping
    <2>4. program = "pipe"
        BY <2>1, <2>2, <2>3 DEF Places
    <2>5. /\ at' = [at EXCEPT !["parent"] = "aborted"]
          /\ UNCHANGED <<program, holds, content, written, counted, unborn, failed>>
        BY <1>1, <2>4 DEF Pipe!WaitpidFails
    <2>6. PipeTypes'
        BY <2>5
    <2>7. Places' /\ Reaping'
        BY <2>1, <2>3, <2>4, <2>5 DEF Places, Reaping
    <2>8. WriteEnds' /\ Through'
        BY <2>4, <2>5 DEF WriteEnds, Through
    <2>. QED BY <2>6, <2>7, <2>8
<1>2. ASSUME NEW d \in Pipe!Child, Pipe!Waitpid(c, d) PROVE PipeInv'
    <2>1. \/ c = "first" /\ at["parent"] = "wait first"
          \/ c = "second" /\ at["parent"] = "wait second"
        BY <1>2 DEF Pipe!Waitpid, Pipe!Waiting
    <2>2. at[d] = "zombie" /\ (c \notin unborn => d = c)
        BY <1>2 DEF Pipe!Waitpid, Pipe!Awaited
    <2>3. /\ at' = [at EXCEPT !["parent"] = Pipe!AfterWait(c), ![d] = "reaped"]
          /\ UNCHANGED <<program, holds, content, written, counted, unborn, failed>>
        BY <1>2 DEF Pipe!Waitpid
    <2>4. /\ at'["parent"] = Pipe!AfterWait(c) /\ at'[d] = "reaped"
          /\ \A e \in Pipe!Child : e # d => at'[e] = at[e]
        BY <2>3
    <2>5. PipeTypes'
        BY <2>3 DEF Pipe!AfterWait
    <2>6. CASE program = "fifo"
        <3>1. c = "first" /\ d = "first" /\ at'["parent"] = "end"
            BY <2>1, <2>2, <2>4, <2>6 DEF Places, Pipe!AfterWait
        <3>2. Places'
            BY <2>1, <2>2, <2>3, <2>4, <2>6, <3>1 DEF Places
        <3>3. Reaping'
            <4>1. unborn = {}
                BY <2>2, <2>6, <3>1 DEF Places
            <4>2. at'["parent"] = "end" /\ at'["first"] = "reaped" /\ unborn' = unborn
                  /\ program' = program
                BY <2>3, <2>4, <3>1
            <4>. QED BY <2>6, <4>1, <4>2 DEF Reaping
        <3>4. WriteEnds' /\ Through'
            BY <2>1, <2>2, <2>3, <2>4, <2>6, <3>1 DEF Places, WriteEnds, Through
        <3>. QED BY <2>5, <3>2, <3>3, <3>4
    <2>7. CASE program = "pipe" /\ c = "first"
        <3>1. at'["parent"] = "wait second"
              /\ (IF "first" \in unborn THEN d = "second" ELSE d = "first")
            BY <2>1, <2>2, <2>4, <2>7 DEF Places, Pipe!AfterWait
        <3>2. Places'
            BY <2>1, <2>2, <2>3, <2>4, <2>7, <3>1 DEF Places
        <3>3. Reaping'
            BY <2>1, <2>2, <2>3, <2>4, <2>7, <3>1 DEF Places, Reaping
        <3>4. WriteEnds' /\ Through'
            BY <2>1, <2>2, <2>3, <2>4, <2>7, <3>1 DEF Places, WriteEnds, Through
        <3>. QED BY <2>5, <3>2, <3>3, <3>4
    <2>8. CASE program = "pipe" /\ c = "second"
        <3>1. at'["parent"] = "end" /\ d = "second" /\ unborn = {}
              /\ at["first"] = "reaped"
            <4>1. at["parent"] = "wait second"
                BY <2>1, <2>8
            <4>2. "first" \notin unborn
                BY <2>2, <2>8, <4>1 DEF Places, Reaping
            <4>3. at["first"] = "reaped" /\ d = "second"
                BY <2>2, <4>1, <4>2 DEF Reaping
            <4>4. "second" \notin unborn
                <5>1. at["second"] # "none" /\ at["parent"] \notin {"first", "closeOut", "second"}
                    BY <2>2, <4>1, <4>3
                <5>. QED BY <2>8, <5>1 DEF Places
            <4>5. unborn = {}
                BY <4>2, <4>4
            <4>6. at'["parent"] = "end"
                BY <2>4, <2>8 DEF Pipe!AfterWait
            <4>. QED BY <4>3, <4>5, <4>6
        <3>2. Places'
            BY <2>1, <2>2, <2>3, <2>4, <2>8, <3>1 DEF Places
        <3>3. Reaping'
            BY <2>1, <2>2, <2>3, <2>4, <2>8, <3>1 DEF Places, Reaping
        <3>4. WriteEnds' /\ Through'
            BY <2>1, <2>2, <2>3, <2>4, <2>8, <3>1 DEF Places, WriteEnds, Through
        <3>. QED BY <2>5, <3>2, <3>3, <3>4
    <2>. QED BY <2>1, <2>6, <2>7, <2>8
<1>. QED BY <1>1, <1>2

\* A child starts its command, or ends.
LEMMA ChildKeeps ==
    ASSUME PipeInv,
           \/ Pipe!OpenFifo \/ Pipe!WriterEnds
           \/ \E c \in Pipe!Child : Pipe!Redirect(c) \/ Pipe!Exec(c) \/ Pipe!ExecFails(c)
    PROVE  PipeInv'
<1>0. PipeTypes /\ Places /\ Reaping /\ WriteEnds /\ Through
    BY DEF PipeInv
<1>. USE ProgramsAssumption DEF Pipe!Process, Pipe!Child, Pipe!flow, Pipe!forks
<1>1. CASE Pipe!OpenFifo
    <2>1. /\ at["parent"] = "open" /\ at["first"] = "new"
          /\ at' = [at EXCEPT !["parent"] = "read", !["first"] = "exec"]
          /\ holds' = [holds EXCEPT !["parent"] = {"stdin"}, !["first"] = {"stdout"}]
          /\ UNCHANGED <<program, content, written, counted, unborn, failed>>
        BY <1>1 DEF Pipe!OpenFifo
    <2>2. program = "fifo"
        BY <1>0, <2>1 DEF PipeTypes, Places
    <2>3. /\ at'["parent"] = "read" /\ at'["first"] = "exec" /\ at'["second"] = at["second"]
          /\ "stdout" \in holds'["first"]
        BY <1>0, <2>1 DEF PipeTypes
    <2>4. PipeTypes'
        BY <1>0, <2>1 DEF PipeTypes
    <2>a. /\ "first" \notin unborn /\ "second" \notin unborn
          /\ at["second"] = "none" /\ "second" \notin failed
        BY <1>0, <2>1, <2>2 DEF Places
    <2>b. program' = program /\ unborn' = unborn /\ failed' = failed
        BY <2>1
    <2>5. Places'
        BY <2>2, <2>3, <2>a, <2>b DEF Places
    <2>6. Reaping' /\ WriteEnds'
        BY <1>0, <2>1, <2>2, <2>3 DEF Reaping, WriteEnds
    <2>7. Through'
        BY <1>0, <2>1, <2>2, <2>3 DEF Through, Places
    <2>. QED BY <2>4, <2>5, <2>6, <2>7 DEF PipeInv
\* A child goes from one place to the next.
<1>2. ASSUME NEW c \in Pipe!Child, NEW l,
             \/ at[c] = "new" /\ l = "exec" /\ program = "pipe"
                /\ (c = "first" => "stdout" \in holds'[c])
             \/ at[c] = "exec" /\ l = "running" /\ holds' = holds
             \/ at[c] \in {"exec", "running"} /\ l = "zombie"
                /\ (c = "second" => c \in failed'),
             at' = [at EXCEPT ![c] = l],
             holds' = [holds EXCEPT ![c] = holds'[c]],
             holds'[c] \subseteq {"in", "out", "stdin", "stdout"},
             failed \subseteq failed', failed' \subseteq failed \cup {c},
             failed' # failed => at[c] = "exec",
             UNCHANGED <<program, content, written, counted, unborn>>
      PROVE  PipeInv'
    <2>1. /\ at'[c] = l /\ at'["parent"] = at["parent"]
          /\ \A e \in Pipe!Child : e # c => at'[e] = at[e] /\ holds'[e] = holds[e]
          /\ holds'["parent"] = holds["parent"]
          /\ at[c] \in {"new", "exec", "running"} /\ l \in {"exec", "running", "zombie"}
        BY <1>0, <1>2 DEF PipeTypes
    <2>2. PipeTypes'
        BY <1>0, <1>2, <2>1 DEF PipeTypes
    <2>3. Places'
        BY <1>0, <1>2, <2>1 DEF Places
    <2>4. Reaping'
        BY <1>0, <1>2, <2>1 DEF Reaping
    <2>5. WriteEnds'
        BY <1>0, <1>2, <2>1 DEF WriteEnds
    <2>6. Through'
        BY <1>0, <1>2, <2>1 DEF Through, Places
    <2>. QED BY <2>2, <2>3, <2>4, <2>5, <2>6 DEF PipeInv
<1>3. CASE Pipe!WriterEnds
    <2>1. /\ at["first"] = "running" /\ at' = [at EXCEPT !["first"] = "zombie"]
          /\ holds' = [holds EXCEPT !["first"] = {}]
          /\ UNCHANGED <<program, content, written, counted, unborn, failed>>
        BY <1>3 DEF Pipe!WriterEnds, Pipe!Exit
    <2>2. holds'["first"] = {}
        BY <1>0, <2>1 DEF PipeTypes
    <2>. QED BY <1>2, <2>1, <2>2
<1>4. ASSUME NEW c \in Pipe!Child, Pipe!Redirect(c) PROVE PipeInv'
    <2>. DEFINE h == IF c = "first" THEN {"stdout"} ELSE (holds[c] \ {"in"}) \cup {"stdin"}
    <2>1. /\ program = "pipe" /\ at[c] = "new" /\ at' = [at EXCEPT ![c] = "exec"]
          /\ holds' = [holds EXCEPT ![c] = h]
          /\ UNCHANGED <<program, content, written, counted, unborn, failed>>
        BY <1>4 DEF Pipe!Redirect, Pipe!Step
    <2>2. h \subseteq {"in", "out", "stdin", "stdout"} /\ (c = "first" => "stdout" \in h)
        BY <1>0 DEF PipeTypes
    <2>. HIDE DEF h
    <2>3. holds'[c] = h
        BY <1>0, <2>1 DEF PipeTypes
    <2>. QED BY <1>2, <2>1, <2>2, <2>3
<1>5. ASSUME NEW c \in Pipe!Child, Pipe!Exec(c) PROVE PipeInv'
    <2>1. /\ at[c] = "exec" /\ at' = [at EXCEPT ![c] = "running"] /\ holds' = holds
          /\ UNCHANGED <<program, content, written, counted, unborn, failed>>
        BY <1>5 DEF Pipe!Exec, Pipe!Step
    <2>2. holds' = [holds EXCEPT ![c] = holds'[c]]
          /\ holds'[c] \subseteq {"in", "out", "stdin", "stdout"}
        BY <1>0, <2>1 DEF PipeTypes
    <2>. QED BY <1>2, <2>1, <2>2
<1>6. ASSUME NEW c \in Pipe!Child, Pipe!ExecFails(c) PROVE PipeInv'
    <2>1. /\ at[c] = "exec" /\ at' = [at EXCEPT ![c] = "zombie"]
          /\ holds' = [holds EXCEPT ![c] = {}] /\ failed' = failed \cup {c}
          /\ UNCHANGED <<program, content, written, counted, unborn>>
        BY <1>6 DEF Pipe!ExecFails, Pipe!Exit
    <2>2. holds'[c] = {}
        BY <1>0, <2>1 DEF PipeTypes
    <2>. QED BY <1>2, <2>1, <2>2
<1>. QED BY <1>1, <1>3, <1>4, <1>5, <1>6

\* What is in the pipe, has come out and has gone in, one unit later.
LEMMA OneUnit ==
    \A a, b, d \in Nat : b + a = d =>
        /\ a + 1 \in Nat /\ d + 1 \in Nat /\ b + (a + 1) = d + 1
        /\ a > 0 => a # 0 /\ a - 1 \in Nat /\ b + 1 \in Nat /\ (b + 1) + (a - 1) = d
        /\ a = 0 => b = d
OBVIOUS

\* What is written is read, and the reader ends behind the last writer.
LEMMA FlowKeeps ==
    ASSUME PipeInv,
           Pipe!Put \/ \E p \in Pipe!Process : Pipe!Take(p) \/ Pipe!EndOfFile(p)
    PROVE  PipeInv'
<1>0. PipeTypes /\ Places /\ Reaping /\ WriteEnds /\ Through
    BY DEF PipeInv
<1>. USE ProgramsAssumption DEF Pipe!Process, Pipe!Child, Pipe!flow, Pipe!forks
<1>1. ASSUME Pipe!Put \/ \E p \in Pipe!Process : Pipe!Take(p) PROVE PipeInv'
    <2>1. /\ program' = program /\ at' = at /\ holds' = holds
          /\ unborn' = unborn /\ failed' = failed
        BY <1>1 DEF Pipe!Put, Pipe!Take
    <2>2. \/ content' = content + 1 /\ written' = written + 1 /\ counted' = counted
          \/ content > 0 /\ content' = content - 1 /\ counted' = counted + 1
             /\ written' = written
        BY <1>1 DEF Pipe!Put, Pipe!Take
    <2>3. content \in Nat /\ counted \in Nat /\ written \in Nat
          /\ counted + content = written
        BY <1>0 DEF PipeTypes, Through
    <2>4. content' \in Nat /\ counted' \in Nat /\ written' \in Nat
          /\ counted' + content' = written'
        BY <2>2, <2>3, OneUnit
    <2>5. content = 0 => Pipe!Put
        BY <1>1, <2>3, OneUnit DEF Pipe!Take
    <2>6. Pipe!Put => at["first"] = "running"
        BY DEF Pipe!Put
    <2>7. PipeTypes' /\ Places' /\ Reaping' /\ WriteEnds'
        BY <1>0, <2>1, <2>4 DEF PipeTypes, Places, Reaping, WriteEnds
    <2>8. Through'
        BY <1>0, <2>1, <2>4, <2>5, <2>6 DEF Through
    <2>. QED BY <2>7, <2>8 DEF PipeInv
<1>2. ASSUME NEW p \in Pipe!Process, Pipe!EndOfFile(p) PROVE PipeInv'
    <2>1. /\ content = 0 /\ content' = content /\ counted' = counted /\ written' = written
          /\ program' = program /\ unborn' = unborn /\ failed' = failed
          /\ \/ /\ at["second"] = "running"
                /\ at' = [at EXCEPT !["second"] = "zombie"]
                /\ holds' = [holds EXCEPT !["second"] = {}]
             \/ /\ at["parent"] = "read"
                /\ at' = [at EXCEPT !["parent"] = "wait first"]
                /\ holds' = holds
        BY <1>2 DEF Pipe!EndOfFile, Pipe!Reading, Pipe!Exit
    <2>2. "out" \notin holds["first"] /\ "stdout" \notin holds["first"]
        BY <1>2 DEF Pipe!EndOfFile, Pipe!Open, Pipe!WriteEnd
    <2>3. at["first"] \notin {"exec", "running"}
          /\ ~(at["first"] = "new" /\ program = "pipe")
        BY <1>0, <2>2 DEF WriteEnds
    <2>4. CASE at["second"] = "running" /\ at' = [at EXCEPT !["second"] = "zombie"]
        <3>1. at["first"] \in {"none", "zombie", "reaped"} /\ program = "pipe"
              /\ at["parent"] \notin {"first", "closeOut", "second", "end"}
            BY <1>0, <2>3, <2>4 DEF PipeTypes, Places, Reaping
        <3>2. at'["parent"] = at["parent"] /\ at'["first"] = at["first"]
              /\ at'["second"] = "zombie" /\ holds'["first"] = holds["first"]
              /\ holds'["parent"] = holds["parent"]
            BY <1>0, <2>1, <2>4 DEF PipeTypes
        <3>3. PipeTypes'
            BY <1>0, <2>1, <2>4 DEF PipeTypes
        <3>4. Places'
            BY <1>0, <2>1, <2>4, <3>1, <3>2 DEF Places
        <3>5. Reaping'
            BY <1>0, <2>1, <2>4, <3>1, <3>2 DEF Reaping
        <3>6. WriteEnds' /\ Through'
            BY <1>0, <2>1, <2>4, <3>1, <3>2 DEF WriteEnds, Through
        <3>. QED BY <3>3, <3>4, <3>5, <3>6 DEF PipeInv
    <2>5. CASE at["parent"] = "read" /\ at' = [at EXCEPT !["parent"] = "wait first"]
                /\ holds' = holds
        <3>1. program = "fifo" /\ at["first"] = "zombie"
            BY <1>0, <2>3, <2>5 DEF PipeTypes, Places
        <3>2. at'["parent"] = "wait first" /\ at'["first"] = at["first"]
              /\ at'["second"] = at["second"]
              /\ at["parent"] = "read" /\ program' = program /\ unborn' = unborn
              /\ failed' = failed
            BY <1>0, <2>1, <2>5 DEF PipeTypes
        <3>3. PipeTypes'
            BY <1>0, <2>1, <2>5 DEF PipeTypes
        <3>4. Places'
            BY <1>0, <3>1, <3>2 DEF Places
        <3>5. Reaping'
            BY <1>0, <2>1, <2>5, <3>1, <3>2 DEF Reaping
        <3>6. WriteEnds' /\ Through'
            BY <1>0, <2>1, <2>5, <3>1, <3>2 DEF WriteEnds, Through
        <3>. QED BY <3>3, <3>4, <3>5, <3>6 DEF PipeInv
    <2>. QED BY <2>1, <2>4, <2>5
<1>. QED BY <1>1, <1>2

\* Each step of the parent and its children keeps the invariant.
LEMMA PipeStep == PipeInv /\ [Pipe!Next]_(Pipe!vars) => PipeInv'
<1>. SUFFICES ASSUME PipeInv, [Pipe!Next]_(Pipe!vars) PROVE PipeInv'
    OBVIOUS
<1>1. CASE UNCHANGED Pipe!vars
    <2>1. UNCHANGED <<program, at, holds, content, written, counted, unborn, failed>>
        BY <1>1 DEF Pipe!vars
    <2>2. PipeTypes'
        BY <2>1 DEF PipeInv, PipeTypes
    <2>3. Places'
        BY <2>1 DEF PipeInv, Places
    <2>4. Reaping' /\ WriteEnds'
        BY <2>1 DEF PipeInv, Reaping, WriteEnds
    <2>5. Through'
        BY <2>1 DEF PipeInv, Through
    <2>. QED BY <2>2, <2>3, <2>4, <2>5 DEF PipeInv
<1>2. CASE Pipe!Next
    BY <1>2, ForkKeeps, CloseKeeps, WaitKeeps, ChildKeeps, FlowKeeps
    DEF Pipe!Next, Pipe!Parent, Pipe!Command
<1>. QED BY <1>1, <1>2

\* It implies that who returns has reaped its children.
LEMMA PipeKeeps == PipeInv => Pipe!PipelineReaped
<1>. SUFFICES ASSUME PipeInv PROVE Pipe!PipelineReaped
    OBVIOUS
<1>0. PipeTypes /\ Places /\ Reaping /\ Through
    BY DEF PipeInv
<1>a. content \in Nat /\ counted \in Nat /\ written \in Nat /\ counted + content = written
    BY <1>0 DEF PipeTypes, Through
<1>1. content = 0 => counted = written
    BY <1>a, OneUnit
<1>2. at["parent"] = "end" => "second" \in failed \/ content = 0
    BY <1>0, ProgramsAssumption DEF PipeTypes, Reaping, Through
<1>3. at["parent"] = "end" => \A c \in Pipe!Child : at[c] \in {"none", "reaped"}
    BY <1>0, ProgramsAssumption DEF PipeTypes, Reaping, Places, Pipe!Child
<1>. QED
    BY <1>0, <1>1, <1>2, <1>3 DEF Reaping, Pipe!PipelineReaped
-----------------------------------------------------------------------------
(* ForkedOutput: the inductive invariant *)

\* All that is printed or stored.
Text == {"", "Hello, world!", "Hello from child", "Hello from parent", "Hello", "Hola",
         "0", "42", "255"}

PrintTypes ==
    /\ program \in PrintProgram
    /\ step["parent"] \in {"start", "fork", "wait", "status", "print", "exit", "ended"}
    /\ step["child"] \in {"none", "print", "store", "exit", "ended"}
    /\ DOMAIN step = Output!Process
    /\ stdio \in [Output!Process -> Seq(Text)] /\ output \in Seq(Text)
    /\ mapping \in Text /\ forked \in BOOLEAN

\* What has left process p, printed or not, after all that was printed before.
Emitted(p) == output \o stdio[p]

\* What stands in the parent's buffer when it forks, what has come from the child
\* in the end, and both, when the parent has waited.
Opening == IF program = "fork-buffer" THEN <<"Hello, world!">> ELSE << >>

ByChild ==
    CASE program = "fork-buffer" -> <<"Hello, world!", "Hello from child">>
      [] program = "mmap_shared" -> <<"Hello">>
      [] program = "simple_fork" -> <<"Hello from child">>

SoFar ==
    IF ~forked THEN Opening
    ELSE IF program = "fork-buffer"
         THEN <<"Hello, world!", "Hello from child", "Hello, world!">>
         ELSE ByChild

\* Until the parent has waited nothing but the child's output is printed.
ParentWaits ==
    /\ step["parent"] = "start" => stdio["parent"] = << >>
    /\ step["parent"] \in {"fork", "wait"} => stdio["parent"] = Opening
    /\ step["parent"] \in {"start", "fork"} => ~forked
    /\ step["parent"] \in {"start", "fork", "wait"} /\ ~forked => output = << >>
    /\ forked <=> step["child"] # "none"
    /\ program = "mmap_shared" /\ step["parent"] # "start" =>
          mapping = IF step["child"] \in {"exit", "ended"} THEN "Hola" ELSE "Hello"

ChildTalks ==
    /\ step["child"] # "none" => step["parent"] # "start" /\ step["parent"] # "fork"
    /\ step["child"] = "print" => output = << >> /\ stdio["child"] = Opening
    /\ step["child"] = "store" => program = "mmap_shared"
    /\ step["child"] \in {"store", "exit"} => Emitted("child") = ByChild
    /\ step["child"] = "ended" /\ step["parent"] = "wait" => output = ByChild

ParentTalks ==
    /\ step["parent"] \in {"status", "print", "exit", "ended"} =>
          step["child"] \in {"none", "ended"}
    /\ step["parent"] = "status" =>
          program = "simple_fork" /\ Emitted("parent") = SoFar
    /\ step["parent"] = "print" =>
          IF program # "simple_fork" THEN Emitted("parent") = SoFar
          ELSE forked => Emitted("parent") = <<"Hello from child", "42">>
    /\ (program = "simple_fork" => forked) =>
          /\ step["parent"] = "exit" => Emitted("parent") = Output!Expected
          /\ step["parent"] = "ended" => output = Output!Expected

PrintInv == PrintTypes /\ ParentWaits /\ ChildTalks /\ ParentTalks
-----------------------------------------------------------------------------

\* A text is a sequence of one text.
LEMMA SingletonSeq == ASSUME NEW S, NEW x \in S PROVE <<x>> \in Seq(S)
OBVIOUS

\* What is appended to a buffer comes last of all that was printed.
LEMMA AppendBehind ==
    ASSUME NEW s \in Seq(Text), NEW t \in Seq(Text), NEW x \in Text
    PROVE  /\ s \o Append(t, x) = Append(s \o t, x)
           /\ s \o Append(t, x) \in Seq(Text)
           /\ s \o << >> = s /\ << >> \o s = s
<1>1. \A y \in Text : <<y>> \in Seq(Text)
    BY SingletonSeq
<1>2. s \o t \in Seq(Text)
    BY ConcatProperties
<1>3. Append(t, x) = t \o <<x>> /\ Append(s \o t, x) = (s \o t) \o <<x>>
    BY <1>2, AppendIsConcat
<1>4. (s \o t) \o <<x>> = s \o (t \o <<x>>)
    BY <1>1, ConcatAssociative
<1>5. (s \o t) \o <<x>> \in Seq(Text)
    BY <1>1, <1>2, ConcatProperties
<1>. QED
    BY <1>3, <1>4, <1>5, ConcatEmptySeq

\* A sequence that agrees with another and has one element more.
LEMMA RowOn ==
    ASSUME NEW S, NEW u \in Seq(S), NEW d \in S, NEW v \in Seq(S),
           Len(v) = Len(u) + 1, v[Len(u) + 1] = d, \A k \in 1 .. Len(u) : v[k] = u[k]
    PROVE  Append(u, d) = v
<1>1. PICK w \in Seq(S) : w = Append(u, d)
    BY AppendProperties
<1>2. Len(w) = Len(u) + 1 /\ w[Len(u) + 1] = d /\ \A k \in 1 .. Len(u) : w[k] = u[k]
    BY <1>1, AppendProperties
<1>3. Len(u) \in Nat
    BY LenProperties
<1>4. \A k \in 1 .. Len(w) : w[k] = v[k]
    BY <1>2, <1>3
<1>5. w = v
    BY <1>2, <1>4, SeqEqual
<1>. QED BY <1>1, <1>5

\* Up to four texts, one after the other.
LEMMA Row ==
    /\ \A a \in Text : <<a>> \in Seq(Text) /\ Append(<< >>, a) = <<a>>
    /\ \A a, b \in Text : <<a, b>> \in Seq(Text) /\ Append(<<a>>, b) = <<a, b>>
    /\ \A a, b, c \in Text : Append(<<a, b>>, c) = <<a, b, c>> /\ <<a, b>> \o <<c>> = <<a, b, c>>
    /\ \A a, b, c, d \in Text : Append(<<a, b, c>>, d) = <<a, b, c, d>>
<1>1. ASSUME NEW a \in Text PROVE <<a>> \in Seq(Text) /\ Append(<< >>, a) = <<a>>
    BY Singletons
<1>2. ASSUME NEW a \in Text, NEW b \in Text
      PROVE  <<a, b>> \in Seq(Text) /\ Append(<<a>>, b) = <<a, b>>
    <2>. DEFINE u == <<a>>
               v == <<a, b>>
    <2>1. u \in Seq(Text) /\ Len(u) = 1 /\ v \in Seq(Text) /\ Len(v) = 2 /\ v[2] = b
        OBVIOUS
    <2>2. v[1] = u[1]
        OBVIOUS
    <2>. HIDE DEF u, v
    <2>3. \A k \in 1 .. 1 : v[k] = u[k]
        BY <2>2
    <2>4. Len(v) = Len(u) + 1 /\ v[Len(u) + 1] = b /\ \A k \in 1 .. Len(u) : v[k] = u[k]
        BY <2>1, <2>3
    <2>5. Append(u, b) = v
        BY <2>1, <2>4, RowOn
    <2>. QED BY <2>1, <2>5 DEF u, v
<1>3. ASSUME NEW a \in Text, NEW b \in Text, NEW c \in Text
      PROVE  Append(<<a, b>>, c) = <<a, b, c>> /\ <<a, b>> \o <<c>> = <<a, b, c>>
    <2>. DEFINE u == <<a, b>>
               v == <<a, b, c>>
    <2>1. u \in Seq(Text) /\ Len(u) = 2 /\ v \in Seq(Text) /\ Len(v) = 3 /\ v[3] = c
        OBVIOUS
    <2>2. v[1] = u[1] /\ v[2] = u[2]
        OBVIOUS
    <2>. HIDE DEF u, v
    <2>3. \A k \in 1 .. 2 : v[k] = u[k]
        BY <2>2
    <2>4. Len(v) = Len(u) + 1 /\ v[Len(u) + 1] = c /\ \A k \in 1 .. Len(u) : v[k] = u[k]
        BY <2>1, <2>3
    <2>5. Append(u, c) = v
        BY <2>1, <2>4, RowOn
    <2>6. u \o <<c>> = Append(u, c)
        BY <2>1, AppendIsConcat
    <2>. QED BY <2>5, <2>6 DEF u, v
<1>4. ASSUME NEW a \in Text, NEW b \in Text, NEW c \in Text, NEW d \in Text
      PROVE  Append(<<a, b, c>>, d) = <<a, b, c, d>>
    <2>. DEFINE u == <<a, b, c>>
               v == <<a, b, c, d>>
    <2>1. u \in Seq(Text) /\ Len(u) = 3 /\ v \in Seq(Text) /\ Len(v) = 4 /\ v[4] = d
        OBVIOUS
    <2>2. v[1] = u[1] /\ v[2] = u[2] /\ v[3] = u[3]
        OBVIOUS
    <2>. HIDE DEF u, v
    <2>3. \A k \in 1 .. 3 : v[k] = u[k]
        BY <2>2
    <2>4. Len(v) = Len(u) + 1 /\ v[Len(u) + 1] = d /\ \A k \in 1 .. Len(u) : v[k] = u[k]
        BY <2>1, <2>3
    <2>5. Append(u, d) = v
        BY <2>1, <2>4, RowOn
    <2>. QED BY <2>5 DEF u, v
<1>. QED BY <1>1, <1>2, <1>3, <1>4

\* Those of the programs are such rows.
LEMMA Texts ==
    /\ Opening \in Seq(Text)
    /\ program \in {"fork-buffer", "mmap_shared", "simple_fork"} => ByChild \in Seq(Text)
<1>1. "Hello, world!" \in Text /\ "Hello" \in Text /\ "Hello from child" \in Text
    BY DEF Text
<1>2. /\ << >> \in Seq(Text) /\ <<"Hello, world!">> \in Seq(Text)
      /\ <<"Hello">> \in Seq(Text) /\ <<"Hello from child">> \in Seq(Text)
      /\ <<"Hello, world!", "Hello from child">> \in Seq(Text)
    BY <1>1, Row, EmptySeq
<1>3. Opening \in Seq(Text)
    BY <1>2 DEF Opening
<1>4. CASE program = "fork-buffer"
    BY <1>2, <1>3, <1>4 DEF ByChild
<1>5. CASE program = "mmap_shared"
    BY <1>2, <1>3, <1>5 DEF ByChild
<1>6. CASE program = "simple_fork"
    BY <1>2, <1>3, <1>6 DEF ByChild
<1>. QED BY <1>3, <1>4, <1>5, <1>6

\* Each text printed behind the others.
LEMMA Outputs ==
    /\ Append(<< >>, "Hello, world!") = <<"Hello, world!">>
    /\ Append(<< >>, "Hello") = <<"Hello">>
    /\ Append(<< >>, "Hello from child") = <<"Hello from child">>
    /\ Append(<<"Hello, world!">>, "Hello from child")
          = <<"Hello, world!", "Hello from child">>
    /\ Append(<<"Hello, world!">>, "Hello from parent")
          = <<"Hello, world!", "Hello from parent">>
    /\ Append(<<"Hello">>, "Hola") = <<"Hello", "Hola">>
    /\ Append(<<"Hello from child">>, "42") = <<"Hello from child", "42">>
    /\ Append(<<"Hello from child", "42">>, "Hello from parent")
          = <<"Hello from child", "42", "Hello from parent">>
    /\ <<"Hello, world!", "Hello from child">> \o <<"Hello, world!">>
          = <<"Hello, world!", "Hello from child", "Hello, world!">>
    /\ Append(<<"Hello, world!", "Hello from child", "Hello, world!">>, "Hello from parent")
          = <<"Hello, world!", "Hello from child", "Hello, world!", "Hello from parent">>
<1>1. /\ "Hello, world!" \in Text /\ "Hello from child" \in Text
      /\ "Hello from parent" \in Text /\ "Hello" \in Text /\ "Hola" \in Text
      /\ "42" \in Text
    BY DEF Text
<1>2. /\ Append(<< >>, "Hello, world!") = <<"Hello, world!">>
      /\ Append(<< >>, "Hello") = <<"Hello">>
      /\ Append(<< >>, "Hello from child") = <<"Hello from child">>
    BY Row, <1>1
<1>3. /\ Append(<<"Hello, world!">>, "Hello from child")
            = <<"Hello, world!", "Hello from child">>
      /\ Append(<<"Hello, world!">>, "Hello from parent")
            = <<"Hello, world!", "Hello from parent">>
      /\ Append(<<"Hello">>, "Hola") = <<"Hello", "Hola">>
      /\ Append(<<"Hello from child">>, "42") = <<"Hello from child", "42">>
    BY Row, <1>1
<1>4. /\ Append(<<"Hello from child", "42">>, "Hello from parent")
            = <<"Hello from child", "42", "Hello from parent">>
      /\ <<"Hello, world!", "Hello from child">> \o <<"Hello, world!">>
            = <<"Hello, world!", "Hello from child", "Hello, world!">>
    <2>1. \A a, b, c \in Text : Append(<<a, b>>, c) = <<a, b, c>>
        BY Row
    <2>2. \A a, b, c \in Text : <<a, b>> \o <<c>> = <<a, b, c>>
        BY Row
    <2>3. Append(<<"Hello from child", "42">>, "Hello from parent")
            = <<"Hello from child", "42", "Hello from parent">>
        BY Zenon, <1>1, <2>1
    <2>4. <<"Hello, world!", "Hello from child">> \o <<"Hello, world!">>
            = <<"Hello, world!", "Hello from child", "Hello, world!">>
        BY Zenon, <1>1, <2>2
    <2>. QED BY <2>3, <2>4
<1>5. Append(<<"Hello, world!", "Hello from child", "Hello, world!">>, "Hello from parent")
          = <<"Hello, world!", "Hello from child", "Hello, world!", "Hello from parent">>
    <2>. DEFINE a == "Hello, world!"
               b == "Hello from child"
               d == "Hello from parent"
    <2>1. a \in Text /\ b \in Text /\ d \in Text
        BY <1>1
    <2>. HIDE DEF a, b, d
    <2>2. Append(<<a, b, a>>, d) = <<a, b, a, d>>
        BY Zenon, <2>1, Row
    <2>. QED BY <2>2 DEF a, b, d
<1>. QED BY <1>2, <1>3, <1>4, <1>5

\* printf() adds a text behind what a process has emitted, and leaves the other's
\* buffer alone; the end of a process prints the rest.
LEMMA PrintfFact ==
    ASSUME PrintTypes, NEW p \in Output!Process, NEW text \in Text,
           Output!Printf(p, text)
    PROVE  /\ output' \in Seq(Text) /\ stdio' \in [Output!Process -> Seq(Text)]
           /\ Emitted(p)' = Append(Emitted(p), text)
           /\ \A q \in Output!Process : q # p => stdio'[q] = stdio[q]
           /\ text = "Hello, world!" =>
                 output' = output /\ stdio'[p] = Append(stdio[p], text)
<1>1. output \in Seq(Text) /\ stdio \in [Output!Process -> Seq(Text)]
      /\ stdio[p] \in Seq(Text)
    BY DEF PrintTypes
<1>2. << >> \in Seq(Text) /\ Append(stdio[p], text) \in Seq(Text)
    BY <1>1, AppendProperties, EmptySeq
<1>3. /\ output \o Append(stdio[p], text) = Append(output \o stdio[p], text)
      /\ output \o Append(stdio[p], text) \in Seq(Text)
    BY <1>1, AppendBehind
<1>4. (output \o Append(stdio[p], text)) \o << >> = output \o Append(stdio[p], text)
    BY <1>3, AppendBehind
<1>5. CASE terminal /\ text # "Hello, world!"
    <2>1. output' = output \o Append(stdio[p], text)
          /\ stdio' = [stdio EXCEPT ![p] = << >>]
        BY <1>5 DEF Output!Printf
    <2>2. stdio'[p] = << >>
        BY <1>1, <2>1
    <2>. QED BY <1>1, <1>2, <1>3, <1>4, <1>5, <2>1, <2>2 DEF Emitted
<1>6. CASE ~(terminal /\ text # "Hello, world!")
    <2>1. output' = output /\ stdio' = [stdio EXCEPT ![p] = Append(stdio[p], text)]
        BY <1>6 DEF Output!Printf
    <2>2. stdio'[p] = Append(stdio[p], text)
        BY <1>1, <2>1
    <2>. QED BY <1>1, <1>2, <1>3, <2>1, <2>2 DEF Emitted
<1>. QED BY <1>5, <1>6

\* Who exits leaves nothing in its buffer: what was there is printed.
LEMMA ExitFact ==
    ASSUME PrintTypes, NEW p \in Output!Process, Output!Exit(p)
    PROVE  /\ output' = Emitted(p) /\ output' \in Seq(Text)
           /\ stdio' \in [Output!Process -> Seq(Text)] /\ stdio'[p] = << >>
           /\ \A q \in Output!Process : q # p => stdio'[q] = stdio[q]
<1>1. output \in Seq(Text) /\ stdio \in [Output!Process -> Seq(Text)]
      /\ stdio[p] \in Seq(Text) /\ << >> \in Seq(Text)
    BY EmptySeq DEF PrintTypes
<1>. QED
    BY <1>1, ConcatProperties DEF Output!Exit, Emitted

\* Nothing is printed before the first step.
LEMMA PrintBegins == Output!Init => PrintInv
<1>. SUFFICES ASSUME Output!Init PROVE PrintInv
    OBVIOUS
<1>1. << >> \in Seq(Text) /\ "" \in Text
    BY EmptySeq DEF Text
<1>2. PrintTypes
    BY <1>1 DEF Output!Init, PrintTypes, Output!Process
<1>. QED
    BY <1>2 DEF Output!Init, PrintInv, ParentWaits, ChildTalks, ParentTalks, Output!Process

\* The parent's steps up to fork().
LEMMA ForkingKeeps ==
    ASSUME PrintInv, Output!Before \/ Output!Fork \/ Output!ForkFails
    PROVE  PrintInv'
<1>0. PrintTypes /\ ParentWaits /\ ChildTalks /\ ParentTalks
    BY DEF PrintInv
<1>1. "Hello, world!" \in Text /\ "Hello" \in Text /\ "parent" \in Output!Process
      /\ "child" \in Output!Process
    BY DEF Text, Output!Process
<1>2. CASE Output!Before
    <2>1. /\ step["parent"] = "start" /\ step'["parent"] = "fork"
          /\ step'["child"] = step["child"] /\ DOMAIN step' = Output!Process
          /\ program' = program /\ forked' = forked
          /\ mapping' = IF program = "mmap_shared" THEN "Hello" ELSE mapping
        BY <1>0, <1>1, <1>2 DEF Output!Before, Output!Goto, PrintTypes
    <2>2. /\ output = << >> /\ stdio["parent"] = << >> /\ ~forked
          /\ step["child"] = "none"
        BY <1>0, <2>1 DEF ParentWaits
    <2>3. /\ output' = output /\ stdio'["parent"] = Opening
          /\ stdio' \in [Output!Process -> Seq(Text)]
        <3>1. CASE program = "fork-buffer"
            <4>1. Output!Printf("parent", "Hello, world!")
                BY <1>2, <3>1 DEF Output!Before
            <4>2. /\ output' = output /\ stdio'["parent"] = Append(stdio["parent"], "Hello, world!")
                  /\ stdio' \in [Output!Process -> Seq(Text)]
                BY <1>0, <1>1, <4>1, PrintfFact
            <4>3. stdio'["parent"] = <<"Hello, world!">>
                BY <2>2, <4>2, Outputs
            <4>. QED BY <3>1, <4>2, <4>3 DEF Opening
        <3>2. CASE program # "fork-buffer"
            <4>1. output' = output /\ stdio' = stdio
                BY <1>2, <3>2 DEF Output!Before
            <4>. QED BY <1>0, <2>2, <3>2, <4>1 DEF Opening, PrintTypes
        <3>. QED BY <3>1, <3>2
    <2>4. Opening' = Opening
        BY <2>1 DEF Opening
    <2>5. PrintTypes'
        BY <1>0, <1>1, <2>1, <2>3 DEF PrintTypes
    <2>6. ParentWaits'
        BY <1>0, <2>1, <2>2, <2>3, <2>4 DEF ParentWaits
    <2>7. ChildTalks' /\ ParentTalks'
        BY <2>1, <2>2 DEF ChildTalks, ParentTalks
    <2>. QED BY <2>5, <2>6, <2>7 DEF PrintInv
<1>3. CASE Output!Fork
    <2>1. /\ step["parent"] = "fork" /\ step'["parent"] = "wait"
          /\ step'["child"] = "print" /\ DOMAIN step' = Output!Process
          /\ program' = program /\ forked' = TRUE /\ mapping' = mapping /\ output' = output
          /\ stdio' = [p \in Output!Process |-> stdio["parent"]]
        BY <1>1, <1>3 DEF Output!Fork, Output!Process
    <2>2. /\ output = << >> /\ stdio["parent"] = Opening /\ ~forked
          /\ step["child"] = "none"
        BY <1>0, <2>1 DEF ParentWaits
    <2>3. Opening' = Opening /\ stdio'["parent"] = Opening /\ stdio'["child"] = Opening
        BY <1>1, <2>1, <2>2 DEF Opening
    <2>4. PrintTypes'
        BY <1>0, <1>1, <2>1 DEF PrintTypes
    <2>5. ParentWaits'
        BY <1>0, <2>1, <2>2, <2>3 DEF ParentWaits
    <2>6. ChildTalks' /\ ParentTalks'
        BY <2>1, <2>2, <2>3 DEF ChildTalks, ParentTalks
    <2>. QED BY <2>4, <2>5, <2>6 DEF PrintInv
<1>4. CASE Output!ForkFails
    <2>1. /\ step["parent"] = "fork" /\ step'["parent"] = "wait"
          /\ step'["child"] = step["child"] /\ DOMAIN step' = Output!Process
          /\ UNCHANGED <<program, stdio, mapping, forked, output>>
        BY <1>0, <1>1, <1>4 DEF Output!ForkFails, Output!Goto, PrintTypes
    <2>2. ~forked /\ step["child"] = "none"
        BY <1>0, <2>1 DEF ParentWaits
    <2>3. PrintTypes'
        BY <1>0, <2>1 DEF PrintTypes
    <2>4. ParentWaits'
        BY <1>0, <2>1, <2>2 DEF ParentWaits, Opening
    <2>5. ChildTalks' /\ ParentTalks'
        BY <2>1, <2>2 DEF ChildTalks, ParentTalks
    <2>. QED BY <2>3, <2>4, <2>5 DEF PrintInv
<1>. QED BY <1>2, <1>3, <1>4

\* The child's steps, up to its end.
LEMMA ChildPrintKeeps ==
    ASSUME PrintInv, Output!ChildPrints \/ Output!ChildStores \/ Output!Exit("child")
    PROVE  PrintInv'
<1>0. PrintTypes /\ ParentWaits /\ ChildTalks /\ ParentTalks
    BY DEF PrintInv
<1>1. /\ "Hello, world!" \in Text /\ "Hello" \in Text /\ "Hola" \in Text
      /\ "Hello from child" \in Text
      /\ "parent" \in Output!Process /\ "child" \in Output!Process
    BY DEF Text, Output!Process
<1>2. program \in {"fork-buffer", "mmap_shared", "simple_fork"}
    BY <1>0, ProgramsAssumption DEF PrintTypes
<1>3. CASE Output!ChildPrints
    <2>1. /\ step["child"] = "print" /\ DOMAIN step' = Output!Process
          /\ step'["child"] = IF program = "mmap_shared" THEN "store" ELSE "exit"
          /\ step'["parent"] = step["parent"]
          /\ program' = program /\ forked' = forked /\ mapping' = mapping
        BY <1>0, <1>1, <1>3 DEF Output!ChildPrints, Output!Goto, PrintTypes
    <2>2. /\ step["parent"] = "wait" /\ forked /\ output = << >>
          /\ stdio["child"] = Opening /\ stdio["parent"] = Opening
          /\ program = "mmap_shared" => mapping = "Hello"
        BY <1>0, <2>1 DEF ParentWaits, ChildTalks, ParentTalks, PrintTypes
    <2>. DEFINE text == IF program = "mmap_shared" THEN "Hello" ELSE "Hello from child"
    <2>3. text \in Text /\ Output!Printf("child", text)
        BY <1>1, <1>3, <2>2 DEF Output!ChildPrints, Output!ChildText
    <2>4. Append(Opening, text) = ByChild
        <3>1. CASE program = "fork-buffer"
            BY <3>1, Outputs DEF Opening, ByChild
        <3>2. CASE program = "mmap_shared"
            BY <3>2, Outputs DEF Opening, ByChild
        <3>3. CASE program = "simple_fork"
            BY <3>3, Outputs DEF Opening, ByChild
        <3>. QED BY <1>2, <3>1, <3>2, <3>3
    <2>. HIDE DEF text
    <2>5. /\ output' \in Seq(Text) /\ stdio' \in [Output!Process -> Seq(Text)]
          /\ Emitted("child")' = Append(Emitted("child"), text)
          /\ stdio'["parent"] = stdio["parent"]
        BY <1>0, <1>1, <2>3, PrintfFact
    <2>6. Emitted("child") = Opening
        BY <2>2, Texts, ConcatEmptySeq DEF Emitted
    <2>7. Opening' = Opening /\ ByChild' = ByChild
        BY <2>1 DEF Opening, ByChild
    <2>8. PrintTypes'
        BY <1>0, <2>1, <2>5 DEF PrintTypes
    <2>9. ParentWaits'
        BY <1>0, <2>1, <2>2, <2>5, <2>7 DEF ParentWaits
    <2>10. ChildTalks'
        BY <2>1, <2>2, <2>4, <2>5, <2>6, <2>7 DEF ChildTalks
    <2>11. ParentTalks'
        BY <2>1, <2>2 DEF ParentTalks
    <2>. QED BY <2>8, <2>9, <2>10, <2>11 DEF PrintInv
<1>4. CASE Output!ChildStores
    <2>1. /\ step["child"] = "store" /\ DOMAIN step' = Output!Process
          /\ step'["child"] = "exit" /\ step'["parent"] = step["parent"]
          /\ mapping' = "Hola" /\ UNCHANGED <<program, forked, stdio, output>>
        BY <1>0, <1>1, <1>4 DEF Output!ChildStores, Output!Goto, PrintTypes
    <2>2. step["parent"] = "wait" /\ forked /\ Emitted("child") = ByChild
        BY <1>0, <2>1 DEF ParentWaits, ChildTalks, ParentTalks, PrintTypes
    <2>3. Opening' = Opening /\ ByChild' = ByChild /\ Emitted("child")' = Emitted("child")
        BY <2>1 DEF Opening, ByChild, Emitted
    <2>4. PrintTypes'
        BY <1>0, <1>1, <2>1 DEF PrintTypes
    <2>5. ParentWaits'
        BY <1>0, <2>1, <2>2, <2>3 DEF ParentWaits
    <2>6. ChildTalks' /\ ParentTalks'
        BY <2>1, <2>2, <2>3 DEF ChildTalks, ParentTalks
    <2>. QED BY <2>4, <2>5, <2>6 DEF PrintInv
<1>5. CASE Output!Exit("child")
    <2>1. /\ step["child"] = "exit" /\ DOMAIN step' = Output!Process
          /\ step'["child"] = "ended" /\ step'["parent"] = step["parent"]
          /\ UNCHANGED <<program, forked, mapping>>
        BY <1>0, <1>1, <1>5 DEF Output!Exit, Output!Goto, PrintTypes
    <2>2. step["parent"] = "wait" /\ forked /\ Emitted("child") = ByChild
        BY <1>0, <2>1 DEF ParentWaits, ChildTalks, ParentTalks, PrintTypes
    <2>3. /\ output' = Emitted("child") /\ output' \in Seq(Text)
          /\ stdio' \in [Output!Process -> Seq(Text)] /\ stdio'["parent"] = stdio["parent"]
        BY <1>0, <1>1, <1>5, ExitFact
    <2>4. Opening' = Opening /\ ByChild' = ByChild
        BY <2>1 DEF Opening, ByChild
    <2>5. PrintTypes'
        BY <1>0, <2>1, <2>3 DEF PrintTypes
    <2>6. ParentWaits'
        BY <1>0, <2>1, <2>2, <2>3, <2>4 DEF ParentWaits
    <2>7. ChildTalks' /\ ParentTalks'
        BY <2>1, <2>2, <2>3, <2>4 DEF ChildTalks, ParentTalks
    <2>. QED BY <2>5, <2>6, <2>7 DEF PrintInv
<1>. QED BY <1>3, <1>4, <1>5

\* The parent's steps behind the child's last.
LEMMA ParentPrintKeeps ==
    ASSUME PrintInv,
           \/ Output!Waitpid \/ Output!PrintStatus \/ Output!ParentPrints
           \/ Output!Exit("parent")
    PROVE  PrintInv'
<1>0. PrintTypes /\ ParentWaits /\ ChildTalks /\ ParentTalks
    BY DEF PrintInv
<1>1. /\ \A text \in {"Hello, world!", "Hello from child", "Hello from parent", "Hello",
                      "Hola", "0", "42", "255"} : text \in Text
      /\ "parent" \in Output!Process /\ "child" \in Output!Process
    BY DEF Text, Output!Process
<1>2. program \in {"fork-buffer", "mmap_shared", "simple_fork"}
    BY <1>0, ProgramsAssumption DEF PrintTypes
<1>3. CASE Output!Waitpid
    <2>1. /\ step["parent"] = "wait" /\ DOMAIN step' = Output!Process
          /\ step'["parent"] = IF program = "simple_fork" THEN "status" ELSE "print"
          /\ step'["child"] = step["child"] /\ (forked => step["child"] = "ended")
          /\ UNCHANGED <<program, forked, mapping, stdio, output>>
        BY <1>0, <1>1, <1>3 DEF Output!Waitpid, Output!Goto, PrintTypes
    <2>2. /\ stdio["parent"] = Opening /\ (forked => output = ByChild)
          /\ (~forked => output = << >> /\ step["child"] = "none")
        BY <1>0, <2>1 DEF ParentWaits, ChildTalks
    <2>3. Emitted("parent") = SoFar
        <3>1. CASE ~forked
            BY <2>2, <3>1, Texts, ConcatEmptySeq DEF Emitted, SoFar
        <3>2. CASE forked /\ program = "fork-buffer"
            BY <2>2, <3>2, Outputs DEF Emitted, SoFar, Opening, ByChild
        <3>3. CASE forked /\ program # "fork-buffer"
            <4>1. Emitted("parent") = ByChild \o << >>
                BY <2>2, <3>3 DEF Emitted, Opening
            <4>2. ByChild \o << >> = ByChild
                BY <1>2, Texts, ConcatEmptySeq
            <4>. QED BY <3>3, <4>1, <4>2 DEF SoFar
        <3>. QED BY <3>1, <3>2, <3>3
    <2>4. Emitted("parent")' = Emitted("parent") /\ SoFar' = SoFar
        BY <2>1 DEF Emitted, SoFar, Opening, ByChild
    <2>5. PrintTypes'
        BY <1>0, <2>1 DEF PrintTypes
    <2>6. ParentWaits' /\ ChildTalks'
        BY <1>0, <2>1, <2>2 DEF ParentWaits, ChildTalks
    <2>7. ParentTalks'
        BY <2>1, <2>2, <2>3, <2>4 DEF ParentTalks
    <2>. QED BY <2>5, <2>6, <2>7 DEF PrintInv
<1>4. ASSUME Output!PrintStatus \/ Output!ParentPrints PROVE PrintInv'
    <2>1. /\ DOMAIN step' = Output!Process /\ step'["child"] = step["child"]
          /\ \/ Output!PrintStatus /\ step["parent"] = "status" /\ step'["parent"] = "print"
             \/ Output!ParentPrints /\ step["parent"] = "print" /\ step'["parent"] = "exit"
          /\ UNCHANGED <<program, forked, mapping>>
        BY <1>0, <1>1, <1>4 DEF Output!PrintStatus, Output!ParentPrints, Output!Goto, PrintTypes
    <2>2. PICK text \in Text :
             /\ Output!Printf("parent", text)
             /\ Output!PrintStatus /\ forked => text = "42"
             /\ Output!ParentPrints =>
                   text = IF program = "mmap_shared" THEN mapping ELSE "Hello from parent"
        <3>1. CASE step["parent"] = "status"
            <4>1. Output!PrintStatus /\ ~Output!ParentPrints
                BY <2>1, <3>1 DEF Output!ParentPrints, Output!Goto
            <4>2. PICK code \in IF forked THEN {"42"} ELSE {"0", "42", "255"} :
                     Output!Printf("parent", code)
                BY <4>1 DEF Output!PrintStatus
            <4>3. code \in Text /\ (forked => code = "42")
                BY <1>1, <4>2
            <4>. QED BY <4>1, <4>2, <4>3
        <3>2. CASE step["parent"] = "print"
            <4>1. Output!ParentPrints /\ ~Output!PrintStatus
                BY <2>1, <3>2 DEF Output!PrintStatus, Output!Goto
            <4>2. Output!Printf("parent", IF program = "mmap_shared" THEN mapping
                                          ELSE "Hello from parent")
                BY <4>1 DEF Output!ParentPrints
            <4>3. mapping \in Text /\ "Hello from parent" \in Text
                BY <1>0, <1>1 DEF PrintTypes
            <4>. QED BY <4>1, <4>2, <4>3
        <3>. QED BY <2>1, <3>1, <3>2
    <2>3. /\ output' \in Seq(Text) /\ stdio' \in [Output!Process -> Seq(Text)]
          /\ Emitted("parent")' = Append(Emitted("parent"), text)
        BY <1>0, <1>1, <2>2, PrintfFact
    <2>4. step["child"] \in {"none", "ended"} /\ (forked => step["child"] = "ended")
        BY <1>0, <2>1 DEF ParentTalks, ParentWaits
    <2>5. PrintTypes'
        BY <1>0, <2>1, <2>3 DEF PrintTypes
    <2>6. ParentWaits' /\ ChildTalks'
        BY <1>0, <2>1, <2>4 DEF ParentWaits, ChildTalks
    <2>7. CASE Output!PrintStatus /\ step["parent"] = "status" /\ step'["parent"] = "print"
        <3>1. program = "simple_fork" /\ Emitted("parent") = SoFar
            BY <1>0, <2>7 DEF ParentTalks
        <3>2. ASSUME forked PROVE Emitted("parent")' = <<"Hello from child", "42">>
            <4>1. text = "42" /\ Emitted("parent") = <<"Hello from child">>
                BY <2>2, <2>7, <3>1, <3>2 DEF SoFar, ByChild
            <4>. QED BY <2>3, <4>1, Outputs
        <3>3. ParentTalks'
            BY <2>1, <2>4, <2>7, <3>1, <3>2 DEF ParentTalks
        <3>. QED BY <2>5, <2>6, <3>3 DEF PrintInv
    <2>8. CASE Output!ParentPrints /\ step["parent"] = "print" /\ step'["parent"] = "exit"
        <3>1. ASSUME program = "simple_fork" => forked
              PROVE  Emitted("parent")' = Output!Expected
            <4>1. CASE program = "simple_fork"
                <5>1. Emitted("parent") = <<"Hello from child", "42">>
                      /\ text = "Hello from parent"
                    BY <1>0, <2>2, <2>8, <3>1, <4>1 DEF ParentTalks
                <5>2. Emitted("parent")' = <<"Hello from child", "42", "Hello from parent">>
                    BY <2>3, <5>1, Outputs
                <5>. QED BY <4>1, <5>2 DEF Output!Expected
            <4>2. CASE program = "mmap_shared"
                <5>1. Emitted("parent") = SoFar
                      /\ text = IF forked THEN "Hola" ELSE "Hello"
                    BY <1>0, <2>2, <2>4, <2>8, <4>2 DEF ParentTalks, ParentWaits
                <5>2. Emitted("parent")'
                        = IF forked THEN <<"Hello", "Hola">> ELSE <<"Hello">>
                    <6>1. SoFar = IF forked THEN <<"Hello">> ELSE << >>
                        BY <4>2 DEF SoFar, Opening, ByChild
                    <6>2. CASE forked
                        BY <2>3, <5>1, <6>1, <6>2, Outputs
                    <6>3. CASE ~forked
                        BY <2>3, <5>1, <6>1, <6>3, Outputs
                    <6>. QED BY <6>2, <6>3
                <5>. QED BY <4>2, <5>2 DEF Output!Expected
            <4>3. CASE program = "fork-buffer"
                <5>1. Emitted("parent") = SoFar /\ text = "Hello from parent"
                    BY <1>0, <2>2, <2>8, <4>3 DEF ParentTalks
                <5>2. CASE forked
                    BY <2>3, <4>3, <5>1, <5>2, Outputs DEF SoFar, Output!Expected
                <5>3. CASE ~forked
                    BY <2>3, <4>3, <5>1, <5>3, Outputs DEF SoFar, Opening, Output!Expected
                <5>. QED BY <5>2, <5>3
            <4>. QED BY <1>2, <4>1, <4>2, <4>3
        <3>2. Output!Expected' = Output!Expected
            BY <2>1 DEF Output!Expected
        <3>3. ParentTalks'
            BY <2>1, <2>4, <2>8, <3>1, <3>2 DEF ParentTalks
        <3>. QED BY <2>5, <2>6, <3>3 DEF PrintInv
    <2>. QED BY <2>1, <2>7, <2>8
<1>5. CASE Output!Exit("parent")
    <2>1. /\ step["parent"] = "exit" /\ DOMAIN step' = Output!Process
          /\ step'["parent"] = "ended" /\ step'["child"] = step["child"]
          /\ UNCHANGED <<program, forked, mapping>>
        BY <1>0, <1>1, <1>5 DEF Output!Exit, Output!Goto, PrintTypes
    <2>2. /\ step["child"] \in {"none", "ended"}
          /\ (program = "simple_fork" => forked) => Emitted("parent") = Output!Expected
        BY <1>0, <2>1 DEF ParentTalks
    <2>3. /\ output' = Emitted("parent") /\ output' \in Seq(Text)
          /\ stdio' \in [Output!Process -> Seq(Text)]
        BY <1>0, <1>1, <1>5, ExitFact
    <2>4. Output!Expected' = Output!Expected
        BY <2>1 DEF Output!Expected
    <2>5. PrintTypes'
        BY <1>0, <2>1, <2>3 DEF PrintTypes
    <2>6. ParentWaits' /\ ChildTalks'
        BY <1>0, <2>1, <2>2 DEF ParentWaits, ChildTalks
    <2>7. ParentTalks'
        BY <2>1, <2>2, <2>3, <2>4 DEF ParentTalks
    <2>. QED BY <2>5, <2>6, <2>7 DEF PrintInv
<1>. QED BY <1>3, <1>4, <1>5

\* Each step of parent and child keeps the invariant.
LEMMA PrintStep == PrintInv /\ [Output!Next]_(Output!vars) => PrintInv'
<1>. SUFFICES ASSUME PrintInv, [Output!Next]_(Output!vars) PROVE PrintInv'
    OBVIOUS
<1>1. CASE UNCHANGED Output!vars
    BY <1>1 DEF Output!vars, PrintInv, PrintTypes, ParentWaits, ChildTalks, ParentTalks,
       Emitted, Opening, ByChild, SoFar, Output!Expected
<1>2. CASE Output!Next
    BY <1>2, ForkingKeeps, ChildPrintKeeps, ParentPrintKeeps
    DEF Output!Next, Output!Process
<1>. QED BY <1>1, <1>2

\* It implies that what the programs print is what the notebook shows.
LEMMA PrintKeeps == PrintInv => Output!PrintsAsShown
BY DEF PrintInv, ParentTalks, Output!PrintsAsShown
-----------------------------------------------------------------------------
(* PthreadDemos: the inductive invariant *)

\* The programs that check or print something.
Observed == program \in {"atomic", "mutex", "no-sync", "no-sync-fix", "multiple-create"}

\* Who is not created has not begun, and who is joined has ended.
DemoTypes ==
    /\ program \in DemoProgram
    /\ memory \in [Demos!Cell -> Nat] /\ reg \in [Demos!Thread -> Nat]
    /\ store \in [Demos!Thread -> Seq(Demos!Cell \X Nat)]
    /\ owner \in [Demos!Mutex -> Nat] /\ accesses \in [Demos!Thread -> Nat]
    /\ created \in Nat /\ joined \in Nat /\ i \in Nat
    /\ created <= Demos!Started /\ joined <= created
    /\ joined > 0 => created = Demos!Started
    /\ \A t \in Demos!Thread : t > created => accesses[t] = 0
    /\ \A t \in Demos!Thread : t > created \/ t <= joined => store[t] = << >>
    /\ \A t \in Demos!Thread : t <= joined => accesses[t] = Len(Demos!Code(t))

\* The cells of the two threads of atomic.c and mutex.c, and how many accesses
\* come before the three of the test.
Own(t)   == IF t = 1 THEN "x" ELSE "y"
Other(t) == IF t = 1 THEN "y" ELSE "x"
Out(t)   == IF t = 1 THEN "r1" ELSE "r2"
Before   == IF program = "mutex" THEN 1 ELSE 0
Set(t)    == accesses[t] > Before
Loaded(t) == accesses[t] > Before + 1
Put(t)    == accesses[t] > Before + 2

\* What a thread has stored of <<cell, value>> is in memory or on its way there.
Stored(t, cell, value) ==
    memory[cell] = value \/ \E k \in DOMAIN store[t] : store[t][k] = <<cell, value>>

\* What a thread has stored is in memory or in its own buffer, and nothing else is
\* there.
TestedBy(t) ==
    /\ Set(t) => Stored(t, Own(t), 1)
    /\ Put(t) => Stored(t, Out(t), reg[t])
    /\ \A k \in DOMAIN store[t] :
          \/ store[t][k] = <<Own(t), 1>>
          \/ Put(t) /\ store[t][k] = <<Out(t), reg[t]>>

\* Of two threads that have loaded one has seen the other's store.
OneSeen == Loaded(1) /\ Loaded(2) => reg[1] # 0 \/ reg[2] # 0

Tested == program \in {"atomic", "mutex"} => TestedBy(1) /\ TestedBy(2) /\ OneSeen

\* Between lock and unlock a thread owns the mutex, and outside it has nothing
\* in its buffer.  An _Atomic store waits for nothing in the first place.
Excludes(t) ==
    /\ program = "atomic" => store[t] = << >> /\ accesses[t] <= 3
    /\ program = "mutex" => /\ accesses[t] <= 5
                            /\ accesses[t] \in 1 .. 4 <=> owner["mutex"] = t
                            /\ accesses[t] \notin 1 .. 4 => store[t] = << >>

Exclusive == program \in {"atomic", "mutex"} => Excludes(1) /\ Excludes(2)

\* The increments made so far; one takes n accesses.
Made(n) == {e \in (1 .. THREADS_COUNT) \X (1 .. Rounds) : n * e[2] <= accesses[e[1]]}

Incremented ==
    program = "no-sync-fix" =>
        /\ memory["counter"] = Cardinality(Made(1))
        /\ \A t \in Demos!Thread : store[t] = << >> /\ accesses[t] <= Rounds

\* A value that was loaded, is in a buffer or in memory counts no more than the
\* increments made, and one that a thread has made at least.
Counted ==
    program = "no-sync" =>
        /\ memory["counter"] <= Cardinality(Made(2))
        /\ \A t \in Demos!Thread :
              /\ accesses[t] <= 2 * Rounds
              /\ reg[t] <= Cardinality(Made(2))
              /\ \A k \in DOMAIN store[t] :
                    /\ store[t][k][1] = "counter"
                    /\ store[t][k][2] \in 1 .. Cardinality(Made(2))
              /\ accesses[t] > 1 => store[t] # << >> \/ memory["counter"] > 0
              /\ accesses[t] > 2 => reg[t] > 0
              /\ accesses[t] > 3 /\ store[t] # << >> => store[t][Len(store[t])][2] > 1
        \* Whoever stores last stores at least two.
        /\ (\A t \in 1 .. THREADS_COUNT : accesses[t] = 2 * Rounds /\ store[t] = << >>)
              => memory["counter"] > 1

\* A thread's number is in its cell before it is created.
Numbered ==
    program = "multiple-create" => \A t \in {1, 2} :
        /\ store[t] = << >> /\ accesses[t] <= 1
        /\ t <= created => memory[Demos!Number(t)] = t - 1
        /\ accesses[t] = 1 => reg[t] = t - 1

Parts == DemoTypes /\ Tested /\ Exclusive /\ Incremented /\ Counted /\ Numbered

DemoInv == (Observed => Parts) /\ Demos!NotBroken
-----------------------------------------------------------------------------
(* PthreadDemos: what the threads do *)

\* The threads that exist, and how many of them main() starts.
LEMMA ThreadFact ==
    /\ 1 \in Demos!Thread /\ 2 \in Demos!Thread /\ Demos!Started \in Nat /\ Demos!Started > 0
    /\ \A t \in Demos!Thread : t \in Nat /\ t > 0
    /\ \A t \in 1 .. Demos!Started : t \in Demos!Thread
    /\ \A t \in 1 .. THREADS_COUNT : t \in Demos!Thread
    /\ Demos!Counting => Demos!Started = THREADS_COUNT
    /\ ~Demos!Counting => Demos!Started = 2
BY ProgramsAssumption DEF Demos!Thread, Demos!Started

\* The accesses of each program's threads.
LEMMA CountingCode ==
    ASSUME NEW t \in Demos!Thread
    PROVE  /\ program = "no-sync" =>
                 /\ Len(Demos!Code(t)) = 2 * Rounds
                 /\ \A k \in 1 .. 2 * Rounds : Demos!Code(t)[k] =
                       IF k % 2 = 1 THEN <<"load", "counter">> ELSE <<"put+1", "counter">>
           /\ program = "no-sync-fix" =>
                 /\ Len(Demos!Code(t)) = Rounds
                 /\ \A k \in 1 .. Rounds : Demos!Code(t)[k] = <<"inc", "counter">>
           /\ program = "multiple-create" =>
                 /\ Len(Demos!Code(t)) = 1
                 /\ Demos!Code(t)[1] = <<"load", Demos!Number(t)>>
<1>0. 2 * Rounds \in Nat /\ Rounds \in Nat
    BY ProgramsAssumption
<1>1. CASE program = "no-sync"
    <2>1. Demos!Code(t) = [k \in 1 .. 2 * Rounds |->
             IF k % 2 = 1 THEN <<"load", "counter">> ELSE <<"put+1", "counter">>]
        BY <1>1 DEF Demos!Code, Demos!Counting, Demos!Increments, Demos!Atomic
    <2>. QED BY <1>0, <1>1, <2>1
<1>2. CASE program = "no-sync-fix"
    <2>1. Demos!Code(t) = [k \in 1 .. Rounds |-> <<"inc", "counter">>]
        BY <1>2 DEF Demos!Code, Demos!Counting, Demos!Increments, Demos!Atomic
    <2>. QED BY <1>0, <1>2, <2>1
<1>3. CASE program = "multiple-create"
    <2>1. Demos!Code(t) = <<<<"load", Demos!Number(t)>>>>
        BY <1>3 DEF Demos!Code, Demos!Counting
    <2>. QED BY <1>3, <2>1
<1>. QED BY <1>1, <1>2, <1>3

\* Those of the tests: set, load and put, in mutex.c between lock and unlock.
LEMMA TestingCode ==
    ASSUME NEW t \in {1, 2}, program \in {"atomic", "mutex"}
    PROVE  /\ Len(Demos!Code(t)) = IF program = "mutex" THEN 5 ELSE 3
           /\ Demos!Code(t)[Before + 1] = <<"set", Own(t)>>
           /\ Demos!Code(t)[Before + 2] = <<"load", Other(t)>>
           /\ Demos!Code(t)[Before + 3] = <<"put", Out(t)>>
           /\ program = "mutex" => /\ Demos!Code(t)[1] = <<"lock", "mutex">>
                                   /\ Demos!Code(t)[5] = <<"unlock", "mutex">>
<1>1. Demos!SetThenLoad(t) = <<<<"set", Own(t)>>, <<"load", Other(t)>>, <<"put", Out(t)>>>>
    BY DEF Demos!SetThenLoad, Own, Other, Out
<1>2. CASE program = "atomic"
    BY <1>1, <1>2 DEF Demos!Code, Demos!Counting, Before
<1>3. CASE program = "mutex"
    <2>1. Demos!Code(t) = <<<<"lock", "mutex">>, <<"set", Own(t)>>, <<"load", Other(t)>>,
                            <<"put", Out(t)>>, <<"unlock", "mutex">>>>
        BY <1>1, <1>3 DEF Demos!Code, Demos!Counting, Demos!Locked
    <2>. QED BY <1>3, <2>1 DEF Before
<1>. QED BY <1>2, <1>3

\* The sets of increments.
LEMMA MadeFact ==
    ASSUME NEW n \in {1, 2}
    PROVE  /\ IsFiniteSet(Made(n)) /\ Cardinality(Made(n)) \in Nat
           /\ Cardinality(Made(n)) <= THREADS_COUNT * Rounds
           /\ (\A t \in 1 .. THREADS_COUNT : accesses[t] = n * Rounds) =>
                 Cardinality(Made(n)) = THREADS_COUNT * Rounds
<1>. DEFINE All == (1 .. THREADS_COUNT) \X (1 .. Rounds)
<1>1. /\ IsFiniteSet(1 .. THREADS_COUNT) /\ Cardinality(1 .. THREADS_COUNT) = THREADS_COUNT
      /\ IsFiniteSet(1 .. Rounds) /\ Cardinality(1 .. Rounds) = Rounds
    BY ProgramsAssumption, FS_Interval
<1>2. IsFiniteSet(All) /\ Cardinality(All) = THREADS_COUNT * Rounds
    <2>. DEFINE T == 1 .. THREADS_COUNT
                R == 1 .. Rounds
    <2>1. /\ IsFiniteSet(T) /\ Cardinality(T) = THREADS_COUNT
          /\ IsFiniteSet(R) /\ Cardinality(R) = Rounds
        BY <1>1
    <2>2. All = T \X R
        OBVIOUS
    <2>. HIDE DEF T, R, All
    <2>3. IsFiniteSet(T \X R) /\ Cardinality(T \X R) = Cardinality(T) * Cardinality(R)
        BY <2>1, FS_Product
    <2>. QED BY <2>1, <2>2, <2>3
<1>3. Made(n) \subseteq All
    BY DEF Made
<1>4. IsFiniteSet(Made(n)) /\ Cardinality(Made(n)) <= THREADS_COUNT * Rounds
    BY <1>2, <1>3, FS_Subset
<1>5. ASSUME \A t \in 1 .. THREADS_COUNT : accesses[t] = n * Rounds PROVE Made(n) = All
    <2>1. \A k \in 1 .. Rounds : n * k <= n * Rounds
        BY ProgramsAssumption
    <2>. QED BY <1>5, <2>1 DEF Made
<1>. QED BY <1>2, <1>4, <1>5, FS_CardinalityType

\* Odd numbers.
LEMMA OddFact ==
    \A n \in Nat :
        /\ n % 2 \in {0, 1}
        /\ (n + 1) % 2 = 1 <=> n % 2 = 0
        /\ n % 2 = 1 => \E k \in Nat : n + 1 = 2 * k
<1>1. ASSUME NEW n \in Nat, n % 2 = 1 PROVE \E k \in Nat : n + 1 = 2 * k
    <2>1. n + 1 = 2 * ((n + 1) \div 2) /\ (n + 1) \div 2 \in Nat
        BY <1>1
    <2>. QED BY <2>1
<1>2. \A n \in Nat : n % 2 \in {0, 1} /\ ((n + 1) % 2 = 1 <=> n % 2 = 0)
    OBVIOUS
<1>. QED BY <1>1, <1>2

\* What an access adds to them.
LEMMA MadeStep ==
    ASSUME NEW t \in 1 .. THREADS_COUNT, accesses \in [Demos!Thread -> Nat],
           accesses' = [accesses EXCEPT ![t] = @ + 1]
    PROVE  /\ accesses[t] < Rounds => Cardinality(Made(1)') = Cardinality(Made(1)) + 1
           /\ accesses[t] < 2 * Rounds =>
                 Cardinality(Made(2)') = IF accesses[t] % 2 = 1 THEN Cardinality(Made(2)) + 1
                                         ELSE Cardinality(Made(2))
<1>0. /\ t \in Demos!Thread /\ accesses[t] \in Nat /\ accesses'[t] = accesses[t] + 1
      /\ \A u \in 1 .. THREADS_COUNT : u \in Demos!Thread /\ accesses[u] \in Nat
      /\ \A u \in (1 .. THREADS_COUNT) \ {t} : accesses'[u] = accesses[u]
    BY ThreadFact
<1>1. ASSUME accesses[t] < Rounds PROVE Cardinality(Made(1)') = Cardinality(Made(1)) + 1
    <2>1. Made(1)' = Made(1) \cup {<<t, accesses[t] + 1>>}
        BY <1>0, <1>1, ProgramsAssumption DEF Made
    <2>2. <<t, accesses[t] + 1>> \notin Made(1)
        BY <1>0 DEF Made
    <2>. QED BY <2>1, <2>2, MadeFact, FS_AddElement
<1>2. ASSUME accesses[t] < 2 * Rounds, accesses[t] % 2 = 1
      PROVE  Cardinality(Made(2)') = Cardinality(Made(2)) + 1
    <2>1. PICK k \in Nat : accesses[t] + 1 = 2 * k
        BY <1>0, <1>2, OddFact
    <2>2. k \in 1 .. Rounds
        BY <1>0, <1>2, <2>1, ProgramsAssumption
    <2>3. Made(2)' = Made(2) \cup {<<t, k>>}
        BY <1>0, <2>1, <2>2 DEF Made
    <2>4. <<t, k>> \notin Made(2)
        BY <1>0, <2>1 DEF Made
    <2>. QED BY <2>3, <2>4, MadeFact, FS_AddElement
<1>3. ASSUME accesses[t] % 2 # 1 PROVE Made(2)' = Made(2)
    <2>1. \A k \in Nat : 2 * k <= accesses[t] + 1 <=> 2 * k <= accesses[t]
        BY <1>0, <1>3
    <2>. QED BY <1>0, <2>1 DEF Made
<1>. QED BY <1>0, <1>1, <1>2, <1>3
\* A step that stays with the program keeps the code of its threads.
LEMMA CodeStays ==
    program' = program =>
        /\ Demos!Started' = Demos!Started
        /\ \A t \in Demos!Thread : Demos!Code(t)' = Demos!Code(t)
        /\ Observed' <=> Observed
BY DEF Demos!Started, Demos!Counting, Demos!Code, Demos!Increments, Demos!Atomic,
       Demos!LockBoth, Demos!Locked, Demos!SetThenLoad, Demos!Number, Observed

\* What an access has in common with the others.
LEMMA AccessFact ==
    ASSUME DemoTypes, NEW t \in Demos!Thread, NEW op, NEW what, Demos!Access(t, op, what)
    PROVE  /\ t <= created /\ t > joined /\ t \in 1 .. Demos!Started
           /\ accesses[t] \in Nat /\ accesses[t] < Len(Demos!Code(t))
           /\ Demos!Code(t)[accesses[t] + 1] = <<op, what>>
           /\ accesses' = [accesses EXCEPT ![t] = @ + 1]
           /\ accesses' \in [Demos!Thread -> Nat] /\ accesses'[t] = accesses[t] + 1
           /\ \A u \in Demos!Thread : u # t => accesses'[u] = accesses[u]
           /\ program' = program /\ created' = created /\ joined' = joined
           /\ i' = i /\ aborted' = aborted
<1>1. t <= created /\ accesses[t] < Len(Demos!Code(t)) /\ accesses[t] \in Nat
      /\ joined <= created /\ joined \in Nat /\ created \in Nat
      /\ created <= Demos!Started /\ t \in Nat /\ t > 0
    BY ThreadFact DEF Demos!Access, Demos!Running, DemoTypes
<1>2. t > joined
    BY <1>1 DEF DemoTypes
<1>3. /\ Demos!Code(t)[accesses[t] + 1] = <<op, what>>
      /\ accesses' = [accesses EXCEPT ![t] = @ + 1]
      /\ program' = program /\ created' = created /\ joined' = joined
      /\ i' = i /\ aborted' = aborted
    BY DEF Demos!Access, Demos!main
<1>4. accesses \in [Demos!Thread -> Nat]
    BY DEF DemoTypes
<1>5. /\ accesses' \in [Demos!Thread -> Nat] /\ accesses'[t] = accesses[t] + 1
      /\ \A u \in Demos!Thread : u # t => accesses'[u] = accesses[u]
    BY <1>3, <1>4
<1>6. t \in 1 .. Demos!Started
    BY <1>1, ThreadFact
<1>. QED
    BY <1>1, <1>2, <1>3, <1>5, <1>6

\* It disturbs the types only where it stores.
LEMMA AccessTypes ==
    ASSUME DemoTypes, NEW t \in Demos!Thread, NEW op, NEW what, Demos!Access(t, op, what),
           memory' \in [Demos!Cell -> Nat], reg' \in [Demos!Thread -> Nat],
           store' \in [Demos!Thread -> Seq(Demos!Cell \X Nat)],
           owner' \in [Demos!Mutex -> Nat],
           \A u \in Demos!Thread : u # t => store'[u] = store[u]
    PROVE  DemoTypes'
<1>1. /\ t <= created /\ t > joined /\ accesses' \in [Demos!Thread -> Nat]
      /\ \A u \in Demos!Thread : u # t => accesses'[u] = accesses[u]
      /\ program' = program /\ created' = created /\ joined' = joined /\ i' = i
    BY AccessFact
<1>2. /\ Demos!Started' = Demos!Started
      /\ \A u \in Demos!Thread : Demos!Code(u)' = Demos!Code(u)
    BY <1>1, CodeStays
<1>0. created \in Nat /\ joined \in Nat /\ t \in Nat
    BY ThreadFact DEF DemoTypes
<1>3. \A u \in Demos!Thread : u > created \/ u <= joined => u # t
    BY <1>0, <1>1
<1>. QED
    BY <1>1, <1>2, <1>3 DEF DemoTypes

\* The oldest store of a buffer leaves it for memory.
LEMMA FlushFact ==
    ASSUME DemoTypes, NEW t \in Demos!Thread, Demos!Flush(t)
    PROVE  /\ DemoTypes' /\ store[t] # << >> /\ t <= created
           /\ store[t] \in Seq(Demos!Cell \X Nat) /\ 1 \in DOMAIN store[t]
           /\ store[t][1] \in Demos!Cell \X Nat
           /\ memory' = [memory EXCEPT ![store[t][1][1]] = store[t][1][2]]
           /\ store'[t] \in Seq(Demos!Cell \X Nat)
           /\ Len(store'[t]) = Len(store[t]) - 1
           /\ \A k \in DOMAIN store'[t] : store'[t][k] = store[t][k + 1]
           /\ \A k \in DOMAIN store[t] : k = 1 \/ k - 1 \in DOMAIN store'[t]
           /\ \A k \in DOMAIN store'[t] : k + 1 \in DOMAIN store[t]
           /\ \A u \in Demos!Thread : u # t => store'[u] = store[u]
           /\ UNCHANGED <<program, reg, owner, accesses, created, joined, i, aborted>>
<1>. DEFINE buffer == store[t]
            rest == Tail(buffer)
<1>1. /\ buffer \in Seq(Demos!Cell \X Nat) /\ buffer # << >>
      /\ memory' = [memory EXCEPT ![Head(buffer)[1]] = Head(buffer)[2]]
      /\ store' = [store EXCEPT ![t] = rest]
      /\ UNCHANGED <<program, reg, owner, accesses, created, joined, i, aborted>>
    BY DEF Demos!Flush, Demos!Drained, Demos!main, DemoTypes
<1>2. /\ Len(buffer) \in Nat /\ Len(buffer) > 0 /\ DOMAIN buffer = 1 .. Len(buffer)
      /\ Head(buffer) = buffer[1] /\ buffer[1] \in Demos!Cell \X Nat
      /\ rest \in Seq(Demos!Cell \X Nat) /\ Len(rest) = Len(buffer) - 1
      /\ DOMAIN rest = 1 .. Len(buffer) - 1
      /\ \A k \in 1 .. Len(buffer) - 1 : rest[k] = buffer[k + 1]
    <2>. HIDE DEF buffer
    <2>1. buffer \in Seq(Demos!Cell \X Nat) /\ buffer # << >>
        BY <1>1
    <2>. QED BY <2>1
<1>3. /\ store'[t] = rest
      /\ store' \in [Demos!Thread -> Seq(Demos!Cell \X Nat)]
      /\ \A u \in Demos!Thread : u # t => store'[u] = store[u]
    <2>. HIDE DEF rest
    <2>. QED BY <1>1, <1>2 DEF DemoTypes
<1>4. buffer[1][1] \in Demos!Cell /\ buffer[1][2] \in Nat
    BY <1>2
<1>5. memory' = [memory EXCEPT ![buffer[1][1]] = buffer[1][2]]
      /\ memory' \in [Demos!Cell -> Nat]
    BY <1>1, <1>2, <1>4 DEF DemoTypes
<1>6. /\ Demos!Started' = Demos!Started
      /\ \A u \in Demos!Thread : Demos!Code(u)' = Demos!Code(u)
    BY <1>1, CodeStays
<1>7. t <= created /\ \A u \in Demos!Thread : u > created \/ u <= joined => u # t
    BY <1>1, ThreadFact DEF DemoTypes
<1>8. DemoTypes'
    BY <1>1, <1>3, <1>5, <1>6, <1>7 DEF DemoTypes
<1>. QED
    BY <1>1, <1>2, <1>3, <1>5, <1>7, <1>8
-----------------------------------------------------------------------------
(* PthreadDemos: no-sync.c *)

\* What a thread of no-sync.c does next.
LEMMA NoSyncAccess ==
    ASSUME program = "no-sync", DemoTypes, NEW t \in Demos!Thread, NEW op, NEW what,
           Demos!Access(t, op, what)
    PROVE  /\ t \in 1 .. THREADS_COUNT /\ what = "counter" /\ accesses[t] < 2 * Rounds
           /\ op = IF accesses[t] % 2 = 0 THEN "load" ELSE "put+1"
           /\ Cardinality(Made(2)') = IF op = "load" THEN Cardinality(Made(2))
                                      ELSE Cardinality(Made(2)) + 1
<1>1. /\ t \in 1 .. Demos!Started /\ accesses[t] \in Nat
      /\ accesses[t] < Len(Demos!Code(t))
      /\ Demos!Code(t)[accesses[t] + 1] = <<op, what>>
      /\ accesses' = [accesses EXCEPT ![t] = @ + 1]
    BY AccessFact
<1>2. t \in 1 .. THREADS_COUNT
    BY <1>1, ThreadFact DEF Demos!Counting
<1>3. accesses[t] + 1 \in 1 .. 2 * Rounds
    BY <1>1, CountingCode, ProgramsAssumption
<1>4. <<op, what>> = IF (accesses[t] + 1) % 2 = 1 THEN <<"load", "counter">>
                     ELSE <<"put+1", "counter">>
    BY <1>1, <1>3, CountingCode
<1>5. /\ what = "counter"
      /\ op = IF accesses[t] % 2 = 0 THEN "load" ELSE "put+1"
    BY <1>1, <1>4, OddFact
<1>6. accesses[t] < 2 * Rounds
    BY <1>1, <1>3, ProgramsAssumption
<1>7. accesses \in [Demos!Thread -> Nat]
    BY DEF DemoTypes
<1>8. Cardinality(Made(2)') = IF accesses[t] % 2 = 1 THEN Cardinality(Made(2)) + 1
                              ELSE Cardinality(Made(2))
    BY <1>1, <1>2, <1>6, <1>7, MadeStep
<1>. QED
    BY <1>1, <1>2, <1>5, <1>6, <1>8, OddFact

\* It reads its latest buffered store, or memory.
LEMMA NoSyncValue ==
    ASSUME program = "no-sync", DemoTypes, Counted, NEW t \in Demos!Thread
    PROVE  /\ Demos!Value(t, "counter") \in Nat
           /\ Demos!Value(t, "counter") <= Cardinality(Made(2))
           /\ accesses[t] > 1 => Demos!Value(t, "counter") > 0
<1>. DEFINE own == {k \in DOMAIN store[t] : store[t][k][1] = "counter"}
<1>1. /\ store[t] \in Seq(Demos!Cell \X Nat)
      /\ memory["counter"] \in Nat /\ memory["counter"] <= Cardinality(Made(2))
      /\ accesses[t] > 1 => store[t] # << >> \/ memory["counter"] > 0
      /\ \A k \in DOMAIN store[t] : /\ store[t][k][1] = "counter"
                                    /\ store[t][k][2] \in 1 .. Cardinality(Made(2))
    BY DEF DemoTypes, Counted, Demos!Cell
<1>2. own = 1 .. Len(store[t]) /\ Len(store[t]) \in Nat
    BY <1>1
<1>3. CASE store[t] = << >>
    <2>1. own = {}
        BY <1>3, <1>2
    <2>2. Demos!Value(t, "counter") = memory["counter"]
        BY <2>1 DEF Demos!Value
    <2>. QED BY <1>1, <1>3, <2>2
<1>4. CASE store[t] # << >>
    <2>1. own # {} /\ Len(store[t]) \in DOMAIN store[t]
        BY <1>1, <1>2, <1>4
    <2>2. Demos!Max(own) \in own
        <3>1. Len(store[t]) \in own /\ \A k \in own : Len(store[t]) >= k
            BY <1>2, <2>1
        <3>. QED BY <3>1 DEF Demos!Max
    <2>3. Demos!Value(t, "counter") = store[t][Demos!Max(own)][2]
        BY <2>1 DEF Demos!Value
    <2>4. Demos!Max(own) \in DOMAIN store[t]
        BY <2>2
    <2>5. Demos!Value(t, "counter") \in 1 .. Cardinality(Made(2))
        BY <1>1, <2>3, <2>4
    <2>. QED BY <2>5
<1>. QED BY <1>3, <1>4

\* A load brings no more than the increments made.
LEMMA NoSyncLoad ==
    ASSUME program = "no-sync", DemoTypes, Counted, NEW t \in Demos!Thread,
           NEW cell \in Demos!Cell, Demos!Load(t, cell)
    PROVE  DemoTypes' /\ Counted'
<1>. DEFINE value == Demos!Value(t, "counter")
            made == Cardinality(Made(2))
            made2 == Cardinality(Made(2)')
<1>0. Demos!Access(t, "load", cell)
    BY DEF Demos!Load
<1>1. /\ cell = "counter" /\ made2 = made /\ accesses[t] < 2 * Rounds
      /\ accesses[t] % 2 = 0
    BY <1>0, NoSyncAccess
<1>2. value \in Nat /\ value <= made /\ (accesses[t] > 1 => value > 0)
    BY NoSyncValue
<1>3. reg' = [reg EXCEPT ![t] = value] /\ UNCHANGED <<memory, store, owner>>
    BY <1>1 DEF Demos!Load
<1>4. DemoTypes'
    <2>1. /\ reg' \in [Demos!Thread -> Nat] /\ memory' \in [Demos!Cell -> Nat]
          /\ store' \in [Demos!Thread -> Seq(Demos!Cell \X Nat)]
          /\ owner' \in [Demos!Mutex -> Nat]
        BY <1>2, <1>3 DEF DemoTypes
    <2>. QED BY <1>0, <1>3, <2>1, AccessTypes
<1>5. /\ accesses[t] \in Nat /\ accesses'[t] = accesses[t] + 1
      /\ \A u \in Demos!Thread : u # t => accesses'[u] = accesses[u]
      /\ program' = program
    BY <1>0, AccessFact
<1>6. /\ reg'[t] = value /\ \A u \in Demos!Thread : u # t => reg'[u] = reg[u]
    BY <1>3 DEF DemoTypes
<1>7. accesses[t] > 0 => accesses[t] > 1
    BY <1>1, <1>5
<1>. HIDE DEF value, made, made2
<1>8. /\ \A u \in Demos!Thread :
            /\ accesses'[u] <= 2 * Rounds
            /\ reg'[u] <= made
            /\ accesses'[u] > 1 => store[u] # << >> \/ memory["counter"] > 0
            /\ accesses'[u] > 2 => reg'[u] > 0
            /\ accesses'[u] > 3 /\ store[u] # << >> => store[u][Len(store[u])][2] > 1
            /\ \A k \in DOMAIN store[u] : store[u][k][1] = "counter"
                                          /\ store[u][k][2] \in 1 .. made
      /\ memory["counter"] <= made
    <2>1. /\ memory["counter"] <= made
          /\ \A u \in Demos!Thread :
              /\ accesses[u] <= 2 * Rounds
              /\ reg[u] <= made
              /\ accesses[u] > 1 => store[u] # << >> \/ memory["counter"] > 0
              /\ accesses[u] > 2 => reg[u] > 0
              /\ accesses[u] > 3 /\ store[u] # << >> => store[u][Len(store[u])][2] > 1
              /\ \A k \in DOMAIN store[u] : store[u][k][1] = "counter"
                                            /\ store[u][k][2] \in 1 .. made
        BY DEF Counted, made
    <2>2. /\ accesses[t] + 1 <= 2 * Rounds
          /\ accesses[t] + 1 > 1 => accesses[t] > 1
          /\ accesses[t] + 1 > 2 => accesses[t] > 1
          /\ accesses[t] + 1 > 3 => accesses[t] > 3 \/ accesses[t] = 3
          /\ accesses[t] # 3
        BY <1>1, <1>5, <1>7, ProgramsAssumption
    <2>. QED BY <1>2, <1>5, <1>6, <2>1, <2>2
<1>9. t \in 1 .. THREADS_COUNT /\ accesses'[t] # 2 * Rounds
    <2>1. t \in 1 .. THREADS_COUNT
        BY <1>0, NoSyncAccess
    <2>2. (accesses[t] + 1) % 2 = 1
        BY <1>1, <1>5, OddFact
    <2>3. (2 * Rounds) % 2 = 0
        BY ProgramsAssumption
    <2>. QED BY <1>5, <2>1, <2>2, <2>3
<1>. QED
    BY <1>1, <1>3, <1>4, <1>5, <1>8, <1>9 DEF Counted, made, made2

\* A store puts one more than was loaded at the end of the buffer.
LEMMA NoSyncStore ==
    ASSUME program = "no-sync", DemoTypes, Counted, NEW t \in Demos!Thread,
           NEW cell \in Demos!Cell, NEW op, Demos!Store(t, op, cell)
    PROVE  DemoTypes' /\ Counted'
<1>. DEFINE value == reg[t] + 1
            made == Cardinality(Made(2))
            made2 == Cardinality(Made(2)')
            entry == <<"counter", value>>
            buffer == store[t]
            longer == Append(buffer, entry)
<1>0. Demos!Access(t, op, cell) /\ op \in {"set", "put", "put+1"}
    BY DEF Demos!Store
<1>1. /\ t \in 1 .. THREADS_COUNT /\ cell = "counter" /\ accesses[t] < 2 * Rounds
      /\ op = "put+1" /\ made2 = made + 1 /\ accesses[t] % 2 # 0
    BY <1>0, NoSyncAccess
<1>2. /\ accesses[t] \in Nat /\ accesses'[t] = accesses[t] + 1
      /\ \A u \in Demos!Thread : u # t => accesses'[u] = accesses[u]
      /\ program' = program
    BY <1>0, AccessFact
<1>3. /\ store' = [store EXCEPT ![t] = longer] /\ UNCHANGED <<memory, reg, owner>>
    BY <1>1 DEF Demos!Store, Demos!Atomic
<1>4. /\ reg[t] \in Nat /\ value \in Nat /\ value > 0 /\ value <= made2
      /\ accesses[t] > 2 => value > 1
      /\ made \in Nat /\ made2 \in Nat
    <2>1. reg[t] \in Nat /\ reg[t] <= made /\ (accesses[t] > 2 => reg[t] > 0)
        BY DEF DemoTypes, Counted
    <2>2. made \in Nat
        BY MadeFact
    <2>. HIDE DEF made, made2
    <2>. QED BY <1>1, <2>1, <2>2
<1>5. "counter" \in Demos!Cell /\ entry \in Demos!Cell \X Nat
    BY <1>4 DEF Demos!Cell
<1>6. buffer \in Seq(Demos!Cell \X Nat)
    BY DEF DemoTypes
<1>7. /\ longer \in Seq(Demos!Cell \X Nat) /\ longer # << >>
      /\ Len(longer) = Len(buffer) + 1 /\ Len(longer) \in DOMAIN longer
      /\ longer[Len(longer)] = entry
      /\ \A k \in DOMAIN longer :
            longer[k] = entry \/ (k \in DOMAIN buffer /\ longer[k] = buffer[k])
    <2>. HIDE DEF buffer, entry
    <2>1. /\ longer \in Seq(Demos!Cell \X Nat) /\ longer # << >>
          /\ Len(longer) = Len(buffer) + 1 /\ Len(buffer) \in Nat
          /\ longer[Len(buffer) + 1] = entry
          /\ \A k \in 1 .. Len(buffer) : longer[k] = buffer[k]
        BY <1>5, <1>6, AppendProperties, LenProperties
    <2>2. DOMAIN longer = 1 .. Len(buffer) + 1 /\ DOMAIN buffer = 1 .. Len(buffer)
        BY <1>6, <2>1, LenProperties
    <2>. HIDE DEF longer
    <2>4. ASSUME NEW k \in DOMAIN longer
          PROVE  longer[k] = entry \/ (k \in DOMAIN buffer /\ longer[k] = buffer[k])
        <3>1. CASE k = Len(buffer) + 1
            BY <2>1, <3>1
        <3>2. CASE k # Len(buffer) + 1
            <4>1. k \in 1 .. Len(buffer)
                BY <2>1, <2>2, <3>2
            <4>. QED BY <2>1, <2>2, <4>1
        <3>. QED BY <3>1, <3>2
    <2>5. Len(longer) \in DOMAIN longer /\ longer[Len(longer)] = entry
        BY <2>1, <2>2
    <2>. QED BY <2>1, <2>4, <2>5
<1>8. /\ store' \in [Demos!Thread -> Seq(Demos!Cell \X Nat)] /\ store'[t] = longer
      /\ \A u \in Demos!Thread : u # t => store'[u] = store[u]
    <2>. HIDE DEF longer
    <2>. QED BY <1>3, <1>7 DEF DemoTypes
<1>9. DemoTypes'
    <2>1. /\ reg' \in [Demos!Thread -> Nat] /\ memory' \in [Demos!Cell -> Nat]
          /\ owner' \in [Demos!Mutex -> Nat]
        BY <1>3 DEF DemoTypes
    <2>. QED BY <1>0, <1>8, <2>1, AccessTypes
<1>10. /\ memory["counter"] <= made
       /\ \A u \in Demos!Thread :
              /\ accesses[u] <= 2 * Rounds
              /\ reg[u] <= made
              /\ accesses[u] > 1 => store[u] # << >> \/ memory["counter"] > 0
              /\ accesses[u] > 2 => reg[u] > 0
              /\ accesses[u] > 3 /\ store[u] # << >> => store[u][Len(store[u])][2] > 1
              /\ \A k \in DOMAIN store[u] : store[u][k][1] = "counter"
                                            /\ store[u][k][2] \in 1 .. made
       /\ memory["counter"] \in Nat /\ \A u \in Demos!Thread : reg[u] \in Nat
    BY DEF Counted, DemoTypes, Demos!Cell
<1>11. memory["counter"] <= made2 /\ (\A u \in Demos!Thread : reg[u] <= made2)
    <2>. HIDE DEF made, made2
    <2>. QED BY <1>1, <1>4, <1>10
<1>12. ASSUME NEW u \in Demos!Thread, u # t
       PROVE  /\ accesses'[u] <= 2 * Rounds
              /\ accesses'[u] > 1 => store'[u] # << >> \/ memory["counter"] > 0
              /\ accesses'[u] > 2 => reg[u] > 0
              /\ accesses'[u] > 3 /\ store'[u] # << >> => store'[u][Len(store'[u])][2] > 1
              /\ \A k \in DOMAIN store'[u] : store'[u][k][1] = "counter"
                                            /\ store'[u][k][2] \in 1 .. made2
    <2>1. \A n \in 1 .. made : n \in 1 .. made2
        <3>. HIDE DEF made, made2
        <3>. QED BY <1>1, <1>4
    <2>2. store'[u] = store[u] /\ accesses'[u] = accesses[u]
        BY <1>2, <1>8, <1>12
    <2>3. \A k \in DOMAIN store[u] : store[u][k][1] = "counter"
                                    /\ store[u][k][2] \in 1 .. made2
        <3>. HIDE DEF made, made2
        <3>. QED BY <1>10, <2>1
    <2>4. /\ accesses[u] <= 2 * Rounds
          /\ accesses[u] > 1 => store[u] # << >> \/ memory["counter"] > 0
          /\ accesses[u] > 2 => reg[u] > 0
          /\ accesses[u] > 3 /\ store[u] # << >> => store[u][Len(store[u])][2] > 1
        BY <1>10
    <2>. HIDE DEF made2
    <2>. QED BY <2>2, <2>3, <2>4
<1>13. /\ accesses'[t] <= 2 * Rounds
       /\ accesses'[t] > 1 => store'[t] # << >> \/ memory["counter"] > 0
       /\ accesses'[t] > 2 => reg[t] > 0
       /\ accesses'[t] > 3 /\ store'[t] # << >> => store'[t][Len(store'[t])][2] > 1
       /\ \A k \in DOMAIN store'[t] : store'[t][k][1] = "counter"
                                     /\ store'[t][k][2] \in 1 .. made2
    <2>1. /\ accesses'[t] <= 2 * Rounds
          /\ accesses'[t] > 2 => accesses[t] > 2
          /\ accesses'[t] > 3 => accesses[t] > 2
        BY <1>1, <1>2, ProgramsAssumption
    <2>2. entry[1] = "counter" /\ entry[2] = value /\ value \in 1 .. made2
        <3>. HIDE DEF made2, value
        <3>. QED BY <1>4
    <2>3. \A k \in DOMAIN longer : longer[k][1] = "counter" /\ longer[k][2] \in 1 .. made2
        <3>1. \A n \in 1 .. made : n \in 1 .. made2
            <4>. HIDE DEF made, made2
            <4>. QED BY <1>1, <1>4
        <3>2. \A k \in DOMAIN buffer : buffer[k][1] = "counter" /\ buffer[k][2] \in 1 .. made2
            <4>. HIDE DEF made, made2
            <4>. QED BY <1>10, <3>1
        <3>. HIDE DEF longer, buffer, entry, made2
        <3>. QED BY <1>7, <2>2, <3>2
    <2>4. accesses'[t] > 3 => longer[Len(longer)][2] > 1
        <3>. HIDE DEF longer, entry, value
        <3>. QED BY <1>4, <1>7, <2>1, <2>2
    <2>5. accesses'[t] > 2 => reg[t] > 0
        BY <1>10, <2>1
    <2>. HIDE DEF longer, made2
    <2>. QED BY <1>7, <1>8, <2>1, <2>3, <2>4, <2>5
<1>14. t \in 1 .. THREADS_COUNT /\ store'[t] # << >>
    <2>. HIDE DEF longer
    <2>. QED BY <1>1, <1>7, <1>8
<1>15. \A u \in Demos!Thread :
       /\ accesses'[u] <= 2 * Rounds
       /\ reg'[u] <= made2
       /\ \A k \in DOMAIN store'[u] : store'[u][k][1] = "counter"
                                     /\ store'[u][k][2] \in 1 .. made2
       /\ accesses'[u] > 1 => store'[u] # << >> \/ memory'["counter"] > 0
       /\ accesses'[u] > 2 => reg'[u] > 0
       /\ accesses'[u] > 3 /\ store'[u] # << >> => store'[u][Len(store'[u])][2] > 1
    <2>. HIDE DEF made2
    <2>. QED BY <1>3, <1>11, <1>12, <1>13
<1>. QED
    BY <1>3, <1>9, <1>11, <1>14, <1>15 DEF Counted

\* The oldest store of a buffer counts as much as before when it is in memory.
LEMMA NoSyncFlush ==
    ASSUME program = "no-sync", DemoTypes, Counted, NEW t \in Demos!Thread, Demos!Flush(t)
    PROVE  DemoTypes' /\ Counted'
<1>. DEFINE made == Cardinality(Made(2))
            value == store[t][1][2]
<1>1. /\ DemoTypes' /\ store[t] # << >> /\ 1 \in DOMAIN store[t]
      /\ store[t] \in Seq(Demos!Cell \X Nat) /\ store'[t] \in Seq(Demos!Cell \X Nat)
      /\ memory' = [memory EXCEPT ![store[t][1][1]] = value]
      /\ Len(store'[t]) = Len(store[t]) - 1
      /\ \A k \in DOMAIN store'[t] : store'[t][k] = store[t][k + 1] /\ k + 1 \in DOMAIN store[t]
      /\ \A u \in Demos!Thread : u # t => store'[u] = store[u]
      /\ program' = program /\ reg' = reg /\ accesses' = accesses
    BY FlushFact
<1>2. /\ memory["counter"] <= made
      /\ \A u \in Demos!Thread :
             /\ accesses[u] <= 2 * Rounds
             /\ reg[u] <= made
             /\ accesses[u] > 1 => store[u] # << >> \/ memory["counter"] > 0
             /\ accesses[u] > 2 => reg[u] > 0
             /\ accesses[u] > 3 /\ store[u] # << >> => store[u][Len(store[u])][2] > 1
             /\ \A k \in DOMAIN store[u] : store[u][k][1] = "counter"
                                           /\ store[u][k][2] \in 1 .. made
      /\ made \in Nat
    BY MadeFact DEF Counted
<1>3. Made(2)' = Made(2)
    BY <1>1 DEF Made
<1>4. store[t][1][1] = "counter" /\ value \in 1 .. made
    BY <1>1, <1>2
<1>5. memory'["counter"] = value
    BY <1>1, <1>4 DEF DemoTypes, Demos!Cell
<1>. HIDE DEF made, value
<1>6. value > 0 /\ value <= made /\ value \in Nat
    BY <1>2, <1>4
<1>7. /\ Len(store[t]) \in Nat /\ Len(store'[t]) \in Nat
      /\ store'[t] # << >> => Len(store'[t]) \in DOMAIN store'[t]
                              /\ store'[t][Len(store'[t])] = store[t][Len(store[t])]
      /\ store'[t] = << >> => Len(store[t]) = 1
    <2>. DEFINE old == store[t]
                new == store'[t]
    <2>1. /\ old \in Seq(Demos!Cell \X Nat) /\ new \in Seq(Demos!Cell \X Nat)
          /\ Len(new) = Len(old) - 1
          /\ \A k \in DOMAIN new : new[k] = old[k + 1]
        BY <1>1
    <2>. HIDE DEF old, new
    <2>2. Len(old) \in Nat /\ Len(new) \in Nat
        BY <2>1
    <2>3. new # << >> => Len(new) \in DOMAIN new /\ new[Len(new)] = old[Len(old)]
        <3>1. new # << >> => Len(new) \in DOMAIN new
            BY <2>1, <2>2
        <3>2. Len(new) + 1 = Len(old)
            BY <2>1, <2>2
        <3>. QED BY <2>1, <3>1, <3>2
    <2>4. new = << >> => Len(old) = 1
        BY <2>1, <2>2
    <2>. QED BY <2>2, <2>3, <2>4 DEF old, new
<1>8. ASSUME NEW u \in Demos!Thread
      PROVE  /\ accesses[u] <= 2 * Rounds
             /\ reg[u] <= made
             /\ \A k \in DOMAIN store'[u] : store'[u][k][1] = "counter"
                                           /\ store'[u][k][2] \in 1 .. made
             /\ accesses[u] > 2 => reg[u] > 0
             /\ accesses[u] > 3 /\ store'[u] # << >> => store'[u][Len(store'[u])][2] > 1
    <2>1. CASE u = t
        <3>1. \A k \in DOMAIN store'[t] : store'[t][k][1] = "counter"
                                          /\ store'[t][k][2] \in 1 .. made
            <4>1. /\ \A k \in DOMAIN store[t] : store[t][k][1] = "counter"
                                               /\ store[t][k][2] \in 1 .. made
                  /\ \A k \in DOMAIN store'[t] :
                        store'[t][k] = store[t][k + 1] /\ k + 1 \in DOMAIN store[t]
                BY <1>1, <1>2
            <4>. QED BY <4>1
        <3>2. accesses[t] > 3 /\ store'[t] # << >> => store'[t][Len(store'[t])][2] > 1
            BY <1>1, <1>2, <1>7
        <3>. QED BY <1>2, <2>1, <3>1, <3>2
    <2>2. CASE u # t
        <3>1. store'[u] = store[u]
            BY <1>1, <2>2
        <3>2. /\ accesses[u] <= 2 * Rounds
              /\ reg[u] <= made
              /\ \A k \in DOMAIN store[u] : store[u][k][1] = "counter"
                                            /\ store[u][k][2] \in 1 .. made
              /\ accesses[u] > 2 => reg[u] > 0
              /\ accesses[u] > 3 /\ store[u] # << >> => store[u][Len(store[u])][2] > 1
            BY <1>2
        <3>. QED BY <3>1, <3>2
    <2>. QED BY <2>1, <2>2
<1>9. (\A u \in 1 .. THREADS_COUNT : accesses[u] = 2 * Rounds /\ store'[u] = << >>)
         => memory'["counter"] > 1
    <2>. SUFFICES ASSUME \A u \in 1 .. THREADS_COUNT : accesses[u] = 2 * Rounds
                                                       /\ store'[u] = << >>
                  PROVE  value > 1
        BY <1>5
    <2>1. t \in 1 .. THREADS_COUNT
        <3>1. /\ t <= created /\ created \in Nat /\ created <= Demos!Started
              /\ Demos!Started = THREADS_COUNT /\ t \in Nat /\ t > 0
            BY FlushFact, ThreadFact DEF DemoTypes, Demos!Counting
        <3>. QED BY <3>1, ProgramsAssumption
    <2>2. accesses[t] > 3
        BY <2>1, ProgramsAssumption
    <2>3. Len(store[t]) = 1
        BY <1>7, <2>1
    <2>. QED BY <1>1, <1>2, <2>2, <2>3 DEF value
<1>. QED
    BY <1>1, <1>3, <1>5, <1>6, <1>8, <1>9 DEF Counted, made

\* A thread of no-sync.c keeps the bounds.
LEMMA NoSyncThread ==
    ASSUME program = "no-sync", DemoTypes, Counted, NEW t \in Demos!Thread,
           Demos!ThreadStep(t) \/ Demos!Flush(t)
    PROVE  DemoTypes' /\ Counted'
<1>1. ASSUME NEW cell \in Demos!Cell, Demos!Increment(t, cell) PROVE FALSE
    <2>1. Demos!Access(t, "inc", cell)
        BY <1>1 DEF Demos!Increment
    <2>. QED BY <2>1, NoSyncAccess
<1>2. ASSUME NEW m \in Demos!Mutex, Demos!Lock(t, m) \/ Demos!Unlock(t, m) PROVE FALSE
    <2>1. Demos!Access(t, "lock", m) \/ Demos!Access(t, "unlock", m)
        BY <1>2 DEF Demos!Lock, Demos!Unlock
    <2>. QED BY <2>1, NoSyncAccess
<1>. QED
    BY <1>1, <1>2, NoSyncLoad, NoSyncStore, NoSyncFlush DEF Demos!ThreadStep
-----------------------------------------------------------------------------
(* PthreadDemos: no-sync-fix.c and multiple-create.c *)

\* An empty buffer hides nothing.
LEMMA ValueOfMemory ==
    ASSUME NEW t, NEW cell, store[t] = << >> PROVE Demos!Value(t, cell) = memory[cell]
<1>1. {k \in DOMAIN store[t] : store[t][k][1] = cell} = {}
    OBVIOUS
<1>. QED BY <1>1 DEF Demos!Value

\* A thread of no-sync-fix.c increments the counter.
LEMMA FixThread ==
    ASSUME program = "no-sync-fix", DemoTypes, Incremented, NEW t \in Demos!Thread,
           Demos!ThreadStep(t) \/ Demos!Flush(t)
    PROVE  DemoTypes' /\ Incremented'
<1>1. ASSUME NEW op, NEW what, Demos!Access(t, op, what)
      PROVE  /\ op = "inc" /\ what = "counter" /\ accesses[t] < Rounds
             /\ Cardinality(Made(1)') = Cardinality(Made(1)) + 1
    <2>1. /\ t \in 1 .. Demos!Started /\ accesses[t] \in Nat
          /\ accesses[t] < Len(Demos!Code(t))
          /\ Demos!Code(t)[accesses[t] + 1] = <<op, what>>
          /\ accesses' = [accesses EXCEPT ![t] = @ + 1]
        BY <1>1, AccessFact
    <2>2. t \in 1 .. THREADS_COUNT
        BY <2>1, ThreadFact DEF Demos!Counting
    <2>3. accesses[t] < Rounds /\ accesses[t] + 1 \in 1 .. Rounds
        BY <2>1, CountingCode, ProgramsAssumption
    <2>4. <<op, what>> = <<"inc", "counter">>
        BY <2>1, <2>3, CountingCode
    <2>5. accesses \in [Demos!Thread -> Nat]
        BY DEF DemoTypes
    <2>. QED BY <2>1, <2>2, <2>3, <2>4, <2>5, MadeStep
<1>2. ~Demos!Flush(t)
    BY DEF Incremented, Demos!Flush, Demos!Drained
<1>3. ASSUME NEW cell \in Demos!Cell, Demos!Load(t, cell) PROVE FALSE
    BY <1>1, <1>3 DEF Demos!Load
<1>4. ASSUME NEW cell \in Demos!Cell, NEW op, Demos!Store(t, op, cell) PROVE FALSE
    <2>1. Demos!Access(t, op, cell) /\ op \in {"set", "put", "put+1"}
        BY <1>4 DEF Demos!Store
    <2>. QED BY <1>1, <2>1
<1>5. ASSUME NEW m \in Demos!Mutex, Demos!Lock(t, m) \/ Demos!Unlock(t, m) PROVE FALSE
    <2>1. Demos!Access(t, "lock", m) \/ Demos!Access(t, "unlock", m)
        BY <1>5 DEF Demos!Lock, Demos!Unlock
    <2>. QED BY <1>1, <2>1
<1>6. PICK cell \in Demos!Cell : Demos!Increment(t, cell)
    BY <1>2, <1>3, <1>4, <1>5 DEF Demos!ThreadStep
<1>7. Demos!Access(t, "inc", cell)
    BY <1>6 DEF Demos!Increment
<1>8. /\ cell = "counter" /\ accesses[t] < Rounds
      /\ Cardinality(Made(1)') = Cardinality(Made(1)) + 1
    BY <1>1, <1>7
<1>9. /\ memory' = [memory EXCEPT !["counter"] = @ + 1]
      /\ UNCHANGED <<store, reg, owner>>
    BY <1>6, <1>8 DEF Demos!Increment
<1>10. /\ memory' \in [Demos!Cell -> Nat] /\ memory'["counter"] = memory["counter"] + 1
    BY <1>9 DEF DemoTypes, Demos!Cell
<1>11. DemoTypes'
    <2>1. /\ reg' \in [Demos!Thread -> Nat] /\ owner' \in [Demos!Mutex -> Nat]
          /\ store' \in [Demos!Thread -> Seq(Demos!Cell \X Nat)]
          /\ \A u \in Demos!Thread : u # t => store'[u] = store[u]
        BY <1>9 DEF DemoTypes
    <2>. QED BY <1>7, <1>10, <2>1, AccessTypes
<1>12. /\ accesses[t] \in Nat /\ accesses'[t] = accesses[t] + 1 /\ program' = program
       /\ \A u \in Demos!Thread : u # t => accesses'[u] = accesses[u]
    BY <1>7, AccessFact
<1>13. memory'["counter"] = Cardinality(Made(1)')
    BY <1>8, <1>10 DEF Incremented
<1>14. \A u \in Demos!Thread : store'[u] = << >> /\ accesses'[u] <= Rounds
    BY <1>8, <1>9, <1>12, ProgramsAssumption DEF Incremented
<1>. QED
    BY <1>11, <1>13, <1>14 DEF Incremented

\* A thread of multiple-create.c reads its number.
LEMMA CreatedThread ==
    ASSUME program = "multiple-create", DemoTypes, Numbered, NEW t \in Demos!Thread,
           Demos!ThreadStep(t) \/ Demos!Flush(t)
    PROVE  DemoTypes' /\ Numbered'
<1>1. ASSUME NEW op, NEW what, Demos!Access(t, op, what)
      PROVE  op = "load" /\ what = Demos!Number(t) /\ accesses[t] = 0 /\ t \in {1, 2}
    <2>1. /\ t \in 1 .. Demos!Started /\ accesses[t] \in Nat
          /\ accesses[t] < Len(Demos!Code(t))
          /\ Demos!Code(t)[accesses[t] + 1] = <<op, what>>
        BY <1>1, AccessFact
    <2>2. t \in {1, 2}
        BY <2>1, ThreadFact DEF Demos!Counting
    <2>3. accesses[t] = 0
        BY <2>1, CountingCode
    <2>4. <<op, what>> = <<"load", Demos!Number(t)>>
        BY <2>1, <2>3, CountingCode
    <2>. QED BY <2>2, <2>3, <2>4
<1>2. ~Demos!Flush(t)
    <2>1. ASSUME Demos!Flush(t) PROVE FALSE
        <3>1. t <= created /\ store[t] # << >>
            BY <2>1, FlushFact
        <3>2. t \in {1, 2}
            <4>1. created \in Nat /\ created <= Demos!Started
                BY DEF DemoTypes
            <4>2. Demos!Started = 2 /\ t \in Nat /\ t > 0
                BY ThreadFact DEF Demos!Counting
            <4>. QED BY <3>1, <4>1, <4>2
        <3>. QED BY <3>1, <3>2 DEF Numbered
    <2>. QED BY <2>1
<1>3. ASSUME NEW cell \in Demos!Cell, Demos!Increment(t, cell) PROVE FALSE
    <2>1. Demos!Access(t, "inc", cell)
        BY <1>3 DEF Demos!Increment
    <2>. QED BY <1>1, <2>1
<1>4. ASSUME NEW cell \in Demos!Cell, NEW op, Demos!Store(t, op, cell) PROVE FALSE
    <2>1. Demos!Access(t, op, cell) /\ op \in {"set", "put", "put+1"}
        BY <1>4 DEF Demos!Store
    <2>. QED BY <1>1, <2>1
<1>5. ASSUME NEW m \in Demos!Mutex, Demos!Lock(t, m) \/ Demos!Unlock(t, m) PROVE FALSE
    <2>1. Demos!Access(t, "lock", m) \/ Demos!Access(t, "unlock", m)
        BY <1>5 DEF Demos!Lock, Demos!Unlock
    <2>. QED BY <1>1, <2>1
<1>6. PICK cell \in Demos!Cell : Demos!Load(t, cell)
    BY <1>2, <1>3, <1>4, <1>5 DEF Demos!ThreadStep
<1>7. Demos!Access(t, "load", cell)
    BY <1>6 DEF Demos!Load
<1>8. cell = Demos!Number(t) /\ accesses[t] = 0 /\ t \in {1, 2}
    BY <1>1, <1>7
<1>9. /\ t <= created /\ accesses'[t] = 1 /\ program' = program /\ created' = created
      /\ \A u \in Demos!Thread : u # t => accesses'[u] = accesses[u]
    BY <1>7, <1>8, AccessFact
<1>10. Demos!Value(t, cell) = t - 1
    <2>1. store[t] = << >> /\ memory[Demos!Number(t)] = t - 1
        BY <1>8, <1>9 DEF Numbered
    <2>. QED BY <1>8, <2>1, ValueOfMemory
<1>11. reg' = [reg EXCEPT ![t] = t - 1] /\ UNCHANGED <<memory, store, owner>>
    BY <1>6, <1>10 DEF Demos!Load
<1>12. /\ reg' \in [Demos!Thread -> Nat] /\ reg'[t] = t - 1
       /\ \A u \in Demos!Thread : u # t => reg'[u] = reg[u]
    BY <1>8, <1>11 DEF DemoTypes
<1>13. DemoTypes'
    <2>1. /\ memory' \in [Demos!Cell -> Nat] /\ owner' \in [Demos!Mutex -> Nat]
          /\ store' \in [Demos!Thread -> Seq(Demos!Cell \X Nat)]
          /\ \A u \in Demos!Thread : u # t => store'[u] = store[u]
        BY <1>11 DEF DemoTypes
    <2>. QED BY <1>7, <1>12, <2>1, AccessTypes
<1>14. \A u : Demos!Number(u)' = Demos!Number(u)
    BY DEF Demos!Number
<1>15. \A u \in {1, 2} :
          /\ store'[u] = << >> /\ accesses'[u] <= 1
          /\ u <= created' => memory'[Demos!Number(u)] = u - 1
          /\ accesses'[u] = 1 => reg'[u] = u - 1
    BY <1>9, <1>11, <1>12, ThreadFact DEF Numbered
<1>. QED
    BY <1>13, <1>14, <1>15 DEF Numbered
-----------------------------------------------------------------------------
(* PthreadDemos: faulty/atomic.c and faulty/mutex.c *)

\* Each thread has its own cells, and loads the other's.
LEMMA TestCells ==
    ASSUME NEW t \in {1, 2}
    PROVE  /\ Own(t) \in Demos!Cell /\ Other(t) \in Demos!Cell /\ Out(t) \in Demos!Cell
           /\ Own(t) # Out(t)
           /\ \A u \in {1, 2} : u # t => /\ Own(u) # Own(t) /\ Own(u) # Out(t)
                                         /\ Out(u) # Own(t) /\ Out(u) # Out(t)
                                         /\ Other(t) = Own(u)
BY DEF Own, Other, Out, Demos!Cell

\* What a thread does next.
LEMMA TestAccess ==
    ASSUME program \in {"atomic", "mutex"}, DemoTypes, NEW t \in Demos!Thread,
           NEW op, NEW what, Demos!Access(t, op, what)
    PROVE  /\ t \in {1, 2}
           /\ \/ accesses[t] = Before /\ op = "set" /\ what = Own(t)
              \/ accesses[t] = Before + 1 /\ op = "load" /\ what = Other(t)
              \/ accesses[t] = Before + 2 /\ op = "put" /\ what = Out(t)
              \/ program = "mutex" /\ accesses[t] = 0 /\ op = "lock" /\ what = "mutex"
              \/ program = "mutex" /\ accesses[t] = 4 /\ op = "unlock" /\ what = "mutex"
<1>1. /\ t \in 1 .. Demos!Started /\ accesses[t] \in Nat
      /\ accesses[t] < Len(Demos!Code(t))
      /\ Demos!Code(t)[accesses[t] + 1] = <<op, what>>
    BY AccessFact
<1>2. t \in {1, 2}
    BY <1>1, ThreadFact DEF Demos!Counting
<1>3. accesses[t] < IF program = "mutex" THEN 5 ELSE 3
    BY <1>1, <1>2, TestingCode
<1>4. \/ accesses[t] = Before \/ accesses[t] = Before + 1 \/ accesses[t] = Before + 2
      \/ program = "mutex" /\ accesses[t] = 0
      \/ program = "mutex" /\ accesses[t] = 4
    BY <1>1, <1>3 DEF Before
<1>6. CASE accesses[t] = Before
    <2>1. <<op, what>> = <<"set", Own(t)>>
        BY <1>1, <1>2, <1>6, TestingCode
    <2>. QED BY <1>2, <1>6, <2>1
<1>7. CASE accesses[t] = Before + 1
    <2>1. (Before + 1) + 1 = Before + 2
        BY DEF Before
    <2>2. <<op, what>> = <<"load", Other(t)>>
        BY <1>1, <1>2, <1>7, <2>1, TestingCode
    <2>. QED BY <1>2, <1>7, <2>2
<1>8. CASE accesses[t] = Before + 2
    <2>1. (Before + 2) + 1 = Before + 3
        BY DEF Before
    <2>2. <<op, what>> = <<"put", Out(t)>>
        BY <1>1, <1>2, <1>8, <2>1, TestingCode
    <2>. QED BY <1>2, <1>8, <2>2
<1>9. CASE program = "mutex" /\ accesses[t] = 0
    <2>1. <<op, what>> = <<"lock", "mutex">>
        BY <1>1, <1>2, <1>9, TestingCode
    <2>. QED BY <1>2, <1>9, <2>1
<1>10. CASE program = "mutex" /\ accesses[t] = 4
    <2>1. <<op, what>> = <<"unlock", "mutex">>
        BY <1>1, <1>2, <1>10, TestingCode
    <2>. QED BY <1>2, <1>10, <2>1
<1>. QED BY <1>4, <1>6, <1>7, <1>8, <1>9, <1>10

\* The thread that takes no step keeps its part.
LEMMA IdleTester ==
    ASSUME program' = program, NEW u \in {1, 2}, TestedBy(u),
           accesses'[u] = accesses[u], reg'[u] = reg[u], store'[u] = store[u],
           memory'[Own(u)] = memory[Own(u)], memory'[Out(u)] = memory[Out(u)]
    PROVE  TestedBy(u)'
BY DEF TestedBy, Set, Put, Stored, Before, Own, Out

\* The value a thread stores.
Kept(t, op) == IF op = "set" THEN 1 ELSE reg[t]

\* A store goes into memory or into the buffer, and nothing else does.
LEMMA TestStore ==
    ASSUME program \in {"atomic", "mutex"}, DemoTypes, NEW t \in {1, 2},
           NEW cell \in Demos!Cell, NEW op \in {"set", "put"}, Demos!Store(t, op, cell)
    PROVE  /\ DemoTypes' /\ reg' = reg /\ owner' = owner
           /\ \A c \in Demos!Cell : c # cell => memory'[c] = memory[c]
           /\ \A u \in {1, 2} : u # t => store'[u] = store[u]
           /\ \/ memory'[cell] = Kept(t, op)
              \/ \E k \in DOMAIN store'[t] : store'[t][k] = <<cell, Kept(t, op)>>
           /\ \A k \in DOMAIN store[t] : k \in DOMAIN store'[t] /\ store'[t][k] = store[t][k]
           /\ \A k \in DOMAIN store'[t] :
                 store'[t][k] = <<cell, Kept(t, op)>> \/ k \in DOMAIN store[t]
           /\ program = "atomic" => store'[t] = store[t]
<1>. DEFINE value == Kept(t, op)
<1>1. Demos!Access(t, op, cell) /\ reg' = reg /\ owner' = owner
    BY DEF Demos!Store
<1>2. /\ t \in Demos!Thread /\ 1 \in Demos!Thread /\ 2 \in Demos!Thread
      /\ store \in [Demos!Thread -> Seq(Demos!Cell \X Nat)]
      /\ store[t] \in Seq(Demos!Cell \X Nat)
      /\ memory \in [Demos!Cell -> Nat] /\ reg \in [Demos!Thread -> Nat]
      /\ owner \in [Demos!Mutex -> Nat]
    BY ThreadFact DEF DemoTypes
<1>3. value \in Nat /\ <<cell, value>> \in Demos!Cell \X Nat
    BY <1>2 DEF Kept
<1>4. CASE program = "atomic"
    <2>1. memory' = [memory EXCEPT ![cell] = value] /\ store' = store
        BY <1>4 DEF Demos!Store, Demos!Atomic, Kept
    <2>2. memory' \in [Demos!Cell -> Nat] /\ memory'[cell] = value
          /\ \A c \in Demos!Cell : c # cell => memory'[c] = memory[c]
        BY <1>2, <1>3, <2>1
    <2>3. DemoTypes'
        <3>1. /\ reg' \in [Demos!Thread -> Nat] /\ owner' \in [Demos!Mutex -> Nat]
              /\ store' \in [Demos!Thread -> Seq(Demos!Cell \X Nat)]
              /\ \A u \in Demos!Thread : u # t => store'[u] = store[u]
            BY <1>1, <1>2, <2>1
        <3>. QED BY <1>1, <1>2, <2>2, <3>1, AccessTypes
    <2>. QED BY <1>1, <1>4, <2>1, <2>2, <2>3
<1>5. CASE program = "mutex"
    <2>. DEFINE buffer == store[t]
                entry == <<cell, value>>
                longer == Append(buffer, entry)
    <2>1. memory' = memory /\ store' = [store EXCEPT ![t] = longer]
        BY <1>5 DEF Demos!Store, Demos!Atomic, Kept
    <2>2. /\ longer \in Seq(Demos!Cell \X Nat)
          /\ \A k \in DOMAIN buffer : k \in DOMAIN longer /\ longer[k] = buffer[k]
          /\ \A k \in DOMAIN longer : longer[k] = entry \/ k \in DOMAIN buffer
          /\ \E k \in DOMAIN longer : longer[k] = entry
        <3>1. buffer \in Seq(Demos!Cell \X Nat) /\ entry \in Demos!Cell \X Nat
            BY <1>2, <1>3
        <3>. HIDE DEF buffer, entry
        <3>2. /\ longer \in Seq(Demos!Cell \X Nat)
              /\ Len(longer) = Len(buffer) + 1 /\ Len(buffer) \in Nat
              /\ longer[Len(buffer) + 1] = entry
              /\ \A k \in 1 .. Len(buffer) : longer[k] = buffer[k]
            BY <3>1, AppendProperties, LenProperties
        <3>3. DOMAIN longer = 1 .. Len(buffer) + 1 /\ DOMAIN buffer = 1 .. Len(buffer)
            BY <3>1, <3>2, LenProperties
        <3>. HIDE DEF longer
        <3>4. Len(buffer) + 1 \in DOMAIN longer
            BY <3>2, <3>3
        <3>5. ASSUME NEW k \in DOMAIN longer, k \notin DOMAIN buffer
              PROVE  longer[k] = entry
            <4>1. k = Len(buffer) + 1
                BY <3>2, <3>3, <3>5
            <4>. QED BY <3>2, <4>1
        <3>. QED BY <3>2, <3>3, <3>4, <3>5
    <2>3. /\ store' \in [Demos!Thread -> Seq(Demos!Cell \X Nat)] /\ store'[t] = longer
          /\ \A u \in Demos!Thread : u # t => store'[u] = store[u]
        <3>. HIDE DEF longer
        <3>. QED BY <1>2, <2>1, <2>2
    <2>4. DemoTypes'
        <3>1. /\ reg' \in [Demos!Thread -> Nat] /\ owner' \in [Demos!Mutex -> Nat]
              /\ memory' \in [Demos!Cell -> Nat]
            BY <1>1, <1>2, <2>1
        <3>. QED BY <1>1, <1>2, <2>3, <3>1, AccessTypes
    <2>. HIDE DEF longer
    <2>. QED BY <1>1, <1>2, <1>5, <2>1, <2>2, <2>3, <2>4
<1>. QED BY <1>4, <1>5

\* A thread stores what its half of the test stores: 1 into its own variable, and
\* at the end what it has loaded.
LEMMA TestStoreKeeps ==
    ASSUME program \in {"atomic", "mutex"}, DemoTypes, Tested, Exclusive,
           NEW t \in Demos!Thread, NEW cell \in Demos!Cell, NEW op, Demos!Store(t, op, cell)
    PROVE  DemoTypes' /\ Tested' /\ Exclusive'
<1>. DEFINE value == Kept(t, op)
<1>1. Demos!Access(t, op, cell) /\ op \in {"set", "put", "put+1"}
    BY DEF Demos!Store
<1>2. /\ t \in {1, 2}
      /\ \/ accesses[t] = Before /\ op = "set" /\ cell = Own(t)
         \/ accesses[t] = Before + 2 /\ op = "put" /\ cell = Out(t)
    BY <1>1, TestAccess
<1>3. /\ DemoTypes' /\ reg' = reg /\ owner' = owner
      /\ \A c \in Demos!Cell : c # cell => memory'[c] = memory[c]
      /\ \A u \in {1, 2} : u # t => store'[u] = store[u]
      /\ \/ memory'[cell] = value
         \/ \E k \in DOMAIN store'[t] : store'[t][k] = <<cell, value>>
      /\ \A k \in DOMAIN store[t] : k \in DOMAIN store'[t] /\ store'[t][k] = store[t][k]
      /\ \A k \in DOMAIN store'[t] :
            store'[t][k] = <<cell, value>> \/ k \in DOMAIN store[t]
      /\ program = "atomic" => store'[t] = store[t]
    <2>1. op \in {"set", "put"}
        BY <1>2
    <2>. QED BY <1>2, <2>1, TestStore
<1>4. /\ accesses[t] \in Nat /\ accesses'[t] = accesses[t] + 1 /\ program' = program
      /\ 1 \in Demos!Thread /\ 2 \in Demos!Thread
      /\ \A u \in Demos!Thread : u # t => accesses'[u] = accesses[u]
    BY <1>1, AccessFact, ThreadFact
<1>5. Before' = Before /\ Before \in {0, 1}
      /\ (program = "atomic" => Before = 0) /\ (program = "mutex" => Before = 1)
    BY <1>4 DEF Before
<1>6. TestedBy(1) /\ TestedBy(2) /\ OneSeen /\ Excludes(1) /\ Excludes(2)
    BY DEF Tested, Exclusive
<1>7. ASSUME NEW u \in {1, 2}, u # t PROVE TestedBy(u)'
    <2>1. memory'[Own(u)] = memory[Own(u)] /\ memory'[Out(u)] = memory[Out(u)]
        BY <1>2, <1>3, <1>7, TestCells
    <2>2. accesses'[u] = accesses[u] /\ reg'[u] = reg[u] /\ store'[u] = store[u]
        BY <1>3, <1>4, <1>7
    <2>. QED BY <1>4, <1>6, <2>1, <2>2, IdleTester
<1>8. TestedBy(t)'
    <2>0. /\ Own(t)' = Own(t) /\ Out(t)' = Out(t) /\ reg'[t] = reg[t]
          /\ Own(t) \in Demos!Cell /\ Out(t) \in Demos!Cell /\ Own(t) # Out(t)
        BY <1>2, <1>3, TestCells DEF Own, Out
    <2>1. CASE accesses[t] = Before /\ op = "set" /\ cell = Own(t)
        <3>1. value = 1 /\ ~Put(t)' /\ ~Put(t)
            BY <1>4, <1>5, <2>1 DEF Put, Kept
        <3>2. \/ memory'[Own(t)] = 1
              \/ \E k \in DOMAIN store'[t] : store'[t][k] = <<Own(t), 1>>
            BY <1>3, <2>1, <3>1
        <3>3. \A k \in DOMAIN store[t] : store[t][k] = <<Own(t), 1>>
            BY <1>2, <1>6, <3>1 DEF TestedBy
        <3>4. \A k \in DOMAIN store'[t] : store'[t][k] = <<Own(t), 1>>
            <4>. HIDE DEF value
            <4>. QED BY <1>3, <2>1, <3>1, <3>3
        <3>. QED BY <2>0, <3>1, <3>2, <3>4 DEF TestedBy, Stored
    <2>2. CASE accesses[t] = Before + 2 /\ op = "put" /\ cell = Out(t)
        <3>1. value = reg[t] /\ Put(t)' /\ ~Put(t) /\ Set(t)
            BY <1>4, <1>5, <2>2 DEF Put, Set, Kept
        <3>2. \/ memory'[Out(t)] = reg[t]
              \/ \E k \in DOMAIN store'[t] : store'[t][k] = <<Out(t), reg[t]>>
            BY <1>3, <2>2, <3>1
        <3>3. /\ \A k \in DOMAIN store[t] : store[t][k] = <<Own(t), 1>>
              /\ memory[Own(t)] = 1 \/ \E k \in DOMAIN store[t] : store[t][k] = <<Own(t), 1>>
            BY <1>2, <1>6, <3>1 DEF TestedBy, Stored
        <3>4. \A k \in DOMAIN store'[t] :
                 store'[t][k] = <<Own(t), 1>> \/ store'[t][k] = <<Out(t), reg[t]>>
            <4>. HIDE DEF value
            <4>. QED BY <1>3, <2>2, <3>1, <3>3
        <3>5. memory'[Own(t)] = 1 \/ \E k \in DOMAIN store'[t] : store'[t][k] = <<Own(t), 1>>
            BY <1>3, <2>0, <2>2, <3>3
        <3>. QED BY <2>0, <3>1, <3>2, <3>4, <3>5 DEF TestedBy, Stored
    <2>. QED BY <1>2, <2>1, <2>2
<1>9. OneSeen'
    <2>1. Loaded(t)' => Loaded(t)
        BY <1>2, <1>4, <1>5 DEF Loaded
    <2>2. \A u \in {1, 2} : u # t => (Loaded(u)' <=> Loaded(u))
        BY <1>4, <1>5 DEF Loaded
    <2>3. Loaded(1)' /\ Loaded(2)' => Loaded(1) /\ Loaded(2)
        BY <1>2, <2>1, <2>2
    <2>. QED BY <1>3, <1>6, <2>3 DEF OneSeen
<1>10. ASSUME NEW u \in {1, 2}, u # t PROVE Excludes(u)'
    <2>1. accesses'[u] = accesses[u] /\ store'[u] = store[u] /\ Excludes(u)
        BY <1>3, <1>4, <1>6, <1>10
    <2>. QED BY <1>3, <1>4, <2>1 DEF Excludes
<1>11. Excludes(t)'
    <2>1. Excludes(t)
        BY <1>2, <1>6
    <2>. QED BY <1>2, <1>3, <1>4, <1>5, <2>1 DEF Excludes
<1>. QED
    BY <1>2, <1>3, <1>4, <1>7, <1>8, <1>9, <1>10, <1>11 DEF Tested, Exclusive

\* A thread loads the other's variable, whose store it sees if the other has
\* loaded before.
LEMMA TestLoadKeeps ==
    ASSUME program \in {"atomic", "mutex"}, DemoTypes, Tested, Exclusive,
           NEW t \in Demos!Thread, NEW cell \in Demos!Cell, Demos!Load(t, cell)
    PROVE  DemoTypes' /\ Tested' /\ Exclusive'
<1>. DEFINE value == Demos!Value(t, cell)
<1>1. Demos!Access(t, "load", cell) /\ UNCHANGED <<memory, store, owner>>
      /\ reg' = [reg EXCEPT ![t] = value]
    BY DEF Demos!Load
<1>2. t \in {1, 2} /\ accesses[t] = Before + 1 /\ cell = Other(t)
    BY <1>1, TestAccess
<1>4. /\ accesses[t] \in Nat /\ accesses'[t] = accesses[t] + 1 /\ program' = program
      /\ 1 \in Demos!Thread /\ 2 \in Demos!Thread
      /\ \A u \in Demos!Thread : u # t => accesses'[u] = accesses[u]
    BY <1>1, AccessFact, ThreadFact
<1>5. Before' = Before /\ Before \in {0, 1}
      /\ (program = "atomic" => Before = 0) /\ (program = "mutex" => Before = 1)
    BY <1>4 DEF Before
<1>6. TestedBy(1) /\ TestedBy(2) /\ OneSeen /\ Excludes(1) /\ Excludes(2)
    BY DEF Tested, Exclusive
<1>7. value = memory[Other(t)]
    <2>1. \A k \in DOMAIN store[t] : store[t][k] = <<Own(t), 1>>
        BY <1>2, <1>4, <1>5, <1>6 DEF TestedBy, Put
    <2>2. Own(t) # Other(t)
        BY <1>2 DEF Own, Other
    <2>3. \A k \in DOMAIN store[t] : store[t][k][1] = Own(t)
        BY <2>1
    <2>4. {k \in DOMAIN store[t] : store[t][k][1] = Other(t)} = {}
        BY <2>2, <2>3
    <2>. QED BY <1>2, <2>4 DEF Demos!Value
<1>8. value \in Nat
    BY <1>2, <1>7, TestCells DEF DemoTypes
<1>9. /\ reg' \in [Demos!Thread -> Nat] /\ reg'[t] = value
      /\ \A u \in Demos!Thread : u # t => reg'[u] = reg[u]
    <2>. HIDE DEF value
    <2>. QED BY <1>1, <1>8 DEF DemoTypes
<1>10. DemoTypes'
    <2>1. /\ memory' \in [Demos!Cell -> Nat] /\ owner' \in [Demos!Mutex -> Nat]
          /\ store' \in [Demos!Thread -> Seq(Demos!Cell \X Nat)]
          /\ \A u \in Demos!Thread : u # t => store'[u] = store[u]
        BY <1>1 DEF DemoTypes
    <2>. QED BY <1>1, <1>9, <2>1, AccessTypes
<1>. HIDE DEF value
<1>11. ASSUME NEW u \in {1, 2}, u # t PROVE TestedBy(u)'
    <2>1. /\ memory'[Own(u)] = memory[Own(u)] /\ memory'[Out(u)] = memory[Out(u)]
          /\ accesses'[u] = accesses[u] /\ reg'[u] = reg[u] /\ store'[u] = store[u]
        BY <1>1, <1>4, <1>9, <1>11
    <2>. QED BY <1>4, <1>6, <2>1, IdleTester
<1>12. TestedBy(t)'
    <2>1. ~Put(t)' /\ ~Put(t) /\ Set(t)
        BY <1>2, <1>4, <1>5 DEF Put, Set
    <2>2. TestedBy(t) /\ Own(t)' = Own(t) /\ Out(t)' = Out(t)
        BY <1>2, <1>6 DEF Own, Out
    <2>3. Stored(t, Own(t), 1)' /\ \A k \in DOMAIN store'[t] : store'[t][k] = <<Own(t), 1>>
        BY <1>1, <2>1, <2>2 DEF TestedBy, Stored
    <2>. QED BY <2>1, <2>2, <2>3 DEF TestedBy
<1>13. ASSUME NEW u \in {1, 2}, u # t, Loaded(u)' PROVE value = 1
    <2>1. accesses[u] > Before + 1 /\ accesses[u] \in Nat
        BY <1>4, <1>5, <1>13 DEF Loaded, DemoTypes
    <2>2. Set(u) /\ TestedBy(u) /\ Excludes(u) /\ Excludes(t)
        BY <1>2, <1>5, <1>6, <2>1 DEF Set
    <2>3. store[u] = << >>
        <3>1. CASE program = "atomic"
            BY <2>2, <3>1 DEF Excludes
        <3>2. CASE program = "mutex"
            <4>1. owner["mutex"] = t
                BY <1>2, <1>5, <2>2, <3>2 DEF Excludes
            <4>2. accesses[u] \notin 1 .. 4
                BY <1>13, <2>2, <3>2, <4>1 DEF Excludes
            <4>. QED BY <2>2, <3>2, <4>2 DEF Excludes
        <3>. QED BY <3>1, <3>2
    <2>4. memory[Own(u)] = 1
        BY <2>2, <2>3 DEF TestedBy, Stored
    <2>5. Other(t) = Own(u)
        BY <1>2, <1>13, TestCells
    <2>. QED BY <1>7, <2>4, <2>5
<1>14. OneSeen'
    <2>1. CASE t = 1
        BY <1>9, <1>13, <2>1 DEF OneSeen
    <2>2. CASE t = 2
        BY <1>9, <1>13, <2>2 DEF OneSeen
    <2>. QED BY <1>2, <2>1, <2>2
<1>15. ASSUME NEW u \in {1, 2}, u # t PROVE Excludes(u)'
    <2>1. accesses'[u] = accesses[u] /\ store'[u] = store[u] /\ Excludes(u)
        BY <1>1, <1>4, <1>6, <1>15
    <2>. QED BY <1>1, <1>4, <2>1 DEF Excludes
<1>16. Excludes(t)'
    <2>1. Excludes(t)
        BY <1>2, <1>6
    <2>. QED BY <1>1, <1>2, <1>4, <1>5, <2>1 DEF Excludes
<1>. QED
    BY <1>2, <1>4, <1>10, <1>11, <1>12, <1>14, <1>15, <1>16 DEF Tested, Exclusive

\* Only one thread has the mutex at a time, and who unlocks it has an empty buffer.
LEMMA TestMutexKeeps ==
    ASSUME program \in {"atomic", "mutex"}, DemoTypes, Tested, Exclusive,
           NEW t \in Demos!Thread, NEW m \in Demos!Mutex,
           Demos!Lock(t, m) \/ Demos!Unlock(t, m)
    PROVE  DemoTypes' /\ Tested' /\ Exclusive'
<1>1. PICK op \in {"lock", "unlock"} :
          /\ Demos!Access(t, op, m) /\ UNCHANGED <<memory, store, reg>>
          /\ op = "lock" => owner[m] = 0 /\ owner' = [owner EXCEPT ![m] = t]
          /\ op = "unlock" => store[t] = << >> /\ owner' = [owner EXCEPT ![m] = 0]
    <2>1. CASE Demos!Lock(t, m)
        BY <2>1 DEF Demos!Lock
    <2>2. CASE Demos!Unlock(t, m)
        BY <2>2 DEF Demos!Unlock, Demos!Drained
    <2>. QED BY <2>1, <2>2
<1>2. /\ t \in {1, 2} /\ program = "mutex" /\ m = "mutex"
      /\ accesses[t] = IF op = "lock" THEN 0 ELSE 4
    BY <1>1, TestAccess
<1>3. /\ accesses[t] \in Nat /\ accesses'[t] = accesses[t] + 1 /\ program' = program
      /\ 1 \in Demos!Thread /\ 2 \in Demos!Thread
      /\ \A u \in Demos!Thread : u # t => accesses'[u] = accesses[u]
    BY <1>1, AccessFact, ThreadFact
<1>4. Before' = Before /\ Before = 1
    BY <1>2, <1>3 DEF Before
<1>5. TestedBy(1) /\ TestedBy(2) /\ OneSeen /\ Excludes(1) /\ Excludes(2)
    BY <1>2 DEF Tested, Exclusive
<1>6. /\ owner' \in [Demos!Mutex -> Nat]
      /\ owner'["mutex"] = IF op = "lock" THEN t ELSE 0
    <2>1. owner \in [Demos!Mutex -> Nat] /\ "mutex" \in Demos!Mutex /\ t \in Nat
        BY <1>2 DEF DemoTypes, Demos!Mutex
    <2>2. owner' = [owner EXCEPT !["mutex"] = IF op = "lock" THEN t ELSE 0]
        BY <1>1, <1>2
    <2>. QED BY <2>1, <2>2
<1>7. DemoTypes'
    <2>1. /\ memory' \in [Demos!Cell -> Nat] /\ reg' \in [Demos!Thread -> Nat]
          /\ store' \in [Demos!Thread -> Seq(Demos!Cell \X Nat)]
          /\ \A u \in Demos!Thread : u # t => store'[u] = store[u]
        BY <1>1 DEF DemoTypes
    <2>. QED BY <1>1, <1>6, <2>1, AccessTypes
<1>8. ASSUME NEW u \in {1, 2}, u # t PROVE TestedBy(u)'
    <2>1. /\ memory'[Own(u)] = memory[Own(u)] /\ memory'[Out(u)] = memory[Out(u)]
          /\ accesses'[u] = accesses[u] /\ reg'[u] = reg[u] /\ store'[u] = store[u]
        BY <1>1, <1>3, <1>8
    <2>. QED BY <1>3, <1>5, <2>1, IdleTester
<1>9. TestedBy(t)'
    <2>1. (Set(t)' <=> Set(t)) /\ (Put(t)' <=> Put(t))
        BY <1>2, <1>3, <1>4 DEF Set, Put
    <2>2. TestedBy(t) /\ Own(t)' = Own(t) /\ Out(t)' = Out(t)
        BY <1>2, <1>5 DEF Own, Out
    <2>. QED BY <1>1, <2>1, <2>2 DEF TestedBy, Stored
<1>10. OneSeen'
    <2>1. \A u \in {1, 2} : Loaded(u)' <=> Loaded(u)
        BY <1>2, <1>3, <1>4 DEF Loaded
    <2>2. (Loaded(1)' <=> Loaded(1)) /\ (Loaded(2)' <=> Loaded(2))
        BY <2>1
    <2>. QED BY <1>1, <1>5, <2>2 DEF OneSeen
<1>11. ASSUME NEW u \in {1, 2}, u # t PROVE Excludes(u)'
    <2>1. /\ accesses'[u] = accesses[u] /\ store'[u] = store[u] /\ Excludes(u) /\ Excludes(t)
          /\ accesses[u] \in Nat
        BY <1>1, <1>2, <1>3, <1>5, <1>11 DEF DemoTypes
    <2>2. owner["mutex"] # u
        BY <1>1, <1>2, <1>11, <2>1 DEF Excludes
    <2>3. owner'["mutex"] # u
        BY <1>2, <1>6, <1>11
    <2>. QED BY <1>2, <1>3, <2>1, <2>2, <2>3 DEF Excludes
<1>12. Excludes(t)'
    <2>1. Excludes(t)
        BY <1>2, <1>5
    <2>. QED BY <1>1, <1>2, <1>3, <1>6, <2>1 DEF Excludes
<1>. QED
    BY <1>2, <1>3, <1>7, <1>8, <1>9, <1>10, <1>11, <1>12 DEF Tested, Exclusive

\* A store that reaches memory is one of the two.
LEMMA TestFlushKeeps ==
    ASSUME program \in {"atomic", "mutex"}, DemoTypes, Tested, Exclusive,
           NEW t \in Demos!Thread, Demos!Flush(t)
    PROVE  DemoTypes' /\ Tested' /\ Exclusive'
<1>1. /\ DemoTypes' /\ store[t] # << >> /\ 1 \in DOMAIN store[t] /\ t <= created
      /\ memory' = [memory EXCEPT ![store[t][1][1]] = store[t][1][2]]
      /\ \A k \in DOMAIN store'[t] : store'[t][k] = store[t][k + 1] /\ k + 1 \in DOMAIN store[t]
      /\ \A k \in DOMAIN store[t] : k = 1 \/ k - 1 \in DOMAIN store'[t]
      /\ \A u \in Demos!Thread : u # t => store'[u] = store[u]
      /\ UNCHANGED <<program, reg, owner, accesses, created, joined, i, aborted>>
      /\ store[t] \in Seq(Demos!Cell \X Nat)
    BY FlushFact
<1>2. /\ t \in {1, 2} /\ 1 \in Demos!Thread /\ 2 \in Demos!Thread
      /\ memory \in [Demos!Cell -> Nat]
    <2>1. t \in Nat /\ t > 0 /\ created \in Nat /\ created <= 2
        BY ThreadFact DEF DemoTypes, Demos!Counting
    <2>2. t \in {1, 2}
        BY <1>1, <2>1
    <2>. QED BY <2>2, ThreadFact DEF DemoTypes
<1>3. TestedBy(1) /\ TestedBy(2) /\ OneSeen /\ Excludes(1) /\ Excludes(2)
    BY DEF Tested, Exclusive
<1>4. /\ Own(t)' = Own(t) /\ Out(t)' = Out(t) /\ (Set(t)' <=> Set(t)) /\ (Put(t)' <=> Put(t))
      /\ Own(t) \in Demos!Cell /\ Out(t) \in Demos!Cell /\ Own(t) # Out(t)
    BY <1>1, <1>2, TestCells DEF Own, Out, Set, Put, Before
<1>5. /\ \/ store[t][1] = <<Own(t), 1>>
         \/ Put(t) /\ store[t][1] = <<Out(t), reg[t]>>
      /\ \A k \in DOMAIN store[t] :
            \/ store[t][k] = <<Own(t), 1>>
            \/ Put(t) /\ store[t][k] = <<Out(t), reg[t]>>
    BY <1>1, <1>2, <1>3 DEF TestedBy
<1>6. store[t][1][1] \in {Own(t), Out(t)}
    BY <1>5
<1>7. /\ store[t][1] = <<Own(t), 1>> =>
            memory'[Own(t)] = 1 /\ memory'[Out(t)] = memory[Out(t)]
      /\ store[t][1] = <<Out(t), reg[t]>> =>
            memory'[Out(t)] = reg[t] /\ memory'[Own(t)] = memory[Own(t)]
      /\ \A c \in Demos!Cell : c \notin {Own(t), Out(t)} => memory'[c] = memory[c]
    <2>1. ASSUME store[t][1] = <<Own(t), 1>>
          PROVE  memory'[Own(t)] = 1 /\ memory'[Out(t)] = memory[Out(t)]
        <3>1. memory' = [memory EXCEPT ![Own(t)] = 1]
            BY <1>1, <2>1
        <3>. QED BY <1>2, <1>4, <3>1
    <2>2. ASSUME store[t][1] = <<Out(t), reg[t]>>
          PROVE  memory'[Out(t)] = reg[t] /\ memory'[Own(t)] = memory[Own(t)]
        <3>1. memory' = [memory EXCEPT ![Out(t)] = reg[t]]
            BY <1>1, <2>2
        <3>. QED BY <1>2, <1>4, <3>1
    <2>3. \A c \in Demos!Cell : c \notin {Own(t), Out(t)} => memory'[c] = memory[c]
        BY <1>1, <1>2, <1>6
    <2>. QED BY <2>1, <2>2, <2>3
<1>8. ASSUME NEW cell \in {Own(t), Out(t)}, NEW value \in {1, reg[t]},
             <<cell, value>> \in {<<Own(t), 1>>, <<Out(t), reg[t]>>},
             Stored(t, cell, value)
      PROVE  \/ memory'[cell] = value
             \/ \E k \in DOMAIN store'[t] : store'[t][k] = <<cell, value>>
    <2>1. (cell = Own(t) /\ value = 1) \/ (cell = Out(t) /\ value = reg[t])
        BY <1>8
    <2>2. CASE memory[cell] = value
        BY <1>5, <1>7, <2>1, <2>2
    <2>3. CASE \E k \in DOMAIN store[t] : store[t][k] = <<cell, value>>
        <3>1. PICK k \in DOMAIN store[t] : store[t][k] = <<cell, value>>
            BY <2>3
        <3>2. CASE k = 1
            BY <1>7, <2>1, <3>1, <3>2
        <3>3. CASE k # 1
            <4>1. k - 1 \in DOMAIN store'[t] /\ (k - 1) + 1 = k
                BY <1>1, <3>3
            <4>2. store'[t][k - 1] = store[t][k]
                BY <1>1, <4>1
            <4>. QED BY <3>1, <4>1, <4>2
        <3>. QED BY <3>2, <3>3
    <2>. QED BY <1>8, <2>2, <2>3 DEF Stored
<1>9. TestedBy(t)'
    <2>1. TestedBy(t) /\ reg'[t] = reg[t]
        BY <1>1, <1>2, <1>3
    <2>2. Set(t) => Stored(t, Own(t), 1)'
        BY <1>4, <1>8, <2>1 DEF TestedBy, Stored
    <2>3. Put(t) => Stored(t, Out(t), reg[t])'
        BY <1>4, <1>8, <2>1 DEF TestedBy, Stored
    <2>4. \A k \in DOMAIN store'[t] :
             \/ store'[t][k] = <<Own(t), 1>>
             \/ Put(t) /\ store'[t][k] = <<Out(t), reg[t]>>
        BY <1>1, <1>5
    <2>. QED BY <1>4, <2>1, <2>2, <2>3, <2>4 DEF TestedBy
<1>10. ASSUME NEW u \in {1, 2}, u # t PROVE TestedBy(u)'
    <2>1. memory'[Own(u)] = memory[Own(u)] /\ memory'[Out(u)] = memory[Out(u)]
        BY <1>2, <1>7, <1>10, TestCells
    <2>2. accesses'[u] = accesses[u] /\ reg'[u] = reg[u] /\ store'[u] = store[u]
        BY <1>1, <1>2, <1>10
    <2>. QED BY <1>1, <1>3, <2>1, <2>2, IdleTester
<1>11. OneSeen'
    BY <1>1, <1>3 DEF OneSeen, Loaded, Before
<1>12. ASSUME NEW u \in {1, 2}, u # t PROVE Excludes(u)'
    <2>1. store'[u] = store[u] /\ Excludes(u)
        BY <1>1, <1>2, <1>3, <1>12
    <2>. QED BY <1>1, <2>1 DEF Excludes
<1>13. Excludes(t)'
    <2>1. Excludes(t)
        BY <1>2, <1>3
    <2>. QED BY <1>1, <2>1 DEF Excludes
<1>. QED
    BY <1>1, <1>2, <1>9, <1>10, <1>11, <1>12, <1>13 DEF Tested, Exclusive

\* A thread of the tests keeps them.
LEMMA TestThread ==
    ASSUME program \in {"atomic", "mutex"}, DemoTypes, Tested, Exclusive,
           NEW t \in Demos!Thread, Demos!ThreadStep(t) \/ Demos!Flush(t)
    PROVE  DemoTypes' /\ Tested' /\ Exclusive'
<1>1. ASSUME NEW cell \in Demos!Cell, Demos!Increment(t, cell) PROVE FALSE
    <2>1. Demos!Access(t, "inc", cell)
        BY <1>1 DEF Demos!Increment
    <2>. QED BY <2>1, TestAccess
<1>. QED
    BY <1>1, TestLoadKeeps, TestStoreKeeps, TestMutexKeeps, TestFlushKeeps
    DEF Demos!ThreadStep
-----------------------------------------------------------------------------
(* PthreadDemos: main(), and the steps together *)

\* Before the first thread is created nobody has begun.
LEMMA NobodyBegun ==
    ASSUME DemoTypes, created = 0
    PROVE  /\ \A t \in Demos!Thread : accesses[t] = 0 /\ store[t] = << >>
           /\ Cardinality(Made(1)) = 0 /\ Cardinality(Made(2)) = 0
<1>1. \A t \in Demos!Thread : accesses[t] = 0 /\ store[t] = << >>
    BY ThreadFact DEF DemoTypes
<1>2. ASSUME NEW n \in {1, 2} PROVE Made(n) = {}
    <2>1. \A t \in 1 .. THREADS_COUNT : accesses[t] = 0
        BY <1>1, ThreadFact
    <2>2. \A k \in 1 .. Rounds : ~(n * k <= 0)
        BY ProgramsAssumption
    <2>. QED BY <2>1, <2>2 DEF Made
<1>. QED BY <1>1, <1>2, FS_EmptySet

\* main() creates a thread: what it stores comes before that thread's first access.
LEMMA CreateKeeps == ASSUME Parts, Demos!Create PROVE Parts'
<1>1. /\ DemoTypes /\ Tested /\ Exclusive /\ Incremented /\ Counted /\ Numbered
    BY DEF Parts
<1>2. /\ created < Demos!Started /\ created' = created + 1
      /\ memory' = IF program = "multiple-create"
                   THEN [memory EXCEPT ![Demos!Number(created + 1)] = created]
                   ELSE IF created = 0 THEN [cell \in Demos!Cell |-> 0] ELSE memory
      /\ program' = program /\ store' = store /\ reg' = reg /\ accesses' = accesses
      /\ owner' = owner /\ joined' = joined /\ i' = i
    BY DEF Demos!Create, Demos!thread
<1>3. /\ Demos!Started' = Demos!Started
      /\ \A t \in Demos!Thread : Demos!Code(t)' = Demos!Code(t)
    BY <1>2, CodeStays
<1>4. created \in Nat /\ joined \in Nat /\ memory \in [Demos!Cell -> Nat]
      /\ "counter" \in Demos!Cell
    BY <1>1 DEF DemoTypes, Demos!Cell
<1>5. memory' \in [Demos!Cell -> Nat]
    BY <1>2, <1>4 DEF Demos!Number, Demos!Cell
<1>6. DemoTypes'
    <2>1. joined = 0 /\ created' \in Nat /\ created' <= Demos!Started /\ joined <= created'
        BY <1>1, <1>2, <1>4, ThreadFact DEF DemoTypes
    <2>2. \A t \in Demos!Thread : t > created' => t > created
        BY <1>2, <1>4, ThreadFact
    <2>. QED BY <1>1, <1>2, <1>3, <1>5, <2>1, <2>2 DEF DemoTypes
<1>7. program # "multiple-create" => created = 0 \/ memory' = memory
    BY <1>2
<1>8. created = 0 =>
         /\ \A t \in Demos!Thread : accesses[t] = 0 /\ store[t] = << >>
         /\ Cardinality(Made(1)) = 0 /\ Cardinality(Made(2)) = 0
    BY <1>1, NobodyBegun
<1>9. Tested'
    <2>. SUFFICES ASSUME program \in {"atomic", "mutex"}
                  PROVE  TestedBy(1)' /\ TestedBy(2)' /\ OneSeen'
        BY <1>2 DEF Tested
    <2>0. TestedBy(1) /\ TestedBy(2) /\ OneSeen /\ 1 \in Demos!Thread /\ 2 \in Demos!Thread
        BY <1>1, ThreadFact DEF Tested
    <2>1. OneSeen'
        BY <1>2, <2>0 DEF OneSeen, Loaded, Before
    <2>2. ASSUME NEW t \in {1, 2} PROVE TestedBy(t)'
        <3>1. CASE created = 0
            <4>1. accesses'[t] = 0 /\ store'[t] = << >>
                BY <1>2, <1>8, <2>0, <3>1
            <4>. QED BY <4>1 DEF TestedBy, Set, Put, Before
        <3>2. CASE created # 0
            <4>1. memory' = memory /\ TestedBy(t)
                BY <1>7, <2>0, <3>2
            <4>. QED BY <1>2, <4>1 DEF TestedBy, Set, Put, Stored, Before, Own, Out
        <3>. QED BY <3>1, <3>2
    <2>. QED BY <2>1, <2>2
<1>10. Exclusive'
    BY <1>1, <1>2 DEF Exclusive, Excludes
<1>11. Made(1)' = Made(1) /\ Made(2)' = Made(2)
    BY <1>2 DEF Made
<1>12. Incremented'
    <2>. SUFFICES ASSUME program = "no-sync-fix"
                  PROVE  /\ memory'["counter"] = Cardinality(Made(1))
                         /\ \A t \in Demos!Thread : store[t] = << >> /\ accesses[t] <= Rounds
        BY <1>2, <1>11 DEF Incremented
    <2>1. CASE created = 0
        BY <1>1, <1>2, <1>4, <1>8, <2>1 DEF Incremented
    <2>2. CASE created # 0
        BY <1>1, <1>7, <2>2 DEF Incremented
    <2>. QED BY <2>1, <2>2
<1>13. Counted'
    <2>. SUFFICES ASSUME program = "no-sync" PROVE Counted'
        BY <1>2 DEF Counted
    <2>1. CASE created = 0
        <3>1. memory'["counter"] = 0
            BY <1>2, <1>4, <2>1
        <3>2. \A t \in Demos!Thread : accesses[t] = 0 /\ store[t] = << >>
            BY <1>8, <2>1
        <3>3. /\ 1 \in 1 .. THREADS_COUNT /\ 1 \in Demos!Thread /\ 0 <= 2 * Rounds
              /\ 0 # 2 * Rounds
            BY ProgramsAssumption, ThreadFact
        <3>4. \A t \in Demos!Thread : reg[t] <= Cardinality(Made(2))
            BY <1>1 DEF Counted
        <3>5. 0 <= Cardinality(Made(2))
            BY <1>8, <2>1
        <3>. QED BY <1>2, <1>11, <3>1, <3>2, <3>3, <3>4, <3>5 DEF Counted
    <2>2. CASE created # 0
        <3>1. memory' = memory
            BY <1>7, <2>2
        <3>. QED BY <1>1, <1>2, <1>11, <3>1 DEF Counted
    <2>. QED BY <2>1, <2>2
<1>14. Numbered'
    <2>. SUFFICES ASSUME program = "multiple-create" PROVE Numbered'
        BY <1>2 DEF Numbered
    <2>1. created \in {0, 1} /\ created + 1 \in {1, 2}
        BY <1>2, <1>4, ThreadFact DEF Demos!Counting
    <2>2. ASSUME NEW t \in {1, 2}, t <= created'
          PROVE  memory'[Demos!Number(t)] = t - 1
        <3>0. /\ Demos!Number(t) \in Demos!Cell /\ Demos!Number(created + 1) \in Demos!Cell
              /\ memory' = [memory EXCEPT ![Demos!Number(created + 1)] = created]
            BY <1>2 DEF Demos!Number, Demos!Cell
        <3>1. CASE t = created + 1
            BY <1>4, <3>0, <3>1
        <3>2. CASE t # created + 1
            <4>1. t <= created /\ Demos!Number(t) # Demos!Number(created + 1)
                BY <1>2, <1>4, <2>1, <2>2, <3>2 DEF Demos!Number
            <4>2. memory[Demos!Number(t)] = t - 1
                BY <1>1, <4>1 DEF Numbered
            <4>. QED BY <1>4, <3>0, <4>1, <4>2
        <3>. QED BY <3>1, <3>2
    <2>3. \A t : Demos!Number(t)' = Demos!Number(t)
        BY DEF Demos!Number
    <2>4. \A t \in {1, 2} : store[t] = << >> /\ accesses[t] <= 1
                            /\ (accesses[t] = 1 => reg[t] = t - 1)
        BY <1>1 DEF Numbered
    <2>. QED BY <1>2, <2>2, <2>3, <2>4 DEF Numbered
<1>. QED
    BY <1>6, <1>9, <1>10, <1>12, <1>13, <1>14 DEF Parts

\* main() joins a thread that has ended.
LEMMA JoinKeeps == ASSUME Parts, Demos!Join PROVE Parts'
<1>1. /\ DemoTypes /\ Tested /\ Exclusive /\ Incremented /\ Counted /\ Numbered
    BY DEF Parts
<1>2. /\ created = Demos!Started /\ joined < created /\ joined' = joined + 1
      /\ accesses[joined + 1] = Len(Demos!Code(joined + 1)) /\ store[joined + 1] = << >>
      /\ UNCHANGED <<program, memory, store, reg, accesses, owner, created, i>>
    BY DEF Demos!Join, Demos!thread, Demos!Drained
<1>3. /\ Demos!Started' = Demos!Started
      /\ \A t \in Demos!Thread : Demos!Code(t)' = Demos!Code(t)
    BY <1>2, CodeStays
<1>4. created \in Nat /\ joined \in Nat
    BY <1>1 DEF DemoTypes
<1>5. DemoTypes'
    <2>1. joined' \in Nat /\ joined' <= created
        BY <1>2, <1>4
    <2>2. \A t \in Demos!Thread : t <= joined' => t <= joined \/ t = joined + 1
        BY <1>2, <1>4, ThreadFact
    <2>3. \A t \in Demos!Thread :
             t <= joined' => store[t] = << >> /\ accesses[t] = Len(Demos!Code(t))
        BY <1>1, <1>2, <2>2 DEF DemoTypes
    <2>. QED BY <1>1, <1>2, <1>3, <2>1, <2>3 DEF DemoTypes
<1>6. Tested'
    BY <1>1, <1>2 DEF Tested, TestedBy, OneSeen, Set, Loaded, Put, Stored, Before, Own, Out
<1>7. Exclusive'
    BY <1>1, <1>2 DEF Exclusive, Excludes
<1>8. Made(1)' = Made(1) /\ Made(2)' = Made(2)
    BY <1>2 DEF Made
<1>9. Incremented' /\ Counted'
    BY <1>1, <1>2, <1>8 DEF Incremented, Counted
<1>10. Numbered'
    <2>1. \A t : Demos!Number(t)' = Demos!Number(t)
        BY DEF Demos!Number
    <2>. QED BY <1>1, <1>2, <2>1 DEF Numbered
<1>. QED
    BY <1>5, <1>6, <1>7, <1>9, <1>10 DEF Parts

\* When all are joined, the tests have put what they read into memory.
LEMMA AllPut ==
    ASSUME DemoTypes, Tested, program \in {"atomic", "mutex"}, joined = Demos!Started
    PROVE  /\ memory["r1"] = reg[1] /\ memory["r2"] = reg[2]
           /\ reg[1] # 0 \/ reg[2] # 0
           /\ \A t \in {1, 2} : store[t] = << >> /\ accesses[t] > Before + 2
           /\ program = "mutex" => accesses[1] = 5 /\ accesses[2] = 5
<1>1. joined = 2 /\ 1 \in Demos!Thread /\ 2 \in Demos!Thread
    BY ThreadFact DEF Demos!Counting
<1>2. ASSUME NEW t \in {1, 2}
      PROVE  /\ store[t] = << >> /\ accesses[t] = IF program = "mutex" THEN 5 ELSE 3
             /\ accesses[t] > Before + 2
    <2>1. t \in Demos!Thread /\ t <= joined
        BY <1>1
    <2>2. store[t] = << >> /\ accesses[t] = Len(Demos!Code(t))
        BY <2>1 DEF DemoTypes
    <2>3. accesses[t] = IF program = "mutex" THEN 5 ELSE 3
        BY <2>2, TestingCode
    <2>. QED BY <2>2, <2>3 DEF Before
<1>3. ASSUME NEW t \in {1, 2}, TestedBy(t) PROVE Loaded(t) /\ memory[Out(t)] = reg[t]
    <2>1. Put(t) /\ Loaded(t)
        BY <1>2 DEF Put, Loaded, Before
    <2>2. Stored(t, Out(t), reg[t]) /\ store[t] = << >>
        BY <1>2, <1>3, <2>1 DEF TestedBy
    <2>. QED BY <2>1, <2>2 DEF Stored
<1>4. TestedBy(1) /\ TestedBy(2) /\ OneSeen
    BY DEF Tested
<1>5. Out(1) = "r1" /\ Out(2) = "r2"
    BY DEF Out
<1>. QED
    BY <1>2, <1>3, <1>4, <1>5 DEF OneSeen

\* main() checks, and starts the tests over.
LEMMA CheckKeeps == ASSUME Observed, Parts, Demos!Check PROVE Parts' /\ ~aborted'
<1>1. /\ DemoTypes /\ Tested /\ Exclusive /\ Incremented /\ Counted /\ Numbered
    BY DEF Parts
<1>2. /\ joined = Demos!Started /\ i' = i + 1
      /\ aborted' = (program \in {"faulty", "atomic", "mutex"}
                     /\ memory["r1"] = 0 /\ memory["r2"] = 0)
      /\ UNCHANGED <<program, memory, store, reg, owner>>
      /\ \/ /\ i + 1 < Demos!LastIteration
            /\ created' = 0 /\ joined' = 0 /\ accesses' = [t \in Demos!Thread |-> 0]
         \/ UNCHANGED <<created, joined, accesses>>
    BY DEF Demos!Check
<1>3. /\ Demos!Started' = Demos!Started
      /\ \A t \in Demos!Thread : Demos!Code(t)' = Demos!Code(t)
    BY <1>2, CodeStays
<1>4. i \in Nat /\ i' \in Nat /\ joined \in Nat /\ created \in Nat /\ created = joined
    BY <1>1, <1>2, ThreadFact DEF DemoTypes
<1>5. ~aborted'
    BY <1>1, <1>2, AllPut DEF Observed
<1>6. CASE UNCHANGED <<created, joined, accesses>>
    <2>1. DemoTypes'
        BY <1>1, <1>2, <1>3, <1>4, <1>6 DEF DemoTypes
    <2>2. Tested'
        BY <1>1, <1>2, <1>6
        DEF Tested, TestedBy, OneSeen, Set, Loaded, Put, Stored, Before, Own, Out
    <2>3. Exclusive'
        BY <1>1, <1>2, <1>6 DEF Exclusive, Excludes
    <2>4. Made(1)' = Made(1) /\ Made(2)' = Made(2)
        BY <1>6 DEF Made
    <2>5. Incremented' /\ Counted'
        BY <1>1, <1>2, <1>6, <2>4 DEF Incremented, Counted
    <2>6. \A t : Demos!Number(t)' = Demos!Number(t)
        BY DEF Demos!Number
    <2>7. Numbered'
        BY <1>1, <1>2, <1>6, <2>6 DEF Numbered
    <2>. QED BY <1>5, <2>1, <2>2, <2>3, <2>5, <2>7 DEF Parts
<1>7. CASE /\ i + 1 < Demos!LastIteration
           /\ created' = 0 /\ joined' = 0 /\ accesses' = [t \in Demos!Thread |-> 0]
    <2>1. program \in {"atomic", "mutex"}
        <3>1. Demos!LastIteration # 1
            BY <1>4, <1>7
        <3>. QED BY <3>1 DEF Observed, Demos!LastIteration, Demos!Counting
    <2>2. /\ \A t \in {1, 2} : store[t] = << >>
          /\ program = "mutex" => accesses[1] = 5 /\ accesses[2] = 5
        BY <1>1, <1>2, <2>1, AllPut
    <2>3. \A t \in Demos!Thread : store[t] = << >>
        <3>1. \A t \in Demos!Thread : t > created \/ t <= joined
            BY <1>4, ThreadFact
        <3>. QED BY <1>1, <3>1 DEF DemoTypes
    <2>4. /\ accesses' \in [Demos!Thread -> Nat]
          /\ \A t \in Demos!Thread : accesses'[t] = 0
          /\ 1 \in Demos!Thread /\ 2 \in Demos!Thread
        BY <1>7, ThreadFact
    <2>5. DemoTypes'
        <3>1. \A t \in Demos!Thread : ~(t <= 0)
            BY ThreadFact
        <3>. QED BY <1>1, <1>2, <1>3, <1>4, <1>7, <2>3, <2>4, <3>1, ThreadFact DEF DemoTypes
    <2>6. Tested'
        BY <1>2, <2>2, <2>4 DEF Tested, TestedBy, OneSeen, Set, Put, Loaded, Before
    <2>7. Exclusive'
        BY <1>1, <1>2, <2>1, <2>2, <2>4 DEF Exclusive, Excludes
    <2>8. Incremented' /\ Counted' /\ Numbered'
        BY <1>2, <2>1 DEF Incremented, Counted, Numbered
    <2>. QED BY <1>5, <2>5, <2>6, <2>7, <2>8 DEF Parts
<1>. QED
    BY <1>2, <1>6, <1>7

\* The invariant holds at the start.
LEMMA DemoBegins == Demos!Init => DemoInv
<1>. SUFFICES ASSUME Demos!Init PROVE DemoInv
    OBVIOUS
<1>1. /\ program \in DemoProgram
      /\ memory = [cell \in Demos!Cell |-> 0]
      /\ store = [t \in Demos!Thread |-> << >>] /\ reg = [t \in Demos!Thread |-> 0]
      /\ owner = [m \in Demos!Mutex |-> 0] /\ accesses = [t \in Demos!Thread |-> 0]
      /\ created = 0 /\ joined = 0 /\ i = 0 /\ aborted = FALSE
    BY DEF Demos!Init
<1>2. DemoTypes
    <2>1. << >> \in Seq(Demos!Cell \X Nat)
        OBVIOUS
    <2>. QED BY <1>1, <2>1, ThreadFact DEF DemoTypes
<1>3. /\ \A t \in Demos!Thread : accesses[t] = 0 /\ store[t] = << >> /\ reg[t] = 0
      /\ Cardinality(Made(1)) = 0 /\ Cardinality(Made(2)) = 0
      /\ memory["counter"] = 0 /\ owner["mutex"] = 0
      /\ 1 \in Demos!Thread /\ 2 \in Demos!Thread
    BY <1>1, <1>2, NobodyBegun, ThreadFact DEF Demos!Cell, Demos!Mutex
<1>4. Tested
    BY <1>3 DEF Tested, TestedBy, OneSeen, Set, Put, Loaded, Before
<1>5. Exclusive
    BY <1>3 DEF Exclusive, Excludes
<1>6. Incremented
    BY <1>3, ProgramsAssumption DEF Incremented
<1>7. Counted
    <2>1. 1 \in 1 .. THREADS_COUNT /\ 0 <= 2 * Rounds /\ 0 # 2 * Rounds
        BY ProgramsAssumption
    <2>. QED BY <1>3, <2>1 DEF Counted
<1>8. Numbered
    BY <1>1, <1>3 DEF Numbered
<1>. QED
    BY <1>1, <1>2, <1>4, <1>5, <1>6, <1>7, <1>8 DEF DemoInv, Parts, Demos!NotBroken

\* Each step keeps it.
LEMMA DemoStep == DemoInv /\ [Demos!Next]_(Demos!vars) => DemoInv'
<1>. SUFFICES ASSUME DemoInv, [Demos!Next]_(Demos!vars) PROVE DemoInv'
    OBVIOUS
<1>1. CASE UNCHANGED Demos!vars
    <2>1. UNCHANGED <<program, memory, store, reg, owner, accesses, created, joined, i, aborted>>
        BY <1>1 DEF Demos!vars
    <2>2. /\ \A t : Demos!Number(t)' = Demos!Number(t)
          /\ Demos!Started' = Demos!Started
          /\ \A t \in Demos!Thread : Demos!Code(t)' = Demos!Code(t)
          /\ Observed' <=> Observed
        BY <2>1, CodeStays DEF Demos!Number
    <2>3. Made(1)' = Made(1) /\ Made(2)' = Made(2)
        BY <2>1 DEF Made
    <2>4. /\ DemoTypes => DemoTypes'
          /\ Exclusive => Exclusive'
          /\ Incremented => Incremented'
          /\ Counted => Counted'
          /\ Numbered => Numbered'
        BY <2>1, <2>2, <2>3
        DEF DemoTypes, Exclusive, Excludes, Incremented, Counted, Numbered
    <2>5. Tested => Tested'
        BY <2>1
        DEF Tested, TestedBy, OneSeen, Set, Loaded, Put, Stored, Before, Own, Out
    <2>6. Parts => Parts'
        BY <2>4, <2>5 DEF Parts
    <2>7. Demos!NotBroken => Demos!NotBroken'
        BY <2>1 DEF Demos!NotBroken
    <2>. QED BY <2>2, <2>6, <2>7 DEF DemoInv
<1>2. CASE Demos!Next
    <2>1. program' = program
        BY <1>2
        DEF Demos!Next, Demos!Main, Demos!Create, Demos!Join, Demos!Check, Demos!Flush,
            Demos!ThreadStep, Demos!Load, Demos!Increment, Demos!Store, Demos!Lock,
            Demos!Unlock, Demos!Access
    <2>2. ASSUME NEW t \in Demos!Thread, Demos!ThreadStep(t) \/ Demos!Flush(t), Observed
          PROVE  Parts => Parts'
        <3>. SUFFICES ASSUME Parts PROVE Parts'
            OBVIOUS
        <3>0. DemoTypes /\ Tested /\ Exclusive /\ Incremented /\ Counted /\ Numbered
            BY DEF Parts
        <3>1. CASE program = "no-sync"
            <4>1. DemoTypes' /\ Counted'
                BY <2>2, <3>0, <3>1, NoSyncThread
            <4>. QED BY <2>1, <3>1, <4>1 DEF Parts, Tested, Exclusive, Incremented, Numbered
        <3>2. CASE program = "no-sync-fix"
            <4>1. DemoTypes' /\ Incremented'
                BY <2>2, <3>0, <3>2, FixThread
            <4>. QED BY <2>1, <3>2, <4>1 DEF Parts, Tested, Exclusive, Counted, Numbered
        <3>3. CASE program = "multiple-create"
            <4>1. DemoTypes' /\ Numbered'
                BY <2>2, <3>0, <3>3, CreatedThread
            <4>. QED BY <2>1, <3>3, <4>1 DEF Parts, Tested, Exclusive, Incremented, Counted
        <3>4. CASE program \in {"atomic", "mutex"}
            <4>1. DemoTypes' /\ Tested' /\ Exclusive'
                BY <2>2, <3>0, <3>4, TestThread
            <4>. QED BY <2>1, <3>4, <4>1 DEF Parts, Incremented, Counted, Numbered
        <3>. QED BY <2>2, <3>1, <3>2, <3>3, <3>4 DEF Observed
    <2>3. Observed => Parts'
        BY <1>2, <2>2, CreateKeeps, JoinKeeps, CheckKeeps DEF DemoInv, Demos!Next, Demos!Main
    <2>4. aborted' = aborted \/ Demos!Check
        BY <1>2
        DEF Demos!Next, Demos!Main, Demos!Create, Demos!Join, Demos!Flush,
            Demos!ThreadStep, Demos!Load, Demos!Increment, Demos!Store, Demos!Lock,
            Demos!Unlock, Demos!Access, Demos!main
    <2>5. Demos!NotBroken'
        <3>1. ASSUME Demos!Check, program # "faulty" PROVE ~aborted'
            <4>1. CASE Observed
                BY <3>1, <4>1, CheckKeeps DEF DemoInv
            <4>2. CASE ~Observed
                BY <3>1, <4>2 DEF Observed, Demos!Check
            <4>. QED BY <4>1, <4>2
        <3>. QED BY <2>1, <2>4, <3>1 DEF DemoInv, Demos!NotBroken
    <2>. QED BY <2>1, <2>3, <2>5, CodeStays DEF DemoInv
<1>. QED BY <1>1, <1>2

\* It implies what the programs print.
LEMMA DemoKeeps ==
    DemoInv => Demos!NotBroken /\ Demos!CounterOutcome /\ Demos!OwnNumbers
<1>. SUFFICES ASSUME DemoInv PROVE Demos!NotBroken /\ Demos!CounterOutcome /\ Demos!OwnNumbers
    OBVIOUS
<1>1. Demos!CounterOutcome
    <2>. SUFFICES ASSUME Demos!Counting, joined = Demos!Started
                  PROVE  /\ memory["counter"] <= THREADS_COUNT * Rounds
                         /\ IF Demos!Atomic THEN memory["counter"] = THREADS_COUNT * Rounds
                                            ELSE memory["counter"] >= 2
        BY DEF Demos!CounterOutcome
    <2>1. DemoTypes /\ Incremented /\ Counted
        BY DEF DemoInv, Parts, Observed, Demos!Counting
    <2>2. joined = THREADS_COUNT
        BY ThreadFact
    <2>3. \A t \in 1 .. THREADS_COUNT :
             store[t] = << >> /\ accesses[t] = Len(Demos!Code(t)) /\ t \in Demos!Thread
        BY <2>1, <2>2, ThreadFact DEF DemoTypes
    <2>4. memory["counter"] \in Nat /\ THREADS_COUNT * Rounds \in Nat
        BY <2>1, ProgramsAssumption DEF DemoTypes, Demos!Cell
    <2>5. CASE program = "no-sync-fix"
        <3>1. \A t \in 1 .. THREADS_COUNT : accesses[t] = 1 * Rounds
            BY <2>3, <2>5, CountingCode, ProgramsAssumption
        <3>2. memory["counter"] = THREADS_COUNT * Rounds
            BY <2>1, <2>5, <3>1, MadeFact DEF Incremented
        <3>. QED BY <2>4, <2>5, <3>2 DEF Demos!Atomic
    <2>6. CASE program = "no-sync"
        <3>1. \A t \in 1 .. THREADS_COUNT : accesses[t] = 2 * Rounds
            BY <2>3, <2>6, CountingCode
        <3>2. memory["counter"] > 1
            BY <2>1, <2>3, <2>6, <3>1 DEF Counted
        <3>3. /\ memory["counter"] <= Cardinality(Made(2)) /\ Cardinality(Made(2)) \in Nat
              /\ Cardinality(Made(2)) <= THREADS_COUNT * Rounds
            BY <2>1, <2>6, MadeFact DEF Counted
        <3>4. memory["counter"] <= THREADS_COUNT * Rounds
            BY <2>4, <3>3
        <3>. QED BY <2>4, <2>6, <3>2, <3>4 DEF Demos!Atomic
    <2>. QED BY <2>5, <2>6 DEF Demos!Counting
<1>2. Demos!OwnNumbers
    <2>. SUFFICES ASSUME program = "multiple-create", joined = Demos!Started,
                         NEW t \in 1 .. Demos!Started
                  PROVE  reg[t] = t - 1
        BY DEF Demos!OwnNumbers
    <2>1. DemoTypes /\ Numbered
        BY DEF DemoInv, Parts, Observed
    <2>2. joined = 2 /\ t \in {1, 2} /\ t \in Demos!Thread
        BY ThreadFact DEF Demos!Counting
    <2>3. accesses[t] = 1
        <3>1. accesses[t] = Len(Demos!Code(t))
            BY <2>1, <2>2 DEF DemoTypes
        <3>. QED BY <2>2, <3>1, CountingCode
    <2>. QED BY <2>1, <2>2, <2>3 DEF Numbered
<1>. QED BY <1>1, <1>2 DEF DemoInv
-----------------------------------------------------------------------------
(* Shell: the inductive invariant *)

ShellTypes ==
    /\ terminal \in BOOLEAN
    /\ lines \in Seq({"good", "bad"})
    /\ shells \in Seq(0 .. Len(lines))
    /\ runs \in [1 .. Len(lines) -> Nat]

\* The lines that name no command, and those of them before line d.
BadLines     == {d \in 1 .. Len(lines) : lines[d] = "bad"}
Earlier(B, d) == {k \in B : k < d}

\* From a pipe the m shells that there are, of which the last reads, have gone
\* different ways: those that wait stay at the bad lines, in the order of the
\* input, at which each forked the next one.
Ordered(sh, m, B) ==
    /\ \A s \in 1 .. m - 1 : sh[s] \in B /\ sh[s] <= sh[m]
    /\ \A s, q \in 1 .. m - 1 : s < q => sh[s] < sh[q]

\* At each bad line a shell goes on twice, as itself and as its child.  So a
\* shell is known by the bad lines at which it or an ancestor was the child,
\* and line d is run once for each set Q of bad lines before it.  Owed are the
\* runs to come: a shell that has yet to read line d owes its own and those of
\* its children from here on.
Origin(sh, s) == {sh[k] : k \in 1 .. s - 1}
Owed(sh, m, B, d) ==
    {Q \in SUBSET Earlier(B, d) :
        \E s \in 1 .. m : sh[s] < d /\ Q \cap (1 .. sh[s]) = Origin(sh, s)}

FromPipe ==
    /\ Ordered(shells, Len(shells), BadLines)
    /\ ~forkFailed => \A d \in 1 .. Len(lines) :
          runs[d] + Cardinality(Owed(shells, Len(shells), BadLines, d))
              = 2 ^ Cardinality(Earlier(BadLines, d))

\* On a terminal all shells are behind the same line.
FromTerminal ==
    /\ \A s \in 1 .. Len(shells) : shells[s] = Sh!Read
    /\ ~forkFailed =>
          /\ \A d \in 1 .. Len(lines) :
                runs[d] = IF shells = << >> \/ d <= Sh!Read THEN 1 ELSE 0
          /\ shells # << >> =>
                Len(shells) <= 1 + Cardinality(Earlier(BadLines, Sh!Read + 1))

ShellInv ==
    /\ ShellTypes
    /\ ~terminal => FromPipe
    /\ terminal => FromTerminal
-----------------------------------------------------------------------------
(* Shell: the stack of shells, m shells sh on an input of N lines *)

Stack(sh, m, N) == m \in Nat /\ \A s \in 1 .. m : sh[s] \in 0 .. N

\* Then m2 shells sh2, after the innermost has read another line and maybe
\* forked a child there that goes on as a shell.
ReadsOn(sh, m, sh2, m2) ==
    /\ m2 \in {m, m + 1}
    /\ \A s \in 1 .. m - 1 : sh2[s] = sh[s]
    /\ \A s \in m .. m2 : sh2[s] = sh[m] + 1

\* One run of a set of runs is no longer to come, if one is made.
OneLess(old, new, one) ==
    IF one THEN \E P \in old : new = old \ {P} ELSE new = old

\* The order is kept if a child is forked only at a bad line.
LEMMA OrderedOn ==
    ASSUME NEW N \in Nat, NEW B \in SUBSET (1 .. N), NEW sh, NEW m, NEW sh2, NEW m2,
           Stack(sh, m, N), Stack(sh2, m2, N), m > 0,
           Ordered(sh, m, B), ReadsOn(sh, m, sh2, m2), m2 # m => sh[m] + 1 \in B
    PROVE  Ordered(sh2, m2, B)
<1>1. m \in Nat /\ m > 0 /\ m \in 1 .. m
    BY DEF Stack
<1>2. \A s \in 1 .. m : sh[s] \in 0 .. N
    BY DEF Stack
<1>3. sh[m] \in 0 .. N
    BY <1>1, <1>2
<1>4. \A s \in 1 .. m - 1 : sh[s] \in B /\ sh[s] <= sh[m] /\ sh2[s] = sh[s] /\ sh[s] \in 0 .. N
    BY <1>1, <1>2 DEF Ordered, ReadsOn
<1>5. CASE m2 = m
    <2>1. sh2[m] = sh[m] + 1
        BY <1>1, <1>5 DEF ReadsOn
    <2>. QED BY <1>3, <1>4, <1>5, <2>1 DEF Ordered
<1>6. CASE m2 = m + 1
    <2>2. sh2[m] = sh[m] + 1 /\ sh2[m + 1] = sh[m] + 1 /\ sh[m] + 1 \in B
        BY <1>1, <1>6 DEF ReadsOn
    <2>0. \A s \in 1 .. m : s \in 1 .. m - 1 \/ s = m
        BY <1>1
    <2>3. \A s \in 1 .. m : sh2[s] \in B /\ sh2[s] <= sh[m] + 1
        BY <1>3, <1>4, <2>0, <2>2
    <2>4. ASSUME NEW s \in 1 .. m, NEW q \in 1 .. m, s < q PROVE sh2[s] < sh2[q]
        <3>1. s \in 1 .. m - 1
            BY <1>1, <2>4
        <3>2. CASE q = m
            BY <1>3, <1>4, <2>2, <3>1, <3>2
        <3>3. CASE q \in 1 .. m - 1
            BY <1>4, <2>4, <3>1, <3>3 DEF Ordered
        <3>. QED BY <2>0, <3>2, <3>3
    <2>5. m2 - 1 = m
        BY <1>1, <1>6
    <2>. QED BY <1>6, <2>2, <2>3, <2>4, <2>5 DEF Ordered
<1>. QED BY <1>5, <1>6 DEF ReadsOn

\* Once the innermost has read a line, one run of it is owed less, its own; at
\* a bad line that is true only if its child goes on as a shell.
LEMMA OwedOn ==
    ASSUME NEW N \in Nat, NEW B \in SUBSET (1 .. N), NEW sh, NEW m, NEW sh2, NEW m2,
           Stack(sh, m, N), Stack(sh2, m2, N), m > 0,
           Ordered(sh, m, B), ReadsOn(sh, m, sh2, m2), m2 # m <=> sh[m] + 1 \in B,
           NEW d \in 1 .. N
    PROVE  OneLess(Owed(sh, m, B, d), Owed(sh2, m2, B, d), d = sh[m] + 1)
<1>. SUFFICES /\ d # sh[m] + 1 => Owed(sh2, m2, B, d) = Owed(sh, m, B, d)
              /\ d = sh[m] + 1 =>
                    \E P \in Owed(sh, m, B, d) :
                        Owed(sh2, m2, B, d) = Owed(sh, m, B, d) \ {P}
    BY DEF OneLess
<1>1. m \in Nat /\ m > 0 /\ m \in 1 .. m
    BY DEF Stack
<1>2. \A s \in 1 .. m : sh[s] \in 0 .. N
    BY DEF Stack
<1>3. PICK r \in 0 .. N : r = sh[m]
    BY <1>1, <1>2
<1>4. \A s \in 1 .. m - 1 : sh[s] \in B /\ sh[s] <= r /\ sh2[s] = sh[s] /\ sh[s] \in 0 .. N
    BY <1>1, <1>2, <1>3 DEF Ordered, ReadsOn
<1>5. m2 \in {m, m + 1} /\ \A s \in m .. m2 : sh2[s] = r + 1
    BY <1>3 DEF ReadsOn
<1>6. \A s \in 1 .. m : Origin(sh2, s) = Origin(sh, s)
    <2>. SUFFICES ASSUME NEW s \in 1 .. m PROVE Origin(sh2, s) = Origin(sh, s)
        OBVIOUS
    <2>1. \A k \in 1 .. s - 1 : k \in 1 .. m - 1
        BY <1>1
    <2>. QED BY <1>4, <2>1 DEF Origin
<1>. DEFINE P == Origin(sh, m)
<1>7. P \in SUBSET B /\ \A k \in P : k <= r
    BY <1>4 DEF Origin
<1>0. \A s \in 1 .. m : s \in 1 .. m - 1 \/ s = m
    BY <1>1
<1>. DEFINE Waits(Q) == \E s \in 1 .. m - 1 : sh[s] < d /\ Q \cap (1 .. sh[s]) = Origin(sh, s)
            Reads(Q) == r < d /\ Q \cap (1 .. r) = P
            Goes(Q)  == \E s \in m .. m2 : r + 1 < d /\ Q \cap (1 .. r + 1) = Origin(sh2, s)
<1>9. ASSUME NEW Q
      PROVE  Q \in Owed(sh, m, B, d) <=> Q \in SUBSET Earlier(B, d) /\ (Waits(Q) \/ Reads(Q))
    <2>3. \A s \in 1 .. m - 1 : s \in 1 .. m
        BY <1>1
    <2>1. (\E s \in 1 .. m : sh[s] < d /\ Q \cap (1 .. sh[s]) = Origin(sh, s))
                    <=> Waits(Q) \/ Reads(Q)
        BY <1>0, <1>1, <1>3, <2>3
    <2>. QED BY <2>1 DEF Owed
<1>10. ASSUME NEW Q
       PROVE  Q \in Owed(sh2, m2, B, d) <=> Q \in SUBSET Earlier(B, d) /\ (Waits(Q) \/ Goes(Q))
    <2>1. \A s : s \in 1 .. m2 <=> s \in 1 .. m - 1 \/ s \in m .. m2
        BY <1>1, <1>5
    <2>3. \A s \in 1 .. m - 1 : s \in 1 .. m
        BY <1>1
    <2>2. (\E s \in 1 .. m - 1 : sh2[s] < d /\ Q \cap (1 .. sh2[s]) = Origin(sh2, s))
              <=> Waits(Q)
        BY <1>4, <1>6, <2>3
    <2>4. (\E s \in m .. m2 : sh2[s] < d /\ Q \cap (1 .. sh2[s]) = Origin(sh2, s))
              <=> Goes(Q)
        BY <1>5
    <2>. QED BY <2>1, <2>2, <2>4 DEF Owed
<1>. HIDE DEF Waits
<1>11. CASE d < r + 1
    <2>1. ASSUME NEW Q PROVE ~Reads(Q) /\ ~Goes(Q)
        <3>1. ~(r < d) /\ ~(r + 1 < d)
            BY <1>11
        <3>. QED BY <3>1
    <2>. HIDE DEF Reads, Goes
    <2>2. \A Q : Q \in Owed(sh2, m2, B, d) <=> Q \in Owed(sh, m, B, d)
        BY <1>9, <1>10, <2>1
    <2>. QED BY <1>3, <1>11, <2>2
<1>12. CASE d = r + 1
    <2>0. r < d /\ ~(r + 1 < d)
        BY <1>12
    <2>1. ASSUME NEW Q \in SUBSET Earlier(B, d) PROVE (Reads(Q) <=> Q = P) /\ ~Goes(Q)
        <3>1. \A k \in Q : k \in 1 .. r
            BY <1>12 DEF Earlier
        <3>2. Q \cap (1 .. r) = Q
            BY <3>1
        <3>. QED BY <2>0, <3>2
    <2>2. P \in SUBSET Earlier(B, d)
        <3>. HIDE DEF P
        <3>1. \A k \in P : k \in B /\ k \in 1 .. N /\ k <= r
            BY <1>7
        <3>2. \A k \in P : k < d
            BY <1>12, <3>1
        <3>. QED BY <3>1, <3>2 DEF Earlier
    <2>3. ~Waits(P)
        <3>. SUFFICES ASSUME NEW s \in 1 .. m - 1, P \cap (1 .. sh[s]) = Origin(sh, s)
                      PROVE  FALSE
            BY DEF Waits
        <3>1. sh[s] \in P
            BY DEF Origin
        <3>2. sh[s] \in 1 .. sh[s]
            BY <1>4
        <3>3. PICK k \in 1 .. s - 1 : sh[k] = sh[s]
            BY <3>1, <3>2 DEF Origin
        <3>4. k \in 1 .. m - 1 /\ k < s
            BY <1>1
        <3>5. sh[k] < sh[s] /\ sh[k] \in 0 .. N /\ sh[s] \in 0 .. N
            BY <1>4, <3>4 DEF Ordered
        <3>. QED BY <3>3, <3>5
    <2>. HIDE DEF Reads, Goes, P
    <2>4. P \in Owed(sh, m, B, d)
        BY <1>9, <2>1, <2>2
    <2>5. \A Q : Q \in Owed(sh2, m2, B, d) <=> Q \in Owed(sh, m, B, d) /\ Q # P
        BY <1>9, <1>10, <2>1, <2>2, <2>3
    <2>6. Owed(sh2, m2, B, d) = Owed(sh, m, B, d) \ {P}
        BY <2>5
    <2>. QED BY <1>3, <1>12, <2>4, <2>6
<1>13. CASE d > r + 1
    <2>1. r < d /\ r + 1 < d
        BY <1>13
    <2>2. ASSUME NEW Q \in SUBSET Earlier(B, d) PROVE Reads(Q) <=> Goes(Q)
        <3>2. Q \cap (1 .. r + 1) = IF r + 1 \in Q THEN (Q \cap (1 .. r)) \cup {r + 1}
                                    ELSE Q \cap (1 .. r)
            <4>1. 1 .. r + 1 = (1 .. r) \cup {r + 1}
                OBVIOUS
            <4>. QED BY <4>1
        <3>3. r + 1 \notin P /\ r + 1 \notin Q \cap (1 .. r)
            BY <1>7
        <3>4. Origin(sh2, m) = P
            BY <1>1, <1>6
        <3>5. CASE m2 = m
            <4>1. r + 1 \notin Q
                BY <1>3, <3>5 DEF Earlier
            <4>2. m .. m2 = {m}
                BY <1>1, <3>5
            <4>. QED BY <2>1, <3>2, <3>4, <4>1, <4>2
        <3>6. CASE m2 = m + 1
            <4>1. m .. m2 = {m, m + 1}
                BY <1>1, <3>6
            <4>2. Origin(sh2, m + 1) = P \cup {r + 1}
                <5>1. 1 .. (m + 1) - 1 = (1 .. m - 1) \cup {m}
                    BY <1>1
                <5>2. sh2[m] = r + 1
                    BY <1>1, <1>5
                <5>. QED BY <1>4, <5>1, <5>2 DEF Origin
            <4>3. Goes(Q) <=> \/ Q \cap (1 .. r + 1) = P
                              \/ Q \cap (1 .. r + 1) = P \cup {r + 1}
                BY <2>1, <3>4, <4>1, <4>2
            <4>. HIDE DEF P, Goes
            <4>. QED BY <2>1, <3>2, <3>3, <4>3
        <3>. QED BY <1>5, <3>5, <3>6
    <2>. HIDE DEF P, Reads, Goes
    <2>3. \A Q : Q \in Owed(sh2, m2, B, d) <=> Q \in Owed(sh, m, B, d)
        <3>. SUFFICES ASSUME NEW Q
                      PROVE  Q \in Owed(sh2, m2, B, d) <=> Q \in Owed(sh, m, B, d)
            OBVIOUS
        <3>1. CASE Q \in SUBSET Earlier(B, d)
            <4>1. Reads(Q) <=> Goes(Q)
                BY <2>2, <3>1
            <4>. QED BY <1>9, <1>10, <4>1
        <3>2. CASE Q \notin SUBSET Earlier(B, d)
            BY <1>9, <1>10, <3>2
        <3>. QED BY <3>1, <3>2
    <2>4. Owed(sh2, m2, B, d) = Owed(sh, m, B, d)
        BY <2>3
    <2>5. d # sh[m] + 1
        BY <1>3, <1>13
    <2>. QED BY <2>4, <2>5
<1>. QED BY <1>11, <1>12, <1>13

\* A shell that is at the end of the input owes nothing, and when it returns the
\* order is kept.
LEMMA OwedAtEnd ==
    ASSUME NEW N \in Nat, NEW B \in SUBSET (1 .. N), NEW sh, NEW m, NEW sh2,
           Stack(sh, m, N), m > 0, Ordered(sh, m, B), sh[m] = N,
           \A s \in 1 .. m - 1 : sh2[s] = sh[s]
    PROVE  /\ Ordered(sh2, m - 1, B)
           /\ \A d \in 1 .. N : Owed(sh2, m - 1, B, d) = Owed(sh, m, B, d)
<1>1. m \in Nat /\ m > 0
    BY DEF Stack
<1>0. \A s \in 1 .. m - 1 : s \in 1 .. m /\ sh[s] \in 0 .. N /\ sh2[s] = sh[s]
    BY <1>1 DEF Stack
<1>2. Ordered(sh2, m - 1, B)
    <2>1. \A s \in 1 .. (m - 1) - 1 : s \in 1 .. m - 1 /\ m - 1 \in 1 .. m - 1 /\ s < m - 1
        BY <1>1
    <2>2. \A s \in 1 .. (m - 1) - 1 : sh[s] < sh[m - 1] /\ sh[s] \in B
        BY <2>1 DEF Ordered
    <2>3. \A s \in 1 .. (m - 1) - 1 : sh2[s] \in B /\ sh2[s] <= sh2[m - 1]
        BY <1>0, <2>1, <2>2
    <2>4. \A s, q \in 1 .. (m - 1) - 1 : s < q => sh2[s] < sh2[q]
        BY <1>0, <2>1 DEF Ordered
    <2>. QED BY <2>3, <2>4 DEF Ordered
<1>3. ASSUME NEW d \in 1 .. N PROVE Owed(sh2, m - 1, B, d) = Owed(sh, m, B, d)
    <2>1. ASSUME NEW s \in 1 .. m - 1 PROVE Origin(sh2, s) = Origin(sh, s)
        <3>1. \A k \in 1 .. s - 1 : k \in 1 .. m - 1
            BY <1>1
        <3>. QED BY <1>0, <3>1 DEF Origin
    <2>2. ASSUME NEW Q
          PROVE  (\E s \in 1 .. m - 1 : sh2[s] < d /\ Q \cap (1 .. sh2[s]) = Origin(sh2, s))
                <=> (\E s \in 1 .. m : sh[s] < d /\ Q \cap (1 .. sh[s]) = Origin(sh, s))
        <3>1. \A s : s \in 1 .. m <=> s \in 1 .. m - 1 \/ s = m
            BY <1>1
        <3>2. ~(sh[m] < d)
            OBVIOUS
        <3>. QED BY <1>0, <2>1, <3>1, <3>2
    <2>. QED BY <2>2 DEF Owed
<1>. QED BY <1>2, <1>3
-----------------------------------------------------------------------------
(* Shell: its steps *)

\* Sets of lines are finite, and a set of n of them has 2^n subsets.
LEMMA LinesFact ==
    ASSUME NEW N \in Nat, NEW B \in SUBSET (1 .. N), NEW d
    PROVE  /\ IsFiniteSet(Earlier(B, d)) /\ Cardinality(Earlier(B, d)) \in Nat
           /\ Cardinality(SUBSET Earlier(B, d)) = 2 ^ Cardinality(Earlier(B, d))
           /\ IsFiniteSet(SUBSET Earlier(B, d))
<1>1. IsFiniteSet(1 .. N)
    BY FS_Interval
<1>2. Earlier(B, d) \in SUBSET (1 .. N)
    BY DEF Earlier
<1>3. IsFiniteSet(Earlier(B, d))
    BY <1>1, <1>2, FS_Subset
<1>. QED BY <1>3, FS_CardinalityType, FS_SUBSET

\* What is owed is a finite set; without a shell nothing is owed, and before
\* the first line everything.
LEMMA OwedFact ==
    ASSUME NEW N \in Nat, NEW B \in SUBSET (1 .. N), NEW d, NEW sh, NEW m
    PROVE  /\ IsFiniteSet(Owed(sh, m, B, d)) /\ Cardinality(Owed(sh, m, B, d)) \in Nat
           /\ m = 0 => Owed(sh, m, B, d) = {}
           /\ m = 1 /\ sh[1] = 0 /\ 0 < d => Owed(sh, m, B, d) = SUBSET Earlier(B, d)
<1>1. IsFiniteSet(Owed(sh, m, B, d)) /\ Cardinality(Owed(sh, m, B, d)) \in Nat
    <2>1. Owed(sh, m, B, d) \in SUBSET (SUBSET Earlier(B, d))
        BY DEF Owed
    <2>. QED BY <2>1, LinesFact, FS_Subset, FS_CardinalityType
<1>2. m = 0 => Owed(sh, m, B, d) = {}
    BY DEF Owed
<1>3. ASSUME m = 1, sh[1] = 0, 0 < d PROVE Owed(sh, m, B, d) = SUBSET Earlier(B, d)
    <2>1. Origin(sh, 1) = {}
        BY DEF Origin
    <2>2. \A Q : Q \cap (1 .. 0) = {}
        OBVIOUS
    <2>3. 1 \in 1 .. m /\ sh[1] < d /\ \A Q : Q \cap (1 .. sh[1]) = Origin(sh, 1)
        BY <1>3, <2>1, <2>2
    <2>. QED BY <2>3 DEF Owed
<1>. QED BY <1>1, <1>2, <1>3

\* The stack, and who reads.
LEMMA StackFact ==
    ASSUME ShellTypes
    PROVE  /\ Len(lines) \in Nat /\ BadLines \in SUBSET (1 .. Len(lines))
           /\ Stack(shells, Len(shells), Len(lines))
           /\ shells = << >> <=> Len(shells) = 0
           /\ shells # << >> => /\ Len(shells) > 0 /\ Sh!Read = shells[Len(shells)]
                                /\ Sh!Read \in 0 .. Len(lines)
<1>1. Len(lines) \in Nat /\ Len(shells) \in Nat
    BY LenProperties DEF ShellTypes
<1>2. \A s \in 1 .. Len(shells) : shells[s] \in 0 .. Len(lines)
    BY ElementOfSeq DEF ShellTypes
<1>3. shells = << >> <=> Len(shells) = 0
    BY EmptySeq DEF ShellTypes
<1>4. shells # << >> => Len(shells) > 0 /\ Sh!Read = shells[Len(shells)]
    BY <1>1, <1>3 DEF Sh!Read, Sh!Last
<1>. QED BY <1>1, <1>2, <1>3, <1>4 DEF BadLines, Stack

\* What reading a line makes of the counts, and a child that has read as much.
LEMMA AdvanceFact ==
    ASSUME ShellTypes, shells # << >>, Sh!Read < Len(lines)
    PROVE  /\ Sh!Advanced \in Seq(0 .. Len(lines))
           /\ Len(Sh!Advanced) = Len(shells)
           /\ \A s \in 1 .. Len(shells) :
                 Sh!Advanced[s] = IF terminal \/ s = Len(shells) THEN Sh!Read + 1
                                  ELSE shells[s]
           /\ Append(Sh!Advanced, Sh!Read + 1) \in Seq(0 .. Len(lines))
           /\ Len(Append(Sh!Advanced, Sh!Read + 1)) = Len(shells) + 1
           /\ \A s \in 1 .. Len(shells) :
                 Append(Sh!Advanced, Sh!Read + 1)[s] = Sh!Advanced[s]
           /\ Append(Sh!Advanced, Sh!Read + 1)[Len(shells) + 1] = Sh!Read + 1
<1>1. /\ Len(lines) \in Nat /\ Len(shells) \in Nat
      /\ \A s \in 1 .. Len(shells) : shells[s] \in 0 .. Len(lines)
      /\ Sh!Read + 1 \in 0 .. Len(lines)
    BY StackFact DEF Stack
<1>2. Sh!Advanced \in [1 .. Len(shells) -> 0 .. Len(lines)]
    BY <1>1 DEF Sh!Advanced, Sh!Shells
<1>3. Sh!Advanced \in Seq(0 .. Len(lines))
    BY <1>1, <1>2, SeqDef
<1>4. Len(Sh!Advanced) = Len(shells)
    BY <1>1, <1>2, <1>3, LenProperties
<1>5. \A s \in 1 .. Len(shells) :
         Sh!Advanced[s] = IF terminal \/ s = Len(shells) THEN Sh!Read + 1 ELSE shells[s]
    BY DEF Sh!Advanced, Sh!Shells
<1>. HIDE DEF Sh!Advanced
<1>6. /\ Append(Sh!Advanced, Sh!Read + 1) \in Seq(0 .. Len(lines))
      /\ Len(Append(Sh!Advanced, Sh!Read + 1)) = Len(Sh!Advanced) + 1
      /\ \A s \in 1 .. Len(Sh!Advanced) :
            Append(Sh!Advanced, Sh!Read + 1)[s] = Sh!Advanced[s]
      /\ Append(Sh!Advanced, Sh!Read + 1)[Len(Sh!Advanced) + 1] = Sh!Read + 1
    BY <1>1, <1>3, AppendProperties
<1>. QED BY <1>3, <1>4, <1>5, <1>6

\* When the innermost returns.
LEMMA FrontFact ==
    ASSUME ShellTypes, shells # << >>
    PROVE  /\ Sh!Front(shells) \in Seq(0 .. Len(lines))
           /\ Len(Sh!Front(shells)) = Len(shells) - 1
           /\ \A s \in 1 .. Len(shells) - 1 : Sh!Front(shells)[s] = shells[s]
<1>1. Len(shells) \in Nat /\ Len(shells) > 0
    BY StackFact DEF Stack
<1>2. \A s \in 1 .. Len(shells) - 1 : shells[s] \in 0 .. Len(lines)
    BY <1>1, StackFact DEF Stack
<1>. DEFINE e == Len(shells) - 1
<1>3. e \in Nat /\ e = Len(shells) - 1
    BY <1>1
<1>. HIDE DEF e
<1>4. /\ SubSeq(shells, 1, e) \in Seq(0 .. Len(lines))
      /\ Len(SubSeq(shells, 1, e)) = IF 1 <= e THEN e - 1 + 1 ELSE 0
      /\ \A s \in 1 .. e - 1 + 1 : SubSeq(shells, 1, e)[s] = shells[1 + s - 1]
    BY <1>2, <1>3, SubSeqProperties
<1>5. Len(SubSeq(shells, 1, e)) = e /\ \A s \in 1 .. e : SubSeq(shells, 1, e)[s] = shells[s]
    BY <1>3, <1>4
<1>. QED BY <1>3, <1>4, <1>5 DEF Sh!Front

\* What reading a line makes of the stack, with a child or without.
LEMMA ReadFact ==
    ASSUME ShellTypes, shells # << >>, Sh!Read < Len(lines), UNCHANGED <<terminal, lines>>,
           \/ shells' = Sh!Advanced
           \/ shells' = Append(Sh!Advanced, Sh!Read + 1),
           runs' \in {runs, [runs EXCEPT ![Sh!Read + 1] = @ + 1]}
    PROVE  /\ ShellTypes' /\ BadLines' = BadLines
           /\ shells' # << >> /\ Sh!Read' = Sh!Read + 1
           /\ shells' = Sh!Advanced => Len(shells') = Len(shells)
           /\ shells' = Append(Sh!Advanced, Sh!Read + 1) => Len(shells') = Len(shells) + 1
           /\ ~terminal => ReadsOn(shells, Len(shells), shells', Len(shells'))
           /\ terminal => \A s \in 1 .. Len(shells') : shells'[s] = Sh!Read + 1
<1>1. /\ Len(shells) \in Nat /\ Len(shells) > 0 /\ Sh!Read = shells[Len(shells)]
      /\ Sh!Read \in 0 .. Len(lines) /\ Len(lines) \in Nat
    BY StackFact DEF Stack
<1>2. lines' = lines /\ terminal' = terminal
    OBVIOUS
<1>3. ShellTypes' /\ BadLines' = BadLines
    <2>1. runs' \in [1 .. Len(lines) -> Nat]
        BY <1>1 DEF ShellTypes
    <2>. QED BY <1>2, <2>1, AdvanceFact DEF ShellTypes, BadLines
<1>4. /\ Len(shells') \in {Len(shells), Len(shells) + 1}
      /\ shells' = Sh!Advanced => Len(shells') = Len(shells)
      /\ shells' = Append(Sh!Advanced, Sh!Read + 1) => Len(shells') = Len(shells) + 1
      /\ \A s \in 1 .. Len(shells) :
            shells'[s] = IF terminal \/ s = Len(shells) THEN Sh!Read + 1 ELSE shells[s]
      /\ Len(shells') = Len(shells) + 1 => shells'[Len(shells) + 1] = Sh!Read + 1
    <2>1. CASE shells' = Sh!Advanced
        BY <1>1, <2>1, AdvanceFact
    <2>2. CASE shells' = Append(Sh!Advanced, Sh!Read + 1)
        BY <1>1, <2>2, AdvanceFact
    <2>. QED BY <2>1, <2>2
<1>5. \A s \in 1 .. Len(shells') : s \in 1 .. Len(shells) \/ s = Len(shells) + 1
    BY <1>1, <1>4
<1>6. shells' # << >> /\ Sh!Read' = shells'[Len(shells')]
    <2>1. Len(shells') > 0
        BY <1>1, <1>4
    <2>. QED BY <1>3, <2>1, EmptySeq DEF ShellTypes, Sh!Read, Sh!Last
<1>7. Sh!Read' = Sh!Read + 1
    <2>1. Len(shells) \in 1 .. Len(shells)
        BY <1>1
    <2>. QED BY <1>4, <1>6, <2>1
<1>8. ASSUME ~terminal PROVE ReadsOn(shells, Len(shells), shells', Len(shells'))
    <2>1. \A s \in 1 .. Len(shells) - 1 : s \in 1 .. Len(shells) /\ s # Len(shells)
        BY <1>1
    <2>2. \A s \in Len(shells) .. Len(shells') :
             s # Len(shells) => s = Len(shells) + 1 /\ Len(shells') = Len(shells) + 1
        BY <1>1, <1>4
    <2>3. Len(shells) \in 1 .. Len(shells)
        BY <1>1
    <2>. QED BY <1>1, <1>4, <1>8, <2>1, <2>2, <2>3 DEF ReadsOn
<1>9. ASSUME terminal, NEW s \in 1 .. Len(shells') PROVE shells'[s] = Sh!Read + 1
    <2>1. s = Len(shells) + 1 => Len(shells') = Len(shells) + 1
        BY <1>1, <1>4
    <2>. QED BY <1>4, <1>5, <1>9, <2>1
<1>. QED BY <1>3, <1>4, <1>6, <1>7, <1>8, <1>9

\* A line that is read and run from a pipe: the run is no longer owed.
LEMMA PipedLine ==
    ASSUME ShellTypes, FromPipe, ~terminal, Sh!RunCommand \/ Sh!FallThrough
    PROVE  FromPipe'
<1>. DEFINE n == Sh!Read + 1  m == Len(shells)  N == Len(lines)
<1>1. /\ shells # << >> /\ Sh!Read < Len(lines) /\ UNCHANGED <<terminal, lines>>
      /\ \/ shells' = Sh!Advanced /\ lines[n] = "good"
         \/ shells' = Append(Sh!Advanced, n) /\ lines[n] = "bad"
      /\ runs' = [runs EXCEPT ![n] = @ + 1] /\ forkFailed' = forkFailed
    BY DEF Sh!RunCommand, Sh!FallThrough, Sh!Line
<1>2. /\ ShellTypes' /\ BadLines' = BadLines /\ N' = N
      /\ shells' = Sh!Advanced => Len(shells') = m
      /\ shells' = Append(Sh!Advanced, n) => Len(shells') = m + 1
      /\ ReadsOn(shells, m, shells', Len(shells'))
    BY <1>1, ReadFact
<1>3. /\ N \in Nat /\ BadLines \in SUBSET (1 .. N) /\ Stack(shells, m, N) /\ m > 0
      /\ Sh!Read = shells[m] /\ Sh!Read \in 0 .. N /\ m \in Nat
    BY <1>1, StackFact DEF Stack
<1>4. Stack(shells', Len(shells'), N)
    <2>1. Len(shells') \in Nat /\ \A s \in 1 .. Len(shells') : shells'[s] \in 0 .. N
        BY <1>2, LenProperties, ElementOfSeq DEF ShellTypes
    <2>. QED BY <2>1 DEF Stack
<1>5. n \in 1 .. N
    BY <1>1, <1>3
<1>6. Len(shells') # m <=> shells[m] + 1 \in BadLines
    BY <1>1, <1>2, <1>3, <1>5 DEF BadLines
<1>7. Ordered(shells, m, BadLines)
    BY DEF FromPipe
<1>8. Ordered(shells', Len(shells'), BadLines)
    BY <1>2, <1>3, <1>4, <1>6, <1>7, OrderedOn
<1>9. ASSUME NEW d \in 1 .. N
      PROVE  OneLess(Owed(shells, m, BadLines, d), Owed(shells', Len(shells'), BadLines, d),
                     d = shells[m] + 1)
    BY <1>2, <1>3, <1>4, <1>6, <1>7, OwedOn
<1>10. ASSUME ~forkFailed, NEW d \in 1 .. N
      PROVE  runs'[d] + Cardinality(Owed(shells', Len(shells'), BadLines, d))
                 = 2 ^ Cardinality(Earlier(BadLines, d))
    <2>. DEFINE old == Owed(shells, m, BadLines, d)
                new == Owed(shells', Len(shells'), BadLines, d)
    <2>1. IF d = n THEN \E P \in old : new = old \ {P} ELSE new = old
        BY <1>3, <1>9 DEF OneLess
    <2>2. runs[d] + Cardinality(old) = 2 ^ Cardinality(Earlier(BadLines, d))
        BY <1>10 DEF FromPipe
    <2>3. IsFiniteSet(old) /\ Cardinality(old) \in Nat
        BY <1>3, OwedFact
    <2>4. runs[d] \in Nat /\ runs'[d] = IF d = n THEN runs[d] + 1 ELSE runs[d]
        BY <1>1, <1>5 DEF ShellTypes
    <2>. HIDE DEF old, new, n
    <2>5. CASE d = n
        <3>1. PICK P \in old : new = old \ {P}
            BY <2>1, <2>5
        <3>2. Cardinality(new) = Cardinality(old) - 1
            BY <2>3, <3>1, FS_RemoveElement
        <3>3. (runs[d] + 1) + (Cardinality(old) - 1) = runs[d] + Cardinality(old)
            BY <2>3, <2>4
        <3>. QED BY <2>2, <2>4, <2>5, <3>2, <3>3 DEF new
    <2>6. CASE d # n
        BY <2>1, <2>2, <2>4, <2>6 DEF new, old
    <2>. QED BY <2>5, <2>6
<1>. QED BY <1>1, <1>2, <1>8, <1>10 DEF FromPipe

\* A line that is read but not run, because fork() failed, leaves the order.
LEMMA PipedFailure ==
    ASSUME ShellTypes, FromPipe, ~terminal, Sh!ForkFails
    PROVE  FromPipe'
<1>. DEFINE m == Len(shells)  N == Len(lines)
<1>1. /\ shells # << >> /\ Sh!Read < Len(lines) /\ UNCHANGED <<terminal, lines>>
      /\ shells' = Sh!Advanced /\ runs' = runs /\ forkFailed'
    BY DEF Sh!ForkFails, Sh!Line
<1>2. /\ ShellTypes' /\ BadLines' = BadLines /\ N' = N /\ Len(shells') = m
      /\ ReadsOn(shells, m, shells', Len(shells'))
    BY <1>1, ReadFact
<1>3. N \in Nat /\ BadLines \in SUBSET (1 .. N) /\ Stack(shells, m, N) /\ m > 0 /\ m \in Nat
    BY <1>1, StackFact DEF Stack
<1>4. Stack(shells', Len(shells'), N)
    <2>1. Len(shells') \in Nat /\ \A s \in 1 .. Len(shells') : shells'[s] \in 0 .. N
        BY <1>2, LenProperties, ElementOfSeq DEF ShellTypes
    <2>. QED BY <2>1 DEF Stack
<1>5. Ordered(shells', Len(shells'), BadLines)
    <2>1. Ordered(shells, m, BadLines)
        BY DEF FromPipe
    <2>. QED BY <1>2, <1>3, <1>4, <2>1, OrderedOn
<1>. QED BY <1>1, <1>2, <1>5 DEF FromPipe

\* The innermost returns at the end of the input; it owes nothing any more.
LEMMA PipedEnd ==
    ASSUME ShellTypes, FromPipe, ~terminal, Sh!EndOfInput
    PROVE  FromPipe'
<1>. DEFINE m == Len(shells)  N == Len(lines)
<1>1. /\ shells # << >> /\ Sh!Read = N /\ UNCHANGED <<terminal, lines, runs, forkFailed>>
      /\ shells' = Sh!Front(shells)
    BY DEF Sh!EndOfInput
<1>2. /\ Len(shells') = m - 1
      /\ \A s \in 1 .. m - 1 : shells'[s] = shells[s]
    BY <1>1, FrontFact
<1>3. /\ N \in Nat /\ BadLines \in SUBSET (1 .. N) /\ Stack(shells, m, N) /\ m > 0
      /\ shells[m] = N
    BY <1>1, StackFact
<1>4. Ordered(shells, m, BadLines)
    BY DEF FromPipe
<1>5. /\ Ordered(shells', m - 1, BadLines)
      /\ \A d \in 1 .. N : Owed(shells', m - 1, BadLines, d) = Owed(shells, m, BadLines, d)
    <2>. HIDE DEF m, N
    <2>. QED BY <1>2, <1>3, <1>4, OwedAtEnd
<1>6. BadLines' = BadLines /\ N' = N
    BY <1>1 DEF BadLines
<1>. QED BY <1>1, <1>2, <1>5, <1>6 DEF FromPipe

\* On a terminal a line is run once, and each bad one makes one shell more.
LEMMA TypedLine ==
    ASSUME ShellTypes, FromTerminal, terminal,
           Sh!RunCommand \/ Sh!FallThrough \/ Sh!ForkFails
    PROVE  FromTerminal'
<1>. DEFINE n == Sh!Read + 1  N == Len(lines)
<1>1. /\ shells # << >> /\ Sh!Read < N /\ UNCHANGED <<terminal, lines>>
      /\ \/ shells' = Sh!Advanced
         \/ shells' = Append(Sh!Advanced, n) /\ lines[n] = "bad"
      /\ runs' \in {runs, [runs EXCEPT ![n] = @ + 1]}
      /\ ~forkFailed' => ~forkFailed /\ runs' = [runs EXCEPT ![n] = @ + 1]
    <2>1. CASE Sh!RunCommand
        BY <2>1 DEF Sh!RunCommand, Sh!Line
    <2>2. CASE Sh!FallThrough
        BY <2>2 DEF Sh!FallThrough, Sh!Line
    <2>3. CASE Sh!ForkFails
        BY <2>3 DEF Sh!ForkFails, Sh!Line
    <2>. QED BY <2>1, <2>2, <2>3
<1>2. /\ BadLines' = BadLines /\ N' = N /\ shells' # << >> /\ Sh!Read' = n
      /\ \A s \in 1 .. Len(shells') : shells'[s] = n
      /\ shells' = Sh!Advanced => Len(shells') = Len(shells)
      /\ shells' = Append(Sh!Advanced, n) => Len(shells') = Len(shells) + 1
    BY <1>1, ReadFact
<1>3. /\ N \in Nat /\ BadLines \in SUBSET (1 .. N) /\ Len(shells) \in Nat
      /\ Sh!Read \in 0 .. N
    BY <1>1, StackFact DEF Stack
<1>4. ASSUME ~forkFailed', NEW d \in 1 .. N
      PROVE  runs'[d] = IF d <= n THEN 1 ELSE 0
    <2>1. runs[d] = IF d <= Sh!Read THEN 1 ELSE 0
        BY <1>1, <1>4 DEF FromTerminal
    <2>2. runs'[d] = IF d = n THEN runs[d] + 1 ELSE runs[d]
        BY <1>1, <1>4 DEF ShellTypes
    <2>. QED BY <1>3, <2>1, <2>2
<1>5. ASSUME ~forkFailed' PROVE Len(shells') <= 1 + Cardinality(Earlier(BadLines, n + 1))
    <2>. DEFINE old == Earlier(BadLines, n)  new == Earlier(BadLines, n + 1)
    <2>1. Len(shells) <= 1 + Cardinality(old)
        BY <1>1, <1>5 DEF FromTerminal
    <2>2. IsFiniteSet(old) /\ Cardinality(old) \in Nat
        BY <1>3, LinesFact
    <2>3. n \notin old /\ new = IF lines[n] = "bad" THEN old \cup {n} ELSE old
        <3>1. n \in 1 .. N
            BY <1>1, <1>3
        <3>2. \A k \in 1 .. N : k < n + 1 <=> k < n \/ k = n
            BY <1>3
        <3>3. ~(n < n)
            BY <1>3
        <3>. QED BY <3>1, <3>2, <3>3 DEF Earlier, BadLines
    <2>. HIDE DEF old, new
    <2>4. Cardinality(old \cup {n}) = Cardinality(old) + 1
        BY <2>2, <2>3, FS_AddElement
    <2>5. lines[n] = "bad" => Len(shells') <= 1 + Cardinality(new)
        BY <1>1, <1>2, <1>3, <2>1, <2>2, <2>3, <2>4
    <2>6. lines[n] # "bad" => Len(shells') <= 1 + Cardinality(new)
        BY <1>1, <1>2, <1>3, <2>1, <2>2, <2>3
    <2>. QED BY <2>5, <2>6 DEF new
<1>. QED BY <1>2, <1>4, <1>5 DEF FromTerminal

\* At its end every shell has read the whole input.
LEMMA TypedEnd ==
    ASSUME ShellTypes, FromTerminal, terminal, Sh!EndOfInput
    PROVE  FromTerminal'
<1>. DEFINE m == Len(shells)  N == Len(lines)
<1>1. /\ shells # << >> /\ Sh!Read = N /\ UNCHANGED <<terminal, lines, runs, forkFailed>>
      /\ shells' = Sh!Front(shells)
    BY DEF Sh!EndOfInput
<1>2. /\ Len(shells') = m - 1 /\ shells' \in Seq(0 .. N)
      /\ \A s \in 1 .. m - 1 : shells'[s] = shells[s]
    BY <1>1, FrontFact
<1>3. N \in Nat /\ m \in Nat /\ m > 0 /\ BadLines \in SUBSET (1 .. N)
    BY <1>1, StackFact DEF Stack
<1>4. \A s \in 1 .. m - 1 : s \in 1 .. m /\ shells'[s] = N
    BY <1>1, <1>2, <1>3 DEF FromTerminal
<1>5. shells' # << >> => m - 1 \in 1 .. m - 1 /\ Sh!Read' = N
    <2>1. shells' # << >> => m - 1 > 0
        BY <1>2, <1>3, EmptySeq
    <2>2. Sh!Read' = shells'[m - 1]
        BY <1>2 DEF Sh!Read, Sh!Last
    <2>. QED BY <1>3, <1>4, <2>1, <2>2
<1>6. \A s \in 1 .. Len(shells') : shells'[s] = Sh!Read'
    <2>1. ASSUME NEW s \in 1 .. Len(shells') PROVE shells' # << >>
        BY <1>2, <1>3, <2>1, EmptySeq
    <2>. QED BY <1>2, <1>4, <1>5, <2>1
<1>7. ASSUME ~forkFailed', NEW d \in 1 .. N
      PROVE  runs'[d] = IF shells' = << >> \/ d <= Sh!Read' THEN 1 ELSE 0
    <2>1. runs[d] = IF d <= N THEN 1 ELSE 0
        BY <1>1, <1>7 DEF FromTerminal
    <2>. QED BY <1>1, <1>3, <1>5, <2>1
<1>8. ASSUME ~forkFailed', shells' # << >>
      PROVE  Len(shells') <= 1 + Cardinality(Earlier(BadLines, Sh!Read' + 1))
    <2>1. m <= 1 + Cardinality(Earlier(BadLines, N + 1))
        BY <1>1, <1>8 DEF FromTerminal
    <2>2. Cardinality(Earlier(BadLines, N + 1)) \in Nat
        BY <1>3, LinesFact
    <2>. QED BY <1>2, <1>3, <1>5, <1>8, <2>1, <2>2
<1>9. BadLines' = BadLines /\ N' = N
    BY <1>1 DEF BadLines
<1>. QED BY <1>6, <1>7, <1>8, <1>9 DEF FromTerminal

\* The shell starts alone and owes every run.
LEMMA ShellBegins == Sh!Init => ShellInv
<1>. SUFFICES ASSUME Sh!Init PROVE ShellInv
    OBVIOUS
<1>1. /\ terminal \in BOOLEAN /\ shells = <<0>> /\ forkFailed = FALSE
      /\ runs = [d \in DOMAIN lines |-> 0]
    BY DEF Sh!Init
<1>2. PICK n \in Nat : lines \in [1 .. n -> {"good", "bad"}]
    BY DEF Sh!Init
<1>3. lines \in Seq({"good", "bad"}) /\ Len(lines) = n /\ DOMAIN lines = 1 .. n
    BY <1>2, SeqDef, LenProperties
<1>4. Len(shells) = 1 /\ shells[1] = 0 /\ shells \in Seq(0 .. Len(lines)) /\ shells # << >>
    BY <1>1, <1>3
<1>5. ShellTypes
    BY <1>1, <1>3, <1>4 DEF ShellTypes
<1>6. Len(lines) \in Nat /\ BadLines \in SUBSET (1 .. Len(lines)) /\ Sh!Read = 0
    BY <1>4, <1>5, StackFact
<1>7. FromPipe
    <2>1. Ordered(shells, Len(shells), BadLines)
        BY <1>4 DEF Ordered
    <2>2. ASSUME NEW d \in 1 .. Len(lines)
          PROVE  runs[d] + Cardinality(Owed(shells, Len(shells), BadLines, d))
                     = 2 ^ Cardinality(Earlier(BadLines, d))
        <3>1. runs[d] = 0 /\ 0 < d
            BY <1>1, <1>3
        <3>2. Owed(shells, Len(shells), BadLines, d) = SUBSET Earlier(BadLines, d)
            BY <1>4, <1>6, <3>1, OwedFact
        <3>3. /\ Cardinality(Owed(shells, Len(shells), BadLines, d)) \in Nat
              /\ Cardinality(SUBSET Earlier(BadLines, d)) = 2 ^ Cardinality(Earlier(BadLines, d))
            BY <1>6, OwedFact, LinesFact
        <3>. QED BY <3>1, <3>2, <3>3
    <2>. QED BY <2>1, <2>2 DEF FromPipe
<1>8. FromTerminal
    <2>1. \A s \in 1 .. Len(shells) : shells[s] = Sh!Read
        BY <1>4, <1>6
    <2>2. \A d \in 1 .. Len(lines) : runs[d] = IF shells = << >> \/ d <= Sh!Read THEN 1 ELSE 0
        BY <1>1, <1>3, <1>4, <1>6
    <2>3. Len(shells) <= 1 + Cardinality(Earlier(BadLines, Sh!Read + 1))
        <3>1. Cardinality(Earlier(BadLines, Sh!Read + 1)) \in Nat
            BY <1>6, LinesFact
        <3>. QED BY <1>4, <3>1
    <2>. QED BY <2>1, <2>2, <2>3 DEF FromTerminal
<1>. QED BY <1>5, <1>7, <1>8 DEF ShellInv

\* Each step keeps the invariant.
LEMMA ShellStep == ShellInv /\ [Sh!Next]_(Sh!vars) => ShellInv'
<1>. SUFFICES ASSUME ShellInv, [Sh!Next]_(Sh!vars) PROVE ShellInv'
    OBVIOUS
<1>0. ShellTypes /\ (~terminal => FromPipe) /\ (terminal => FromTerminal)
    BY DEF ShellInv
<1>1. CASE UNCHANGED Sh!vars
    <2>1. UNCHANGED <<terminal, lines, shells, runs, forkFailed>>
        BY <1>1 DEF Sh!vars
    <2>2. BadLines' = BadLines /\ Sh!Read' = Sh!Read
        BY <2>1 DEF BadLines, Sh!Read, Sh!Last
    <2>. QED BY <1>0, <2>1, <2>2 DEF ShellInv, ShellTypes, FromPipe, FromTerminal
<1>2. CASE Sh!RunCommand \/ Sh!FallThrough \/ Sh!ForkFails
    <2>1. /\ shells # << >> /\ Sh!Read < Len(lines) /\ UNCHANGED <<terminal, lines>>
          /\ shells' = Sh!Advanced \/ shells' = Append(Sh!Advanced, Sh!Read + 1)
          /\ runs' \in {runs, [runs EXCEPT ![Sh!Read + 1] = @ + 1]}
        BY <1>2 DEF Sh!RunCommand, Sh!FallThrough, Sh!ForkFails, Sh!Line
    <2>2. ShellTypes' /\ terminal' = terminal
        BY <1>0, <2>1, ReadFact
    <2>. QED BY <1>0, <1>2, <2>2, PipedLine, PipedFailure, TypedLine DEF ShellInv
<1>3. CASE Sh!EndOfInput
    <2>1. /\ shells # << >> /\ UNCHANGED <<terminal, lines, runs>>
          /\ shells' = Sh!Front(shells)
        BY <1>3 DEF Sh!EndOfInput
    <2>2. ShellTypes'
        BY <1>0, <2>1, FrontFact DEF ShellTypes
    <2>. QED BY <1>0, <1>3, <2>1, <2>2, PipedEnd, TypedEnd DEF ShellInv
<1>. QED BY <1>1, <1>2, <1>3 DEF Sh!Next

\* It implies how often a line is run, and how many shells there are.
LEMMA ShellKeeps == ShellInv => Sh!RunsPerFailure
<1>. SUFFICES ASSUME ShellInv PROVE Sh!RunsPerFailure
    OBVIOUS
<1>1. ShellTypes /\ (~terminal => FromPipe) /\ (terminal => FromTerminal)
    BY DEF ShellInv
<1>2. /\ Len(lines) \in Nat /\ BadLines \in SUBSET (1 .. Len(lines))
      /\ shells = << >> <=> Len(shells) = 0
      /\ shells # << >> => Sh!Read \in 0 .. Len(lines)
    BY <1>1, StackFact
<1>3. ASSUME NEW d \in 0 .. Len(lines) PROVE Sh!BadBefore(d + 1) = Earlier(BadLines, d + 1)
    BY <1>2 DEF Sh!BadBefore, Earlier, BadLines
<1>4. DOMAIN lines = 1 .. Len(lines)
    BY <1>1, LenProperties DEF ShellTypes
<1>5. ASSUME shells = << >>, ~forkFailed, NEW d \in 1 .. Len(lines)
      PROVE  runs[d] = IF terminal THEN 1 ELSE 2 ^ Cardinality(Sh!BadBefore(d))
    <2>1. d - 1 \in 0 .. Len(lines) /\ (d - 1) + 1 = d
        BY <1>2
    <2>2. Sh!BadBefore(d) = Earlier(BadLines, d)
        BY <1>3, <2>1
    <2>3. CASE terminal
        BY <1>1, <1>5, <2>3 DEF FromTerminal
    <2>4. CASE ~terminal
        <3>1. Owed(shells, Len(shells), BadLines, d) = {}
            BY <1>2, <1>5, OwedFact
        <3>2. Cardinality(Owed(shells, Len(shells), BadLines, d)) = 0
            BY <3>1, FS_EmptySet
        <3>3. runs[d] + 0 = 2 ^ Cardinality(Earlier(BadLines, d))
            BY <1>1, <1>5, <2>4, <3>2 DEF FromPipe
        <3>4. runs[d] \in Nat
            BY <1>1 DEF ShellTypes
        <3>. QED BY <2>2, <2>4, <3>3, <3>4
    <2>. QED BY <2>3, <2>4
<1>6. ASSUME shells # << >>, terminal, ~forkFailed
      PROVE  Len(shells) <= 1 + Cardinality(Sh!BadBefore(Sh!Read + 1))
    BY <1>1, <1>2, <1>3, <1>6 DEF FromTerminal
<1>7. shells = << >> /\ ~forkFailed =>
         \A d \in DOMAIN lines :
             runs[d] = IF terminal THEN 1 ELSE 2 ^ Cardinality(Sh!BadBefore(d))
    BY <1>4, <1>5
<1>8. \A S : Sh!Cardinality(S) = Cardinality(S)
    BY DEF Sh!Cardinality, Cardinality
<1>. QED BY <1>6, <1>7, <1>8, Zenon DEF Sh!RunsPerFailure
-----------------------------------------------------------------------------
(* The programs together *)

\* Whichever program runs keeps its invariant.
ProgramsInv ==
    /\ Signalling => SignalTypes /\ FlagInv /\ QueueInv
    /\ Sharing => DemoInv
    /\ Piping => PipeInv
    /\ Shelling => ShellInv
    /\ Printing => PrintInv

\* No step starts another program.
LEMMA ProgramStays == ProgramsNext => program' = program
<1>1. Next => program' = program
    BY DEF Next, Interrupt, DefaultAction, Deliver, Handler, SetFlag, SetSignal, SetValue,
           Main, Install, Sleep, Block, Unblock, Test, Report, Reset, Fetch, ReadFirst,
           PrintPair, Parent, Queue, Kill, Waitpid, Terminate
<1>2. Demos!Next => program' = program
    BY DEF Demos!Next, Demos!Main, Demos!Create, Demos!Join, Demos!Check, Demos!Flush,
           Demos!ThreadStep, Demos!Load, Demos!Increment, Demos!Store, Demos!Lock,
           Demos!Unlock, Demos!Access
<1>3. Pipe!Next => program' = program
    BY DEF Pipe!Next, Pipe!Parent, Pipe!Command, Pipe!Fork, Pipe!ForkFails, Pipe!CloseOut,
           Pipe!CloseIn, Pipe!Waitpid, Pipe!WaitpidFails, Pipe!Redirect, Pipe!OpenFifo,
           Pipe!Exec, Pipe!ExecFails, Pipe!Put, Pipe!WriterEnds, Pipe!Take, Pipe!EndOfFile
<1>4. Sh!Next => program' = program
    BY DEF Sh!Next, Sh!RunCommand, Sh!FallThrough, Sh!ForkFails, Sh!EndOfInput, Sh!Line
<1>5. Output!Next => program' = program
    BY DEF Output!Next, Output!Before, Output!Fork, Output!ForkFails, Output!Waitpid,
           Output!PrintStatus, Output!ParentPrints, Output!ChildPrints,
           Output!ChildStores, Output!Exit
<1>. QED
    BY <1>1, <1>2, <1>3, <1>4, <1>5 DEF ProgramsNext

\* The invariant holds at the start.
LEMMA ProgramsBegin == ProgramsInit => ProgramsInv
<1>. SUFFICES ASSUME ProgramsInit PROVE ProgramsInv
    OBVIOUS
<1>. USE SignalAssumption, ProgramsAssumption
     DEF Signalling, Sharing, Piping, Shelling, Printing
<1>1. CASE Init
    BY <1>1, SignalBegins DEF Init, ProgramsInv
<1>2. CASE Demos!Init
    BY <1>2, DemoBegins DEF Demos!Init, ProgramsInv
<1>3. CASE Pipe!Init
    BY <1>3, PipeBegins DEF Pipe!Init, ProgramsInv
<1>4. CASE Sh!Init
    BY <1>4, ShellBegins DEF Sh!Init, ProgramsInv
<1>5. CASE Output!Init
    BY <1>5, PrintBegins DEF Output!Init, ProgramsInv
<1>. QED
    BY <1>1, <1>2, <1>3, <1>4, <1>5 DEF ProgramsInit

\* Each step keeps the invariant.
LEMMA ProgramsInductive == ProgramsInv /\ [ProgramsNext]_allVars => ProgramsInv'
<1>. SUFFICES ASSUME ProgramsInv, [ProgramsNext]_allVars PROVE ProgramsInv'
    OBVIOUS
<1>0. program' = program
    BY ProgramStays DEF allVars
<1>1. Signalling => [Next]_vars
    BY SignalAssumption, ProgramsAssumption
    DEF ProgramsNext, allVars, vars, signalVars,
        Signalling, Sharing, Piping, Shelling, Printing
<1>2. Piping => [Pipe!Next]_(Pipe!vars)
    BY SignalAssumption, ProgramsAssumption
    DEF ProgramsNext, allVars, Pipe!vars, pipeVars,
        Signalling, Sharing, Piping, Shelling, Printing
<1>3. Printing => [Output!Next]_(Output!vars)
    BY SignalAssumption, ProgramsAssumption
    DEF ProgramsNext, allVars, Output!vars, printVars,
        Signalling, Sharing, Piping, Shelling, Printing
<1>4. Sharing => [Demos!Next]_(Demos!vars)
    BY SignalAssumption, ProgramsAssumption
    DEF ProgramsNext, allVars, Demos!vars, demoVars,
        Signalling, Sharing, Piping, Shelling, Printing
<1>5. Shelling => [Sh!Next]_(Sh!vars)
    BY SignalAssumption, ProgramsAssumption
    DEF ProgramsNext, allVars, Sh!vars, shellVars,
        Signalling, Sharing, Piping, Shelling, Printing
<1>6. /\ Signalling' <=> Signalling
      /\ Sharing' <=> Sharing
      /\ Piping' <=> Piping
      /\ Shelling' <=> Shelling
      /\ Printing' <=> Printing
    BY <1>0 DEF Signalling, Sharing, Piping, Shelling, Printing
<1>7. Signalling => (SignalTypes /\ FlagInv /\ QueueInv)'
    BY <1>1, SignalTypesStep, FlagStep, QueueStep DEF ProgramsInv
<1>8. Piping => PipeInv'
    BY <1>2, PipeStep DEF ProgramsInv
<1>9. Printing => PrintInv'
    BY <1>3, PrintStep DEF ProgramsInv
<1>10. Sharing => DemoInv'
    BY <1>4, DemoStep DEF ProgramsInv
<1>11. Shelling => ShellInv'
    BY <1>5, ShellStep DEF ProgramsInv
<1>. QED
    BY <1>6, <1>7, <1>8, <1>9, <1>10, <1>11 DEF ProgramsInv

\* So it holds throughout.
LEMMA ProgramsAlways == ProgramsSpec => []ProgramsInv
BY ProgramsBegin, ProgramsInductive, PTL DEF ProgramsSpec

-----------------------------------------------------------------------------
(* The theorems *)

\* The programs that set a flag lose a SIGINT only if its handler comes between
\* the printing and the assignment that clears received_sigint.
THEOREM LostOnlyThere == ProgramsSpec => []SignalLostOnlyBeforeReset
<1>1. ProgramsInv => SignalLostOnlyBeforeReset
    BY FlagKeeps DEF ProgramsInv, SignalLostOnlyBeforeReset
<1>. QED
    BY <1>1, ProgramsAlways, PTL

\* sigqueue.c's child prints each signal once, in order and with its own value,
\* as long as no signal is queued before the child sleeps again.
THEOREM EachSignalPrinted == ProgramsSpec => []SignalsExactUnlessCrowded
<1>1. ProgramsInv => SignalsExactUnlessCrowded
    BY QueueKeeps DEF ProgramsInv, SignalsExactUnlessCrowded
<1>. QED
    BY <1>1, ProgramsAlways, PTL

\* pipe.c and fifo.c reap every child before they return, what was written into
\* the pipe has been read by then, and pipe.c aborts exactly if a fork() failed.
THEOREM ChildrenReaped == ProgramsSpec => []PipelineReaped
<1>1. ProgramsInv => PipelineReaped
    BY PipeKeeps DEF ProgramsInv, PipelineReaped
<1>. QED
    BY <1>1, ProgramsAlways, PTL

\* The programs that fork() with text in the buffer of stdout print what the
\* notebook shows, on a terminal and in a pipe.
THEOREM PrintedOnce == ProgramsSpec => []PrintsAsShown
<1>1. ProgramsInv => PrintsAsShown
    BY PrintKeeps DEF ProgramsInv, PrintsAsShown
<1>. QED
    BY <1>1, ProgramsAlways, PTL

\* atomic.c and mutex.c never print that the CPU is broken; no-sync-fix.c counts
\* every increment and no-sync.c between two and all of them; each thread of
\* multiple-create.c reads its own number.
THEOREM ThreadsKeepCount == ProgramsSpec => []ThreadOutcomes
<1>1. ProgramsInv => ThreadOutcomes
    BY DemoKeeps DEF ProgramsInv, ThreadOutcomes
<1>. QED
    BY <1>1, ProgramsAlways, PTL

\* simple_shell.c runs each line once from a terminal, and from a pipe twice as
\* often for each line before it that names no command, unless a fork() fails;
\* on a terminal one shell more has to be ended for each such line.
THEOREM RunsDouble == ProgramsSpec => []RunsPerFailure
<1>1. ProgramsInv => RunsPerFailure
    BY ShellKeeps DEF ProgramsInv, RunsPerFailure
<1>. QED
    BY <1>1, ProgramsAlways, PTL
=============================================================================
