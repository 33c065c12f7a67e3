---------------------------- MODULE SignalLoops ----------------------------
(***************************************************************************)
(* The programs of sem09-signals/snippets that wait for signals in a loop. *)
(*                                                                         *)
(*   sigaction, sigsuspend   a handler sets received_sigint, main() sleeps *)
(*                           in pause() or sigsuspend() and tests it       *)
(*   sigprocmask             the same, with SIGINT blocked while main()    *)
(*                           sleeps                                        *)
(*   sigwaitinfo, signalfd   SIGINT is blocked and fetched by a call       *)
(*   sigqueue                the parent queues real-time signals, the      *)
(*                           child's handler stores the number and value   *)
(*                           of the latest, main() of the child prints     *)
(*                                                                         *)
(* A handler runs on top of main(), or of another handler, between any two *)
(* of its accesses to the variables they share.  What the kernel does is   *)
(* external: a standard signal that is pending already is not counted, one *)
(* is blocked while its own handler runs, real-time signals queue up.      *)
(***************************************************************************)
EXTENDS Naturals, Sequences

CONSTANTS
    Program,        \* the programs to run
    MaxSent         \* bound: how many signals are sent (6 by sigqueue's parent)

ASSUME SignalAssumption ==
    /\ Program \subseteq {"sigaction", "sigsuspend", "sigprocmask", "sigwaitinfo",
                          "signalfd", "sigqueue"}
    /\ MaxSent \in Nat

VARIABLES
    program,    \* the program
    sent,       \* how many signals were sent; each is named by its number
    pending,    \* the signals not yet delivered, in the order of delivery
    blocked,    \* the signal is blocked
    frames,     \* the handlers running, the innermost last: signal and step
    pc,         \* where main() is; "dead" once a signal has killed the process
    received_sigint,
    last,       \* last_signal and last_value
    shown,      \* the two arguments of printf(), 0 before they are read
    printed,    \* the pairs printed
    parent,     \* sigqueue's main(): "send", "kill", "wait", "end"
    (* History *)
    reported,   \* how many signals had been sent at the latest report
    handledAt,  \* where main() was when the latest handler came
    crowded     \* a signal was queued before the child had dealt with the last

kernel == <<sent, pending, blocked>>
stored == <<received_sigint, last>>
shows  == <<shown, printed, reported>>
vars   == <<program, sent, pending, blocked, frames, pc, received_sigint, last,
            shown, printed, parent, reported, handledAt, crowded>>

Flagging == program \in {"sigaction", "sigsuspend", "sigprocmask"}
Fetching == program \in {"sigwaitinfo", "signalfd"}
Queueing == program = "sigqueue"

Field == {"signal", "value"}
Unread == [f \in Field |-> 0]
-----------------------------------------------------------------------------
(* The kernel, and whoever sends SIGINT *)

Interrupt ==
    /\ ~Queueing /\ pc # "dead"
    /\ sent < MaxSent
    /\ sent' = sent + 1
    /\ pending' = IF pending = << >> THEN <<sent'>> ELSE pending
    /\ UNCHANGED <<program, blocked, frames, pc, stored, shows, parent, handledAt,
                   crowded>>

\* SIGINT before the handler is set or the signal blocked.
DefaultAction ==
    /\ pc = "start" /\ pending # << >>
    /\ pc' = "dead"
    /\ UNCHANGED <<program, kernel, frames, stored, shows, parent, handledAt, crowded>>

\* A handler starts; pause() and sigsuspend() return once it has run.
Deliver ==
    /\ pending # << >> /\ ~blocked
    /\ Flagging => frames = << >>
    /\ Flagging \/ Queueing
    /\ pc \notin {"start", "dead"}
    /\ frames' = Append(frames, <<Head(pending), "signal">>)
    /\ pending' = Tail(pending)
    /\ handledAt' = pc
    /\ pc' = IF pc = "asleep" THEN "test" ELSE pc
    /\ UNCHANGED <<program, sent, blocked, stored, shows, parent, crowded>>
-----------------------------------------------------------------------------
(* The handlers *)

Top      == frames[Len(frames)]
Returned == SubSeq(frames, 1, Len(frames) - 1)

SetFlag ==
    /\ Flagging /\ frames # << >> /\ pc # "dead"
    /\ received_sigint' = TRUE
    /\ frames' = Returned
    /\ UNCHANGED <<program, kernel, pc, last, shows, parent, handledAt, crowded>>

SetSignal ==
    /\ Queueing /\ frames # << >> /\ pc # "dead"
    /\ Top[2] = "signal"
    /\ last' = [last EXCEPT !["signal"] = Top[1]]
    /\ frames' = Append(Returned, <<Top[1], "value">>)
    /\ UNCHANGED <<program, kernel, pc, received_sigint, shows, parent, handledAt,
                   crowded>>

\* Deviation: last_value is not set (line 14).
SetNoValue ==
    /\ Queueing /\ frames # << >> /\ pc # "dead"
    /\ Top[2] = "value"
    /\ frames' = Returned
    /\ UNCHANGED <<program, kernel, pc, stored, shows, parent, handledAt, crowded>>

\* The value sent with signal i is i * i; it is told from others by i.
SetValue ==
    /\ Queueing /\ frames # << >> /\ pc # "dead"
    /\ Top[2] = "value"
    /\ last' = [last EXCEPT !["value"] = Top[1]]
    /\ frames' = Returned
    /\ UNCHANGED <<program, kernel, pc, received_sigint, shows, parent, handledAt,
                   crowded>>
-----------------------------------------------------------------------------
(* main() *)

At(here, there) == frames = << >> /\ pc = here /\ pc' = there

\* The handler is set, or SIGINT blocked for good.
Install ==
    /\ At("start", "top")
    /\ pending = << >>
    /\ blocked' = Fetching
    /\ UNCHANGED <<program, sent, pending, frames, stored, shows, parent, handledAt,
                   crowded>>

\* Deviation: received_sigint is cleared before each pause().
SleepAfresh ==
    /\ program \in {"sigaction", "sigsuspend", "sigqueue"}
    /\ At("top", "asleep")
    /\ received_sigint' = FALSE
    /\ UNCHANGED <<program, kernel, frames, last, shows, parent, handledAt, crowded>>

\* pause() or sigsuspend(), neither of which looks at received_sigint.
Sleep ==
    /\ program \in {"sigaction", "sigsuspend", "sigqueue"}
    /\ At("top", "asleep")
    /\ UNCHANGED <<program, kernel, frames, stored, shows, parent, handledAt, crowded>>

\* SIG_BLOCK and sleep(5), which a blocked signal does not cut short.
Block ==
    /\ program = "sigprocmask"
    /\ At("top", "asleep")
    /\ blocked' = TRUE
    /\ UNCHANGED <<program, sent, pending, frames, stored, shows, parent, handledAt,
                   crowded>>

\* Deviation: SIG_UNBLOCK is missing (line 33).
UnblockNothing ==
    /\ program = "sigprocmask" /\ blocked
    /\ At("asleep", "test")
    /\ UNCHANGED <<program, kernel, frames, stored, shows, parent, handledAt, crowded>>

\* SIG_UNBLOCK delivers what is pending before it returns.
Unblock ==
    /\ program = "sigprocmask" /\ blocked
    /\ At("asleep", "test")
    /\ blocked' = FALSE
    /\ frames' = [i \in DOMAIN pending |-> <<pending[i], "signal">>]
    /\ handledAt' = IF pending # << >> THEN "asleep" ELSE handledAt
    /\ pending' = << >>
    /\ UNCHANGED <<program, sent, stored, shows, parent, crowded>>

Test ==
    /\ Flagging
    /\ At("test", IF received_sigint THEN "print" ELSE "top")
    /\ UNCHANGED <<program, kernel, frames, stored, shows, parent, handledAt, crowded>>

Report ==
    /\ Flagging
    /\ At("print", "reset")
    /\ reported' = sent
    /\ UNCHANGED <<program, kernel, frames, stored, shown, printed, parent, handledAt,
                   crowded>>

Reset ==
    /\ At("reset", "top")
    /\ received_sigint' = FALSE
    /\ UNCHANGED <<program, kernel, frames, last, shows, parent, handledAt, crowded>>

\* sigwaitinfo() or a read() of the signalfd takes the signal; it is printed.
Fetch ==
    /\ Fetching
    /\ At("top", "top")
    /\ pending # << >>
    /\ pending' = << >>
    /\ reported' = sent
    /\ UNCHANGED <<program, sent, blocked, frames, stored, shown, printed, parent,
                   handledAt, crowded>>

\* printf() of the pair: C leaves open which of the two is read first.
ReadFirst(f) ==
    /\ Queueing
    /\ At("test", "print")
    /\ shown' = [shown EXCEPT ![f] = last[f]]
    /\ UNCHANGED <<program, kernel, frames, stored, printed, reported, parent, handledAt,
                   crowded>>

PrintPair(f) ==
    LET pair == [shown EXCEPT ![f] = last[f]] IN
    /\ Queueing
    /\ At("print", "top")
    /\ shown[f] = 0
    /\ printed' = Append(printed, pair)
    /\ shown' = Unread
    /\ UNCHANGED <<program, kernel, frames, stored, reported, parent, handledAt, crowded>>
-----------------------------------------------------------------------------
(* The parent of sigqueue *)

\* The sleep(1) between two signals guarantees nothing.
Queue ==
    /\ Queueing /\ parent = "send" /\ sent < MaxSent
    /\ sent' = sent + 1
    /\ pending' = Append(pending, sent')
    /\ crowded' = (crowded \/ pc # "asleep" \/ pending # << >> \/ frames # << >>)
    /\ UNCHANGED <<program, blocked, frames, pc, stored, shows, parent, handledAt>>

Kill ==
    /\ Queueing /\ parent = "send" /\ sent = MaxSent
    /\ parent' = "wait"
    /\ UNCHANGED <<program, kernel, frames, pc, stored, shows, handledAt, crowded>>

\* SIGTERM goes ahead of every real-time signal that still waits.
Terminate ==
    /\ parent = "wait" /\ pc # "dead"
    /\ pc' = "dead"
    /\ UNCHANGED <<program, kernel, frames, stored, shows, parent, handledAt, crowded>>

Waitpid ==
    /\ parent = "wait" /\ pc = "dead"
    /\ parent' = "end"
    /\ UNCHANGED <<program, kernel, frames, pc, stored, shows, handledAt, crowded>>
-----------------------------------------------------------------------------
\* sigqueue's child inherits its handlers from before fork().
Init ==
    /\ program \in Program
    /\ sent = 0
    /\ pending = << >>
    /\ blocked = FALSE
    /\ frames = << >>
    /\ pc = IF Queueing THEN "top" ELSE "start"
    /\ received_sigint = FALSE
    /\ last = Unread
    /\ shown = Unread
    /\ printed = << >>
    /\ parent = IF Queueing THEN "send" ELSE "end"
    /\ reported = 0
    /\ handledAt = "start"
    /\ crowded = FALSE

Handler == SetFlag \/ SetSignal \/ SetValue

Main ==
    \/ Install \/ Sleep \/ Block \/ Unblock \/ Test \/ Report \/ Reset \/ Fetch
    \/ \E f \in Field : ReadFirst(f) \/ PrintPair(f)

Parent == Queue \/ Kill \/ Waitpid

Next == Interrupt \/ DefaultAction \/ Deliver \/ Handler \/ Main \/ Parent \/ Terminate

Spec == Init /\ [][Next]_vars

(* The process runs, and what is pending and not blocked is delivered. *)
FairSpec == Spec /\ WF_vars(Main) /\ WF_vars(Handler) /\ WF_vars(Deliver)
-----------------------------------------------------------------------------
(* Properties *)

\* A SIGINT that main() sleeps on without having reported it is remembered in
\* received_sigint, unless its handler came between the printing and the
\* assignment that clears the flag: the only window in which one is lost.
LostOnlyBeforeReset ==
    Flagging /\ pc = "asleep" /\ pending = << >> /\ sent > reported
        => received_sigint \/ handledAt = "reset"

\* As long as no signal is queued before the child sleeps again, each of them
\* is printed once, in order, with its own value.  Nothing but the parent's
\* sleep(1) sees to that.
ExactUnlessCrowded ==
    Queueing /\ ~crowded =>
        /\ \A i \in 1 .. Len(printed) : printed[i] = [f \in Field |-> i]
        /\ pc = "asleep" /\ pending = << >> => Len(printed) = sent
=============================================================================
