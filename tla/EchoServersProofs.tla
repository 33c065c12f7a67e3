------------------------ MODULE EchoServersProofs --------------------------
(***************************************************************************)
(* Theorems about the two TCP echo servers, for any set of clients and any *)
(* sizes.  The sequential one leaves nothing out before a close; the       *)
(* forking one forgets no exited child although SIGCHLD is not queued, and *)
(* leaves no descriptor open.  Both are echo services, however the stream  *)
(* is cut into messages.                                                   *)
(***************************************************************************)
EXTENDS TcpServer, ForkServer, TcpSessionProofs

-----------------------------------------------------------------------------
(* One connection after the other: the inductive invariant *)

TurnInv ==
    /\ SessionTypes
    /\ Queue
    /\ \A c \in Client : Counted(c) /\ Answered(c)

\* Nobody waits before the first connection.
LEMMA TurnBegins == TurnInit => TurnInv
BY SessionBegins DEF TurnInit, SessionInit, TurnInv

\* Each step keeps the invariant.
LEMMA TurnInductive == TurnInv /\ [TurnNext]_session => TurnInv'
<1> SUFFICES ASSUME TurnInv, [TurnNext]_session PROVE TurnInv'
    OBVIOUS
<1>0. /\ SessionTypes /\ Queue /\ \A c \in Client : Counted(c) /\ Answered(c)
    BY DEF TurnInv
<1>1. ASSUME NEW c \in Client, ClientStep(c) PROVE TurnInv'
    <2>1. SessionTypes'
        BY <1>0, <1>1, ClientStepTypes
    <2>2. \A d \in Client : Counted(d)' /\ Answered(d)'
        BY <1>0, <1>1, ClientStepKeeps
    <2>3. Queue'
        BY <1>0, <1>1, ClientStepQueues
    <2> QED BY <2>1, <2>2, <2>3 DEF TurnInv
<1>2. ASSUME NEW c \in Client, LoopStep(c) \/ Close(c) PROVE TurnInv'
    <2>1. SessionTypes'
        BY <1>0, <1>2, LoopStepTypes
    <2>2. \A d \in Client : Counted(d)' /\ Answered(d)'
        BY <1>0, <1>2, LoopStepKeeps
    <2>3. Queue'
        BY <1>0, <1>2, LoopStepQueues
    <2> QED BY <2>1, <2>2, <2>3 DEF TurnInv
<1>3. ASSUME AcceptNext PROVE TurnInv'
    <2>1. /\ backlog # << >> /\ backlog' = Tail(backlog)
          /\ Goto(Head(backlog), "read") /\ UNCHANGED <<net, loop>>
        BY <1>3 DEF AcceptNext
    <2>2. SessionTypes' /\ Queue' /\ \A d \in Client : Counted(d)' /\ Answered(d)'
        BY <1>0, <2>1, AcceptQueues
    <2> QED BY <2>2 DEF TurnInv
<1>4. CASE UNCHANGED session
    <2>1. UNCHANGED <<peer, text, acked, backlog, at, rcvd, msg, total_written, echoed>>
        BY <1>4 DEF session
    <2>2. ASSUME NEW d \in Client PROVE Counted(d)' /\ Answered(d)'
        BY <1>0, <2>1, Untouched
    <2>3. SessionTypes' /\ Queue'
        BY <1>0, <2>1 DEF SessionTypes, Queue
    <2> QED BY <2>2, <2>3 DEF TurnInv
<1> QED
    BY <1>1, <1>2, <1>3, <1>4 DEF TurnNext, Serve

\* The invariant holds in every reachable state.
LEMMA TurnAlways == TurnSpec => []TurnInv
BY TurnBegins, TurnInductive, PTL DEF TurnSpec

\* When a connection is about to be closed, or is, and the client has not
\* reset it, everything the client has sent was written back, or everything
\* up to the message that says "q".
THEOREM NothingLeftOut == TurnSpec => []AllEchoedBeforeClose
<1>1. TurnInv => AllEchoedBeforeClose
    BY DEF TurnInv, AllEchoedBeforeClose, Answered
<1> QED
    BY <1>1, TurnAlways, PTL

-----------------------------------------------------------------------------
(* One connection after the other: refinement *)

\* Every step of the server is a step of the echo service or leaves the
\* client's view of it alone.
LEMMA TurnServes ==
    TurnInv /\ [TurnNext]_session => [Service!EchoNext]_(Service!echoVars)
<1> SUFFICES ASSUME TurnInv, [TurnNext]_session
             PROVE  Service!EchoNext \/ UNCHANGED Service!echoVars
    OBVIOUS
<1>0. /\ SessionTypes /\ Queue /\ at \in [Client -> Place]
      /\ text \in [Client -> Seq(Byte)] /\ \A c \in Client : Counted(c) /\ Answered(c)
    BY DEF TurnInv, SessionTypes
\* The stage of each client, before and after a step that kills nobody.
<1>s. ASSUME Alive, \A d \in Client : at'[d] # "killed"
      PROVE  /\ stage = [d \in Client |->
                           IF at[d] = "closed" THEN "closed"
                           ELSE IF at[d] \in {"off", "backlog"} THEN "idle" ELSE "open"]
             /\ stage' = [d \in Client |->
                           IF at'[d] = "closed" THEN "closed"
                           ELSE IF at'[d] \in {"off", "backlog"} THEN "idle" ELSE "open"]
    BY <1>s DEF stage, Alive, Over
\* Inside the loop the session is open, wherever the step leads.
<1>r. ASSUME Alive, NEW c \in Client, at[c] \in {"read", "write"},
             NEW l \in {"read", "write", "close"}, Goto(c, l)
      PROVE  stage' = stage /\ stage[c] = "open"
    <2>1. at'[c] = l /\ \A d \in Client \ {c} : at'[d] = at[d]
        BY <1>0, <1>r DEF Goto
    <2>2. \A d \in Client : at'[d] # "killed"
        BY <1>r, <2>1 DEF Alive
    <2>3. \A d \in Client :
             /\ at'[d] = "closed" <=> at[d] = "closed"
             /\ at'[d] \in {"off", "backlog"} <=> at[d] \in {"off", "backlog"}
        BY <1>r, <2>1
    <2> QED BY <1>r, <1>s, <2>2, <2>3
<1>1. ASSUME Alive, NEW c \in Client, ClientStep(c)
      PROVE  Service!EchoNext \/ UNCHANGED Service!echoVars
    <2>1. CASE Connect(c)
        <3>1. at[c] = "off"
            BY <1>0, <2>1 DEF Connect, Counted
        <3>2. /\ \A d \in Client : at'[d] # "killed"
              /\ UNCHANGED <<text, echoed>>
            BY <1>0, <1>1, <2>1 DEF Connect, Goto, Alive, loop
        <3>3. stage' = stage
            BY <1>0, <1>1, <1>s, <2>1, <3>1, <3>2 DEF Connect, Goto
        <3> QED BY <3>2, <3>3 DEF Service!echoVars, sent
    <2>2. CASE Drain(c) \/ Fin(c) \/ Reset(c)
        <3>1. UNCHANGED <<at, text, echoed>>
            BY <2>2 DEF Drain, Fin, Reset, loop
        <3> QED BY <3>1 DEF Service!echoVars, sent, stage, Alive, Over
    <2>3. ASSUME NEW b \in Byte, Send(c, b) PROVE Service!EchoNext
        <3>1. /\ at' = at /\ echoed' = echoed /\ ~Over(c)
              /\ text' = [text EXCEPT ![c] = Append(@, b)]
            BY <2>3 DEF Send, loop
        <3>2. stage' = stage
            BY <3>1 DEF stage, Alive, Over
        <3>3. stage[c] # "closed"
            BY <1>1, <3>1 DEF stage
        <3>4. Len(Append(text[c], b)) = Len(text[c]) + 1
            BY <1>0, AppendProperties
        <3>5. sent' = [sent EXCEPT ![c] = @ + 1]
            BY <1>0, <3>1, <3>4 DEF sent
        <3>6. Service!Receive(c)
            BY <3>1, <3>2, <3>3, <3>5 DEF Service!Receive
        <3> QED BY <3>6 DEF Service!EchoNext
    <2> QED BY <1>1, <2>1, <2>2, <2>3 DEF ClientStep
<1>2. ASSUME Alive, AcceptNext PROVE Service!EchoNext
    <2> DEFINE c == Head(backlog)
    <2>1. c \in Client /\ at[c] = "backlog"
        BY <1>0, <1>2, QueueMoves DEF AcceptNext
    <2>2. Goto(c, "read") /\ UNCHANGED <<text, echoed>>
        BY <1>2 DEF AcceptNext, net, loop
    <2> HIDE DEF c
    <2>3. \A d \in Client : at'[d] # "killed"
        BY <1>0, <1>2, <2>1, <2>2 DEF Goto, Alive
    <2>4. stage[c] = "idle" /\ stage' = [stage EXCEPT ![c] = "open"]
        BY <1>0, <1>2, <1>s, <2>1, <2>2, <2>3 DEF Goto
    <2>5. Service!Open(c)
        BY <2>2, <2>4 DEF Service!Open, sent
    <2> QED BY <2>1, <2>5 DEF Service!EchoNext
<1>3. ASSUME Alive, NEW c \in Client, Read(c) \/ ReadEnds(c) \/ WriteBreaks(c)
      PROVE  UNCHANGED Service!echoVars
    <2>1. /\ at[c] \in {"read", "write"}
          /\ \E l \in {"read", "write", "close"} : Goto(c, l)
          /\ UNCHANGED <<text, echoed>>
        BY <1>3 DEF Read, ReadEnds, WriteBreaks, net, loop
    <2>3. stage' = stage
        BY <1>0, <1>3, <1>r, <2>1
    <2> QED BY <2>1, <2>3 DEF Service!echoVars, sent
<1>4. ASSUME Alive, NEW c \in Client, WriteSome(c) PROVE Service!EchoNext
    <2>1. /\ at[c] = "write" /\ (Goto(c, "read") \/ at' = at) /\ UNCHANGED text
        BY <1>4 DEF WriteSome, net
    <2>3. stage' = stage /\ stage[c] = "open"
        <3>1. Goto(c, "read") \/ Goto(c, "write")
            BY <1>0, <2>1 DEF Goto
        <3> QED BY <1>0, <1>4, <1>r, <2>1, <3>1
    <2>4. sent[c] = Len(text[c])
        BY DEF sent
    <2>5. Service!Echo(c)
        BY <1>0, <1>4, <2>1, <2>3, <2>4, EchoesNext DEF Service!Echo, sent
    <2> QED BY <2>5 DEF Service!EchoNext
<1>5. ASSUME Alive, NEW c \in Client, Close(c) PROVE Service!EchoNext
    <2>1. at[c] = "close" /\ Goto(c, "closed") /\ UNCHANGED <<text, echoed>>
        BY <1>5 DEF Close, net, loop
    <2>2. \A d \in Client : at'[d] # "killed"
        BY <1>0, <1>5, <2>1 DEF Goto, Alive
    <2>3. stage' = [d \in Client |-> IF d \in {c} THEN "closed" ELSE stage[d]]
        BY <1>0, <1>5, <1>s, <2>1, <2>2 DEF Goto
    <2>4. Service!Close({c})
        BY <2>1, <2>3 DEF Service!Close, sent
    <2> QED BY <2>4 DEF Service!EchoNext
\* SIGPIPE closes every connection.
<1>6. ASSUME NEW c \in Client, WriteKilled(c) PROVE Service!EchoNext
    <2>1. Goto(c, "killed") /\ UNCHANGED <<text, echoed>>
        BY <1>6 DEF WriteKilled, net, loop
    <2>2. at'[c] = "killed"
        BY <1>0, <2>1 DEF Goto
    <2>3. stage' = [d \in Client |-> IF d \in Client THEN "closed" ELSE stage[d]]
        BY <2>2 DEF stage, Alive
    <2>4. Service!Close(Client)
        BY <2>1, <2>3 DEF Service!Close, sent
    <2> QED BY <2>4 DEF Service!EchoNext
<1>7. CASE UNCHANGED session
    BY <1>7 DEF session, Service!echoVars, stage, sent, Alive, Over
<1> QED
    BY <1>1, <1>2, <1>3, <1>4, <1>5, <1>6, <1>7 DEF TurnNext, Serve, LoopStep

\* tcp_server.c is an echo service: what a client gets back is what it sent.
THEOREM TurnRefinement == TurnSpec => ImplementsEcho
<1>1. TurnInit => Service!EchoInit
    <2> SUFFICES ASSUME TurnInit PROVE Service!EchoInit
        OBVIOUS
    <2>1. /\ \A c \in Client : at[c] = "off" /\ text[c] = << >>
          /\ echoed = [c \in Client |-> << >>]
        BY DEF TurnInit, SessionInit, SessionStart
    <2>2. stage = [c \in Client |-> "idle"]
        BY <2>1 DEF stage, Alive, Over
    <2>3. sent = [c \in Client |-> 0]
        BY <2>1 DEF sent
    <2> QED BY <2>1, <2>2, <2>3 DEF Service!EchoInit
<1> QED
    BY <1>1, TurnServes, TurnAlways, PTL DEF TurnSpec, ImplementsEcho, Service!EchoSpec
-----------------------------------------------------------------------------
(* A child for each connection: the inductive invariant *)

ProcessTypes ==
    /\ pc \in {"accept", "fork", "parent", "failed"}
    /\ client_fd \in Client \cup {Nobody}
    /\ child \in [Client -> {"none", "running", "zombie", "reaped"}]
    /\ child_fd \subseteq Client

\* The parent holds the socket of the connection it has just accepted, which
\* has no child yet until fork() returns.
ParentHolds ==
    /\ pc = "accept" <=> client_fd = Nobody
    /\ pc \in {"fork", "failed"} => at[client_fd] = "accepted"

\* A connection is in the loop exactly while its child runs, up to the end of
\* the process, and its child holds the socket all that time.
ChildHolds(c) ==
    /\ at[c] \in {"off", "backlog", "accepted"} => child[c] = "none"
    /\ at[c] \in {"read", "write", "close"} => child[c] = "running" /\ c \in child_fd
    /\ c \in child_fd => child[c] = "running"

\* A connection for which fork() failed is closed and was never served.
Refused(c) == at[c] = "closed" /\ child[c] = "none"

ForkInv ==
    /\ SessionTypes
    /\ Queue
    /\ ProcessTypes
    /\ ParentHolds
    /\ ZombieNoticed
    /\ \A c \in Client :
          Counted(c) /\ ChildHolds(c) /\ (Refused(c) \/ Answered(c))

-----------------------------------------------------------------------------
(* The invariant is kept *)

\* Nobody waits and no child runs before the first connection.
LEMMA ForkBegins == Init => ForkInv
<1> SUFFICES ASSUME Init PROVE ForkInv
    OBVIOUS
<1>1. SessionTypes /\ Queue /\ \A c \in Client : Counted(c) /\ Answered(c)
    BY SessionBegins DEF Init, SessionInit
<1>2. ProcessTypes /\ ParentHolds /\ ZombieNoticed
    BY DEF Init, ProcessTypes, ParentHolds, ZombieNoticed
<1>3. ASSUME NEW c \in Client PROVE ChildHolds(c)
    BY DEF Init, SessionInit, SessionStart, ChildHolds
<1> QED
    BY <1>1, <1>2, <1>3 DEF ForkInv

\* What a step does not touch of the connections it leaves alone.
LEMMA SessionUntouched ==
    ASSUME ForkInv, UNCHANGED session
    PROVE  /\ SessionTypes' /\ Queue' /\ at' = at
           /\ \A c \in Client : Counted(c)' /\ (Answered(c) => Answered(c)')
<1>1. UNCHANGED <<peer, text, acked, backlog, at, rcvd, msg, total_written, echoed>>
    BY DEF session
<1>2. SessionTypes' /\ Queue'
    BY <1>1 DEF ForkInv, SessionTypes, Queue
<1>3. ASSUME NEW c \in Client PROVE Counted(c)' /\ (Answered(c) => Answered(c)')
    BY <1>1, Untouched DEF ForkInv
<1> QED
    BY <1>1, <1>2, <1>3

\* The parent's steps.
LEMMA ParentKeeps == ForkInv /\ Parent => ForkInv'
<1> SUFFICES ASSUME ForkInv, Parent PROVE ForkInv'
    OBVIOUS
<1>0. /\ SessionTypes /\ Queue /\ ProcessTypes /\ ParentHolds /\ ZombieNoticed
      /\ \A c \in Client : Counted(c) /\ ChildHolds(c) /\ (Refused(c) \/ Answered(c))
      /\ at \in [Client -> Place]
    BY DEF ForkInv, SessionTypes
<1>1. CASE Accept
    <2> DEFINE c == Head(backlog)
    <2>1. /\ c \in Client /\ at[c] = "backlog" /\ SessionTypes' /\ Queue'
          /\ \A d \in Client : Counted(d)' /\ (Answered(d) => Answered(d)')
        BY <1>0, <1>1, AcceptQueues DEF Accept
    <2>2. /\ pc = "accept" /\ pc' = "fork" /\ client_fd' = c /\ Goto(c, "accepted")
          /\ UNCHANGED <<child, child_fd, pending, handler>>
        BY <1>1 DEF Accept, At, process, signal
    <2> HIDE DEF c
    <2>3. at'[c] = "accepted" /\ \A d \in Client \ {c} : at'[d] = at[d]
        BY <1>0, <2>1, <2>2 DEF Goto
    <2>4. ProcessTypes' /\ ParentHolds' /\ ZombieNoticed'
        BY <1>0, <2>1, <2>2, <2>3, ForkAssumption
        DEF ProcessTypes, ParentHolds, ZombieNoticed
    <2>5. ASSUME NEW d \in Client PROVE ChildHolds(d)' /\ (Refused(d) => Refused(d)')
        <3>1. CASE d = c
            BY <1>0, <2>1, <2>2, <2>3, <3>1 DEF ChildHolds, Refused
        <3>2. CASE d # c
            BY <1>0, <2>2, <2>3, <3>2 DEF ChildHolds, Refused
        <3> QED BY <3>1, <3>2
    <2> QED BY <1>0, <2>1, <2>4, <2>5 DEF ForkInv
<1>2. CASE Fork
    <2> DEFINE c == client_fd
    <2>1. /\ pc = "fork" /\ pc' = "parent" /\ client_fd' = c
          /\ child' = [child EXCEPT ![c] = "running"] /\ child_fd' = child_fd \cup {c}
          /\ Goto(c, "read") /\ UNCHANGED <<net, loop, backlog, pending, handler>>
        BY <1>2 DEF Fork, At, signal
    <2>2. c \in Client /\ at[c] = "accepted" /\ child[c] = "none"
        BY <1>0, <2>1 DEF ParentHolds, ProcessTypes, ChildHolds
    <2> HIDE DEF c
    <2>3. at'[c] = "read" /\ \A d \in Client \ {c} : at'[d] = at[d]
        BY <1>0, <2>1, <2>2 DEF Goto
    <2>4. SessionTypes'
        BY <1>0, <2>1, <2>2 DEF SessionTypes, Goto, Place, net, loop
    <2>5. Queue'
        <3>1. \A i \in 1 .. Len(backlog) : backlog[i] \in Client /\ backlog[i] # c
            BY <1>0, <2>2, ElementOfSeq DEF Queue, SessionTypes
        <3> QED BY <1>0, <2>1, <2>3, <3>1 DEF Queue
    <2>6. \A d \in Client : Counted(d)' /\ (Answered(d) => Answered(d)')
        BY <1>0, <2>1, <2>2, AcceptKeeps
    <2>7. ProcessTypes' /\ ParentHolds' /\ ZombieNoticed'
        BY <1>0, <2>1, <2>2, ForkAssumption DEF ProcessTypes, ParentHolds, ZombieNoticed, c
    <2>8. ASSUME NEW d \in Client PROVE ChildHolds(d)' /\ (Refused(d) => Refused(d)')
        <3>1. CASE d = c
            BY <1>0, <2>1, <2>2, <2>3, <3>1 DEF ChildHolds, Refused, ProcessTypes
        <3>2. CASE d # c
            BY <1>0, <2>1, <2>3, <3>2 DEF ChildHolds, Refused, ProcessTypes
        <3> QED BY <3>1, <3>2
    <2> QED BY <1>0, <2>4, <2>5, <2>6, <2>7, <2>8 DEF ForkInv
<1>3. CASE ForkFails
    <2>1. /\ UNCHANGED <<session, client_fd, child, child_fd, pending, handler>>
          /\ pc = "fork" /\ pc' = "failed"
        BY <1>3 DEF ForkFails, At, process, signal
    <2>2. /\ SessionTypes' /\ Queue' /\ at' = at
          /\ \A c \in Client : Counted(c)' /\ (Answered(c) => Answered(c)')
        BY <2>1, SessionUntouched
    <2>3. ProcessTypes' /\ ParentHolds' /\ ZombieNoticed'
        BY <1>0, <2>1, <2>2 DEF ProcessTypes, ParentHolds, ZombieNoticed
    <2>4. ASSUME NEW d \in Client PROVE ChildHolds(d)' /\ (Refused(d) => Refused(d)')
        BY <1>0, <2>1, <2>2 DEF ChildHolds, Refused
    <2> QED BY <1>0, <2>2, <2>3, <2>4 DEF ForkInv
<1>4. CASE ParentClose /\ pc # "failed"
    <2>1. /\ UNCHANGED <<net, loop, backlog, at, child, child_fd, pending, handler>>
          /\ pc' = "accept" /\ client_fd' = Nobody
        BY <1>4 DEF ParentClose, process, signal
    <2>2. /\ SessionTypes' /\ Queue' /\ at' = at
          /\ \A c \in Client : Counted(c)' /\ (Answered(c) => Answered(c)')
        BY <2>1, SessionUntouched DEF session, net, loop
    <2>3. ProcessTypes' /\ ParentHolds' /\ ZombieNoticed'
        BY <1>0, <2>1 DEF ProcessTypes, ParentHolds, ZombieNoticed
    <2>4. ASSUME NEW d \in Client PROVE ChildHolds(d)' /\ (Refused(d) => Refused(d)')
        BY <1>0, <2>1, <2>2 DEF ChildHolds, Refused
    <2> QED BY <1>0, <2>2, <2>3, <2>4 DEF ForkInv
\* After a failed fork() the connection is refused.
<1>5. CASE ParentClose /\ pc = "failed"
    <2> DEFINE c == client_fd
    <2>1. /\ UNCHANGED <<net, loop, backlog, child, child_fd, pending, handler>>
          /\ pc' = "accept" /\ client_fd' = Nobody /\ Goto(c, "closed")
        BY <1>5 DEF ParentClose, process, signal
    <2>2. c \in Client /\ at[c] = "accepted" /\ child[c] = "none"
        BY <1>0, <1>5 DEF ParentHolds, ProcessTypes, ChildHolds
    <2> HIDE DEF c
    <2>3. at'[c] = "closed" /\ \A d \in Client \ {c} : at'[d] = at[d]
        BY <1>0, <2>1, <2>2 DEF Goto
    <2>u. UNCHANGED <<peer, text, acked, rcvd, msg, total_written, echoed>>
        BY <2>1 DEF net, loop
    <2>4. SessionTypes'
        BY <1>0, <2>1, <2>2, <2>u DEF SessionTypes, Goto, Place
    <2>5. Queue'
        <3>1. \A i \in 1 .. Len(backlog) : backlog[i] \in Client /\ backlog[i] # c
            BY <1>0, <2>2, ElementOfSeq DEF Queue, SessionTypes
        <3> QED BY <1>0, <2>1, <2>3, <3>1 DEF Queue
    <2>6. ProcessTypes' /\ ParentHolds' /\ ZombieNoticed'
        BY <1>0, <2>1 DEF ProcessTypes, ParentHolds, ZombieNoticed
    <2>7. ASSUME NEW d \in Client
          PROVE  Counted(d)' /\ ChildHolds(d)' /\ (Refused(d) \/ Answered(d))'
        <3>1. CASE d = c
            <4>1. Counted(d)'
                BY <1>0, <2>2, <2>3, <2>u, <3>1 DEF Counted
            <4>2. ChildHolds(d)' /\ Refused(d)'
                BY <1>0, <2>1, <2>2, <2>3, <3>1 DEF ChildHolds, Refused
            <4> QED BY <4>1, <4>2
        <3>2. CASE d # c
            <4>1. Counted(d)' /\ (Answered(d) => Answered(d)')
                BY <1>0, <2>3, <2>u, <3>2, Untouched
            <4>2. ChildHolds(d)' /\ (Refused(d) => Refused(d)')
                BY <1>0, <2>1, <2>3, <3>2 DEF ChildHolds, Refused
            <4> QED BY <1>0, <4>1, <4>2
        <3> QED BY <3>1, <3>2
    <2> QED BY <2>4, <2>5, <2>6, <2>7 DEF ForkInv
<1> QED
    BY <1>1, <1>2, <1>3, <1>4, <1>5 DEF Parent

\* The steps of sigchld_handler(): it leaves its loop only when no zombie is
\* left, so a zombie it leaves behind has made SIGCHLD pending again.
LEMMA HandlerKeeps == ForkInv /\ Handler => ForkInv'
<1> SUFFICES ASSUME ForkInv, Handler PROVE ForkInv'
    OBVIOUS
<1>0. /\ ProcessTypes /\ ParentHolds /\ ZombieNoticed
      /\ \A c \in Client : ChildHolds(c) /\ (Refused(c) \/ Answered(c))
    BY DEF ForkInv
<1>1. UNCHANGED <<session, pc, client_fd, child_fd>>
    BY DEF Handler, Deliver, Reap, ReapNone, Return, parent, process
<1>2. /\ SessionTypes' /\ Queue' /\ at' = at
      /\ \A c \in Client : Counted(c)' /\ (Answered(c) => Answered(c)')
    BY <1>1, SessionUntouched
<1>3. \/ child' = child
      \/ \E c \in Client : child[c] = "zombie" /\ child' = [child EXCEPT ![c] = "reaped"]
    BY DEF Handler, Deliver, Reap, ReapNone, Return, process
<1>4. ProcessTypes' /\ ParentHolds'
    BY <1>0, <1>1, <1>2, <1>3 DEF ProcessTypes, ParentHolds
<1>5. ASSUME NEW c \in Client PROVE ChildHolds(c)' /\ (Refused(c) => Refused(c)')
    <2>1. \/ child'[c] = child[c]
          \/ child[c] = "zombie" /\ child'[c] = "reaped"
        BY <1>0, <1>3 DEF ProcessTypes
    <2> QED BY <1>0, <1>1, <1>2, <2>1 DEF ChildHolds, Refused
<1>6. ZombieNoticed'
    BY <1>0 DEF Handler, Deliver, Reap, ReapNone, Return, process, signal,
                ZombieNoticed, ProcessTypes
<1> QED
    BY <1>0, <1>2, <1>4, <1>5, <1>6 DEF ForkInv

\* The steps of a child.
LEMMA ChildKeeps == ASSUME ForkInv, NEW c \in Client, Child(c) PROVE ForkInv'
<1>0. /\ SessionTypes /\ Queue /\ ProcessTypes /\ ParentHolds /\ ZombieNoticed
      /\ \A d \in Client : Counted(d) /\ ChildHolds(d) /\ (Refused(d) \/ Answered(d))
      /\ at \in [Client -> Place]
    BY DEF ForkInv, SessionTypes
<1>1. child[c] = "running" /\ at[c] \notin {"off", "backlog", "accepted"}
    BY <1>0 DEF Child, ChildLoop, ChildClose, ChildEnds, ChildHolds
<1>2. Answered(c)
    BY <1>0, <1>1 DEF Refused
<1>4. CASE ChildLoop(c) \/ ChildClose(c)
    <2>1. /\ LoopStep(c) \/ Close(c)
          /\ UNCHANGED <<pc, client_fd, child, pending, handler>>
        BY <1>4 DEF ChildLoop, ChildClose, parent, process, signal
    <2>2. /\ SessionTypes' /\ Queue'
          /\ \A d \in Client : Counted(d)' /\ (Answered(d) => Answered(d)')
        BY <1>0, <1>2, <2>1, LoopStepTypes, LoopStepKeeps, LoopStepQueues
    <2>3. /\ at'[c] \in {"read", "write", "close", "closed", "killed"}
          /\ at'[c] \in {"read", "write", "close"} => child_fd' = child_fd
          /\ \A d \in Client \ {c} : at'[d] = at[d]
          /\ child_fd' \subseteq child_fd /\ child_fd \ {c} \subseteq child_fd'
        BY <1>0, <1>4
        DEF ChildLoop, ChildClose, process, LoopStep, Read, ReadEnds, WriteSome,
            WriteBreaks, WriteKilled, Close, Goto
    <2>4. at[c] \in {"read", "write", "close"}
        BY <2>1 DEF LoopStep, Read, ReadEnds, WriteSome, WriteBreaks, WriteKilled, Close
    <2>5. ProcessTypes' /\ ZombieNoticed'
        BY <1>0, <2>1, <2>3 DEF ProcessTypes, ZombieNoticed
    <2>6. ParentHolds'
        <3>1. pc \in {"fork", "failed"} => client_fd \in Client /\ client_fd # c
            BY <1>0, <1>1, ForkAssumption DEF ParentHolds, ProcessTypes
        <3> QED BY <1>0, <2>1, <2>3, <3>1 DEF ParentHolds
    <2>7. ASSUME NEW d \in Client PROVE ChildHolds(d)' /\ (Refused(d) => Refused(d)')
        <3>1. CASE d = c
            BY <1>0, <1>1, <2>1, <2>3, <2>4, <3>1 DEF ChildHolds, Refused
        <3>2. CASE d # c
            BY <1>0, <2>1, <2>3, <3>2 DEF ChildHolds, Refused
        <3> QED BY <3>1, <3>2
    <2> QED BY <1>0, <2>2, <2>5, <2>6, <2>7 DEF ForkInv
<1>5. CASE ChildEnds(c)
    <2>1. /\ UNCHANGED <<session, pc, client_fd, handler>> /\ Over(c)
          /\ child' = [child EXCEPT ![c] = "zombie"]
          /\ child_fd' = child_fd \ {c} /\ pending' = TRUE
        BY <1>5 DEF ChildEnds, parent
    <2>2. /\ SessionTypes' /\ Queue' /\ at' = at
          /\ \A d \in Client : Counted(d)' /\ (Answered(d) => Answered(d)')
        BY <2>1, SessionUntouched
    <2>3. ProcessTypes' /\ ParentHolds' /\ ZombieNoticed'
        BY <1>0, <2>1, <2>2 DEF ProcessTypes, ParentHolds, ZombieNoticed
    <2>4. ASSUME NEW d \in Client PROVE ChildHolds(d)' /\ (Refused(d) => Refused(d)')
        <3>1. CASE d = c
            BY <1>0, <1>1, <2>1, <2>2, <3>1 DEF ChildHolds, Refused, Over, ProcessTypes
        <3>2. CASE d # c
            BY <1>0, <2>1, <2>2, <3>2 DEF ChildHolds, Refused, ProcessTypes
        <3> QED BY <3>1, <3>2
    <2> QED BY <1>0, <2>2, <2>3, <2>4 DEF ForkInv
<1> QED
    BY <1>4, <1>5 DEF Child

\* The steps of a client.
LEMMA NetworkKeeps == ASSUME ForkInv, NEW c \in Client, Network(c) PROVE ForkInv'
<1>0. /\ SessionTypes /\ Queue /\ ProcessTypes /\ ParentHolds /\ ZombieNoticed
      /\ \A d \in Client : Counted(d) /\ ChildHolds(d) /\ (Refused(d) \/ Answered(d))
      /\ at \in [Client -> Place]
    BY DEF ForkInv, SessionTypes
<1>1. /\ ClientStep(c)
      /\ UNCHANGED <<pc, client_fd, child, child_fd, pending, handler>>
    BY DEF Network, parent, process, signal
<1>2. /\ SessionTypes' /\ Queue'
      /\ \A d \in Client : Counted(d)' /\ (Answered(d) => Answered(d)')
    BY <1>0, <1>1, ClientStepTypes, ClientStepKeeps, ClientStepQueues
<1>3. at' = at \/ (at[c] = "off" /\ at' = [at EXCEPT ![c] = "backlog"])
    <2>1. CASE Connect(c)
        BY <1>0, <2>1 DEF Connect, Goto, Counted
    <2>2. CASE ~Connect(c)
        BY <1>1, <2>2 DEF ClientStep, Drain, Fin, Reset, Send
    <2> QED BY <2>1, <2>2
<1>4. \A d \in Client : at'[d] = at[d] \/ (at[d] = "off" /\ at'[d] = "backlog")
    BY <1>0, <1>3
<1>5. ProcessTypes' /\ ZombieNoticed'
    BY <1>0, <1>1 DEF ProcessTypes, ZombieNoticed
<1>6. ParentHolds'
    <2>1. pc \in {"fork", "failed"} => client_fd \in Client /\ at'[client_fd] = "accepted"
        BY <1>0, <1>4, ForkAssumption DEF ParentHolds, ProcessTypes
    <2> QED BY <1>0, <1>1, <2>1 DEF ParentHolds
<1>7. ASSUME NEW d \in Client PROVE ChildHolds(d)' /\ (Refused(d) => Refused(d)')
    BY <1>0, <1>1, <1>4 DEF ChildHolds, Refused
<1> QED
    BY <1>0, <1>2, <1>5, <1>6, <1>7 DEF ForkInv

\* Each step of parent, handler, children and clients keeps the invariant.
LEMMA ForkInductive == ForkInv /\ [Next]_vars => ForkInv'
<1> SUFFICES ASSUME ForkInv, [Next]_vars PROVE ForkInv'
    OBVIOUS
<1>1. CASE UNCHANGED vars
    <2>1. UNCHANGED <<session, pc, client_fd, child, child_fd, pending, handler>>
        BY <1>1 DEF vars, parent, process, signal
    <2>2. /\ SessionTypes' /\ Queue' /\ at' = at
          /\ \A d \in Client : Counted(d)' /\ (Answered(d) => Answered(d)')
        BY <2>1, SessionUntouched
    <2>3. ProcessTypes' /\ ParentHolds' /\ ZombieNoticed'
        BY <2>1, <2>2 DEF ForkInv, ProcessTypes, ParentHolds, ZombieNoticed
    <2>4. ASSUME NEW d \in Client PROVE ChildHolds(d)' /\ (Refused(d) => Refused(d)')
        BY <2>1, <2>2 DEF ForkInv, ChildHolds, Refused
    <2> QED BY <2>2, <2>3, <2>4 DEF ForkInv
<1> QED
    BY <1>1, ParentKeeps, HandlerKeeps, ChildKeeps, NetworkKeeps DEF Next

\* The invariant holds in every reachable state.
LEMMA ForkAlways == Spec => []ForkInv
BY ForkBegins, ForkInductive, PTL DEF Spec

-----------------------------------------------------------------------------
(* The theorems *)

\* Children that share one SIGCHLD are not forgotten: while there is a zombie,
\* a delivery is due or the handler is in its loop.
THEOREM NoZombieForgotten == Spec => []ZombieNoticed
<1>1. ForkInv => ZombieNoticed
    BY DEF ForkInv
<1> QED
    BY <1>1, ForkAlways, PTL

\* Neither the parent nor a child keeps the socket of a connection it is done
\* with, and a connection that is served has its child and its descriptor.
THEOREM NoSocketLeaked == Spec => []SocketReleased
<1>1. ForkInv => SocketReleased
    BY ForkAssumption DEF ForkInv, ParentHolds, ChildHolds, SocketReleased
<1> QED
    BY <1>1, ForkAlways, PTL

\* A connection that got a child is not closed before its client, if it still
\* listens, has everything back that it sent, up to a "q".
THEOREM ServedInFull ==
    Spec => [](\A c \in Client :
        child[c] # "none" /\ at[c] \in {"close", "closed"} /\ ~Gone(c) =>
            \/ Len(echoed[c]) = Len(text[c])
            \/ /\ msg[c] # << >> /\ IsQuit(c, msg[c])
               /\ Len(echoed[c]) = rcvd[c] - Len(msg[c]))
<1>1. ForkInv => \A c \in Client :
        child[c] # "none" /\ at[c] \in {"close", "closed"} /\ ~Gone(c) =>
            \/ Len(echoed[c]) = Len(text[c])
            \/ /\ msg[c] # << >> /\ IsQuit(c, msg[c])
               /\ Len(echoed[c]) = rcvd[c] - Len(msg[c])
    BY DEF ForkInv, Refused, Answered
<1> QED
    BY <1>1, ForkAlways, PTL

-----------------------------------------------------------------------------
(* Refinement: SIGPIPE ends one session here, not all of them *)

\* How far the conversation with each client has come.
phase == [c \in Client |->
             IF Over(c) THEN "closed"
             ELSE IF at[c] \in {"off", "backlog", "accepted"} THEN "idle" ELSE "open"]

Forked == INSTANCE EchoService WITH session <- phase

\* Every step of the server is a step of the echo service or leaves the
\* client's view of it alone.
LEMMA ForkServes == ForkInv /\ [Next]_vars => [Forked!EchoNext]_(Forked!echoVars)
<1> SUFFICES ASSUME ForkInv, [Next]_vars
             PROVE  Forked!EchoNext \/ UNCHANGED Forked!echoVars
    OBVIOUS
<1>0. /\ SessionTypes /\ Queue /\ at \in [Client -> Place] /\ text \in [Client -> Seq(Byte)]
      /\ ProcessTypes /\ ParentHolds
      /\ \A c \in Client : Counted(c) /\ ChildHolds(c) /\ (Refused(c) \/ Answered(c))
    BY DEF ForkInv, SessionTypes
\* Steps that change nothing the client could see.
<1>u. ASSUME UNCHANGED <<at, text, echoed>> PROVE UNCHANGED Forked!echoVars
    BY <1>u DEF Forked!echoVars, phase, sent, Over
<1>i. ASSUME NEW c \in Client, NEW l, Goto(c, l), UNCHANGED <<text, echoed>>,
             \/ at[c] \in {"off", "backlog"} /\ l \in {"backlog", "accepted"}
             \/ at[c] \in {"read", "write"} /\ l \in {"read", "write", "close"}
      PROVE  UNCHANGED Forked!echoVars
    <2>1. at'[c] = l /\ \A d \in Client \ {c} : at'[d] = at[d]
        BY <1>0, <1>i DEF Goto
    <2>2. phase' = phase
        BY <1>i, <2>1 DEF phase, Over
    <2> QED BY <1>i, <2>2 DEF Forked!echoVars, sent
\* Steps that end one session.
<1>c. ASSUME NEW c \in Client, NEW l \in {"closed", "killed"}, Goto(c, l),
             UNCHANGED <<text, echoed>>
      PROVE  Forked!EchoNext
    <2>1. at'[c] = l /\ \A d \in Client \ {c} : at'[d] = at[d]
        BY <1>0, <1>c DEF Goto
    <2>2. phase' = [d \in Client |-> IF d \in {c} THEN "closed" ELSE phase[d]]
        BY <1>c, <2>1 DEF phase, Over
    <2>3. Forked!Close({c})
        BY <1>c, <2>2 DEF Forked!Close, sent
    <2> QED BY <2>3 DEF Forked!EchoNext
<1>1. ASSUME Parent PROVE Forked!EchoNext \/ UNCHANGED Forked!echoVars
    <2>1. CASE Accept
        <3>1. Head(backlog) \in Client /\ at[Head(backlog)] = "backlog"
            BY <1>0, <2>1, QueueMoves DEF Accept
        <3>2. Goto(Head(backlog), "accepted") /\ UNCHANGED <<text, echoed>>
            BY <2>1 DEF Accept, net, loop
        <3> QED BY <1>i, <3>1, <3>2
    <2>2. CASE Fork
        <3> DEFINE c == client_fd
        <3>1. c \in Client /\ at[c] = "accepted"
            BY <1>0, <2>2 DEF Fork, At, ParentHolds, ProcessTypes
        <3>2. Goto(c, "read") /\ UNCHANGED <<text, echoed>>
            BY <2>2 DEF Fork, net, loop
        <3> HIDE DEF c
        <3>3. at'[c] = "read" /\ \A d \in Client \ {c} : at'[d] = at[d]
            BY <1>0, <3>1, <3>2 DEF Goto
        <3>4. phase[c] = "idle" /\ phase' = [phase EXCEPT ![c] = "open"]
            BY <3>1, <3>3 DEF phase, Over
        <3>5. Forked!Open(c)
            BY <3>2, <3>4 DEF Forked!Open, sent
        <3> QED BY <3>1, <3>5 DEF Forked!EchoNext
    <2>3. CASE ForkFails
        BY <1>u, <2>3 DEF ForkFails, session
    <2>4. CASE ParentClose /\ pc # "failed"
        BY <1>u, <2>4 DEF ParentClose, net, loop
    <2>5. CASE ParentClose /\ pc = "failed"
        <3>1. client_fd \in Client
            BY <1>0, <2>5 DEF ParentHolds, ProcessTypes
        <3>2. Goto(client_fd, "closed") /\ UNCHANGED <<text, echoed>>
            BY <2>5 DEF ParentClose, net, loop
        <3> QED BY <1>c, <3>1, <3>2
    <2> QED BY <1>1, <2>1, <2>2, <2>3, <2>4, <2>5 DEF Parent
<1>2. ASSUME Handler PROVE UNCHANGED Forked!echoVars
    BY <1>u, <1>2 DEF Handler, Deliver, Reap, ReapNone, Return, session
<1>3. ASSUME NEW c \in Client, Child(c)
      PROVE  Forked!EchoNext \/ UNCHANGED Forked!echoVars
    <2>1. CASE ChildLoop(c)
        <3>1. CASE Read(c) \/ ReadEnds(c) \/ WriteBreaks(c)
            <4>1. /\ at[c] \in {"read", "write"}
                  /\ \E l \in {"read", "write", "close"} : Goto(c, l)
                  /\ UNCHANGED <<text, echoed>>
                BY <3>1 DEF Read, ReadEnds, WriteBreaks, net, loop
            <4> QED BY <1>i, <4>1
        <3>2. CASE WriteSome(c)
            <4>1. at[c] = "write" /\ (Goto(c, "read") \/ at' = at) /\ UNCHANGED text
                BY <3>2 DEF WriteSome, net
            <4>2. /\ at'[c] \in {"read", "write"}
                  /\ \A d \in Client \ {c} : at'[d] = at[d]
                BY <1>0, <4>1 DEF Goto
            <4>3. phase' = phase /\ phase[c] = "open"
                BY <4>1, <4>2 DEF phase, Over
            <4>4. sent[c] = Len(text[c]) /\ Answered(c)
                BY <1>0, <4>1 DEF sent, Refused
            <4>5. Forked!Echo(c)
                BY <1>0, <3>2, <4>1, <4>3, <4>4, EchoesNext DEF Forked!Echo, sent
            <4> QED BY <4>5 DEF Forked!EchoNext
        <3>3. CASE WriteKilled(c)
            BY <1>c, <3>3 DEF WriteKilled, net, loop
        <3> QED BY <2>1, <3>1, <3>2, <3>3 DEF ChildLoop, LoopStep
    <2>2. CASE ChildClose(c)
        BY <1>c, <2>2 DEF ChildClose, Close, net, loop
    <2>3. CASE ChildEnds(c)
        BY <1>u, <2>3 DEF ChildEnds, session
    <2> QED BY <1>3, <2>1, <2>2, <2>3 DEF Child
<1>4. ASSUME NEW c \in Client, ClientStep(c)
      PROVE  Forked!EchoNext \/ UNCHANGED Forked!echoVars
    <2>1. CASE Connect(c)
        BY <1>0, <1>i, <2>1 DEF Connect, Counted, loop
    <2>2. CASE Drain(c) \/ Fin(c) \/ Reset(c)
        BY <1>u, <2>2 DEF Drain, Fin, Reset, loop
    <2>3. ASSUME NEW b \in Byte, Send(c, b) PROVE Forked!EchoNext
        <3>1. /\ at' = at /\ echoed' = echoed /\ ~Over(c)
              /\ text' = [text EXCEPT ![c] = Append(@, b)]
            BY <2>3 DEF Send, loop
        <3>2. phase' = phase /\ phase[c] # "closed"
            BY <3>1 DEF phase, Over
        <3>3. Len(Append(text[c], b)) = Len(text[c]) + 1
            BY <1>0, AppendProperties
        <3>4. sent' = [sent EXCEPT ![c] = @ + 1]
            BY <1>0, <3>1, <3>3 DEF sent
        <3>5. Forked!Receive(c)
            BY <3>1, <3>2, <3>4 DEF Forked!Receive
        <3> QED BY <3>5 DEF Forked!EchoNext
    <2> QED BY <1>4, <2>1, <2>2, <2>3 DEF ClientStep
<1>5. CASE UNCHANGED vars
    BY <1>5, <1>u DEF vars, session
<1> QED
    BY <1>1, <1>2, <1>3, <1>4, <1>5 DEF Next, Network

\* The forking server is an echo service too.
THEOREM ForkRefinement == Spec => Forked!EchoSpec
<1>1. Init => Forked!EchoInit
    <2> SUFFICES ASSUME Init PROVE Forked!EchoInit
        OBVIOUS
    <2>1. /\ \A c \in Client : at[c] = "off" /\ text[c] = << >>
          /\ echoed = [c \in Client |-> << >>]
        BY DEF Init, SessionInit, SessionStart
    <2>2. phase = [c \in Client |-> "idle"] /\ sent = [c \in Client |-> 0]
        BY <2>1 DEF phase, sent, Over
    <2> QED BY <2>1, <2>2 DEF Forked!EchoInit
<1> QED
    BY <1>1, ForkServes, ForkAlways, PTL DEF Spec, Forked!EchoSpec
=============================================================================
