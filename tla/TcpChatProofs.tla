--------------------------- MODULE TcpChatProofs ---------------------------
(***************************************************************************)
(* Theorems about tcp_client.c and the loop of tcp_server.c, for any lines *)
(* and any sizes of the buffers: whoever waits for an answer is owed one,  *)
(* and the two programs block each other in one way only.                  *)
(***************************************************************************)
EXTENDS TcpChat, TcpSessionProofs

-----------------------------------------------------------------------------
(* The inductive invariant *)

ProgramTypes ==
    /\ pc \in {"fgets", "write", "read", "shutdown", "close", "end"}
    /\ bytes_sent \in Nat
    /\ pc = "write" => buff \in Line /\ bytes_sent < Len(buff)

\* Until it shuts down, the client has not hung up.  Of each line it has sent
\* before the answer is read a byte is still to come, because one read() takes
\* no more than the lines before have brought.
Ahead ==
    /\ pc \in {"fgets", "write", "read", "shutdown"} => peer[Me] = "up"
    /\ pc = "write" /\ ~Over(Me) => acked[Me] + bytes_sent <= Len(text[Me])
    /\ pc = "read" /\ ~Over(Me) => acked[Me] < Len(text[Me])

Inv ==
    /\ SessionTypes
    /\ ProgramTypes
    /\ Counted(Me)
    /\ Answered(Me)
    /\ InOrder(Me)
    /\ Ahead

\* The connection is the only one.
LEMMA OnlyMe == Me \in Client /\ \A c \in Client : c = Me
BY ChatAssumption

\* The server never writes more than it has read: on an open connection the
\* echo is no longer than what was sent.
LEMMA EchoBehind ==
    ASSUME SessionTypes, Counted(Me), Answered(Me), peer[Me] = "up", ~Over(Me)
    PROVE  /\ Len(echoed[Me]) <= rcvd[Me] /\ rcvd[Me] <= Len(text[Me])
           /\ acked[Me] <= Len(text[Me])
<1>1. /\ Len(msg[Me]) \in Nat /\ total_written[Me] \in Nat /\ rcvd[Me] \in Nat
      /\ acked[Me] \in Nat /\ Len(text[Me]) \in Nat /\ Len(echoed[Me]) \in Nat
      /\ at[Me] \in Place
    BY OnlyMe, SessionFact
<1>2. rcvd[Me] <= Len(text[Me]) /\ acked[Me] <= Len(echoed[Me]) /\ Len(msg[Me]) <= rcvd[Me]
    BY DEF Counted
<1>3. Len(echoed[Me]) <= rcvd[Me]
    <2>1. CASE at[Me] \in {"off", "backlog", "accepted"}
        BY <1>1, <2>1 DEF Counted
    <2>2. CASE at[Me] = "read"
        BY <1>1, <2>2 DEF Answered, Gone
    <2>3. CASE at[Me] = "write"
        <3>1. /\ Len(echoed[Me]) = rcvd[Me] - Len(msg[Me]) + total_written[Me]
              /\ total_written[Me] < Len(msg[Me])
            BY <2>3 DEF Answered, Counted, Gone
        <3>2. \A e, r, l, w \in Nat : e = r - l + w /\ w < l => e <= r
            OBVIOUS
        <3> QED BY <1>1, <3>1, <3>2
    <2>4. CASE at[Me] = "close"
        <3>1. Len(echoed[Me]) = rcvd[Me] - Len(msg[Me])
            BY <2>4 DEF Answered, Gone
        <3> QED BY <1>1, <1>2, <3>1
    <2> QED BY <1>1, <2>1, <2>2, <2>3, <2>4 DEF Place, Over
<1> QED
    BY <1>1, <1>2, <1>3

-----------------------------------------------------------------------------
(* The invariant is kept *)

\* The conversation begins with an accepted connection and nothing sent.
LEMMA InitInv == Init => Inv
<1> SUFFICES ASSUME Init PROVE Inv
    OBVIOUS
<1>1. SessionTypes /\ Counted(Me) /\ Answered(Me)
    BY OnlyMe, SessionBegins DEF Init
<1>2. peer[Me] = "up"
    BY OnlyMe DEF Init, SessionStart
<1>3. ProgramTypes /\ Ahead
    BY <1>2 DEF Init, ProgramTypes, Ahead
<1>4. InOrder(Me)
    BY OnlyMe DEF Init, SessionStart, InOrder
<1> QED
    BY <1>1, <1>3, <1>4 DEF Inv

\* Each step of either program keeps the invariant.
LEMMA InvInductive == Inv /\ [Next]_vars => Inv'
<1> SUFFICES ASSUME Inv, [Next]_vars PROVE Inv'
    OBVIOUS
<1>0. /\ SessionTypes /\ ProgramTypes /\ Counted(Me) /\ Answered(Me) /\ Ahead
      /\ InOrder(Me)
      /\ \A c \in Client : Counted(c) /\ Answered(c)
      /\ Me \in Client
    BY OnlyMe DEF Inv
<1>t. /\ acked \in [Client -> Nat] /\ at \in [Client -> Place]
      /\ text \in [Client -> Seq(Byte)]
      /\ peer \in [Client -> {"off", "up", "fin", "rst", "pipe"}]
      /\ acked[Me] \in Nat /\ Len(text[Me]) \in Nat /\ text[Me] \in Seq(Byte)
      /\ Len(echoed[Me]) \in Nat /\ bytes_sent \in Nat
    BY <1>0, SessionFact DEF SessionTypes, ProgramTypes
\* A line that is typed is not empty.
<1>l. ASSUME NEW line \in Line
      PROVE  line \in Seq(Byte) /\ Len(line) \in Nat /\ Len(line) > 0
    BY ChatAssumption, EmptySeq, LenProperties
\* Steps that leave the connection alone.
<1>u. ASSUME UNCHANGED session
      PROVE  /\ SessionTypes' /\ Counted(Me)' /\ Answered(Me)' /\ InOrder(Me)'
             /\ Over(Me)' <=> Over(Me)
             /\ UNCHANGED <<peer, text, acked, echoed>>
    <2>1. UNCHANGED <<peer, text, acked, backlog, at, rcvd, msg, total_written, echoed>>
        BY <1>u DEF session
    <2>2. Counted(Me)' /\ Answered(Me)'
        BY <1>0, <2>1, Untouched
    <2> QED BY <1>0, <2>1, <2>2 DEF SessionTypes, Over, InOrder
\* Steps of the peer, by their effect on the connection.
<1>p. ASSUME ClientStep(Me)
      PROVE  SessionTypes' /\ Counted(Me)' /\ Answered(Me)' /\ InOrder(Me)'
    BY <1>0, <1>p, ClientStepTypes, ClientStepKeeps, OrderKept
<1>1. CASE Fgets
    <2>1. /\ buff' \in Line /\ bytes_sent' = 0 /\ pc' = "write" /\ pc = "fgets"
          /\ UNCHANGED session
        BY <1>1 DEF Fgets
    <2>2. ProgramTypes'
        BY <1>l, <2>1 DEF ProgramTypes
    <2>3. peer[Me] = "up"
        BY <1>0, <2>1 DEF Ahead
    <2>4. ~Over(Me) => acked[Me] + 0 <= Len(text[Me])
        BY <1>0, <1>t, <2>3, EchoBehind
    <2>5. Ahead'
        BY <1>u, <2>1, <2>3, <2>4 DEF Ahead
    <2> QED BY <1>u, <2>1, <2>2, <2>5 DEF Inv
<1>2. CASE EndOfInput \/ ReadClosed \/ CloseFd
    <2>1. /\ UNCHANGED session /\ bytes_sent' = bytes_sent
          /\ pc' \in {"shutdown", "end"}
          /\ pc' = "shutdown" => pc \in {"fgets", "read"}
        BY <1>2 DEF EndOfInput, ReadClosed, CloseFd
    <2>2. ProgramTypes' /\ Ahead'
        BY <1>0, <1>u, <2>1 DEF ProgramTypes, Ahead
    <2> QED BY <1>u, <2>1, <2>2 DEF Inv
<1>3. CASE WriteByte
    <2>1. /\ pc = "write" /\ ~Over(Me) /\ Send(Me, buff[bytes_sent + 1])
          /\ bytes_sent' = bytes_sent + 1 /\ buff' = buff
          /\ IF bytes_sent + 1 = Len(buff) THEN Written ELSE UNCHANGED pc
        BY <1>3 DEF WriteByte
    <2>2. /\ buff \in Line /\ bytes_sent < Len(buff) /\ buff \in Seq(Byte)
          /\ Len(buff) \in Nat /\ peer[Me] = "up"
          /\ acked[Me] + bytes_sent <= Len(text[Me])
        BY <1>0, <1>l, <2>1 DEF ProgramTypes, Ahead
    <2>3. buff[bytes_sent + 1] \in Byte
        <3>1. bytes_sent + 1 \in 1 .. Len(buff)
            BY <1>t, <2>2
        <3> QED BY <2>2, <3>1, ElementOfSeq
    <2>4. ClientStep(Me)
        BY <2>1, <2>3 DEF ClientStep
    <2>5. /\ Len(text'[Me]) = Len(text[Me]) + 1
          /\ UNCHANGED <<peer, acked, at>>
        <3>1. Len(Append(text[Me], buff[bytes_sent + 1])) = Len(text[Me]) + 1
            BY <1>t, <2>3, AppendProperties
        <3>2. /\ text'[Me] = Append(text[Me], buff[bytes_sent + 1])
              /\ UNCHANGED <<peer, acked, at>>
            BY <1>0, <1>t, <2>1 DEF Send
        <3> QED BY <3>1, <3>2
    <2>6. pc' \in {"write", "read", "shutdown"} /\ (pc' = "write" => bytes_sent + 1 # Len(buff))
        BY <2>1 DEF Written
    <2>7. ProgramTypes'
        <3>1. bytes_sent + 1 # Len(buff) => bytes_sent + 1 < Len(buff)
            BY <1>t, <2>2
        <3> QED BY <1>t, <2>1, <2>2, <2>6, <3>1 DEF ProgramTypes
    <2>8. /\ acked[Me] + (bytes_sent + 1) <= Len(text[Me]) + 1
          /\ acked[Me] < Len(text[Me]) + 1
        BY <1>t, <2>2
    <2>9. Ahead'
        BY <2>1, <2>2, <2>5, <2>6, <2>8 DEF Ahead
    <2> QED BY <1>p, <2>4, <2>7, <2>9 DEF Inv
<1>4. CASE WriteLost
    <2>1. /\ UNCHANGED <<session, bytes_sent>> /\ pc = "write" /\ Over(Me)
          /\ pc' \in {"read", "shutdown"}
        BY <1>4 DEF WriteLost, Written
    <2>2. ProgramTypes' /\ Ahead'
        BY <1>0, <1>u, <2>1 DEF ProgramTypes, Ahead
    <2> QED BY <1>u, <2>1, <2>2 DEF Inv
<1>5. CASE ReadResponse
    <2>1. PICK n \in 1 .. Least(Len(echoed[Me]) - acked[Me], BUFF_SIZE - 1) :
             acked' = [acked EXCEPT ![Me] = @ + n]
        BY <1>5 DEF ReadResponse
    <2>2. n \in Nat /\ n <= Len(echoed[Me]) - acked[Me]
        <3>1. Len(echoed[Me]) - acked[Me] \in Nat /\ BUFF_SIZE - 1 \in Nat
            BY <1>0, <1>t, SessionAssumption DEF Counted
        <3>2. /\ Least(Len(echoed[Me]) - acked[Me], BUFF_SIZE - 1) \in Nat
              /\ Least(Len(echoed[Me]) - acked[Me], BUFF_SIZE - 1)
                    <= Len(echoed[Me]) - acked[Me]
            BY <3>1, LeastFact
        <3> QED BY <1>t, <3>1, <3>2
    <2>3. /\ pc = "read" /\ pc' = "fgets" /\ acked'[Me] = acked[Me] + n
          /\ UNCHANGED <<peer, text, backlog, at, rcvd, msg, total_written, echoed>>
          /\ UNCHANGED bytes_sent
        BY <1>0, <1>5, <1>t, <2>1 DEF ReadResponse, loop
    <2>4. SessionTypes'
        <3> DEFINE taken == acked[Me] + n
        <3>1. taken \in Nat /\ acked' = [acked EXCEPT ![Me] = taken]
            BY <1>t, <2>1, <2>2
        <3> HIDE DEF taken
        <3>2. acked' \in [Client -> Nat]
            BY <1>t, <3>1
        <3> QED BY <1>0, <2>3, <3>2 DEF SessionTypes
    <2>5. acked[Me] + n <= Len(echoed[Me]) /\ Len(echoed[Me]) - (acked[Me] + n) <= SNDBUF
        BY <1>0, <1>t, <2>2, SessionAssumption DEF Counted
    <2>6. Counted(Me)' /\ Answered(Me)' /\ InOrder(Me)'
        BY <1>0, <2>3, <2>5 DEF Counted, Answered, InOrder, Gone, IsQuit
    <2>7. ProgramTypes' /\ Ahead'
        BY <1>0, <2>3 DEF ProgramTypes, Ahead
    <2> QED BY <2>4, <2>6, <2>7 DEF Inv
<1>6. CASE Shutdown
    <2>1. pc' = "close" /\ bytes_sent' = bytes_sent
        BY <1>6 DEF Shutdown
    <2>2. ProgramTypes' /\ Ahead'
        BY <1>0, <2>1 DEF ProgramTypes, Ahead
    <2>3. UNCHANGED session \/ ClientStep(Me)
        BY <1>6 DEF Shutdown, ClientStep
    <2> QED BY <1>p, <1>u, <2>2, <2>3 DEF Inv
<1>7. CASE ResetAfterClose
    <2>1. pc = "end" /\ UNCHANGED <<pc, buff, bytes_sent>> /\ ClientStep(Me)
        BY <1>7 DEF ResetAfterClose, program, ClientStep
    <2>2. ProgramTypes' /\ Ahead'
        BY <1>0, <2>1 DEF ProgramTypes, Ahead
    <2> QED BY <1>p, <2>1, <2>2 DEF Inv
<1>8. CASE Server
    <2>1. (LoopStep(Me) \/ Close(Me)) /\ UNCHANGED <<pc, buff, bytes_sent>>
        BY <1>8 DEF Server, program
    <2>2. SessionTypes' /\ Counted(Me)' /\ Answered(Me)' /\ InOrder(Me)'
        BY <1>0, <2>1, LoopStepTypes, LoopStepKeeps, OrderKept
    <2>3. /\ UNCHANGED <<text, acked>> /\ ~Over(Me)
          /\ peer[Me] = "up" => peer'[Me] = "up"
        BY <1>0, <1>t, <2>1
        DEF LoopStep, Read, ReadEnds, WriteSome, WriteBreaks, WriteKilled, Close, net, Over
    <2>4. ProgramTypes' /\ Ahead'
        BY <1>0, <2>1, <2>3 DEF ProgramTypes, Ahead
    <2> QED BY <2>2, <2>4 DEF Inv
<1>9. CASE UNCHANGED vars
    <2>1. UNCHANGED <<session, pc, buff, bytes_sent>>
        BY <1>9 DEF vars, program
    <2>2. ProgramTypes' /\ Ahead'
        BY <1>0, <1>u, <2>1 DEF ProgramTypes, Ahead
    <2> QED BY <1>u, <2>1, <2>2 DEF Inv
<1> QED
    BY <1>1, <1>2, <1>3, <1>4, <1>5, <1>6, <1>7, <1>8, <1>9 DEF Next, ClientProgram

\* The invariant holds in every reachable state.
LEMMA InvAlways == Spec => []Inv
BY InitInv, InvInductive, PTL DEF Spec

-----------------------------------------------------------------------------
(* The theorems *)

\* A client that waits for an answer on an open connection is owed one.
THEOREM AnswerIsOwed == Spec => []AnswerOwed
<1>1. Inv => AnswerOwed
    BY DEF Inv, Ahead, AnswerOwed
<1> QED
    BY <1>1, InvAlways, PTL

\* Client and server wait for each other only with both of them in write().
LEMMA FullBothWays == Inv => BlockedOnlyWhenFull
<1> SUFFICES ASSUME Inv, ClientBlocked, ServerBlocked
             PROVE  pc = "write" /\ at[Me] = "write"
    BY DEF BlockedOnlyWhenFull
<1>0. /\ SessionTypes /\ ProgramTypes /\ Counted(Me) /\ Answered(Me) /\ Ahead
      /\ ~Over(Me) /\ pc \in {"write", "read"} /\ at[Me] \in {"write", "read"}
    BY DEF Inv, ClientBlocked, ServerBlocked
<1>1. /\ acked[Me] \in Nat /\ rcvd[Me] \in Nat /\ Len(text[Me]) \in Nat
      /\ Len(echoed[Me]) \in Nat
    BY <1>0, OnlyMe, SessionFact
\* A server with nothing to read leaves the client room to write.
<1>2. ~(pc = "write" /\ at[Me] = "read")
    <2> SUFFICES ASSUME pc = "write", at[Me] = "read" PROVE FALSE
        OBVIOUS
    <2>1. Unread(Me) >= CAP /\ Unread(Me) = 0
        BY DEF ClientBlocked, ServerBlocked
    <2> QED BY <2>1, ChatAssumption
\* A server that has read all and answered all leaves nothing owed.
<1>3. ~(pc = "read" /\ at[Me] = "read")
    <2> SUFFICES ASSUME pc = "read", at[Me] = "read" PROVE FALSE
        OBVIOUS
    <2>1. Unread(Me) = 0 /\ acked[Me] = Len(echoed[Me]) /\ peer[Me] = "up"
        BY DEF ClientBlocked, ServerBlocked
    <2>2. Len(echoed[Me]) = rcvd[Me]
        BY <1>0, <2>1 DEF Answered, Gone
    <2>3. rcvd[Me] = Len(text[Me])
        BY <1>1, <2>1 DEF Unread
    <2>4. acked[Me] < Len(text[Me])
        BY <1>0 DEF Ahead
    <2> QED BY <1>1, <2>1, <2>2, <2>3, <2>4
\* A client that has read all leaves the server room to write.
<1>4. ~(pc = "read" /\ at[Me] = "write")
    <2> SUFFICES ASSUME pc = "read", at[Me] = "write" PROVE FALSE
        OBVIOUS
    <2>1. Room(Me) = 0 /\ acked[Me] = Len(echoed[Me])
        BY DEF ClientBlocked, ServerBlocked
    <2> QED BY <1>1, <2>1, SessionAssumption DEF Room
<1> QED
    BY <1>0, <1>2, <1>3, <1>4

\* So the only standstill is that of full buffers in both directions.
THEOREM OnlyFullBuffersBlock == Spec => []BlockedOnlyWhenFull
BY FullBothWays, InvAlways, PTL

\* However lines are cut and glued, the client is answered with what it has
\* sent, in order, and never with more.
THEOREM AnsweredInOrder == Spec => []InOrder(Me)
<1>1. Inv => InOrder(Me)
    BY DEF Inv
<1> QED
    BY <1>1, InvAlways, PTL
=============================================================================
