------------------------------ MODULE TcpChat ------------------------------
(***************************************************************************)
(* sem10-net-sockets/snippets/tcp/tcp_client.c talking to the loop of      *)
(* tcp_server.c: the client sends a line, waits for one read() of the      *)
(* answer, and goes on to the next line.  Neither side marks where a       *)
(* message ends, so a line may be read in pieces or together with its      *)
(* neighbours.                                                             *)
(*                                                                         *)
(* The byte streams are TcpSession's; CAP bytes fit on the way to the      *)
(* server and SNDBUF on the way back, which is when write() blocks.        *)
(***************************************************************************)
EXTENDS TcpSession

CONSTANTS
    Me,         \* the client
    Line,       \* the lines that may be typed, without their newline
    CAP,        \* bytes that fit between the client's write and the server's
                \* read (kernel)
    MaxLines    \* bound: how many lines are typed

ASSUME ChatAssumption ==
    /\ Client = {Me}
    /\ Line \subseteq Seq(Byte) \ {<< >>}
    /\ CAP \in Nat \ {0}
    /\ MaxLines \in Nat

VARIABLES
    pc,         \* the client: "fgets", "write", "read", "shutdown", "close", "end"
    buff,       \* the line being sent
    bytes_sent, \* how much of it write() has taken
    lines       \* how many lines were typed

program == <<pc, buff, bytes_sent, lines>>
vars    == <<session, program>>
-----------------------------------------------------------------------------
(* The client *)

\* fgets() with its newline cut off; an empty line is skipped.
Fgets ==
    /\ pc = "fgets"
    /\ lines < MaxLines
    /\ buff' \in Line
    /\ bytes_sent' = 0
    /\ lines' = lines + 1
    /\ pc' = "write"
    /\ UNCHANGED session

\* The end of the input.
EndOfInput ==
    /\ pc = "fgets"
    /\ pc' = "shutdown"
    /\ UNCHANGED <<session, buff, bytes_sent, lines>>

\* After write(): a line "q" is the last one and gets no answer.
Written == pc' = IF buff = <<"q">> THEN "shutdown" ELSE "read"

\* write() hands over the next byte.
WriteByte ==
    /\ pc = "write"
    /\ ~Over(Me)
    /\ Unread(Me) < CAP
    /\ Send(Me, buff[bytes_sent + 1])
    /\ bytes_sent' = bytes_sent + 1
    /\ IF bytes_sent + 1 = Len(buff) THEN Written ELSE UNCHANGED pc
    /\ UNCHANGED <<buff, lines>>

\* What is written to a connection the server has closed is lost.
WriteLost ==
    /\ pc = "write"
    /\ Over(Me)
    /\ Written
    /\ UNCHANGED <<session, buff, bytes_sent, lines>>

\* Deviation: the client goes on reading (line 70 in a loop).
ReadOnAndOn ==
    /\ pc = "read"
    /\ \E n \in 1 .. Least(Len(echoed[Me]) - acked[Me], BUFF_SIZE - 1) :
          acked' = [acked EXCEPT ![Me] = @ + n]
    /\ UNCHANGED <<peer, text, backlog, at, loop, program>>

\* One read() of what has arrived of the echo, any part of it.
ReadResponse ==
    /\ pc = "read"
    /\ \E n \in 1 .. Least(Len(echoed[Me]) - acked[Me], BUFF_SIZE - 1) :
          acked' = [acked EXCEPT ![Me] = @ + n]
    /\ pc' = "fgets"
    /\ UNCHANGED <<peer, text, backlog, at, loop, buff, bytes_sent, lines>>

\* "Server closed connection", or a read error.
ReadClosed ==
    /\ pc = "read"
    /\ Over(Me)
    /\ acked[Me] = Len(echoed[Me])
    /\ pc' = "shutdown"
    /\ UNCHANGED <<session, buff, bytes_sent, lines>>

Shutdown ==
    /\ pc = "shutdown"
    /\ pc' = "close"
    /\ IF Over(Me) THEN UNCHANGED session ELSE Fin(Me)
    /\ UNCHANGED <<buff, bytes_sent, lines>>

CloseFd ==
    /\ pc = "close"
    /\ pc' = "end"
    /\ UNCHANGED <<session, buff, bytes_sent, lines>>

\* Echo that reaches a closed socket, or was left unread there, is answered
\* with a reset.
ResetAfterClose ==
    /\ pc = "end"
    /\ acked[Me] < Len(echoed[Me])
    /\ Reset(Me)
    /\ UNCHANGED program
-----------------------------------------------------------------------------
(* connect() has succeeded and the server has accepted. *)
Init ==
    /\ SessionStart("up", "read")
    /\ pc = "fgets"
    /\ buff = << >>
    /\ bytes_sent = 0
    /\ lines = 0

ClientProgram ==
    \/ Fgets \/ EndOfInput \/ WriteByte \/ WriteLost \/ ReadResponse \/ ReadClosed
    \/ Shutdown \/ CloseFd

Server == (LoopStep(Me) \/ Close(Me)) /\ UNCHANGED program

Next == ClientProgram \/ ResetAfterClose \/ Server

Spec == Init /\ [][Next]_vars

(* Both programs are scheduled.  The user ends the input or types on. *)
FairSpec == Spec /\ WF_vars(ClientProgram) /\ WF_vars(Server)
-----------------------------------------------------------------------------
(* Properties *)

\* A client that waits for an answer is owed one, however the lines before
\* were cut and glued: of what it has sent, something is still to come back.
AnswerOwed == pc = "read" /\ ~Over(Me) => acked[Me] < Len(text[Me])

ClientBlocked ==
    /\ ~Over(Me)
    /\ \/ pc = "write" /\ Unread(Me) >= CAP
       \/ pc = "read" /\ acked[Me] = Len(echoed[Me])

ServerBlocked ==
    \/ at[Me] = "read" /\ Unread(Me) = 0 /\ peer[Me] = "up"
    \/ at[Me] = "write" /\ Room(Me) = 0 /\ ~Gone(Me)

\* The client and the server wait for each other only in one way: both are in
\* write(), and the buffers are full in both directions.
BlockedOnlyWhenFull ==
    ClientBlocked /\ ServerBlocked => pc = "write" /\ at[Me] = "write"

\* The conversation ends, unless both sides block in write().
ChatEnds == <>(pc = "end") \/ <>[](pc = "write" /\ at[Me] = "write")

\* tcp_client.c tells its user: single 'q' to quit.  The server hangs up on a
\* client that is still there only after the line "q".
QuitsOnSingleQ == at[Me] = "close" /\ peer[Me] = "up" => buff = <<"q">>
=============================================================================
