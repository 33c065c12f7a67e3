----------------------------- MODULE TcpServer -----------------------------
(***************************************************************************)
(* sem10-net-sockets/snippets/tcp/tcp_server.c: an echo server that serves *)
(* one connection after the other in a single process.                     *)
(***************************************************************************)
EXTENDS TcpSession

\* SIGPIPE takes the whole server with it.
Alive == \A c \in Client : at[c] # "killed"

Busy == \E c \in Client : at[c] \in {"read", "write", "close"}

\* A failing accept() changes nothing and is left out.
AcceptNext ==
    /\ ~Busy
    /\ backlog # << >>
    /\ backlog' = Tail(backlog)
    /\ Goto(Head(backlog), "read")
    /\ UNCHANGED <<net, loop>>

Serve == Alive /\ (AcceptNext \/ \E c \in Client : LoopStep(c) \/ Close(c))

TurnNext == Serve \/ (Alive /\ \E c \in Client : ClientStep(c))

TurnInit == SessionInit

TurnSpec == TurnInit /\ [][TurnNext]_session

(* The server is scheduled and clients take what they are sent. *)
FairTurnSpec ==
    TurnSpec /\ WF_session(Serve) /\ \A c \in Client : WF_session(Alive /\ Drain(c))
-----------------------------------------------------------------------------
(* Properties *)

\* What is sent on an open connection comes back, or the connection ends, or
\* it asked to quit and the rest stays unread.  And a connection in the backlog
\* is kept waiting for ever only by one client that stays connected for ever.
ServesInTurn ==
    /\ \A c \in Client : \A k \in 1 .. MaxBytes :
          (at[c] = "read" /\ Len(text[c]) >= k)
              ~> (Len(echoed[c]) >= k \/ Over(c) \/ ~Alive)
    /\ \A c \in Client :
          [](at[c] = "backlog" =>
                \/ <>(at[c] # "backlog" \/ ~Alive)
                \/ \E d \in Client : <>[](at[d] = "read" /\ peer[d] = "up"))

\* How far the conversation with each client has come, and what it has sent.
stage == [c \in Client |->
             IF ~Alive \/ Over(c) THEN "closed"
             ELSE IF at[c] \in {"off", "backlog"} THEN "idle" ELSE "open"]

sent == [c \in Client |-> Len(text[c])]

Service == INSTANCE EchoService WITH session <- stage

\* The server implements the echo service, although it reads and writes in
\* pieces of its own.
ImplementsEcho == Service!EchoSpec
=============================================================================
