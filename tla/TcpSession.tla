----------------------------- MODULE TcpSession -----------------------------
(***************************************************************************)
(* One connection of sem10-net-sockets/snippets/tcp/tcp_server.c: the loop *)
(* of main() that reads a message into msg, quits on "q" and writes the    *)
(* message back, over blocking sockets.  The child of tcp-fork/tcp_server.c*)
(* runs the same loop.  The servers' modules add how a connection comes to *)
(* be served.                                                              *)
(*                                                                         *)
(* A stream has no messages: a read() returns what has arrived so far.     *)
(* The k-th byte of a client is the number k, and text tells which of the  *)
(* bytes are a "q" or a NUL; every other byte is an "x".                   *)
(***************************************************************************)
EXTENDS Naturals, Sequences

CONSTANTS
    Client,         \* the clients, each of which connects at most once
    BUFF_SIZE,      \* size of msg
    SNDBUF,         \* what a socket's send buffer holds (kernel)
    MaxBytes        \* bound: how many bytes a client sends

ASSUME SessionAssumption ==
    /\ BUFF_SIZE \in Nat /\ BUFF_SIZE > 1
    /\ SNDBUF \in Nat \ {0}
    /\ MaxBytes \in Nat

VARIABLES
    peer,           \* "off", "up", "fin" (it shut its side down), "rst"
                    \* (reset), "pipe" (reset, and the error was reported or
                    \* the client had shut down)
    text,           \* the bytes of the client that reached the server's host
    acked,          \* how many bytes of the echo the client has taken
    backlog,        \* the accept queue of server_fd
    at,             \* where the connection is: "off", "backlog", "accepted",
                    \* in the loop at "read" or "write", after it at "close",
                    \* "closed", or its process was "killed"
    rcvd,           \* how many bytes were read from the socket
    msg,            \* the bytes of the last message read
    total_written,  \* how many of them write_message() has written
    echoed          \* the bytes written to the socket, in order

net     == <<peer, text, acked>>
loop    == <<rcvd, msg, total_written, echoed>>
session == <<peer, text, acked, backlog, at, rcvd, msg, total_written, echoed>>

Byte == {"q", "nul", "x"}

Least(m, n) == IF m <= n THEN m ELSE n

Gone(c)   == peer[c] \in {"rst", "pipe"}
Unread(c) == Len(text[c]) - rcvd[c]
Room(c)   == SNDBUF - (Len(echoed[c]) - acked[c])
Over(c)   == at[c] \in {"closed", "killed"}

Goto(c, l) == at' = [at EXCEPT ![c] = l]
-----------------------------------------------------------------------------
(* The clients and the network *)

Connect(c) ==
    /\ peer[c] = "off"
    /\ peer' = [peer EXCEPT ![c] = "up"]
    /\ Goto(c, "backlog")
    /\ backlog' = Append(backlog, c)
    /\ UNCHANGED <<text, acked, loop>>

Send(c, b) ==
    /\ peer[c] = "up" /\ ~Over(c)
    /\ Len(text[c]) < MaxBytes
    /\ text' = [text EXCEPT ![c] = Append(@, b)]
    /\ UNCHANGED <<peer, acked, backlog, at, loop>>

\* The client takes a byte of the echo.
Drain(c) ==
    /\ ~Gone(c)
    /\ acked[c] < Len(echoed[c])
    /\ acked' = [acked EXCEPT ![c] = @ + 1]
    /\ UNCHANGED <<peer, text, backlog, at, loop>>

Fin(c) ==
    /\ peer[c] = "up" /\ ~Over(c)
    /\ peer' = [peer EXCEPT ![c] = "fin"]
    /\ UNCHANGED <<text, acked, backlog, at, loop>>

\* A reset that follows the peer's FIN makes the next write an EPIPE.
Reset(c) ==
    /\ peer[c] \in {"up", "fin"} /\ ~Over(c)
    /\ peer' = [peer EXCEPT ![c] = IF @ = "up" THEN "rst" ELSE "pipe"]
    /\ UNCHANGED <<text, acked, backlog, at, loop>>

ClientStep(c) ==
    \/ Connect(c) \/ Drain(c) \/ Fin(c) \/ Reset(c)
    \/ \E b \in Byte : Send(c, b)
-----------------------------------------------------------------------------
(* The loop: read_message() *)

\* The message is "q" as a C string: read_message() puts a NUL behind it.
IsQuit(c, m) ==
    /\ text[c][m[1]] = "q"
    /\ Len(m) = 1 \/ text[c][m[2]] = "nul"

\* What has arrived is read, up to the size of msg without its NUL.
Read(c) ==
    LET n == Least(Unread(c), BUFF_SIZE - 1)
        m == [i \in 1 .. n |-> rcvd[c] + i] IN
    /\ at[c] = "read"
    /\ n > 0
    /\ rcvd' = [rcvd EXCEPT ![c] = @ + n]
    /\ msg' = [msg EXCEPT ![c] = m]
    /\ total_written' = [total_written EXCEPT ![c] = 0]
    /\ Goto(c, IF IsQuit(c, m) THEN "close" ELSE "write")
    /\ UNCHANGED <<net, backlog, echoed>>

\* Deviation: the loop ends as soon as the peer has shut down.
ReadEndsAtOnce(c) ==
    /\ at[c] = "read"
    /\ peer[c] # "up"
    /\ Goto(c, "close")
    /\ UNCHANGED <<net, backlog, loop>>

\* End of file or a read error.
ReadEnds(c) ==
    /\ at[c] = "read"
    /\ Unread(c) = 0
    /\ peer[c] # "up"
    /\ Goto(c, "close")
    /\ UNCHANGED <<net, backlog, loop>>

\* Deviation: write_message() writes once.
WriteOnce(c) ==
    LET n == Least(Len(msg[c]) - total_written[c], Room(c)) IN
    /\ at[c] = "write"
    /\ ~Gone(c)
    /\ n > 0
    /\ echoed' = [echoed EXCEPT ![c] =
                     @ \o SubSeq(msg[c], total_written[c] + 1, total_written[c] + n)]
    /\ total_written' = [total_written EXCEPT ![c] = @ + n]
    /\ Goto(c, "read")
    /\ UNCHANGED <<net, backlog, rcvd, msg>>

\* Deviation: line 68 writes from the start of buff.
WriteFromStart(c) ==
    LET n == Least(Len(msg[c]) - total_written[c], Room(c)) IN
    /\ at[c] = "write"
    /\ ~Gone(c)
    /\ n > 0
    /\ echoed' = [echoed EXCEPT ![c] =
                     @ \o SubSeq(msg[c], 1, n)]
    /\ total_written' = [total_written EXCEPT ![c] = @ + n]
    /\ IF total_written[c] + n = Len(msg[c]) THEN Goto(c, "read") ELSE UNCHANGED at
    /\ UNCHANGED <<net, backlog, rcvd, msg>>

(* The loop: write_message(), which goes on until all is written.  A *)
(* blocking write() waits for room.                                   *)
WriteSome(c) ==
    LET n == Least(Len(msg[c]) - total_written[c], Room(c)) IN
    /\ at[c] = "write"
    /\ ~Gone(c)
    /\ n > 0
    /\ echoed' = [echoed EXCEPT ![c] =
                     @ \o SubSeq(msg[c], total_written[c] + 1, total_written[c] + n)]
    /\ total_written' = [total_written EXCEPT ![c] = @ + n]
    /\ IF total_written[c] + n = Len(msg[c]) THEN Goto(c, "read") ELSE UNCHANGED at
    /\ UNCHANGED <<net, backlog, rcvd, msg>>

\* ECONNRESET ends write_message(), not the loop; a further write is an EPIPE.
WriteBreaks(c) ==
    /\ at[c] = "write"
    /\ peer[c] = "rst"
    /\ peer' = [peer EXCEPT ![c] = "pipe"]
    /\ Goto(c, "read")
    /\ UNCHANGED <<text, acked, backlog, loop>>

\* EPIPE comes with SIGPIPE, which nobody handles.
WriteKilled(c) ==
    /\ at[c] = "write"
    /\ peer[c] = "pipe"
    /\ Goto(c, "killed")
    /\ UNCHANGED <<net, backlog, loop>>

\* After the loop: shutdown() and close().
Close(c) ==
    /\ at[c] = "close"
    /\ Goto(c, "closed")
    /\ UNCHANGED <<net, backlog, loop>>

LoopStep(c) ==
    Read(c) \/ ReadEnds(c) \/ WriteSome(c) \/ WriteBreaks(c) \/ WriteKilled(c)
-----------------------------------------------------------------------------
\* Every connection at l, with nothing sent.
SessionStart(p, l) ==
    /\ peer = [c \in Client |-> p]
    /\ text = [c \in Client |-> << >>]
    /\ acked = [c \in Client |-> 0]
    /\ backlog = << >>
    /\ at = [c \in Client |-> l]
    /\ rcvd = [c \in Client |-> 0]
    /\ msg = [c \in Client |-> << >>]
    /\ total_written = [c \in Client |-> 0]
    /\ echoed = [c \in Client |-> << >>]

SessionInit == SessionStart("off", "off")
-----------------------------------------------------------------------------
(* What the loop promises the client *)

\* A client that shuts its side down and still listens gets everything back
\* before the connection is closed, up to a message that says "q".
AllEchoedBeforeClose ==
    \A c \in Client :
        at[c] \in {"close", "closed"} /\ ~Gone(c) =>
            \/ Len(echoed[c]) = Len(text[c])
            \/ /\ msg[c] # << >> /\ IsQuit(c, msg[c])
               /\ Len(echoed[c]) = rcvd[c] - Len(msg[c])
=============================================================================
