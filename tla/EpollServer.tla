---------------------------- MODULE EpollServer ----------------------------
(***************************************************************************)
(* sem10-net-sockets/snippets/epoll/server_epoll.c: a single-threaded echo *)
(* server over non-blocking sockets and an edge-triggered epoll instance.  *)
(*                                                                         *)
(* The server's own steps are one system call each (with the memory writes *)
(* around it), so the clients' bytes, hang-ups and resets fall between any *)
(* two of them.  EPOLL_CTL_MOD belongs to the read() or write() before it: *)
(* it looks at the socket afresh, so what happened since that call shows   *)
(* just as if it happened after it.  The kernel side - the accept queue, the receive queue and *)
(* send buffer of a socket, the readiness and the ready list of epoll - is *)
(* external and is modelled from what the calls return.                    *)
(*                                                                         *)
(* A connection is named by its client: accept() hands out a fresh         *)
(* descriptor and calloc() a fresh fd_data for each.  The k-th byte of a   *)
(* client is the number k, and 0 is what calloc() leaves in a buffer.      *)
(***************************************************************************)
EXTENDS Integers, FiniteSets, Sequences

CONSTANTS
    Client,         \* the clients, each of which connects at most once
    Listener,       \* stands for server_fd among the sources of events
    BUFF_SIZE,      \* size of fd_data.buffer
    MAX_EVENTS,     \* size of pending_events
    SNDBUF,         \* what a socket's send buffer holds (kernel)
    MAX_FDS,        \* how many client descriptors the process may hold (kernel)
    MaxBytes        \* bound: how many bytes a client sends

ASSUME EpollAssumption ==
    /\ Listener \notin Client
    /\ BUFF_SIZE \in Nat \ {0}
    /\ MAX_EVENTS \in Nat \ {0}
    /\ SNDBUF \in Nat \ {0}
    /\ MAX_FDS \in Nat
    /\ MaxBytes \in Nat

VARIABLES
    (* The clients and the network *)
    peer,           \* "off", "up", "fin" (it shut its side down), "rst"
                    \* (reset), "pipe" (reset after it had shut down)
    sent,           \* bytes of the client that reached the server's host
    acked,          \* bytes of the echo the client has taken
    (* The kernel, for the server's process *)
    conn,           \* "none", "backlog" (not accepted), "open", "closed"
    backlog,        \* the accept queue of server_fd
    rcvd,           \* bytes the server has read from the socket
    echoed,         \* bytes the server has written to the socket, in order
    interest,       \* the event mask registered in epoll, {} if none
    ready,          \* the edge-triggered sockets in epoll's ready list
    (* The server's process *)
    buffer, buffer_begin, buffer_end,   \* the fields of fd_data
    batch,          \* pending_events: the mask of each event not yet processed
    cur,            \* the source whose event is being processed
    pc              \* "wait", "dispatch", "read", "write", "killed"

net    == <<peer, sent, acked>>
kernel == <<conn, backlog, rcvd, echoed, interest, ready>>
fdData == <<buffer, buffer_begin, buffer_end>>
server == <<batch, cur, pc>>
vars   == <<peer, sent, acked, conn, backlog, rcvd, echoed, interest, ready,
            buffer, buffer_begin, buffer_end, batch, cur, pc>>

Source == Client \cup {Listener}
Event  == {"IN", "OUT", "RDHUP", "HUP", "ERR"}

Least(m, n) == IF m <= n THEN m ELSE n
-----------------------------------------------------------------------------
(* Readiness of a socket *)

Gone(c)   == peer[c] \in {"rst", "pipe"}
Unread(c) == sent[c] - rcvd[c]
Room(c)   == SNDBUF - (Len(echoed[c]) - acked[c])

\* The mask poll() would compute for the socket.
Poll(c) ==
    {e \in Event :
        \/ e = "IN" /\ (Unread(c) > 0 \/ peer[c] # "up")
        \/ e = "OUT" /\ (Room(c) > 0 \/ Gone(c))
        \/ e = "RDHUP" /\ peer[c] # "up"
        \/ e \in {"HUP", "ERR"} /\ Gone(c)}

\* What epoll reports of it: HUP and ERR are always reported.
Reported(c, mask) == Poll(c) \cap (mask \cup {"HUP", "ERR"})

\* EPOLL_CTL_ADD and EPOLL_CTL_MOD look at the socket as it is now, so what
\* is already there counts as a new edge.
Register(c, mask) ==
    /\ interest' = [interest EXCEPT ![c] = mask]
    /\ ready' = IF Reported(c, mask) # {} THEN ready \cup {c} ELSE ready

\* Something of kind e happened on the socket: an edge, if it is watched.
Edge(c, e) ==
    ready' = IF interest[c] # {} /\ e \in interest[c] \cup {"HUP", "ERR"}
             THEN ready \cup {c} ELSE ready

READING == {"IN", "RDHUP"}              \* EPOLLIN | EPOLLET | EPOLLRDHUP
\* Deviation: line 203 without EPOLLIN.
WRITINGOnly == {"OUT", "RDHUP"}

WRITING == {"IN", "OUT", "RDHUP"}       \* ... | EPOLLOUT
-----------------------------------------------------------------------------
(* The clients *)

Alive == pc # "killed"      \* nothing is observed after the process died

Connect(c) ==
    /\ Alive
    /\ peer[c] = "off"
    /\ peer' = [peer EXCEPT ![c] = "up"]
    /\ conn' = [conn EXCEPT ![c] = "backlog"]
    /\ backlog' = Append(backlog, c)
    /\ UNCHANGED <<sent, acked, rcvd, echoed, interest, ready, fdData, server>>

Send(c) ==
    /\ Alive
    /\ peer[c] = "up"
    /\ conn[c] \in {"backlog", "open"}
    /\ sent[c] < MaxBytes
    /\ sent' = [sent EXCEPT ![c] = @ + 1]
    /\ Edge(c, "IN")
    /\ UNCHANGED <<peer, acked, conn, backlog, rcvd, echoed, interest, fdData,
                   server>>

\* The client takes a byte of the echo; a full send buffer becomes writable.
Drain(c) ==
    /\ Alive
    /\ ~Gone(c)
    /\ conn[c] = "open"
    /\ acked[c] < Len(echoed[c])
    /\ acked' = [acked EXCEPT ![c] = @ + 1]
    /\ IF Room(c) = 0 THEN Edge(c, "OUT") ELSE UNCHANGED ready
    /\ UNCHANGED <<peer, sent, conn, backlog, rcvd, echoed, interest, fdData,
                   server>>

Fin(c) ==
    /\ Alive
    /\ peer[c] = "up"
    /\ conn[c] \in {"backlog", "open"}
    /\ peer' = [peer EXCEPT ![c] = "fin"]
    /\ Edge(c, "RDHUP")
    /\ UNCHANGED <<sent, acked, conn, backlog, rcvd, echoed, interest, fdData,
                   server>>

\* A reset that follows the peer's FIN makes the next write an EPIPE.
Reset(c) ==
    /\ Alive
    /\ peer[c] \in {"up", "fin"}
    /\ conn[c] \in {"backlog", "open"}
    /\ peer' = [peer EXCEPT ![c] = IF @ = "up" THEN "rst" ELSE "pipe"]
    /\ Edge(c, "ERR")
    /\ UNCHANGED <<sent, acked, conn, backlog, rcvd, echoed, interest, fdData,
                   server>>
-----------------------------------------------------------------------------
(* main(): the event loop *)

\* What epoll_wait() has to report: a listening socket is level-triggered.
Hot ==
    {c \in ready : Reported(c, interest[c]) # {}}
        \cup (IF backlog # << >> THEN {Listener} ELSE {})

\* At most MAX_EVENTS are returned, and all of them if they fit.  Which ones,
\* and in which order they come, is epoll's business.  The edges returned are
\* consumed.
EpollWait ==
    /\ pc = "wait"
    /\ \E S \in SUBSET Hot :
          /\ S # {}
          /\ IF S = Hot THEN Cardinality(S) <= MAX_EVENTS
                        ELSE Cardinality(S) = MAX_EVENTS
          /\ batch' = [s \in Source |->
                          IF s \notin S THEN {}
                          ELSE IF s = Listener THEN {"IN"}
                          ELSE Reported(s, interest[s])]
          /\ ready' = ready \ S
    /\ pc' = "dispatch"
    /\ UNCHANGED <<net, conn, backlog, rcvd, echoed, interest, fdData, cur>>

\* process_epoll_event() returns: on to the next event, or to epoll_wait().
Return(s) ==
    /\ batch' = [batch EXCEPT ![s] = {}]
    /\ pc' = IF \A t \in Source \ {s} : batch[t] = {} THEN "wait" ELSE "dispatch"
    /\ cur' = Listener

Descriptors == {c \in Client : conn[c] = "open"}

\* accept() fails when the process is out of descriptors, which leaves the
\* connection in the backlog.
AcceptFails ==
    /\ pc = "dispatch"
    /\ batch[Listener] # {}
    /\ Cardinality(Descriptors) >= MAX_FDS
    /\ Return(Listener)
    /\ UNCHANGED <<net, kernel, fdData>>

\* accept(), disable_io_block(), calloc() and EPOLL_CTL_ADD all succeed.
AcceptOpens(c) ==
    /\ pc = "dispatch"
    /\ batch[Listener] # {}
    /\ Cardinality(Descriptors) < MAX_FDS
    /\ backlog # << >> /\ c = Head(backlog)
    /\ backlog' = Tail(backlog)
    /\ conn' = [conn EXCEPT ![c] = "open"]
    /\ buffer' = [buffer EXCEPT ![c] = [i \in 0 .. BUFF_SIZE - 1 |-> 0]]
    /\ buffer_begin' = [buffer_begin EXCEPT ![c] = 0]
    /\ buffer_end' = [buffer_end EXCEPT ![c] = 0]
    /\ Register(c, READING)
    /\ Return(Listener)
    /\ UNCHANGED <<net, rcvd, echoed>>

\* accept() succeeds and one of the calls after it fails: close(client_fd).
AcceptDrops(c) ==
    /\ pc = "dispatch"
    /\ batch[Listener] # {}
    /\ Cardinality(Descriptors) < MAX_FDS
    /\ backlog # << >> /\ c = Head(backlog)
    /\ backlog' = Tail(backlog)
    /\ conn' = [conn EXCEPT ![c] = "closed"]
    /\ Return(Listener)
    /\ UNCHANGED <<net, rcvd, echoed, interest, ready, fdData>>

\* Deviation: line 131, EPOLL_CTL_DEL, is missing.
CloseWithoutDel(c) ==
    /\ conn' = [conn EXCEPT ![c] = "closed"]
    /\ UNCHANGED <<backlog, rcvd, echoed, interest, ready, fdData>>

\* EPOLL_CTL_DEL, shutdown(), close(), free().
CloseConnection(c) ==
    /\ conn' = [conn EXCEPT ![c] = "closed"]
    /\ interest' = [interest EXCEPT ![c] = {}]
    /\ ready' = ready \ {c}
    /\ UNCHANGED <<backlog, rcvd, echoed, fdData>>

\* Deviation: line 190 without EPOLLRDHUP.
HANGUPWithoutRdhup == {"ERR", "HUP"}

HANGUP == {"ERR", "HUP", "RDHUP"}

\* The head of process_epoll_event() for a client: a hang-up closes the
\* connection before anything is read or written.
HangUp(c) ==
    /\ pc = "dispatch"
    /\ batch[c] \cap HANGUP # {}
    /\ CloseConnection(c)
    /\ Return(c)
    /\ UNCHANGED net

ClientEvent(c) ==
    /\ pc = "dispatch"
    /\ batch[c] # {}
    /\ batch[c] \cap HANGUP = {}
    /\ cur' = c
    /\ pc' = IF "IN" \in batch[c] THEN "read" ELSE "write"
    /\ UNCHANGED <<net, kernel, fdData, batch>>

(* The loop around read_buff(): one action for each way the call can end. *)

\* Deviation: the last byte of the buffer is kept for a NUL.
ReadFullTooEarly(c) ==
    /\ pc = "read" /\ cur = c
    /\ buffer_end[c] >= BUFF_SIZE - 1
    /\ CloseConnection(c)
    /\ Return(c)
    /\ UNCHANGED net

\* The buffer is full to its last byte, which read_buff() reports as an error.
ReadFull(c) ==
    /\ pc = "read" /\ cur = c
    /\ buffer_end[c] >= BUFF_SIZE
    /\ CloseConnection(c)
    /\ Return(c)
    /\ UNCHANGED net

\* Deviation: read() is offered BUFF_SIZE bytes wherever it starts (line 86).
ReadSomePastEnd(c) ==
    LET n == Least(Unread(c), BUFF_SIZE)
        last == buffer_end[c] + n - 1 IN
    /\ pc = "read" /\ cur = c
    /\ n > 0
    /\ buffer' = [buffer EXCEPT ![c] =
                     [i \in (0 .. BUFF_SIZE - 1) \cup (0 .. last) |->
                         IF i >= buffer_end[c] /\ i <= last
                         THEN rcvd[c] + (i - buffer_end[c]) + 1
                         ELSE buffer[c][i]]]
    /\ buffer_end' = [buffer_end EXCEPT ![c] = @ + n]
    /\ rcvd' = [rcvd EXCEPT ![c] = @ + n]
    /\ Register(c, WRITING)
    /\ UNCHANGED <<net, conn, backlog, echoed, buffer_begin, server>>

\* Deviation: line 85 reads to the start of the buffer.
ReadSomeAtStart(c) ==
    LET n == Least(Unread(c), BUFF_SIZE - buffer_end[c]) IN
    /\ pc = "read" /\ cur = c
    /\ n > 0
    /\ buffer' = [buffer EXCEPT ![c] =
                     [i \in 0 .. BUFF_SIZE - 1 |->
                         IF i < n THEN rcvd[c] + i + 1 ELSE buffer[c][i]]]
    /\ buffer_end' = [buffer_end EXCEPT ![c] = @ + n]
    /\ rcvd' = [rcvd EXCEPT ![c] = @ + n]
    /\ Register(c, WRITING)
    /\ UNCHANGED <<net, conn, backlog, echoed, buffer_begin, server>>

\* read() fills the buffer from buffer_end on; EPOLL_CTL_MOD asks for EPOLLOUT.
ReadSome(c) ==
    LET n == Least(Unread(c), BUFF_SIZE - buffer_end[c]) IN
    /\ pc = "read" /\ cur = c
    /\ n > 0
    /\ buffer' = [buffer EXCEPT ![c] =
                     [i \in 0 .. BUFF_SIZE - 1 |->
                         IF i \in buffer_end[c] .. buffer_end[c] + n - 1
                         THEN rcvd[c] + (i - buffer_end[c]) + 1
                         ELSE buffer[c][i]]]
    /\ buffer_end' = [buffer_end EXCEPT ![c] = @ + n]
    /\ rcvd' = [rcvd EXCEPT ![c] = @ + n]
    /\ Register(c, WRITING)
    /\ UNCHANGED <<net, conn, backlog, echoed, buffer_begin, server>>

\* End of file (also of a reset after the peer's FIN), or EAGAIN: the loop
\* ends.
ReadNothing(c) ==
    /\ pc = "read" /\ cur = c
    /\ buffer_end[c] < BUFF_SIZE
    /\ Unread(c) = 0
    /\ peer[c] # "rst"
    /\ IF "OUT" \in batch[c]
       THEN pc' = "write" /\ UNCHANGED <<batch, cur>>
       ELSE Return(c)
    /\ UNCHANGED <<net, kernel, fdData>>

\* ECONNRESET.
ReadError(c) ==
    /\ pc = "read" /\ cur = c
    /\ buffer_end[c] < BUFF_SIZE
    /\ Unread(c) = 0
    /\ peer[c] = "rst"
    /\ CloseConnection(c)
    /\ Return(c)
    /\ UNCHANGED net

(* write_buff(), called once for an event. *)

\* Deviation: line 107 writes from the start of the buffer.
ChunkFromStart(c, n) == [i \in 1 .. n |-> buffer[c][i - 1]]

\* The bytes of the buffer write() hands to the socket.
Chunk(c, n) == [i \in 1 .. n |-> buffer[c][buffer_begin[c] + i - 1]]

\* Deviation: EPOLLOUT stays on when all is written (lines 222-227 missing).
WriteSomeKeepsOut(c) ==
    LET n == Least(buffer_end[c] - buffer_begin[c], Room(c))
        emptied == buffer_begin[c] + n = buffer_end[c] IN
    /\ pc = "write" /\ cur = c
    /\ Gone(c) => buffer_begin[c] >= buffer_end[c]
    /\ echoed' = [echoed EXCEPT ![c] = @ \o Chunk(c, n)]
    /\ buffer_begin' = [buffer_begin EXCEPT ![c] = IF emptied THEN 0 ELSE @ + n]
    /\ buffer_end' = [buffer_end EXCEPT ![c] = IF emptied THEN 0 ELSE @]
    /\ UNCHANGED <<interest, ready>>
    /\ Return(c)
    /\ UNCHANGED <<net, conn, backlog, rcvd, buffer>>

\* Deviation: EPOLLOUT is dropped although bytes are left (line 222).
WriteSomeDropsOut(c) ==
    LET n == Least(buffer_end[c] - buffer_begin[c], Room(c))
        emptied == buffer_begin[c] + n = buffer_end[c] IN
    /\ pc = "write" /\ cur = c
    /\ Gone(c) => buffer_begin[c] >= buffer_end[c]
    /\ echoed' = [echoed EXCEPT ![c] = @ \o Chunk(c, n)]
    /\ buffer_begin' = [buffer_begin EXCEPT ![c] = IF emptied THEN 0 ELSE @ + n]
    /\ buffer_end' = [buffer_end EXCEPT ![c] = IF emptied THEN 0 ELSE @]
    /\ Register(c, READING)
    /\ Return(c)
    /\ UNCHANGED <<net, conn, backlog, rcvd, buffer>>

\* write() takes what there is room for, nothing at all on EAGAIN; an emptied
\* buffer starts over, and EPOLL_CTL_MOD drops EPOLLOUT.
WriteSome(c) ==
    LET n == Least(buffer_end[c] - buffer_begin[c], Room(c))
        emptied == buffer_begin[c] + n = buffer_end[c] IN
    /\ pc = "write" /\ cur = c
    /\ Gone(c) => buffer_begin[c] >= buffer_end[c]
    /\ echoed' = [echoed EXCEPT ![c] = @ \o Chunk(c, n)]
    /\ buffer_begin' = [buffer_begin EXCEPT ![c] = IF emptied THEN 0 ELSE @ + n]
    /\ buffer_end' = [buffer_end EXCEPT ![c] = IF emptied THEN 0 ELSE @]
    /\ IF emptied THEN Register(c, READING) ELSE UNCHANGED <<interest, ready>>
    /\ Return(c)
    /\ UNCHANGED <<net, conn, backlog, rcvd, buffer>>

\* ECONNRESET.
WriteError(c) ==
    /\ pc = "write" /\ cur = c
    /\ buffer_begin[c] < buffer_end[c]
    /\ peer[c] = "rst"
    /\ CloseConnection(c)
    /\ Return(c)
    /\ UNCHANGED net

\* EPIPE comes with SIGPIPE, which the server does not handle.
WriteKilled(c) ==
    /\ pc = "write" /\ cur = c
    /\ buffer_begin[c] < buffer_end[c]
    /\ peer[c] = "pipe"
    /\ pc' = "killed"
    /\ UNCHANGED <<net, kernel, fdData, batch, cur>>
-----------------------------------------------------------------------------
Init ==
    /\ peer = [c \in Client |-> "off"]
    /\ sent = [c \in Client |-> 0]
    /\ acked = [c \in Client |-> 0]
    /\ conn = [c \in Client |-> "none"]
    /\ backlog = << >>
    /\ rcvd = [c \in Client |-> 0]
    /\ echoed = [c \in Client |-> << >>]
    /\ interest = [c \in Client |-> {}]
    /\ ready = {}
    /\ buffer = [c \in Client |-> [i \in 0 .. BUFF_SIZE - 1 |-> 0]]
    /\ buffer_begin = [c \in Client |-> 0]
    /\ buffer_end = [c \in Client |-> 0]
    /\ batch = [s \in Source |-> {}]
    /\ cur = Listener
    /\ pc = "wait"

Serve ==
    \/ EpollWait
    \/ AcceptFails
    \/ \E c \in Client :
          \/ AcceptOpens(c) \/ AcceptDrops(c)
          \/ HangUp(c) \/ ClientEvent(c)
          \/ ReadFull(c) \/ ReadSome(c) \/ ReadNothing(c) \/ ReadError(c)
          \/ WriteSome(c) \/ WriteError(c) \/ WriteKilled(c)

Next ==
    \/ \E c \in Client : Connect(c) \/ Send(c) \/ Drain(c) \/ Fin(c) \/ Reset(c)
    \/ Serve

Spec == Init /\ [][Next]_vars

(* The process is scheduled; epoll_wait() goes round robin over the sources *)
(* that stay hot, as its manual promises; and clients take what they get.   *)
Fairness ==
    /\ WF_vars(Serve)
    /\ \A s \in Source : SF_vars(EpollWait /\ batch'[s] # {})
    /\ \A c \in Client : WF_vars(Drain(c))

FairSpec == Spec /\ Fairness
-----------------------------------------------------------------------------
(* Properties *)

\* The types of the variables.
TypeOK ==
    /\ peer \in [Client -> {"off", "up", "fin", "rst", "pipe"}]
    /\ sent \in [Client -> Nat]
    /\ acked \in [Client -> Nat]
    /\ conn \in [Client -> {"none", "backlog", "open", "closed"}]
    /\ backlog \in Seq(Client)
    /\ rcvd \in [Client -> Nat]
    /\ echoed \in [Client -> Seq(Nat)]
    /\ interest \in [Client -> SUBSET Event]
    /\ ready \in SUBSET Client
    /\ buffer \in [Client -> [0 .. BUFF_SIZE - 1 -> Nat]]
    /\ buffer_begin \in [Client -> Nat]
    /\ buffer_end \in [Client -> Nat]
    /\ batch \in [Source -> SUBSET Event]
    /\ cur \in Source
    /\ pc \in {"wait", "dispatch", "read", "write", "killed"}

\* fd_data is used inside its bounds, and what lies between buffer_begin and
\* buffer_end is exactly what was read and not yet written back, in order.
BufferHoldsBacklog ==
    \A c \in Client :
        /\ buffer_begin[c] <= buffer_end[c]
        /\ buffer_end[c] <= BUFF_SIZE
        /\ Len(echoed[c]) + (buffer_end[c] - buffer_begin[c]) = rcvd[c]
        /\ rcvd[c] <= sent[c]
        /\ \A i \in buffer_begin[c] .. buffer_end[c] - 1 :
              buffer[c][i] = Len(echoed[c]) + (i - buffer_begin[c]) + 1

\* Every pointer to an fd_data the server will still follow - in an event not
\* yet processed, or in epoll's tables - is to one that was not freed.
NoUseAfterFree ==
    \A c \in Client :
        (batch[c] # {} \/ interest[c] # {} \/ c \in ready \/ cur = c) => conn[c] = "open"

\* Edge-triggered readiness is never lost: when the server sleeps in
\* epoll_wait(), every connection with something to do - bytes to read, bytes
\* to write and room for them, a hang-up to handle - is in the ready list, and
\* one that waits for room is watched for it.
EdgesNotLost ==
    pc = "wait" =>
        \A c \in Client : conn[c] = "open" =>
            /\ Unread(c) > 0 \/ peer[c] # "up" => c \in ready
            /\ buffer_begin[c] < buffer_end[c] =>
                  "OUT" \in interest[c] /\ (Room(c) > 0 => c \in ready)

\* EPOLLOUT is asked for exactly while there is something to write, so the
\* server never spins on a writable socket.
OutWatchedWhileOwed ==
    \A c \in Client : conn[c] = "open" =>
        ("OUT" \in interest[c] <=> buffer_begin[c] < buffer_end[c])

\* A live client is cut off only because the buffer has been filled to its
\* last byte (or at accept, when a call failed).
CutOffOnlyWhenFull ==
    [][\A c \in Client :
          conn[c] = "open" /\ conn'[c] = "closed" /\ peer[c] = "up"
              => buffer_end[c] = BUFF_SIZE]_vars

\* SIGPIPE kills the server only if the peer shut down and then reset between
\* epoll_wait() and write(): the event being processed showed no hang-up.
KilledOnlyInWindow ==
    pc = "killed" => peer[cur] = "pipe" /\ "RDHUP" \notin batch[cur]

\* Bytes that reached a connection come back, or the connection is closed, or
\* the server died.
EchoedOrClosed ==
    \A c \in Client : \A k \in 1 .. MaxBytes :
        (conn[c] = "open" /\ sent[c] >= k)
            ~> (Len(echoed[c]) >= k \/ conn[c] = "closed" \/ pc = "killed")

\* A peer that went away does not keep its descriptor.
HangupReleases ==
    \A c \in Client :
        (conn[c] = "open" /\ peer[c] # "up") ~> (conn[c] = "closed" \/ pc = "killed")

\* A connection does not stay in the backlog while descriptors are to be had.
Accepted ==
    \A c \in Client :
        conn[c] = "backlog"
            ~> (conn[c] # "backlog" \/ pc = "killed"
                  \/ Cardinality(Descriptors) >= MAX_FDS)

\* The server never leaves a client hanging: what was sent comes back, a peer
\* that went away frees its descriptor, and the backlog moves - although the
\* only thing that wakes the server is an edge.
Responsive == EchoedOrClosed /\ HangupReleases /\ Accepted

\* The service the clients see.
session ==
    [c \in Client |->
        IF pc = "killed" \/ conn[c] = "closed" THEN "closed"
        ELSE IF conn[c] = "open" THEN "open" ELSE "idle"]

Service == INSTANCE EchoService

\* The server implements the echo service: a prefix of what was sent, in
\* order, whatever the interleaving.
ImplementsEcho == Service!EchoSpec
=============================================================================
