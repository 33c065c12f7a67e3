------------------------- MODULE EpollServerProofs -------------------------
(***************************************************************************)
(* Theorems about the epoll echo server, for any set of clients and any    *)
(* sizes: types, the buffer discipline, no use after free, and that the    *)
(* server implements the echo service.                                     *)
(***************************************************************************)
EXTENDS EpollServer, SequenceTheorems, TLAPS

-----------------------------------------------------------------------------
(* Lemmas about the helpers *)

\* Least() is one of its arguments and bounded by both.
LEMMA LeastFact ==
    ASSUME NEW m \in Int, NEW n \in Int
    PROVE  /\ Least(m, n) \in Int
           /\ Least(m, n) <= m /\ Least(m, n) <= n
           /\ Least(m, n) \in {m, n}
BY DEF Least

\* What epoll reports of a socket is a set of events.
LEMMA ReportedType ==
    ASSUME NEW c, NEW mask PROVE Reported(c, mask) \in SUBSET Event
BY DEF Reported, Poll

\* EPOLL_CTL_ADD and EPOLL_CTL_MOD keep the types of epoll's tables.
LEMMA RegisterType ==
    ASSUME NEW c \in Client, NEW mask \in SUBSET Event,
           interest \in [Client -> SUBSET Event], ready \in SUBSET Client,
           Register(c, mask)
    PROVE  interest' \in [Client -> SUBSET Event] /\ ready' \in SUBSET Client
BY DEF Register

\* An edge adds at most its own socket to the ready list, and only if watched.
LEMMA EdgeType ==
    ASSUME NEW c \in Client, NEW e, ready \in SUBSET Client, Edge(c, e)
    PROVE  /\ ready' \in SUBSET Client
           /\ ready \subseteq ready'
           /\ \A d \in ready' : d \in ready \/ (d = c /\ interest[c] # {})
BY DEF Edge

-----------------------------------------------------------------------------
(* Control: which source the server is at work on *)

\* While a client's event is processed, cur is that client, its event is in
\* the batch, and the event showed no hang-up.
Focus ==
    IF pc \in {"read", "write", "killed"}
    THEN cur \in Client /\ batch[cur] # {} /\ batch[cur] \cap HANGUP = {}
    ELSE cur = Listener

ServerType ==
    /\ batch \in [Source -> SUBSET Event]
    /\ cur \in Source
    /\ pc \in {"wait", "dispatch", "read", "write", "killed"}
    /\ Focus

KernelType ==
    /\ conn \in [Client -> {"none", "backlog", "open", "closed"}]
    /\ backlog \in Seq(Client)
    /\ rcvd \in [Client -> Nat]
    /\ echoed \in [Client -> Seq(Nat)]
    /\ interest \in [Client -> SUBSET Event]
    /\ ready \in SUBSET Client

FdDataType ==
    /\ buffer \in [Client -> [0 .. BUFF_SIZE - 1 -> Nat]]
    /\ buffer_begin \in [Client -> Nat]
    /\ buffer_end \in [Client -> Nat]

NetType ==
    /\ peer \in [Client -> {"off", "up", "fin", "rst", "pipe"}]
    /\ sent \in [Client -> Nat]
    /\ acked \in [Client -> Nat]

Types == ServerType /\ KernelType /\ FdDataType /\ NetType

\* The kernel never holds more of the echo than the send buffer does.
SendBufferFits ==
    \A c \in Client :
        /\ acked[c] <= Len(echoed[c])
        /\ Len(echoed[c]) - acked[c] <= SNDBUF

Buffers == BufferHoldsBacklog /\ SendBufferFits

\* The accept queue holds each client that waits, once; a connection that was
\* not accepted has an empty buffer.
Queue ==
    /\ \A i \in 1 .. Len(backlog) : conn[backlog[i]] = "backlog"
    /\ \A i, j \in 1 .. Len(backlog) : backlog[i] = backlog[j] => i = j
    /\ \A c \in Client :
          /\ peer[c] = "off" <=> conn[c] = "none"
          /\ conn[c] \in {"none", "backlog"} => buffer_begin[c] = 0 /\ buffer_end[c] = 0

\* Leaving process_epoll_event() puts the server back in its loop.
LEMMA ReturnType ==
    ASSUME ServerType, NEW s \in Source, Return(s)
    PROVE  ServerType' /\ pc' \in {"wait", "dispatch"} /\ cur' = Listener
BY DEF ServerType, Return, Focus, Source

\* Closing a connection keeps the types of the kernel's tables.
LEMMA CloseType ==
    ASSUME KernelType, FdDataType, NEW c \in Client, CloseConnection(c)
    PROVE  KernelType' /\ FdDataType'
<1>1. KernelType'
    BY DEF KernelType, CloseConnection
<1>2. FdDataType'
    BY DEF FdDataType, CloseConnection, fdData
<1> QED
    BY <1>1, <1>2

\* A step that leaves the server's variables alone keeps their types.
LEMMA StutterServer == ServerType /\ UNCHANGED server => ServerType'
BY DEF ServerType, server, Focus

\* A step that leaves fd_data alone keeps its types.
LEMMA StutterFdData == FdDataType /\ UNCHANGED fdData => FdDataType'
BY DEF FdDataType, fdData

\* A step that leaves the kernel's variables alone keeps their types.
LEMMA StutterKernel == KernelType /\ UNCHANGED kernel => KernelType'
BY DEF KernelType, kernel

\* A step that leaves the clients' variables alone keeps their types.
LEMMA StutterNet == NetType /\ UNCHANGED net => NetType'
BY DEF NetType, net

\* The sizes the server computes with are integers, and those of a write are
\* never negative.
LEMMA ChunkSizes ==
    ASSUME Types, NEW c \in Client
    PROVE  /\ Least(Unread(c), BUFF_SIZE - buffer_end[c]) \in Int
           /\ Unread(c) \in Int /\ Room(c) \in Int
           /\ Buffers => /\ Least(buffer_end[c] - buffer_begin[c], Room(c)) \in Nat
                         /\ Least(buffer_end[c] - buffer_begin[c], Room(c)) <= Room(c)
                         /\ Least(buffer_end[c] - buffer_begin[c], Room(c))
                               <= buffer_end[c] - buffer_begin[c]
<1>1. /\ sent[c] \in Nat /\ rcvd[c] \in Nat /\ acked[c] \in Nat
      /\ buffer_begin[c] \in Nat /\ buffer_end[c] \in Nat
      /\ Len(echoed[c]) \in Nat
    BY DEF Types, NetType, KernelType, FdDataType
<1>2. /\ Unread(c) \in Int
      /\ Room(c) \in Int
      /\ BUFF_SIZE - buffer_end[c] \in Int
      /\ buffer_end[c] - buffer_begin[c] \in Int
    BY <1>1, EpollAssumption DEF Unread, Room
<1>3. Buffers => buffer_end[c] - buffer_begin[c] \in Nat /\ Room(c) \in Nat
    BY <1>1, EpollAssumption DEF Buffers, SendBufferFits, BufferHoldsBacklog, Room
<1> QED
    BY <1>2, <1>3, LeastFact

\* What write() is handed are the next bytes the client is owed.
LEMMA ChunkFact ==
    ASSUME Types, Buffers, NEW c \in Client,
           NEW n \in Nat, n <= buffer_end[c] - buffer_begin[c]
    PROVE  /\ Chunk(c, n) \in Seq(Nat)
           /\ Len(Chunk(c, n)) = n
           /\ Chunk(c, n) = [i \in 1 .. n |-> Len(echoed[c]) + i]
<1>1. /\ buffer_begin[c] \in Nat /\ buffer_end[c] \in Nat
      /\ Len(echoed[c]) \in Nat
    BY DEF Types, KernelType, FdDataType
<1>2. ASSUME NEW i \in 1 .. n
      PROVE  buffer[c][buffer_begin[c] + i - 1] = Len(echoed[c]) + i
    <2>1. buffer_begin[c] + i - 1 \in buffer_begin[c] .. buffer_end[c] - 1
        BY <1>1
    <2>2. buffer[c][buffer_begin[c] + i - 1]
             = Len(echoed[c]) + (buffer_begin[c] + i - 1 - buffer_begin[c]) + 1
        <3>1. \A j \in buffer_begin[c] .. buffer_end[c] - 1 :
                 buffer[c][j] = Len(echoed[c]) + (j - buffer_begin[c]) + 1
            BY DEF Buffers, BufferHoldsBacklog
        <3> HIDE DEF Types, Buffers
        <3> QED BY <1>1, <2>1, <3>1
    <2> QED BY <1>1, <2>2
<1>3. Chunk(c, n) = [i \in 1 .. n |-> Len(echoed[c]) + i]
    BY <1>2 DEF Chunk
<1> QED
    BY <1>1, <1>3

\* Every step keeps the types, and the focus of the server.
LEMMA TypesStep == Types /\ Buffers /\ [Next]_vars => Types'
<1> SUFFICES ASSUME Types, Buffers, [Next]_vars PROVE Types'
    OBVIOUS
<1> USE DEF Types
<1>1. ASSUME NEW c \in Client, Connect(c) PROVE Types'
    <2>1. ServerType' /\ FdDataType'
        BY <1>1, StutterServer, StutterFdData DEF Connect
    <2>2. KernelType'
        BY <1>1, AppendProperties DEF Connect, KernelType
    <2>3. NetType'
        BY <1>1 DEF Connect, NetType
    <2> QED BY <2>1, <2>2, <2>3
<1>2. ASSUME NEW c \in Client, Send(c) PROVE Types'
    <2>1. ServerType' /\ FdDataType'
        BY <1>2, StutterServer, StutterFdData DEF Send
    <2>2. KernelType'
        BY <1>2, EdgeType DEF Send, KernelType
    <2>3. NetType'
        BY <1>2 DEF Send, NetType
    <2> QED BY <2>1, <2>2, <2>3
<1>3. ASSUME NEW c \in Client, Drain(c) PROVE Types'
    <2>1. ServerType' /\ FdDataType'
        BY <1>3, StutterServer, StutterFdData DEF Drain
    <2>2. KernelType'
        BY <1>3, EdgeType DEF Drain, KernelType
    <2>3. NetType'
        BY <1>3 DEF Drain, NetType
    <2> QED BY <2>1, <2>2, <2>3
<1>4. ASSUME NEW c \in Client, Fin(c) PROVE Types'
    <2>1. ServerType' /\ FdDataType'
        BY <1>4, StutterServer, StutterFdData DEF Fin
    <2>2. KernelType'
        BY <1>4, EdgeType DEF Fin, KernelType
    <2>3. NetType'
        BY <1>4 DEF Fin, NetType
    <2> QED BY <2>1, <2>2, <2>3
<1>5. ASSUME NEW c \in Client, Reset(c) PROVE Types'
    <2>1. ServerType' /\ FdDataType'
        BY <1>5, StutterServer, StutterFdData DEF Reset
    <2>2. KernelType'
        BY <1>5, EdgeType DEF Reset, KernelType
    <2>3. NetType'
        BY <1>5 DEF Reset, NetType
    <2> QED BY <2>1, <2>2, <2>3
<1>6. CASE EpollWait
    <2>1. NetType' /\ FdDataType'
        BY <1>6, StutterNet, StutterFdData DEF EpollWait
    <2>2. KernelType'
        BY <1>6 DEF EpollWait, KernelType
    <2>3. ServerType'
        BY <1>6, ReportedType DEF EpollWait, ServerType, Focus, Event
    <2> QED BY <2>1, <2>2, <2>3
<1>7. CASE AcceptFails
    BY <1>7, ReturnType, StutterNet, StutterKernel, StutterFdData
    DEF AcceptFails, Source
<1>8. ASSUME NEW c \in Client, AcceptOpens(c) PROVE Types'
    <2>1. NetType' /\ ServerType'
        BY <1>8, ReturnType, StutterNet DEF AcceptOpens, Source
    <2>2. FdDataType'
        BY <1>8 DEF AcceptOpens, FdDataType
    <2>3. backlog' \in Seq(Client)
        BY <1>8, HeadTailProperties DEF AcceptOpens, KernelType
    <2>4. interest' \in [Client -> SUBSET Event] /\ ready' \in SUBSET Client
        BY <1>8, RegisterType DEF AcceptOpens, KernelType, READING, Event
    <2>5. KernelType'
        BY <1>8, <2>3, <2>4 DEF AcceptOpens, KernelType
    <2> QED BY <2>1, <2>2, <2>5
<1>9. ASSUME NEW c \in Client, AcceptDrops(c) PROVE Types'
    <2>1. NetType' /\ ServerType' /\ FdDataType'
        BY <1>9, ReturnType, StutterNet, StutterFdData DEF AcceptDrops, Source
    <2>2. backlog' \in Seq(Client)
        BY <1>9, HeadTailProperties DEF AcceptDrops, KernelType
    <2>3. KernelType'
        BY <1>9, <2>2 DEF AcceptDrops, KernelType
    <2> QED BY <2>1, <2>3
<1>10. ASSUME NEW c \in Client, HangUp(c) PROVE Types'
    BY <1>10, ReturnType, StutterNet, CloseType DEF HangUp, Source
<1>11. ASSUME NEW c \in Client, ClientEvent(c) PROVE Types'
    <2>1. NetType' /\ KernelType' /\ FdDataType'
        BY <1>11, StutterNet, StutterKernel, StutterFdData DEF ClientEvent
    <2>2. ServerType'
        BY <1>11 DEF ClientEvent, ServerType, Focus, Source
    <2> QED BY <2>1, <2>2
<1>12. ASSUME NEW c \in Client, ReadFull(c) PROVE Types'
    BY <1>12, ReturnType, StutterNet, CloseType DEF ReadFull, Source
<1>13. ASSUME NEW c \in Client, ReadSome(c) PROVE Types'
    <2> DEFINE n == Least(Unread(c), BUFF_SIZE - buffer_end[c])
    <2>1. n \in Nat
        BY <1>13, ChunkSizes DEF ReadSome
    <2>2. NetType' /\ ServerType'
        BY <1>13, StutterNet, StutterServer DEF ReadSome
    <2>3. buffer' \in [Client -> [0 .. BUFF_SIZE - 1 -> Nat]]
        <3>1. ASSUME NEW i \in 0 .. BUFF_SIZE - 1
              PROVE  (IF i \in buffer_end[c] .. buffer_end[c] + n - 1
                      THEN rcvd[c] + (i - buffer_end[c]) + 1
                      ELSE buffer[c][i]) \in Nat
            <4>1. buffer[c][i] \in Nat /\ rcvd[c] \in Nat /\ buffer_end[c] \in Nat
                BY DEF FdDataType, KernelType
            <4> QED BY <2>1, <4>1, EpollAssumption
        <3> QED BY <1>13, <3>1 DEF ReadSome, FdDataType
    <2> HIDE DEF n
    <2>4. FdDataType'
        BY <1>13, <2>1, <2>3 DEF ReadSome, FdDataType, n
    <2>5. interest' \in [Client -> SUBSET Event] /\ ready' \in SUBSET Client
        BY <1>13, RegisterType DEF ReadSome, KernelType, WRITING, Event
    <2>6. KernelType'
        <3>1. rcvd' = [rcvd EXCEPT ![c] = @ + n]
            BY <1>13 DEF ReadSome, n
        <3>2. UNCHANGED <<conn, backlog, echoed>>
            BY <1>13 DEF ReadSome
        <3> QED BY <2>1, <2>5, <3>1, <3>2 DEF KernelType
    <2> QED BY <2>2, <2>4, <2>6
<1>14. ASSUME NEW c \in Client, ReadNothing(c) PROVE Types'
    <2>1. NetType' /\ KernelType' /\ FdDataType'
        BY <1>14, StutterNet, StutterKernel, StutterFdData DEF ReadNothing
    <2>2. CASE Return(c)
        BY <2>1, <2>2, ReturnType DEF Source
    <2>3. CASE pc' = "write" /\ UNCHANGED <<batch, cur>>
        BY <1>14, <2>1, <2>3 DEF ReadNothing, ServerType, Focus
    <2> QED BY <1>14, <2>2, <2>3 DEF ReadNothing
<1>15. ASSUME NEW c \in Client, ReadError(c) PROVE Types'
    BY <1>15, ReturnType, StutterNet, CloseType DEF ReadError, Source
<1>16. ASSUME NEW c \in Client, WriteSome(c) PROVE Types'
    <2>1. NetType' /\ ServerType'
        BY <1>16, ReturnType, StutterNet DEF WriteSome, Source
    <2> DEFINE n == Least(buffer_end[c] - buffer_begin[c], Room(c))
    <2>2. n \in Nat
        BY ChunkSizes
    <2> HIDE DEF n
    <2>3. FdDataType'
        BY <1>16, <2>2 DEF WriteSome, FdDataType, n
    <2>4. interest' \in [Client -> SUBSET Event] /\ ready' \in SUBSET Client
        BY <1>16, RegisterType DEF WriteSome, KernelType, READING, Event
    <2>5. Chunk(c, n) \in Seq(Nat)
        BY <2>2, ChunkSizes, ChunkFact DEF n
    <2>6. KernelType'
        BY <1>16, <2>4, <2>5, ConcatProperties DEF WriteSome, KernelType, n
    <2> QED BY <2>1, <2>3, <2>6
<1>17. ASSUME NEW c \in Client, WriteError(c) PROVE Types'
    BY <1>17, ReturnType, StutterNet, CloseType DEF WriteError, Source
<1>18. ASSUME NEW c \in Client, WriteKilled(c) PROVE Types'
    <2>1. NetType' /\ KernelType' /\ FdDataType'
        BY <1>18, StutterNet, StutterKernel, StutterFdData DEF WriteKilled
    <2>2. ServerType'
        BY <1>18 DEF WriteKilled, ServerType, Focus
    <2> QED BY <2>1, <2>2
<1>19. CASE UNCHANGED vars
    BY <1>19, StutterNet, StutterKernel, StutterFdData, StutterServer
    DEF vars, net, kernel, fdData, server
<1> QED
    BY <1>1, <1>2, <1>3, <1>4, <1>5, <1>6, <1>7, <1>8, <1>9, <1>10, <1>11,
       <1>12, <1>13, <1>14, <1>15, <1>16, <1>17, <1>18, <1>19
    DEF Next, Serve
-----------------------------------------------------------------------------
(* The buffer of a connection *)

\* Every step keeps the buffer discipline.
LEMMA BuffersStep == Types /\ Buffers /\ Queue /\ [Next]_vars => Buffers'
<1> SUFFICES ASSUME Types, Buffers, Queue, [Next]_vars, NEW d \in Client
             PROVE  /\ acked'[d] <= Len(echoed'[d])
                    /\ Len(echoed'[d]) - acked'[d] <= SNDBUF
                    /\ buffer_begin'[d] <= buffer_end'[d]
                    /\ buffer_end'[d] <= BUFF_SIZE
                    /\ Len(echoed'[d]) + (buffer_end'[d] - buffer_begin'[d]) = rcvd'[d]
                    /\ rcvd'[d] <= sent'[d]
                    /\ \A i \in buffer_begin'[d] .. buffer_end'[d] - 1 :
                          buffer'[d][i] = Len(echoed'[d]) + (i - buffer_begin'[d]) + 1
    BY DEF Buffers, SendBufferFits, BufferHoldsBacklog
<1> DEFINE Goal == /\ acked'[d] <= Len(echoed'[d])
                   /\ Len(echoed'[d]) - acked'[d] <= SNDBUF
                   /\ buffer_begin'[d] <= buffer_end'[d]
                   /\ buffer_end'[d] <= BUFF_SIZE
                   /\ Len(echoed'[d]) + (buffer_end'[d] - buffer_begin'[d]) = rcvd'[d]
                   /\ rcvd'[d] <= sent'[d]
                   /\ \A i \in buffer_begin'[d] .. buffer_end'[d] - 1 :
                         buffer'[d][i] = Len(echoed'[d]) + (i - buffer_begin'[d]) + 1
<1>a. /\ sent[d] \in Nat /\ acked[d] \in Nat /\ rcvd[d] \in Nat
      /\ buffer_begin[d] \in Nat /\ buffer_end[d] \in Nat
      /\ Len(echoed[d]) \in Nat /\ echoed[d] \in Seq(Nat)
    BY DEF Types, NetType, KernelType, FdDataType
<1>b. /\ acked[d] <= Len(echoed[d])
      /\ Len(echoed[d]) - acked[d] <= SNDBUF
      /\ buffer_begin[d] <= buffer_end[d]
      /\ buffer_end[d] <= BUFF_SIZE
      /\ Len(echoed[d]) + (buffer_end[d] - buffer_begin[d]) = rcvd[d]
      /\ rcvd[d] <= sent[d]
    BY DEF Buffers, SendBufferFits, BufferHoldsBacklog
<1>q. \A i \in buffer_begin[d] .. buffer_end[d] - 1 :
         buffer[d][i] = Len(echoed[d]) + (i - buffer_begin[d]) + 1
    BY DEF Buffers, BufferHoldsBacklog
<1>c. ASSUME UNCHANGED <<sent, acked, rcvd, echoed, fdData>> PROVE Goal
    BY <1>b, <1>q, <1>c DEF fdData
<1>1. ASSUME NEW c \in Client, Send(c) PROVE Goal
    BY <1>1, <1>a, <1>b, <1>q DEF Send, fdData, Types, NetType
<1>2. ASSUME NEW c \in Client, Drain(c) PROVE Goal
    <2>1. UNCHANGED <<sent, rcvd, echoed, buffer, buffer_begin, buffer_end>>
        BY <1>2 DEF Drain, fdData
    <2>2. \/ acked'[d] = acked[d]
          \/ acked'[d] = acked[d] + 1 /\ acked[d] < Len(echoed[d])
        BY <1>2 DEF Drain, Types, NetType
    <2>3. acked'[d] <= Len(echoed[d]) /\ Len(echoed[d]) - acked'[d] <= SNDBUF
        BY <1>a, <1>b, <2>2, EpollAssumption
    <2> QED BY <1>b, <1>q, <2>1, <2>3
<1>3. ASSUME NEW c \in Client, AcceptOpens(c) PROVE Goal
    <2>1. CASE d = c
        <3>1. conn[c] = "backlog"
            BY <1>3, HeadTailProperties DEF AcceptOpens, Queue, Types, KernelType
        <3>2. buffer_begin[c] = 0 /\ buffer_end[c] = 0
            BY <3>1 DEF Queue
        <3>3. buffer_begin'[c] = 0 /\ buffer_end'[c] = 0
            BY <1>3 DEF AcceptOpens, Types, FdDataType
        <3>4. UNCHANGED <<sent, acked, rcvd, echoed>>
            BY <1>3 DEF AcceptOpens, net
        <3> QED BY <1>a, <1>b, <2>1, <3>2, <3>3, <3>4, EpollAssumption
    <2>2. CASE d # c
        <3>1. /\ UNCHANGED <<sent, acked, rcvd, echoed>>
              /\ buffer'[d] = buffer[d]
              /\ buffer_begin'[d] = buffer_begin[d] /\ buffer_end'[d] = buffer_end[d]
            BY <1>3, <2>2 DEF AcceptOpens, net, Types, FdDataType
        <3> QED BY <1>b, <1>q, <3>1
    <2> QED BY <2>1, <2>2
<1>4. ASSUME NEW c \in Client, ReadSome(c) PROVE Goal
    <2> DEFINE n == Least(Unread(c), BUFF_SIZE - buffer_end[c])
    <2>0. /\ n \in Int /\ n > 0 /\ n <= sent[c] - rcvd[c] /\ n <= BUFF_SIZE - buffer_end[c]
        <3>1. Unread(c) \in Int /\ BUFF_SIZE - buffer_end[c] \in Int
            BY ChunkSizes, EpollAssumption DEF Types, FdDataType
        <3>2. n > 0
            BY <1>4 DEF ReadSome
        <3> QED BY <3>1, <3>2, LeastFact DEF Unread
    <2>u. UNCHANGED <<sent, acked, echoed, buffer_begin>>
        BY <1>4 DEF ReadSome, net
    <2>1. CASE d = c
        <3> HIDE DEF n
        <3>1. /\ buffer_end'[c] = buffer_end[c] + n
              /\ rcvd'[c] = rcvd[c] + n
            BY <1>4 DEF ReadSome, Types, KernelType, FdDataType, n
        <3>2. \A i \in 0 .. BUFF_SIZE - 1 :
                 buffer'[c][i] = IF i \in buffer_end[c] .. buffer_end[c] + n - 1
                                 THEN rcvd[c] + (i - buffer_end[c]) + 1
                                 ELSE buffer[c][i]
            BY <1>4 DEF ReadSome, Types, FdDataType, n
        <3>3. ASSUME NEW i \in buffer_begin[c] .. buffer_end[c] + n - 1
              PROVE  buffer'[c][i] = Len(echoed[c]) + (i - buffer_begin[c]) + 1
            <4>1. i \in 0 .. BUFF_SIZE - 1 /\ i \in Int
                BY <1>a, <2>0, <2>1, EpollAssumption
            <4>2. CASE i \in buffer_end[c] .. buffer_end[c] + n - 1
                <5>1. buffer'[c][i] = rcvd[c] + (i - buffer_end[c]) + 1
                    BY <3>2, <4>1, <4>2
                <5> QED BY <1>a, <1>b, <2>1, <4>1, <5>1
            <4>3. CASE i \notin buffer_end[c] .. buffer_end[c] + n - 1
                <5>1. buffer'[c][i] = buffer[c][i]
                    BY <3>2, <4>1, <4>3
                <5>2. i \in buffer_begin[c] .. buffer_end[c] - 1
                    BY <1>a, <2>0, <2>1, <4>1, <4>3
                <5> QED BY <1>q, <2>1, <5>1, <5>2
            <4> QED BY <4>2, <4>3
        <3>4. /\ acked'[d] = acked[d] /\ echoed'[d] = echoed[d] /\ sent'[d] = sent[d]
              /\ buffer_begin'[d] = buffer_begin[d]
              /\ buffer_end'[d] = buffer_end[d] + n /\ rcvd'[d] = rcvd[d] + n
            BY <2>u, <2>1, <3>1
        <3>5. \A i \in buffer_begin'[d] .. buffer_end'[d] - 1 :
                 buffer'[d][i] = Len(echoed'[d]) + (i - buffer_begin'[d]) + 1
            <4>1. \A i \in buffer_begin[d] .. buffer_end[d] + n - 1 :
                     buffer'[d][i] = Len(echoed[d]) + (i - buffer_begin[d]) + 1
                BY <2>1, <3>3
            <4> QED BY <1>a, <2>0, <3>4, <4>1
        <3>6. /\ acked'[d] <= Len(echoed'[d])
              /\ Len(echoed'[d]) - acked'[d] <= SNDBUF
              /\ buffer_begin'[d] <= buffer_end'[d]
              /\ buffer_end'[d] <= BUFF_SIZE
              /\ Len(echoed'[d]) + (buffer_end'[d] - buffer_begin'[d]) = rcvd'[d]
              /\ rcvd'[d] <= sent'[d]
            <4>1. n \in Nat /\ n <= sent[d] - rcvd[d] /\ n <= BUFF_SIZE - buffer_end[d]
                BY <2>0, <2>1
            <4>2. /\ acked'[d] <= Len(echoed'[d])
                  /\ Len(echoed'[d]) - acked'[d] <= SNDBUF
                BY <1>a, <1>b, <3>4
            <4>3. buffer_begin'[d] <= buffer_end'[d]
                BY <1>a, <1>b, <3>4, <4>1
            <4>4. buffer_end'[d] <= BUFF_SIZE
                BY <1>a, <1>b, <3>4, <4>1, EpollAssumption
            <4>5. Len(echoed'[d]) + (buffer_end'[d] - buffer_begin'[d]) = rcvd'[d]
                <5>1. Len(echoed[d]) + ((buffer_end[d] + n) - buffer_begin[d]) = rcvd[d] + n
                    BY <1>a, <1>b, <4>1
                <5> QED BY <3>4, <5>1
            <4>6. rcvd'[d] <= sent'[d]
                BY <1>a, <1>b, <3>4, <4>1
            <4> QED BY <4>2, <4>3, <4>4, <4>5, <4>6
        <3> QED BY <3>5, <3>6
    <2>2. CASE d # c
        <3>1. /\ buffer'[d] = buffer[d] /\ rcvd'[d] = rcvd[d]
              /\ buffer_end'[d] = buffer_end[d]
            BY <1>4, <2>2 DEF ReadSome, Types, KernelType, FdDataType
        <3> QED BY <1>b, <1>q, <2>u, <3>1
    <2> QED BY <2>1, <2>2
<1>5. ASSUME NEW c \in Client, WriteSome(c) PROVE Goal
    <2> DEFINE n == Least(buffer_end[c] - buffer_begin[c], Room(c))
               emptied == buffer_begin[c] + n = buffer_end[c]
    <2>0. /\ n \in Nat
          /\ n <= SNDBUF - (Len(echoed[c]) - acked[c])
          /\ n <= buffer_end[c] - buffer_begin[c]
        BY ChunkSizes DEF Room
    <2>u. UNCHANGED <<sent, acked, rcvd, buffer>>
        BY <1>5 DEF WriteSome, net
    <2>1. CASE d = c
        <3>1. /\ buffer_begin'[c] = IF emptied THEN 0 ELSE buffer_begin[c] + n
              /\ buffer_end'[c] = IF emptied THEN 0 ELSE buffer_end[c]
              /\ echoed'[c] = echoed[c] \o Chunk(c, n)
            BY <1>5 DEF WriteSome, Types, KernelType, FdDataType
        <3> HIDE DEF n
        <3>2. Len(echoed'[c]) = Len(echoed[c]) + n
            <4>1. Chunk(c, n) \in Seq(Nat) /\ Len(Chunk(c, n)) = n
                BY <2>0, ChunkFact
            <4>2. echoed[c] \in Seq(Nat) /\ Len(echoed[c]) \in Nat
                BY <1>a, <2>1
            <4>3. Len(echoed[c] \o Chunk(c, n)) = Len(echoed[c]) + Len(Chunk(c, n))
                BY <4>1, <4>2, ConcatProperties
            <4> QED BY <3>1, <4>1, <4>3
        <3>3. CASE emptied
            <4>1. /\ acked'[d] = acked[d] /\ sent'[d] = sent[d] /\ rcvd'[d] = rcvd[d]
                  /\ Len(echoed'[d]) = Len(echoed[d]) + n
                  /\ buffer_begin'[d] = 0 /\ buffer_end'[d] = 0
                BY <2>u, <2>1, <3>1, <3>2, <3>3
            <4>2. n = buffer_end[d] - buffer_begin[d]
                BY <1>a, <2>0, <2>1, <3>3
            <4>3. /\ acked[d] <= Len(echoed[d]) + n
                  /\ (Len(echoed[d]) + n) - acked[d] <= SNDBUF
                BY <1>a, <1>b, <2>0, <2>1, EpollAssumption
            <4>4. Len(echoed[d]) + n = rcvd[d] /\ rcvd[d] <= sent[d]
                BY <1>a, <1>b, <4>2
            <4>5. /\ acked'[d] <= Len(echoed'[d])
                  /\ Len(echoed'[d]) - acked'[d] <= SNDBUF
                BY <4>1, <4>3
            <4>6. Len(echoed'[d]) + (buffer_end'[d] - buffer_begin'[d]) = rcvd'[d]
                BY <1>a, <2>0, <4>1, <4>4
            <4>7. \A i \in buffer_begin'[d] .. buffer_end'[d] - 1 :
                     buffer'[d][i] = Len(echoed'[d]) + (i - buffer_begin'[d]) + 1
                BY <4>1
            <4> QED BY <4>1, <4>4, <4>5, <4>6, <4>7, EpollAssumption
        <3>4. CASE ~emptied
            <4>1. ASSUME NEW i \in buffer_begin[c] + n .. buffer_end[c] - 1
                  PROVE  buffer[c][i] = (Len(echoed[c]) + n) + (i - (buffer_begin[c] + n)) + 1
                <5>1. i \in buffer_begin[c] .. buffer_end[c] - 1 /\ i \in Int
                    BY <1>a, <2>0, <2>1
                <5>2. buffer[c][i] = Len(echoed[c]) + (i - buffer_begin[c]) + 1
                    BY <1>q, <2>1, <5>1
                <5> QED BY <1>a, <2>0, <2>1, <5>1, <5>2
            <4>2. /\ acked'[d] = acked[d] /\ sent'[d] = sent[d] /\ rcvd'[d] = rcvd[d]
                  /\ buffer'[d] = buffer[d]
                  /\ Len(echoed'[d]) = Len(echoed[d]) + n
                  /\ buffer_begin'[d] = buffer_begin[d] + n
                  /\ buffer_end'[d] = buffer_end[d]
                BY <2>u, <2>1, <3>1, <3>2, <3>4
            <4>3. \A i \in buffer_begin'[d] .. buffer_end'[d] - 1 :
                     buffer'[d][i] = Len(echoed'[d]) + (i - buffer_begin'[d]) + 1
                BY <2>1, <4>1, <4>2
            <4>4. /\ acked'[d] <= Len(echoed'[d])
                  /\ Len(echoed'[d]) - acked'[d] <= SNDBUF
                  /\ buffer_begin'[d] <= buffer_end'[d]
                  /\ buffer_end'[d] <= BUFF_SIZE
                  /\ Len(echoed'[d]) + (buffer_end'[d] - buffer_begin'[d]) = rcvd'[d]
                  /\ rcvd'[d] <= sent'[d]
                <5>1. /\ n \in Nat /\ n <= SNDBUF - (Len(echoed[d]) - acked[d])
                      /\ n <= buffer_end[d] - buffer_begin[d]
                    BY <2>0, <2>1
                <5>2. (Len(echoed[d]) + n) + (buffer_end[d] - (buffer_begin[d] + n)) = rcvd[d]
                    BY <1>a, <1>b, <5>1
                <5>3. Len(echoed'[d]) + (buffer_end'[d] - buffer_begin'[d]) = rcvd'[d]
                    BY <4>2, <5>2
                <5>4. /\ acked'[d] <= Len(echoed'[d])
                      /\ Len(echoed'[d]) - acked'[d] <= SNDBUF
                    BY <1>a, <1>b, <4>2, <5>1, EpollAssumption
                <5>5. buffer_begin'[d] <= buffer_end'[d]
                    BY <1>a, <4>2, <5>1
                <5> QED BY <1>b, <4>2, <5>3, <5>4, <5>5
            <4> QED BY <4>3, <4>4
        <3> QED BY <3>3, <3>4
    <2>2. CASE d # c
        <3>1. /\ echoed'[d] = echoed[d]
              /\ buffer_begin'[d] = buffer_begin[d] /\ buffer_end'[d] = buffer_end[d]
            BY <1>5, <2>2 DEF WriteSome, Types, KernelType, FdDataType
        <3> QED BY <1>b, <1>q, <2>u, <3>1
    <2> QED BY <2>1, <2>2
<1>6. ASSUME NEW c \in Client, CloseConnection(c), UNCHANGED net PROVE Goal
    BY <1>6, <1>c DEF CloseConnection, net
<1>7. CASE UNCHANGED vars
    BY <1>7, <1>c DEF vars, fdData
<1> QED
    BY <1>1, <1>2, <1>3, <1>4, <1>5, <1>6, <1>7, <1>c
    DEF Next, Serve, Connect, Fin, Reset, EpollWait, AcceptFails, AcceptDrops,
        HangUp, ClientEvent, ReadFull, ReadNothing, ReadError, WriteError,
        WriteKilled, net, kernel
-----------------------------------------------------------------------------
(* The accept queue, and which connections are open *)

Held == Queue /\ NoUseAfterFree

\* A connection whose event is processed is open, so closing it leaves the
\* queue alone and takes the connection out of everything the server holds.
LEMMA CloseHeld ==
    ASSUME Types, Held, NEW c \in Client, conn[c] = "open",
           CloseConnection(c), Return(c), UNCHANGED net
    PROVE  Held'
<1>1. /\ conn' = [conn EXCEPT ![c] = "closed"]
      /\ conn \in [Client -> {"none", "backlog", "open", "closed"}]
    BY DEF CloseConnection, Types, KernelType
<1>2. Queue'
    <2>1. UNCHANGED <<backlog, peer, buffer_begin, buffer_end>>
        BY DEF CloseConnection, net, fdData
    <2>2. ASSUME NEW i \in 1 .. Len(backlog) PROVE conn'[backlog[i]] = "backlog"
        <3>1. conn[backlog[i]] = "backlog" /\ backlog[i] \in Client
            BY DEF Held, Queue, Types, KernelType
        <3> QED BY <1>1, <3>1
    <2>3. ASSUME NEW d \in Client
          PROVE  /\ peer[d] = "off" <=> conn'[d] = "none"
                 /\ conn'[d] \in {"none", "backlog"} =>
                        buffer_begin[d] = 0 /\ buffer_end[d] = 0
        BY <1>1 DEF Held, Queue
    <2> QED BY <2>1, <2>2, <2>3 DEF Held, Queue
<1>3. NoUseAfterFree'
    <2> SUFFICES ASSUME NEW d \in Client,
                        batch'[d] # {} \/ interest'[d] # {} \/ d \in ready' \/ cur' = d
                 PROVE  conn'[d] = "open"
        BY DEF NoUseAfterFree
    <2>1. d # c
        BY EpollAssumption
        DEF CloseConnection, Return, Types, KernelType, ServerType, Source
    <2>2. batch[d] # {} \/ interest[d] # {} \/ d \in ready
        BY <2>1, EpollAssumption
        DEF CloseConnection, Return, Types, KernelType, ServerType, Source
    <2> QED BY <1>1, <2>1, <2>2 DEF Held, NoUseAfterFree
<1> QED
    BY <1>2, <1>3 DEF Held

\* Every step keeps the queue, and lets go of a connection it closes.
LEMMA HeldStep == Types /\ Held /\ [Next]_vars => Held'
<1> SUFFICES ASSUME Types, Held, [Next]_vars PROVE Held'
    OBVIOUS
<1>a. ASSUME NEW c \in Client, pc \in {"read", "write"}, cur = c
      PROVE  conn[c] = "open"
    BY <1>a DEF Held, NoUseAfterFree
<1>b. ASSUME UNCHANGED <<peer, conn, backlog, buffer_begin, buffer_end>> PROVE Queue'
    BY <1>b DEF Held, Queue
<1>c. ASSUME NEW c \in Client, UNCHANGED <<conn, interest, server>>, Edge(c, "IN") \/ Edge(c, "OUT")
             \/ Edge(c, "RDHUP") \/ Edge(c, "ERR") \/ UNCHANGED ready
      PROVE  NoUseAfterFree'
    BY <1>c, EdgeType DEF Types, KernelType, Held, NoUseAfterFree, server
<1>d. ASSUME NEW s \in Source, Return(s), UNCHANGED <<conn, interest, ready>>
      PROVE  NoUseAfterFree'
    <2> SUFFICES ASSUME NEW d \in Client,
                        batch'[d] # {} \/ interest'[d] # {} \/ d \in ready' \/ cur' = d
                 PROVE  conn'[d] = "open"
        BY DEF NoUseAfterFree
    <2>1. batch[d] # {} \/ interest[d] # {} \/ d \in ready
        BY <1>d, EpollAssumption DEF Return, Types, ServerType, Source
    <2> QED BY <1>d, <2>1 DEF Held, NoUseAfterFree
<1>e. ASSUME NEW c \in Client, backlog # << >>, c = Head(backlog)
      PROVE  /\ conn[c] = "backlog"
             /\ peer[c] # "off"
             /\ Tail(backlog) \in Seq(Client)
             /\ Len(Tail(backlog)) = Len(backlog) - 1
             /\ \A i \in 1 .. Len(Tail(backlog)) :
                   Tail(backlog)[i] = backlog[i + 1] /\ backlog[i + 1] # c
    <2>1. backlog \in Seq(Client)
        BY DEF Types, KernelType
    <2>2. /\ Len(backlog) \in Nat /\ Len(backlog) >= 1
          /\ c = backlog[1]
        BY <1>e, <2>1
    <2>3. /\ Tail(backlog) \in Seq(Client)
          /\ Len(Tail(backlog)) = Len(backlog) - 1
          /\ \A i \in 1 .. Len(Tail(backlog)) : Tail(backlog)[i] = backlog[i + 1]
        BY <1>e, <2>1, HeadTailProperties
    <2>4. ASSUME NEW i \in 1 .. Len(Tail(backlog)) PROVE backlog[i + 1] # c
        <3>1. i + 1 \in 1 .. Len(backlog) /\ 1 \in 1 .. Len(backlog) /\ i + 1 # 1
            BY <2>2, <2>3
        <3> QED BY <2>2, <3>1 DEF Held, Queue
    <2>5. conn[c] = "backlog"
        BY <2>2 DEF Held, Queue
    <2> QED BY <2>3, <2>4, <2>5 DEF Held, Queue
<1>f. ASSUME NEW c \in Client, backlog # << >>, c = Head(backlog),
             backlog' = Tail(backlog), UNCHANGED peer,
             NEW x \in {"open", "closed"}, conn' = [conn EXCEPT ![c] = x],
             \A d \in Client \ {c} : /\ buffer_begin'[d] = buffer_begin[d]
                                     /\ buffer_end'[d] = buffer_end[d]
      PROVE  Queue'
    <2>0. conn \in [Client -> {"none", "backlog", "open", "closed"}] /\ backlog \in Seq(Client)
        BY DEF Types, KernelType
    <2>1. ASSUME NEW i \in 1 .. Len(backlog') PROVE conn'[backlog'[i]] = "backlog"
        <3>1. i + 1 \in 1 .. Len(backlog)
            BY <1>e, <1>f, <2>0
        <3>2. backlog[i + 1] \in Client /\ conn[backlog[i + 1]] = "backlog"
            BY <2>0, <3>1 DEF Held, Queue
        <3> QED BY <1>e, <1>f, <2>0, <3>2
    <2>2. ASSUME NEW i \in 1 .. Len(backlog'), NEW j \in 1 .. Len(backlog'),
                 backlog'[i] = backlog'[j]
          PROVE  i = j
        <3>1. i + 1 \in 1 .. Len(backlog) /\ j + 1 \in 1 .. Len(backlog)
            BY <1>e, <1>f, <2>0
        <3>2. backlog[i + 1] = backlog[j + 1]
            BY <1>e, <1>f, <2>2
        <3>3. i + 1 = j + 1
            BY <3>1, <3>2 DEF Held, Queue
        <3> QED BY <3>3
    <2>3. ASSUME NEW d \in Client
          PROVE  /\ peer'[d] = "off" <=> conn'[d] = "none"
                 /\ conn'[d] \in {"none", "backlog"} =>
                        buffer_begin'[d] = 0 /\ buffer_end'[d] = 0
        <3>1. CASE d = c
            BY <1>e, <1>f, <2>0, <3>1
        <3>2. CASE d # c
            BY <1>f, <2>0, <3>2 DEF Held, Queue
        <3> QED BY <3>1, <3>2
    <2> QED BY <2>1, <2>2, <2>3 DEF Queue
<1>1. ASSUME NEW c \in Client, Connect(c) PROVE Held'
    <2>0. /\ conn \in [Client -> {"none", "backlog", "open", "closed"}]
          /\ peer \in [Client -> {"off", "up", "fin", "rst", "pipe"}]
          /\ backlog \in Seq(Client) /\ Len(backlog) \in Nat
          /\ conn[c] = "none" /\ conn' = [conn EXCEPT ![c] = "backlog"]
          /\ peer' = [peer EXCEPT ![c] = "up"]
          /\ UNCHANGED fdData
        BY <1>1 DEF Connect, Types, KernelType, NetType, Held, Queue
    <2>1. /\ Len(backlog') = Len(backlog) + 1
          /\ \A i \in 1 .. Len(backlog) : backlog'[i] = backlog[i]
          /\ backlog'[Len(backlog) + 1] = c
        BY <1>1, <2>0, AppendProperties DEF Connect
    <2>2. ASSUME NEW i \in 1 .. Len(backlog)
          PROVE  /\ conn[backlog[i]] = "backlog" /\ backlog[i] \in Client
                 /\ backlog[i] # c
        BY <2>0 DEF Held, Queue
    <2>3. ASSUME NEW i \in 1 .. Len(backlog') PROVE conn'[backlog'[i]] = "backlog"
        <3>1. CASE i \in 1 .. Len(backlog)
            BY <2>0, <2>1, <2>2, <3>1
        <3>2. CASE i = Len(backlog) + 1
            BY <2>0, <2>1, <3>2
        <3> QED BY <2>0, <2>1, <3>1, <3>2
    <2>4. ASSUME NEW i \in 1 .. Len(backlog'), NEW j \in 1 .. Len(backlog'),
                 backlog'[i] = backlog'[j]
          PROVE  i = j
        <3>1. CASE i \in 1 .. Len(backlog) /\ j \in 1 .. Len(backlog)
            <4>1. backlog[i] = backlog[j]
                BY <2>1, <2>4, <3>1
            <4> QED BY <3>1, <4>1 DEF Held, Queue
        <3>2. CASE i = Len(backlog) + 1 \/ j = Len(backlog) + 1
            BY <2>0, <2>1, <2>2, <2>4, <3>2
        <3> QED BY <2>0, <2>1, <3>1, <3>2
    <2>5. ASSUME NEW d \in Client
          PROVE  /\ peer'[d] = "off" <=> conn'[d] = "none"
                 /\ conn'[d] \in {"none", "backlog"} =>
                        buffer_begin'[d] = 0 /\ buffer_end'[d] = 0
        BY <2>0 DEF fdData, Held, Queue
    <2>6. Queue'
        BY <2>3, <2>4, <2>5 DEF Queue
    <2>7. NoUseAfterFree'
        BY <1>1, <2>0 DEF Connect, server, Held, NoUseAfterFree
    <2> QED BY <2>6, <2>7 DEF Held
<1>2. ASSUME NEW c \in Client, Send(c) \/ Drain(c) PROVE Held'
    BY <1>2, <1>b, <1>c DEF Send, Drain, Held, fdData
<1>3. ASSUME NEW c \in Client, Fin(c) \/ Reset(c) PROVE Held'
    <2>1. NoUseAfterFree'
        BY <1>3, <1>c DEF Fin, Reset
    <2>2. Queue'
        BY <1>3 DEF Fin, Reset, Held, Queue, fdData, Types, NetType
    <2> QED BY <2>1, <2>2 DEF Held
<1>4. CASE EpollWait
    <2>1. Queue'
        BY <1>4, <1>b DEF EpollWait, net, fdData
    <2>2. NoUseAfterFree'
        <3> SUFFICES ASSUME NEW c \in Client,
                            batch'[c] # {} \/ interest'[c] # {} \/ c \in ready' \/ cur' = c
                     PROVE  conn'[c] = "open"
            BY DEF NoUseAfterFree
        <3>1. batch'[c] # {} => c \in ready
            BY <1>4, EpollAssumption DEF EpollWait, Hot, Source
        <3>2. c \in ready \/ interest[c] # {} \/ cur = c
            BY <1>4, <3>1 DEF EpollWait
        <3> QED BY <1>4, <3>2 DEF EpollWait, Held, NoUseAfterFree
    <2> QED BY <2>1, <2>2 DEF Held
<1>5. CASE AcceptFails
    BY <1>5, <1>b, <1>d DEF AcceptFails, net, kernel, fdData, Held, Source
<1>6. ASSUME NEW c \in Client, AcceptOpens(c) PROVE Held'
    <2>1. Queue'
        BY <1>6, <1>f DEF AcceptOpens, net, Types, FdDataType
    <2>2. NoUseAfterFree'
        <3> SUFFICES ASSUME NEW d \in Client,
                            batch'[d] # {} \/ interest'[d] # {} \/ d \in ready' \/ cur' = d
                     PROVE  conn'[d] = "open"
            BY DEF NoUseAfterFree
        <3>1. d = c \/ batch[d] # {} \/ interest[d] # {} \/ d \in ready
            BY <1>6, EpollAssumption
            DEF AcceptOpens, Register, Return, Types, ServerType, KernelType, Source
        <3> QED BY <1>6, <3>1 DEF AcceptOpens, Held, NoUseAfterFree, Types, KernelType
    <2> QED BY <2>1, <2>2 DEF Held
<1>7. ASSUME NEW c \in Client, AcceptDrops(c) PROVE Held'
    <2>1. Queue'
        BY <1>7, <1>f DEF AcceptDrops, net, fdData
    <2>2. NoUseAfterFree'
        <3> SUFFICES ASSUME NEW d \in Client,
                            batch'[d] # {} \/ interest'[d] # {} \/ d \in ready' \/ cur' = d
                     PROVE  conn'[d] = "open"
            BY DEF NoUseAfterFree
        <3>1. batch[d] # {} \/ interest[d] # {} \/ d \in ready
            BY <1>7, EpollAssumption DEF AcceptDrops, Return, Types, ServerType, Source
        <3>2. conn[d] = "open"
            BY <3>1 DEF Held, NoUseAfterFree
        <3>3. conn[c] = "backlog"
            BY <1>7, <1>e DEF AcceptDrops
        <3> QED BY <1>7, <3>2, <3>3 DEF AcceptDrops, Types, KernelType
    <2> QED BY <2>1, <2>2 DEF Held
<1>8. ASSUME NEW c \in Client, HangUp(c) PROVE Held'
    <2>1. conn[c] = "open"
        BY <1>8 DEF HangUp, Held, NoUseAfterFree
    <2> QED BY <1>8, <2>1, CloseHeld DEF HangUp
<1>9. ASSUME NEW c \in Client, ReadFull(c) \/ ReadError(c) \/ WriteError(c)
      PROVE  Held'
    <2>1. conn[c] = "open"
        BY <1>9, <1>a DEF ReadFull, ReadError, WriteError
    <2> QED BY <1>9, <2>1, CloseHeld DEF ReadFull, ReadError, WriteError
<1>10. ASSUME NEW c \in Client, ClientEvent(c) PROVE Held'
    <2>1. Queue'
        BY <1>10, <1>b DEF ClientEvent, net, kernel, fdData
    <2>2. NoUseAfterFree'
        BY <1>10 DEF ClientEvent, Held, NoUseAfterFree, kernel
    <2> QED BY <2>1, <2>2 DEF Held
<1>11. ASSUME NEW c \in Client, ReadSome(c) PROVE Held'
    <2>0. conn[c] = "open"
        BY <1>11, <1>a DEF ReadSome
    <2>1. Queue'
        BY <1>11, <2>0 DEF ReadSome, net, Held, Queue, Types, FdDataType
    <2>2. NoUseAfterFree'
        BY <1>11, <2>0
        DEF ReadSome, Register, server, Held, NoUseAfterFree, Types, KernelType
    <2> QED BY <2>1, <2>2 DEF Held
<1>12. ASSUME NEW c \in Client, ReadNothing(c) PROVE Held'
    <2>1. Queue'
        BY <1>12, <1>b DEF ReadNothing, net, kernel, fdData
    <2>2. NoUseAfterFree'
        <3>1. CASE Return(c)
            BY <1>12, <1>d, <3>1 DEF ReadNothing, kernel, Source
        <3>2. CASE UNCHANGED <<batch, cur>>
            BY <1>12, <3>2 DEF ReadNothing, kernel, Held, NoUseAfterFree
        <3> QED BY <1>12, <3>1, <3>2 DEF ReadNothing
    <2> QED BY <2>1, <2>2 DEF Held
<1>13. ASSUME NEW c \in Client, WriteSome(c) PROVE Held'
    <2>0. conn[c] = "open"
        BY <1>13, <1>a DEF WriteSome
    <2>1. Queue'
        BY <1>13, <2>0 DEF WriteSome, net, Held, Queue, Types, FdDataType
    <2>2. NoUseAfterFree'
        <3> SUFFICES ASSUME NEW d \in Client, d # c,
                            batch'[d] # {} \/ interest'[d] # {} \/ d \in ready' \/ cur' = d
                     PROVE  conn'[d] = "open"
            BY <1>13, <2>0 DEF NoUseAfterFree, WriteSome
        <3>1. batch[d] # {} \/ interest[d] # {} \/ d \in ready
            BY <1>13, EpollAssumption
            DEF WriteSome, Register, Return, Types, ServerType, KernelType, Source
        <3> QED BY <1>13, <3>1 DEF WriteSome, Held, NoUseAfterFree
    <2> QED BY <2>1, <2>2 DEF Held
<1>14. ASSUME NEW c \in Client, WriteKilled(c) PROVE Held'
    BY <1>14, <1>b DEF WriteKilled, Held, NoUseAfterFree, net, kernel, fdData
<1>15. CASE UNCHANGED vars
    BY <1>15, <1>b DEF vars, Held, NoUseAfterFree
<1> QED
    BY <1>1, <1>2, <1>3, <1>4, <1>5, <1>6, <1>7, <1>8, <1>9, <1>10, <1>11,
       <1>12, <1>13, <1>14, <1>15
    DEF Next, Serve
-----------------------------------------------------------------------------
(* EPOLLOUT and SIGPIPE *)

\* Every step keeps EPOLLOUT watched exactly while the buffer holds something.
LEMMA OutWatchedStep ==
    Types /\ Buffers /\ Held /\ OutWatchedWhileOwed /\ [Next]_vars
        => OutWatchedWhileOwed'
<1> SUFFICES ASSUME Types, Buffers, Held, OutWatchedWhileOwed, [Next]_vars,
                    NEW d \in Client, conn'[d] = "open"
             PROVE  "OUT" \in interest'[d] <=> buffer_begin'[d] < buffer_end'[d]
    BY DEF OutWatchedWhileOwed
<1> DEFINE Goal == "OUT" \in interest'[d] <=> buffer_begin'[d] < buffer_end'[d]
<1>a. ASSUME conn'[d] = conn[d], UNCHANGED <<interest, fdData>> PROVE Goal
    BY <1>a DEF OutWatchedWhileOwed, fdData
<1>b. ASSUME NEW c \in Client, CloseConnection(c) PROVE Goal
    BY <1>b DEF CloseConnection, OutWatchedWhileOwed, fdData, Types, KernelType
<1>1. ASSUME NEW c \in Client, Connect(c) PROVE Goal
    BY <1>1, <1>a DEF Connect, Types, KernelType
<1>2. ASSUME NEW c \in Client, AcceptOpens(c) PROVE Goal
    BY <1>2 DEF AcceptOpens, Register, READING, OutWatchedWhileOwed, Types,
                KernelType, FdDataType
<1>3. ASSUME NEW c \in Client, AcceptDrops(c) PROVE Goal
    BY <1>3, <1>a DEF AcceptDrops, Types, KernelType
<1>4. ASSUME NEW c \in Client, ReadSome(c) PROVE Goal
    <2>1. CASE d = c
        <3>1. "OUT" \in interest'[c]
            BY <1>4 DEF ReadSome, Register, WRITING, Types, KernelType
        <3> DEFINE n == Least(Unread(c), BUFF_SIZE - buffer_end[c])
        <3>2. n \in Int
            BY ChunkSizes
        <3> HIDE DEF n
        <3>3. /\ n > 0
              /\ buffer_end'[c] = buffer_end[c] + n
              /\ buffer_begin'[c] = buffer_begin[c]
            BY <1>4 DEF ReadSome, Types, FdDataType, n
        <3>4. /\ buffer_begin[c] \in Nat /\ buffer_end[c] \in Nat
              /\ buffer_begin[c] <= buffer_end[c]
            BY DEF Types, FdDataType, Buffers, BufferHoldsBacklog
        <3>5. buffer_begin'[c] < buffer_end'[c]
            BY <3>2, <3>3, <3>4
        <3> QED BY <2>1, <3>1, <3>5
    <2>2. CASE d # c
        BY <1>4, <2>2
        DEF ReadSome, Register, OutWatchedWhileOwed, Types, KernelType, FdDataType
    <2> QED BY <2>1, <2>2
<1>5. ASSUME NEW c \in Client, WriteSome(c) PROVE Goal
    <2>0. conn[d] = "open"
        BY <1>5 DEF WriteSome
    <2>1. CASE d = c
        <3> DEFINE n == Least(buffer_end[c] - buffer_begin[c], Room(c))
                   emptied == buffer_begin[c] + n = buffer_end[c]
        <3>1. n \in Nat /\ n <= buffer_end[c] - buffer_begin[c]
            BY ChunkSizes
        <3> HIDE DEF n
        <3>2. buffer_begin[c] \in Nat /\ buffer_end[c] \in Nat
            BY DEF Types, FdDataType
        <3>3. CASE emptied
            <4>1. buffer_begin'[c] = 0 /\ buffer_end'[c] = 0
                BY <1>5, <3>3 DEF WriteSome, Types, FdDataType, n
            <4>2. Register(c, READING)
                BY <1>5, <3>3 DEF WriteSome, n
            <4>3. "OUT" \notin interest'[c]
                BY <4>2 DEF Register, READING, Types, KernelType
            <4> QED BY <2>1, <4>1, <4>3
        <3>4. CASE ~emptied
            <4>1. /\ buffer_begin'[c] = buffer_begin[c] + n
                  /\ buffer_end'[c] = buffer_end[c]
                  /\ interest' = interest
                BY <1>5, <3>4 DEF WriteSome, Types, FdDataType, n
            <4>2. buffer_begin'[c] < buffer_end'[c]
                BY <3>1, <3>2, <3>4, <4>1
            <4>3. buffer_begin[c] < buffer_end[c]
                BY <3>1, <3>2, <3>4
            <4>4. "OUT" \in interest[c]
                BY <2>0, <2>1, <4>3 DEF OutWatchedWhileOwed
            <4> QED BY <2>1, <4>1, <4>2, <4>4
        <3> QED BY <3>3, <3>4
    <2>2. CASE d # c
        BY <1>5, <2>0, <2>2
        DEF WriteSome, Register, OutWatchedWhileOwed, Types, KernelType, FdDataType
    <2> QED BY <2>1, <2>2
<1> QED
    BY <1>1, <1>2, <1>3, <1>4, <1>5, <1>a, <1>b
    DEF Next, Serve, Send, Drain, Fin, Reset, EpollWait, AcceptFails, HangUp,
        ClientEvent, ReadFull, ReadNothing, ReadError, WriteError, WriteKilled,
        net, kernel, vars, fdData

\* Only the write to a socket that was shut down and then reset kills the
\* server, and nothing happens afterwards.
LEMMA KilledStep ==
    Types /\ KilledOnlyInWindow /\ [Next]_vars => KilledOnlyInWindow'
<1> SUFFICES ASSUME Types, KilledOnlyInWindow, [Next]_vars, pc' = "killed"
             PROVE  peer'[cur'] = "pipe" /\ "RDHUP" \notin batch'[cur']
    BY DEF KilledOnlyInWindow
<1>1. ASSUME NEW c \in Client, WriteKilled(c)
      PROVE  peer'[cur'] = "pipe" /\ "RDHUP" \notin batch'[cur']
    BY <1>1 DEF WriteKilled, Types, ServerType, Focus, HANGUP, net
<1>2. CASE UNCHANGED vars
    BY <1>2 DEF vars, KilledOnlyInWindow
<1>3. CASE \E c \in Client : Connect(c) \/ Send(c) \/ Drain(c) \/ Fin(c) \/ Reset(c)
    BY <1>3 DEF Connect, Send, Drain, Fin, Reset, Alive, server
<1>4. CASE EpollWait \/ AcceptFails
    BY <1>4 DEF EpollWait, AcceptFails, Return
<1>5. ASSUME NEW c \in Client,
             \/ AcceptOpens(c) \/ AcceptDrops(c) \/ HangUp(c) \/ ClientEvent(c)
             \/ ReadFull(c) \/ ReadSome(c) \/ ReadNothing(c) \/ ReadError(c)
             \/ WriteSome(c) \/ WriteError(c)
      PROVE  FALSE
    BY <1>5 DEF AcceptOpens, AcceptDrops, HangUp, ClientEvent, ReadFull, ReadSome,
                ReadNothing, ReadError, WriteSome, WriteError, Return, server
<1> QED
    BY <1>1, <1>2, <1>3, <1>4, <1>5 DEF Next, Serve

\* An event that shows a hang-up is about a peer that did hang up.
HangupSeen == \A c \in Client : batch[c] \cap HANGUP # {} => peer[c] # "up"

\* A peer that has hung up stays so, and no hang-up is reported before.
LEMMA HangupSeenStep == Types /\ Held /\ HangupSeen /\ [Next]_vars => HangupSeen'
<1> SUFFICES ASSUME Types, Held, HangupSeen, [Next]_vars,
                    NEW d \in Client, batch'[d] \cap HANGUP # {}
             PROVE  peer'[d] # "up"
    BY DEF HangupSeen
<1>a. ASSUME NEW s \in Source, Return(s), UNCHANGED net PROVE peer'[d] # "up"
    BY <1>a DEF Return, net, HangupSeen, Types, ServerType, Source
<1>b. ASSUME UNCHANGED batch, UNCHANGED peer PROVE peer'[d] # "up"
    BY <1>b DEF HangupSeen
<1>1. ASSUME NEW c \in Client, Connect(c) PROVE peer'[d] # "up"
    BY <1>1 DEF Connect, server, HangupSeen, Held, Queue, NoUseAfterFree, Types, NetType
<1>2. ASSUME NEW c \in Client, Fin(c) \/ Reset(c) PROVE peer'[d] # "up"
    BY <1>2 DEF Fin, Reset, server, HangupSeen, Types, NetType
<1>3. CASE EpollWait
    <2>1. batch'[d] \subseteq Reported(d, interest[d])
        BY <1>3, EpollAssumption DEF EpollWait, Source
    <2>2. peer[d] # "up"
        BY <2>1 DEF Reported, Poll, HANGUP, Gone
    <2> QED BY <1>3, <2>2 DEF EpollWait, net
<1> QED
    BY <1>1, <1>2, <1>3, <1>a, <1>b
    DEF Next, Serve, Send, Drain, AcceptFails, AcceptOpens, AcceptDrops, HangUp,
        ClientEvent, ReadFull, ReadSome, ReadNothing, ReadError, WriteSome,
        WriteError, WriteKilled, net, server, vars, Source
-----------------------------------------------------------------------------
(* Edges *)

\* In epoll_wait() no event is left over from the last round.
Idle == pc = "wait" => \A s \in Source : batch[s] = {}

\* What there is to do for a connection is known to epoll or still in the
\* batch.  An event that has come as far as write_buff() does not count as
\* one that says IN any more: read_buff() has been through.
Wakeful(c) ==
    /\ READING \subseteq interest[c]
    /\ Unread(c) > 0 =>
          c \in ready \/ ("IN" \in batch[c] /\ ~(pc = "write" /\ cur = c))
    /\ peer[c] # "up" => c \in ready \/ batch[c] \cap HANGUP # {}
    /\ buffer_begin[c] < buffer_end[c] /\ Room(c) > 0 =>
          c \in ready \/ "OUT" \in batch[c]

Edges == Idle /\ \A c \in Client : conn[c] = "open" => Wakeful(c)

\* The server goes back to epoll_wait() only after the whole batch.
LEMMA IdleStep == Types /\ Idle /\ [Next]_vars => Idle'
<1> SUFFICES ASSUME Types, Idle, [Next]_vars, pc' = "wait", NEW t \in Source
             PROVE  batch'[t] = {}
    BY DEF Idle
<1>a. ASSUME NEW s \in Source, Return(s) PROVE batch'[t] = {}
    BY <1>a DEF Return, Types, ServerType
<1>b. ASSUME UNCHANGED <<batch, pc>> PROVE batch'[t] = {}
    BY <1>b DEF Idle
<1>1. CASE \E c \in Client : Connect(c) \/ Send(c) \/ Drain(c) \/ Fin(c) \/ Reset(c)
    BY <1>1, <1>b DEF Connect, Send, Drain, Fin, Reset, server
<1>2. CASE EpollWait
    BY <1>2 DEF EpollWait
<1>3. CASE AcceptFails
    BY <1>3, <1>a DEF AcceptFails, Source
<1>4. ASSUME NEW c \in Client,
             \/ AcceptOpens(c) \/ AcceptDrops(c) \/ HangUp(c) \/ ReadFull(c)
             \/ ReadError(c) \/ WriteSome(c) \/ WriteError(c)
      PROVE  batch'[t] = {}
    BY <1>4, <1>a DEF AcceptOpens, AcceptDrops, HangUp, ReadFull, ReadError,
                      WriteSome, WriteError, Source
<1>5. ASSUME NEW c \in Client,
             \/ ClientEvent(c) \/ ReadSome(c) \/ ReadNothing(c) \/ WriteKilled(c)
      PROVE  batch'[t] = {}
    BY <1>5, <1>a, <1>b DEF ClientEvent, ReadSome, ReadNothing, WriteKilled,
                            server, Source
<1>6. CASE UNCHANGED vars
    BY <1>6, <1>b DEF vars
<1> QED
    BY <1>1, <1>2, <1>3, <1>4, <1>5, <1>6 DEF Next, Serve

\* EPOLL_CTL_ADD and EPOLL_CTL_MOD look at the socket afresh, so a connection
\* that has anything to do afterwards is in the ready list.
LEMMA RegisterWakes ==
    ASSUME Types, NEW c \in Client, NEW mask \in SUBSET Event,
           READING \subseteq mask, Register(c, mask)
    PROVE  /\ READING \subseteq interest'[c]
           /\ Unread(c) > 0 \/ peer[c] # "up" => c \in ready'
           /\ "OUT" \in mask /\ Room(c) > 0 => c \in ready'
           /\ ready \subseteq ready'
<1>1. interest'[c] = mask
    BY DEF Register, Types, KernelType
<1>2. Unread(c) > 0 => "IN" \in Reported(c, mask)
    BY DEF Reported, Poll, READING, Event
<1>3. peer[c] # "up" => "RDHUP" \in Reported(c, mask)
    BY DEF Reported, Poll, READING, Event
<1>4. "OUT" \in mask /\ Room(c) > 0 => "OUT" \in Reported(c, mask)
    BY DEF Reported, Poll, Event
<1> QED
    BY <1>1, <1>2, <1>3, <1>4 DEF Register

\* An edge on a watched socket puts it in the ready list.
LEMMA EdgeWakes ==
    ASSUME NEW c \in Client, NEW e, READING \subseteq interest[c],
           e \in interest[c] \cup {"HUP", "ERR"}, Edge(c, e)
    PROVE  c \in ready'
BY DEF Edge, READING

\* Every step keeps what there is to do in the ready list or the batch.
LEMMA EdgesStep ==
    Types /\ Buffers /\ Held /\ OutWatchedWhileOwed /\ Edges /\ [Next]_vars => Edges'
<1> SUFFICES ASSUME Types, Buffers, Held, OutWatchedWhileOwed, Edges, [Next]_vars,
                    NEW d \in Client, conn'[d] = "open"
             PROVE  Wakeful(d)'
    BY IdleStep DEF Edges
<1> USE DEF Types
<1>f. ASSUME conn[d] = "open", interest'[d] = interest[d],
             d \in ready => d \in ready', batch'[d] = batch[d],
             pc' = "write" /\ cur' = d => pc = "write" /\ cur = d,
             sent'[d] = sent[d], rcvd'[d] = rcvd[d], peer'[d] = peer[d],
             buffer_begin'[d] = buffer_begin[d], buffer_end'[d] = buffer_end[d],
             echoed'[d] = echoed[d], acked'[d] = acked[d]
      PROVE  Wakeful(d)'
    BY <1>f DEF Edges, Wakeful, Unread, Room
<1>g. ASSUME NEW s \in Source, s # d, Return(s) 
      PROVE  batch'[d] = batch[d] /\ ~(pc' = "write" /\ cur' = d)
    BY <1>g DEF Return, ServerType, Source
<1>c. ASSUME NEW c \in Client, CloseConnection(c), Return(c), UNCHANGED net
      PROVE  Wakeful(d)'
    <2>1. d # c /\ conn[d] = "open"
        BY <1>c DEF CloseConnection, KernelType
    <2>2. interest'[d] = interest[d] /\ (d \in ready => d \in ready')
        BY <1>c, <2>1 DEF CloseConnection, KernelType
    <2>3. batch'[d] = batch[d] /\ ~(pc' = "write" /\ cur' = d)
        BY <1>c, <1>g, <2>1 DEF Source
    <2> QED BY <1>c, <1>f, <2>1, <2>2, <2>3 DEF CloseConnection, net, fdData
<1>1. ASSUME NEW c \in Client, Connect(c) PROVE Wakeful(d)'
    <2>1. d # c /\ conn[d] = "open"
        BY <1>1 DEF Connect, KernelType
    <2> QED BY <1>1, <1>f, <2>1 DEF Connect, NetType, fdData, server
<1>2. ASSUME NEW c \in Client, Send(c) PROVE Wakeful(d)'
    <2>1. conn[d] = "open" /\ (d \in ready => d \in ready')
        BY <1>2, EdgeType DEF Send, KernelType
    <2>2. CASE d = c
        <3>1. d \in ready'
            BY <1>2, <2>1, <2>2, EdgeWakes DEF Send, Edges, Wakeful, READING
        <3> QED BY <1>2, <2>1, <3>1 DEF Send, Edges, Wakeful
    <2>3. CASE d # c
        BY <1>2, <1>f, <2>1, <2>3 DEF Send, NetType, fdData, server
    <2> QED BY <2>2, <2>3
<1>3. ASSUME NEW c \in Client, Drain(c) PROVE Wakeful(d)'
    <2>1. conn[d] = "open"
        BY <1>3 DEF Drain
    <2>2. d \in ready => d \in ready'
        BY <1>3, EdgeType DEF Drain, KernelType
    <2>3. CASE d = c
        <3>1. CASE Room(c) = 0 /\ buffer_begin[c] < buffer_end[c]
            <4>1. "OUT" \in interest[c]
                BY <2>1, <2>3, <3>1 DEF OutWatchedWhileOwed
            <4>2. d \in ready'
                BY <1>3, <2>1, <2>3, <3>1, <4>1, EdgeWakes DEF Drain, Edges, Wakeful
            <4> QED BY <1>3, <2>1, <4>2 DEF Drain, Edges, Wakeful
        <3>2. CASE Room(c) # 0 \/ ~(buffer_begin[c] < buffer_end[c])
            <4>1. Room(c) \in Nat
                BY EpollAssumption
                DEF Buffers, SendBufferFits, Room, NetType, KernelType
            <4>2. buffer_begin[d] < buffer_end[d] => Room(d) > 0
                BY <2>3, <3>2, <4>1
            <4>3. /\ interest' = interest /\ batch' = batch /\ pc' = pc /\ cur' = cur
                  /\ sent' = sent /\ rcvd' = rcvd /\ peer' = peer
                  /\ buffer_begin' = buffer_begin /\ buffer_end' = buffer_end
                BY <1>3 DEF Drain, fdData, server
            <4> QED BY <2>1, <2>2, <4>2, <4>3 DEF Edges, Wakeful, Unread
        <3> QED BY <3>1, <3>2
    <2>4. CASE d # c
        BY <1>3, <1>f, <2>1, <2>2, <2>4 DEF Drain, NetType, fdData, server
    <2> QED BY <2>3, <2>4
<1>4. ASSUME NEW c \in Client, Fin(c) \/ Reset(c) PROVE Wakeful(d)'
    <2>1. conn[d] = "open" /\ (d \in ready => d \in ready')
        BY <1>4, EdgeType DEF Fin, Reset, KernelType
    <2>2. CASE d = c
        <3>1. d \in ready'
            BY <1>4, <2>1, <2>2, EdgeWakes DEF Fin, Reset, Edges, Wakeful, READING
        <3>2. interest' = interest
            BY <1>4 DEF Fin, Reset
        <3> QED BY <2>1, <3>1, <3>2 DEF Edges, Wakeful
    <2>3. CASE d # c
        BY <1>4, <1>f, <2>1, <2>3 DEF Fin, Reset, NetType, fdData, server
    <2> QED BY <2>2, <2>3
<1>5. CASE EpollWait
    <2>0. conn[d] = "open" /\ batch[d] = {} /\ d # Listener /\ cur # d
        BY <1>5, EpollAssumption
        DEF EpollWait, Edges, Idle, Source, ServerType, Focus
    <2>1. PICK S \in SUBSET Hot :
             /\ batch' = [s \in Source |->
                            IF s \notin S THEN {}
                            ELSE IF s = Listener THEN {"IN"}
                            ELSE Reported(s, interest[s])]
             /\ ready' = ready \ S
        BY <1>5 DEF EpollWait
    <2>2. /\ UNCHANGED <<net, rcvd, echoed, interest, fdData, cur>>
          /\ cur' # d
        BY <1>5, <2>0 DEF EpollWait
    <2>3. Wakeful(d)
        BY <2>0 DEF Edges
    <2>4. CASE d \notin S
        BY <2>0, <2>1, <2>2, <2>3, <2>4 DEF Wakeful, Unread, Room, net, fdData
    <2>5. CASE d \in S
        <3>1. batch'[d] = Reported(d, interest[d])
            BY <2>0, <2>1, <2>5 DEF Source
        <3>2. Unread(d) > 0 => "IN" \in batch'[d]
            BY <2>3, <3>1 DEF Wakeful, Reported, Poll, READING, Event
        <3>3. peer[d] # "up" => "RDHUP" \in batch'[d]
            BY <2>3, <3>1 DEF Wakeful, Reported, Poll, READING, Event
        <3>4. buffer_begin[d] < buffer_end[d] /\ Room(d) > 0 => "OUT" \in batch'[d]
            <4>1. buffer_begin[d] < buffer_end[d] => "OUT" \in interest[d]
                BY <2>0 DEF OutWatchedWhileOwed
            <4> QED BY <3>1, <4>1 DEF Reported, Poll, Event
        <3>5. READING \subseteq interest'[d]
            BY <2>2, <2>3 DEF Wakeful
        <3> QED BY <2>2, <3>2, <3>3, <3>4, <3>5
                DEF Wakeful, Unread, Room, net, fdData, HANGUP
    <2> QED BY <2>4, <2>5
<1>6. CASE AcceptFails
    <2>1. batch'[d] = batch[d] /\ ~(pc' = "write" /\ cur' = d)
        BY <1>6, <1>g, EpollAssumption DEF AcceptFails, Source
    <2> QED BY <1>6, <1>f, <2>1 DEF AcceptFails, net, kernel, fdData
<1>7. ASSUME NEW c \in Client, AcceptOpens(c) PROVE Wakeful(d)'
    <2>1. batch'[d] = batch[d] /\ ~(pc' = "write" /\ cur' = d)
        BY <1>7, <1>g, EpollAssumption DEF AcceptOpens, Source
    <2>2. CASE d = c
        <3>1. /\ READING \subseteq interest'[c]
              /\ Unread(c) > 0 \/ peer[c] # "up" => c \in ready'
            BY <1>7, RegisterWakes DEF AcceptOpens, READING, Event
        <3>2. buffer_begin'[c] = 0 /\ buffer_end'[c] = 0
            BY <1>7 DEF AcceptOpens, FdDataType
        <3>3. UNCHANGED <<sent, peer, rcvd>>
            BY <1>7 DEF AcceptOpens, net
        <3> QED BY <2>2, <3>1, <3>2, <3>3 DEF Wakeful, Unread
    <2>3. CASE d # c
        <3>1. /\ conn[d] = "open" /\ interest'[d] = interest[d]
              /\ (d \in ready => d \in ready')
              /\ buffer_begin'[d] = buffer_begin[d] /\ buffer_end'[d] = buffer_end[d]
            BY <1>7, <2>3 DEF AcceptOpens, Register, KernelType, FdDataType
        <3> QED BY <1>7, <1>f, <2>1, <3>1 DEF AcceptOpens, net
    <2> QED BY <2>2, <2>3
<1>8. ASSUME NEW c \in Client, AcceptDrops(c) PROVE Wakeful(d)'
    <2>1. batch'[d] = batch[d] /\ ~(pc' = "write" /\ cur' = d)
        BY <1>8, <1>g, EpollAssumption DEF AcceptDrops, Source
    <2>2. conn[d] = "open"
        BY <1>8 DEF AcceptDrops, KernelType
    <2> QED BY <1>8, <1>f, <2>1, <2>2 DEF AcceptDrops, net, fdData
<1>9. ASSUME NEW c \in Client, HangUp(c) \/ ReadFull(c) \/ ReadError(c) \/ WriteError(c)
      PROVE  Wakeful(d)'
    BY <1>9, <1>c DEF HangUp, ReadFull, ReadError, WriteError
<1>10. ASSUME NEW c \in Client, ClientEvent(c) PROVE Wakeful(d)'
    <2>0. conn[d] = "open" /\ Wakeful(d)
        BY <1>10 DEF ClientEvent, kernel, Edges
    <2>1. UNCHANGED <<net, kernel, fdData, batch>>
        BY <1>10 DEF ClientEvent
    <2>2. pc' = "write" /\ cur' = d => "IN" \notin batch[d]
        BY <1>10 DEF ClientEvent
    <2>3. pc # "write"
        BY <1>10 DEF ClientEvent
    <2> QED BY <2>0, <2>1, <2>2, <2>3 DEF Wakeful, Unread, Room, net, kernel, fdData
<1>11. ASSUME NEW c \in Client, ReadSome(c) PROVE Wakeful(d)'
    <2>1. CASE d = c
        <3>1. /\ READING \subseteq interest'[c]
              /\ Unread(c) > 0 \/ peer[c] # "up" => c \in ready'
            BY <1>11, RegisterWakes DEF ReadSome, READING, WRITING, Event
        <3>2. Unread(c) > 0
            <4> DEFINE n == Least(Unread(c), BUFF_SIZE - buffer_end[c])
            <4>1. Unread(c) \in Int /\ BUFF_SIZE - buffer_end[c] \in Int
                BY ChunkSizes, EpollAssumption DEF FdDataType
            <4>2. n \in Int /\ n <= Unread(c)
                BY <4>1, LeastFact
            <4>3. n > 0
                BY <1>11 DEF ReadSome
            <4> HIDE DEF n
            <4> QED BY <4>1, <4>2, <4>3
        <3>3. conn[d] = "open" /\ peer'[d] = peer[d]
            BY <1>11 DEF ReadSome, net
        <3> QED BY <2>1, <3>1, <3>2, <3>3 DEF Wakeful
    <2>2. CASE d # c
        <3>1. /\ conn[d] = "open" /\ interest'[d] = interest[d]
              /\ (d \in ready => d \in ready')
              /\ rcvd'[d] = rcvd[d] /\ buffer_end'[d] = buffer_end[d]
            BY <1>11, <2>2 DEF ReadSome, Register, KernelType, FdDataType
        <3> QED BY <1>11, <1>f, <2>2, <3>1 DEF ReadSome, net, server
    <2> QED BY <2>1, <2>2
<1>12. ASSUME NEW c \in Client, ReadNothing(c) PROVE Wakeful(d)'
    <2>0. /\ conn[d] = "open" /\ Wakeful(d)
          /\ UNCHANGED <<net, kernel, fdData>>
        BY <1>12 DEF ReadNothing, kernel, Edges
    <2>1. CASE d = c
        <3>1. Unread(d)' = Unread(d) /\ Unread(d) = 0
            BY <1>12, <2>0, <2>1 DEF ReadNothing, Unread, net, kernel
        <3>2. batch[d] \cap HANGUP = {}
            BY <1>12, <2>1 DEF ReadNothing, ServerType, Focus
        <3>3. "OUT" \in batch[d] => batch'[d] = batch[d]
            BY <1>12, <2>1 DEF ReadNothing
        <3>4. peer[d] # "up" => d \in ready
            BY <2>0, <3>2 DEF Wakeful
        <3>5. Room(d)' = Room(d)
            BY <2>0 DEF Room, net, kernel
        <3> QED BY <2>0, <3>1, <3>3, <3>4, <3>5 DEF Wakeful, net, kernel, fdData
    <2>2. CASE d # c
        <3>1. cur # d /\ batch'[d] = batch[d] /\ ~(pc' = "write" /\ cur' = d)
            BY <1>12, <1>g, <2>2 DEF ReadNothing, Source
        <3> QED BY <1>f, <2>0, <3>1 DEF net, kernel, fdData
    <2> QED BY <2>1, <2>2
<1>13. ASSUME NEW c \in Client, WriteSome(c) PROVE Wakeful(d)'
    <2> DEFINE n == Least(buffer_end[c] - buffer_begin[c], Room(c))
               emptied == buffer_begin[c] + n = buffer_end[c]
    <2>0. /\ conn[d] = "open" /\ Wakeful(d)
          /\ UNCHANGED <<sent, rcvd, peer, acked>>
        BY <1>13 DEF WriteSome, Edges, net
    <2>1. CASE d = c
        <3>1. /\ n \in Nat /\ n \in {buffer_end[c] - buffer_begin[c], Room(c)}
              /\ Room(c) \in Int
            <4>1. buffer_end[c] - buffer_begin[c] \in Int /\ Room(c) \in Int
                BY ChunkSizes DEF FdDataType
            <4> QED BY <4>1, ChunkSizes, LeastFact
        <3> HIDE DEF n
        <3>2. /\ Unread(d) > 0 => d \in ready
              /\ peer[d] # "up" => d \in ready
              /\ READING \subseteq interest[d]
            BY <1>13, <2>0, <2>1 DEF Wakeful, WriteSome, ServerType, Focus
        <3>3. Unread(d)' = Unread(d) /\ peer'[d] = peer[d]
            BY <2>0 DEF Unread
        <3>4. CASE emptied
            <4>1. Register(c, READING)
                BY <1>13, <3>4 DEF WriteSome, n
            <4>2. READING \subseteq interest'[d] /\ (d \in ready => d \in ready')
                BY <2>1, <4>1, RegisterWakes DEF READING, Event
            <4>3. buffer_begin'[d] = 0 /\ buffer_end'[d] = 0
                BY <1>13, <2>1, <3>4 DEF WriteSome, FdDataType, n
            <4> QED BY <3>2, <3>3, <4>2, <4>3 DEF Wakeful
        <3>5. CASE ~emptied
            <4>1. n = Room(c)
                BY <3>1, <3>5 DEF FdDataType
            <4>2. Room(d)' = 0
                <5>1. Chunk(c, n) \in Seq(Nat) /\ Len(Chunk(c, n)) = n
                    BY <3>1, ChunkSizes, ChunkFact DEF n
                <5>2. echoed'[d] = echoed[d] \o Chunk(c, n)
                    BY <1>13, <2>1 DEF WriteSome, KernelType, n
                <5>3. echoed[d] \in Seq(Nat) /\ Len(echoed[d]) \in Nat /\ acked[d] \in Nat
                    BY DEF KernelType, NetType
                <5>4. Len(echoed'[d]) = Len(echoed[d]) + n
                    <6> DEFINE chunk == Chunk(c, n)
                    <6>1. chunk \in Seq(Nat) /\ Len(chunk) = n
                        BY <5>1
                    <6> HIDE DEF chunk
                    <6>2. Len(echoed[d] \o chunk) = Len(echoed[d]) + Len(chunk)
                        BY <5>3, <6>1, ConcatProperties
                    <6> QED BY <5>2, <6>1, <6>2 DEF chunk
                <5>5. acked'[d] = acked[d]
                    BY <2>0
                <5>6. n = SNDBUF - (Len(echoed[d]) - acked[d])
                    BY <2>1, <4>1 DEF Room
                <5>7. SNDBUF - ((Len(echoed[d]) + n) - acked[d]) = 0
                    BY <3>1, <5>3, <5>6, EpollAssumption
                <5> QED BY <5>4, <5>5, <5>7 DEF Room
            <4>3. UNCHANGED <<interest, ready>>
                BY <1>13, <3>5 DEF WriteSome, n
            <4> QED BY <3>2, <3>3, <4>2, <4>3 DEF Wakeful
        <3> QED BY <3>4, <3>5
    <2>2. CASE d # c
        <3>1. /\ interest'[d] = interest[d] /\ (d \in ready => d \in ready')
              /\ echoed'[d] = echoed[d]
              /\ buffer_begin'[d] = buffer_begin[d] /\ buffer_end'[d] = buffer_end[d]
            BY <1>13, <2>2 DEF WriteSome, Register, KernelType, FdDataType
        <3>2. batch'[d] = batch[d] /\ ~(pc' = "write" /\ cur' = d)
            BY <1>13, <1>g, <2>2 DEF WriteSome, Source
        <3> QED BY <1>f, <2>0, <3>1, <3>2
    <2> QED BY <2>1, <2>2
<1>14. ASSUME NEW c \in Client, WriteKilled(c) PROVE Wakeful(d)'
    BY <1>14, <1>f DEF WriteKilled, net, kernel, fdData
<1>15. CASE UNCHANGED vars
    BY <1>15, <1>f DEF vars
<1> QED
    BY <1>1, <1>2, <1>3, <1>4, <1>5, <1>6, <1>7, <1>8, <1>9, <1>10, <1>11,
       <1>12, <1>13, <1>14, <1>15
    DEF Next, Serve
-----------------------------------------------------------------------------
(* The theorems *)

Inv ==
    /\ Types
    /\ Buffers
    /\ Held
    /\ OutWatchedWhileOwed
    /\ KilledOnlyInWindow
    /\ HangupSeen
    /\ Edges

\* The invariant holds at the start.
LEMMA InitInv == Init => Inv
<1> SUFFICES ASSUME Init PROVE Inv
    OBVIOUS
<1> USE EpollAssumption DEF Init
<1>1. ServerType
    BY DEF ServerType, Focus, Source
<1>2. KernelType /\ FdDataType /\ NetType
    BY DEF KernelType, FdDataType, NetType
<1>3. Buffers
    BY DEF Buffers, BufferHoldsBacklog, SendBufferFits
<1>4. Held
    BY DEF Held, Queue, NoUseAfterFree, Source
<1>5. OutWatchedWhileOwed /\ KilledOnlyInWindow /\ HangupSeen
    BY DEF OutWatchedWhileOwed, KilledOnlyInWindow, HangupSeen, Source
<1>6. Edges
    BY DEF Edges, Idle
<1> QED
    BY <1>1, <1>2, <1>3, <1>4, <1>5, <1>6 DEF Inv, Types

\* Each step keeps the invariant.
LEMMA InvInductive == Inv /\ [Next]_vars => Inv'
BY TypesStep, BuffersStep, HeldStep, OutWatchedStep, KilledStep, HangupSeenStep,
   EdgesStep
DEF Inv, Held

\* The invariant holds in every reachable state.
LEMMA InvAlways == Spec => []Inv
<1>1. Init => Inv
    BY InitInv
<1>2. Inv /\ [Next]_vars => Inv'
    BY InvInductive
<1> QED
    BY <1>1, <1>2, PTL DEF Spec

\* The variables keep their types (every handler of server_epoll.c).
THEOREM TypeCorrect == Spec => []TypeOK
<1>1. Inv => TypeOK
    BY DEF Inv, Types, ServerType, KernelType, FdDataType, NetType, TypeOK
<1> QED
    BY <1>1, InvAlways, PTL

\* read_buff() and write_buff() stay inside the buffer, and between
\* buffer_begin and buffer_end lies what was read and not yet written.
THEOREM BufferDiscipline == Spec => []BufferHoldsBacklog
<1>1. Inv => BufferHoldsBacklog
    BY DEF Inv, Buffers
<1> QED
    BY <1>1, InvAlways, PTL

\* close_connection() frees an fd_data only after nothing in the event loop
\* can reach it.
THEOREM MemorySafe == Spec => []NoUseAfterFree
<1>1. Inv => NoUseAfterFree
    BY DEF Inv, Held
<1> QED
    BY <1>1, InvAlways, PTL

\* The two EPOLL_CTL_MOD calls keep EPOLLOUT in step with the buffer.
THEOREM OutputWatched == Spec => []OutWatchedWhileOwed
<1>1. Inv => OutWatchedWhileOwed
    BY DEF Inv
<1> QED
    BY <1>1, InvAlways, PTL

\* Edge-triggered readiness is never lost: read_buff() up to EAGAIN, the two
\* EPOLL_CTL_MOD calls and a send buffer that write_buff() fills leave nothing
\* to do that epoll_wait() would not report.
THEOREM NoLostEdge == Spec => []EdgesNotLost
<1>1. Inv => EdgesNotLost
    <2> SUFFICES ASSUME Inv, pc = "wait", NEW c \in Client, conn[c] = "open"
                 PROVE  /\ Unread(c) > 0 \/ peer[c] # "up" => c \in ready
                        /\ buffer_begin[c] < buffer_end[c] =>
                              "OUT" \in interest[c] /\ (Room(c) > 0 => c \in ready)
        BY DEF EdgesNotLost
    <2>1. batch[c] = {} /\ Wakeful(c)
        BY DEF Inv, Edges, Idle, Source
    <2>2. buffer_begin[c] < buffer_end[c] => "OUT" \in interest[c]
        BY DEF Inv, OutWatchedWhileOwed
    <2> QED BY <2>1, <2>2 DEF Wakeful
<1> QED
    BY <1>1, InvAlways, PTL

\* SIGPIPE strikes only in the window between epoll_wait() and write().
THEOREM KilledInWindow == Spec => []KilledOnlyInWindow
<1>1. Inv => KilledOnlyInWindow
    BY DEF Inv
<1> QED
    BY <1>1, InvAlways, PTL

\* A client that neither hung up nor overran the buffer is never cut off.
THEOREM CutOff == Spec => CutOffOnlyWhenFull
<1> DEFINE Step == \A c \in Client :
                      conn[c] = "open" /\ conn'[c] = "closed" /\ peer[c] = "up"
                          => buffer_end[c] = BUFF_SIZE
<1>1. Inv /\ [Next]_vars => [Step]_vars
    <2> SUFFICES ASSUME Inv, Next, NEW d \in Client,
                        conn[d] = "open", conn'[d] = "closed", peer[d] = "up"
                 PROVE  buffer_end[d] = BUFF_SIZE
        OBVIOUS
    <2>0. Types /\ Buffers /\ Held /\ HangupSeen
        BY DEF Inv
    <2>1. ASSUME NEW c \in Client, HangUp(c) PROVE buffer_end[d] = BUFF_SIZE
        <3>1. peer[c] # "up"
            BY <2>0, <2>1 DEF HangUp, HangupSeen
        <3> QED BY <2>0, <2>1, <3>1 DEF HangUp, CloseConnection, Types, KernelType
    <2>2. ASSUME NEW c \in Client, ReadFull(c) PROVE buffer_end[d] = BUFF_SIZE
        <3>1. d = c
            BY <2>0, <2>2 DEF ReadFull, CloseConnection, Types, KernelType
        <3>2. buffer_end[c] >= BUFF_SIZE /\ buffer_end[c] <= BUFF_SIZE
            BY <2>0, <2>2 DEF ReadFull, Buffers, BufferHoldsBacklog
        <3> QED BY <2>0, <3>1, <3>2, EpollAssumption DEF Types, FdDataType
    <2>3. ASSUME NEW c \in Client, ReadError(c) \/ WriteError(c)
          PROVE  buffer_end[d] = BUFF_SIZE
        BY <2>0, <2>3 DEF ReadError, WriteError, Gone, CloseConnection, Types, KernelType
    <2>4. ASSUME NEW c \in Client, AcceptDrops(c) \/ AcceptOpens(c) \/ Connect(c)
          PROVE  buffer_end[d] = BUFF_SIZE
        <3>1. conn[c] # "open"
            <4>1. CASE Connect(c)
                BY <2>0, <4>1 DEF Connect, Held, Queue
            <4>2. CASE AcceptDrops(c) \/ AcceptOpens(c)
                <5>1. /\ backlog \in Seq(Client) /\ Len(backlog) \in Nat
                      /\ backlog # << >> /\ c = Head(backlog)
                    BY <2>0, <4>2 DEF AcceptDrops, AcceptOpens, Types, KernelType
                <5>2. 1 \in 1 .. Len(backlog) /\ c = backlog[1]
                    BY <5>1
                <5> QED BY <2>0, <5>2 DEF Held, Queue
            <4> QED BY <2>4, <4>1, <4>2
        <3> QED BY <2>0, <2>4, <3>1
                DEF AcceptDrops, AcceptOpens, Connect, Types, KernelType
    <2>5. ASSUME UNCHANGED conn PROVE buffer_end[d] = BUFF_SIZE
        BY <2>5
    <2> QED
        BY <2>1, <2>2, <2>3, <2>4, <2>5
        DEF Next, Serve, Send, Drain, Fin, Reset, EpollWait, AcceptFails,
            ClientEvent, ReadSome, ReadNothing, WriteSome, WriteKilled, kernel
<1> QED
    BY <1>1, InvAlways, PTL DEF Spec, CutOffOnlyWhenFull
-----------------------------------------------------------------------------
(* Refinement *)

\* Every step of the server is a step of the echo service or leaves the
\* client's view of it alone.
LEMMA ServiceStep == Inv /\ Inv' /\ [Next]_vars => [Service!EchoNext]_(Service!echoVars)
<1> SUFFICES ASSUME Inv, Inv', [Next]_vars
             PROVE  Service!EchoNext \/ UNCHANGED Service!echoVars
    OBVIOUS
<1>0. Types /\ Types' /\ Buffers /\ Buffers' /\ Held
    BY DEF Inv
<1>s. ASSUME UNCHANGED <<conn, sent, echoed>>, pc # "killed" <=> pc' # "killed"
      PROVE  UNCHANGED Service!echoVars
    <2>1. session' = session
        <3>1. CASE pc = "killed"
            BY <1>s, <3>1 DEF session
        <3>2. CASE pc # "killed"
            BY <1>s, <3>2 DEF session
        <3> QED BY <3>1, <3>2
    <2> QED BY <1>s, <2>1 DEF Service!echoVars
<1>c. ASSUME NEW c \in Client, conn[c] \in {"open", "backlog"}, pc # "killed", pc' # "killed",
             conn' = [conn EXCEPT ![c] = "closed"], UNCHANGED <<sent, echoed>>
      PROVE  Service!EchoNext
    <2>1. session' = [d \in Client |-> IF d \in {c} THEN "closed" ELSE session[d]]
        BY <1>0, <1>c DEF session, Types, KernelType
    <2>2. Service!Close({c})
        BY <1>c, <2>1 DEF Service!Close
    <2> QED BY <2>2 DEF Service!EchoNext
<1>1. ASSUME NEW c \in Client, Connect(c) PROVE UNCHANGED Service!echoVars
    <2>1. session' = session
        BY <1>0, <1>1 DEF Connect, session, Held, Queue, Types, KernelType, server, Alive
    <2> QED BY <1>1, <2>1 DEF Connect, Service!echoVars
<1>2. ASSUME NEW c \in Client, Send(c) PROVE Service!EchoNext
    <2>1. session' = session /\ session[c] # "closed"
        BY <1>2 DEF Send, session, Alive, server
    <2>2. Service!Receive(c)
        BY <1>2, <2>1 DEF Send, Service!Receive
    <2> QED BY <2>2 DEF Service!EchoNext
<1>3. ASSUME NEW c \in Client, AcceptOpens(c) PROVE Service!EchoNext
    <2>1. conn[c] = "backlog"
        BY <1>0, <1>3, HeadTailProperties DEF AcceptOpens, Held, Queue, Types, KernelType
    <2>2. pc # "killed" /\ pc' # "killed"
        BY <1>3 DEF AcceptOpens, Return
    <2>3. session[c] = "idle" /\ session' = [session EXCEPT ![c] = "open"]
        BY <1>0, <1>3, <2>1, <2>2 DEF AcceptOpens, session, Types, KernelType
    <2>4. Service!Open(c)
        BY <1>3, <2>3 DEF AcceptOpens, net, Service!Open
    <2> QED BY <2>4 DEF Service!EchoNext
<1>4. ASSUME NEW c \in Client, AcceptDrops(c) PROVE Service!EchoNext
    <2>1. conn[c] = "backlog"
        BY <1>0, <1>4, HeadTailProperties DEF AcceptDrops, Held, Queue, Types, KernelType
    <2> QED BY <1>4, <1>c, <2>1 DEF AcceptDrops, Return, net
<1>5. ASSUME NEW c \in Client, HangUp(c) PROVE Service!EchoNext
    BY <1>0, <1>5, <1>c
    DEF HangUp, CloseConnection, Return, net, Held, NoUseAfterFree
<1>6. ASSUME NEW c \in Client, ReadFull(c) \/ ReadError(c) \/ WriteError(c)
      PROVE  Service!EchoNext
    BY <1>0, <1>6, <1>c
    DEF ReadFull, ReadError, WriteError, CloseConnection, Return, net, Held,
        NoUseAfterFree
<1>7. ASSUME NEW c \in Client, WriteSome(c)
      PROVE  Service!EchoNext \/ UNCHANGED Service!echoVars
    <2> DEFINE n == Least(buffer_end[c] - buffer_begin[c], Room(c))
    <2>1. n \in Nat /\ n <= buffer_end[c] - buffer_begin[c]
        BY <1>0, ChunkSizes
    <2>2. echoed' = [echoed EXCEPT ![c] = @ \o Chunk(c, n)]
        BY <1>7 DEF WriteSome
    <2> HIDE DEF n
    <2>3. /\ Chunk(c, n) \in Seq(Nat) /\ Len(Chunk(c, n)) = n
          /\ Chunk(c, n) = [i \in 1 .. n |-> Len(echoed[c]) + i]
        BY <1>0, <2>1, ChunkFact
    <2>4. pc # "killed" /\ pc' # "killed" /\ conn[c] = "open" /\ conn' = conn
        BY <1>0, <1>7 DEF WriteSome, Return, Held, NoUseAfterFree
    <2>5. session' = session /\ session[c] = "open" /\ sent' = sent
        <3>1. session' = session
            BY <2>4 DEF session
        <3>2. session[c] = "open"
            BY <2>4 DEF session
        <3>3. sent' = sent
            BY <1>7 DEF WriteSome, net
        <3> QED BY <3>1, <3>2, <3>3
    <2>6. CASE n = 0
        <3>1. echoed[c] \in Seq(Nat) /\ echoed \in [Client -> Seq(Nat)]
            BY <1>0 DEF Types, KernelType
        <3>2. echoed[c] \o Chunk(c, n) = echoed[c]
            <4>1. Chunk(c, n) = << >>
                BY <2>3, <2>6
            <4> QED BY <3>1, <4>1, ConcatEmptySeq
        <3>3. echoed' = echoed
            BY <2>2, <3>1, <3>2
        <3> QED BY <2>5, <3>3 DEF Service!echoVars
    <2>7. CASE n # 0
        <3>1. n \in 1 .. sent[c] - Len(echoed[c])
            <4>1. /\ buffer_begin[c] \in Nat /\ buffer_end[c] \in Nat
                  /\ Len(echoed[c]) \in Nat /\ sent[c] \in Nat /\ rcvd[c] \in Nat
                BY <1>0 DEF Types, NetType, KernelType, FdDataType
            <4>2. /\ Len(echoed[c]) + (buffer_end[c] - buffer_begin[c]) = rcvd[c]
                  /\ rcvd[c] <= sent[c]
                BY <1>0 DEF Buffers, BufferHoldsBacklog
            <4> QED BY <2>1, <2>7, <4>1, <4>2
        <3>2. Service!Echo(c)
            BY <2>2, <2>3, <2>5, <3>1 DEF Service!Echo
        <3> QED BY <3>2 DEF Service!EchoNext
    <2> QED BY <2>6, <2>7
<1>8. ASSUME NEW c \in Client, WriteKilled(c) PROVE Service!EchoNext
    <2>1. pc' = "killed" /\ UNCHANGED <<sent, echoed>>
        BY <1>8 DEF WriteKilled, net, kernel
    <2>2. session' = [d \in Client |-> IF d \in Client THEN "closed" ELSE session[d]]
        BY <2>1 DEF session
    <2>3. Service!Close(Client)
        BY <2>1, <2>2 DEF Service!Close
    <2> QED BY <2>3 DEF Service!EchoNext
<1>9. CASE UNCHANGED vars
    BY <1>9, <1>s DEF vars
<1>10. CASE EpollWait \/ AcceptFails
    BY <1>10, <1>s DEF EpollWait, AcceptFails, Return, net, kernel
<1>11. ASSUME NEW c \in Client, Drain(c) \/ Fin(c) \/ Reset(c)
       PROVE  UNCHANGED Service!echoVars
    BY <1>11, <1>s DEF Drain, Fin, Reset, server
<1>12. ASSUME NEW c \in Client, ClientEvent(c) \/ ReadSome(c) \/ ReadNothing(c)
       PROVE  UNCHANGED Service!echoVars
    BY <1>12, <1>s DEF ClientEvent, ReadSome, ReadNothing, Return, net, kernel, server
<1> QED
    BY <1>1, <1>2, <1>3, <1>4, <1>5, <1>6, <1>7, <1>8, <1>9, <1>10, <1>11, <1>12
    DEF Next, Serve

\* server_epoll.c is an echo service: what a client gets back is what it sent.
THEOREM Refinement == Spec => ImplementsEcho
<1>1. Init => Service!EchoInit
    BY DEF Init, Service!EchoInit, session
<1>2. Inv /\ Inv' /\ [Next]_vars => [Service!EchoNext]_(Service!echoVars)
    BY ServiceStep
<1> QED
    BY <1>1, <1>2, InvAlways, PTL DEF Spec, ImplementsEcho, Service!EchoSpec
=============================================================================
