-------------------------- MODULE TcpSessionProofs -------------------------
(***************************************************************************)
(* Lemmas about the loop of tcp_server.c, for any set of clients, stream   *)
(* and sizes: what a connection has read, written and still owes.  The     *)
(* proofs about the programs that run the loop rest on them.               *)
(***************************************************************************)
EXTENDS TcpSession, SequenceTheorems, TLAPS

Place == {"off", "backlog", "accepted", "read", "write", "close", "closed", "killed"}

SessionTypes ==
    /\ peer \in [Client -> {"off", "up", "fin", "rst", "pipe"}]
    /\ text \in [Client -> Seq(Byte)]
    /\ acked \in [Client -> Nat]
    /\ backlog \in Seq(Client)
    /\ at \in [Client -> Place]
    /\ rcvd \in [Client -> Nat]
    /\ msg \in [Client -> Seq(Nat)]
    /\ total_written \in [Client -> Nat]
    /\ echoed \in [Client -> Seq(Nat)]

\* msg is the latest piece of what was read, and the kernel holds no more of
\* the echo than the send buffer does.
Counted(c) ==
    /\ acked[c] <= Len(echoed[c])
    /\ Len(echoed[c]) - acked[c] <= SNDBUF
    /\ rcvd[c] <= Len(text[c])
    /\ Len(msg[c]) <= rcvd[c]
    /\ \A i \in 1 .. Len(msg[c]) : msg[c][i] = rcvd[c] - Len(msg[c]) + i
    /\ at[c] \in {"off", "backlog", "accepted"} => rcvd[c] = 0 /\ Len(echoed[c]) = 0
    /\ at[c] = "write" => total_written[c] < Len(msg[c])
    /\ peer[c] = "off" <=> at[c] = "off"

\* The echo has come as far as total_written says, unless the peer has reset
\* the connection: a message that write_message() gives up after ECONNRESET
\* is never echoed.  The loop ends at the end of the stream or at "q".
Answered(c) ==
    ~Gone(c) =>
        /\ at[c] = "read" => Len(echoed[c]) = rcvd[c]
        /\ at[c] = "write" =>
              Len(echoed[c]) = rcvd[c] - Len(msg[c]) + total_written[c]
        /\ at[c] \in {"close", "closed"} =>
              \/ peer[c] = "fin" /\ Len(echoed[c]) = Len(text[c])
              \/ /\ msg[c] # << >> /\ IsQuit(c, msg[c])
                 /\ Len(echoed[c]) = rcvd[c] - Len(msg[c])

-----------------------------------------------------------------------------
(* Types of one connection *)

\* The types, said of one connection.
LEMMA SessionFact ==
    ASSUME SessionTypes, NEW c \in Client
    PROVE  /\ text[c] \in Seq(Byte) /\ Len(text[c]) \in Nat
           /\ acked[c] \in Nat /\ rcvd[c] \in Nat /\ total_written[c] \in Nat
           /\ msg[c] \in Seq(Nat) /\ Len(msg[c]) \in Nat
           /\ echoed[c] \in Seq(Nat) /\ Len(echoed[c]) \in Nat
           /\ at[c] \in Place
           /\ Unread(c) \in Int /\ Room(c) \in Int
           /\ Counted(c) => Unread(c) \in Nat /\ Room(c) \in Nat
<1>1. /\ text[c] \in Seq(Byte) /\ acked[c] \in Nat /\ rcvd[c] \in Nat
      /\ total_written[c] \in Nat /\ msg[c] \in Seq(Nat) /\ echoed[c] \in Seq(Nat)
      /\ at[c] \in Place
    BY DEF SessionTypes
<1>2. Len(text[c]) \in Nat /\ Len(msg[c]) \in Nat /\ Len(echoed[c]) \in Nat
    BY <1>1, LenProperties
<1>3. Unread(c) \in Int /\ Room(c) \in Int
    BY <1>1, <1>2, SessionAssumption DEF Unread, Room
<1>4. Counted(c) => Unread(c) \in Nat /\ Room(c) \in Nat
    BY <1>1, <1>2, SessionAssumption DEF Unread, Room, Counted
<1> QED
    BY <1>1, <1>2, <1>3, <1>4

\* A call moves no more than there is and no more than fits.
LEMMA LeastFact ==
    ASSUME NEW m \in Nat, NEW n \in Nat
    PROVE  /\ Least(m, n) \in Nat
           /\ Least(m, n) <= m /\ Least(m, n) <= n
           /\ Least(m, n) \in {m, n}
BY DEF Least

\* A step that touches nothing of a connection keeps what is known of it.
LEMMA Untouched ==
    ASSUME NEW d \in Client, Counted(d),
           peer'[d] = peer[d], text'[d] = text[d], acked'[d] = acked[d],
           at'[d] = at[d], rcvd'[d] = rcvd[d], msg'[d] = msg[d],
           total_written'[d] = total_written[d], echoed'[d] = echoed[d]
    PROVE  Counted(d)' /\ (Answered(d) => Answered(d)')
BY DEF Counted, Answered, Gone, IsQuit

\* The bytes one call of read_message() takes.
Piece(c) == Least(Unread(c), BUFF_SIZE - 1)

\* The bytes one write() takes.
Portion(c) == Least(Len(msg[c]) - total_written[c], Room(c))

\* write_message() hands the socket the next bytes of the echo.
LEMMA PortionFact ==
    ASSUME SessionTypes, NEW c \in Client, Counted(c), at[c] = "write",
           NEW n \in Nat, n <= Len(msg[c]) - total_written[c]
    PROVE  LET piece == SubSeq(msg[c], total_written[c] + 1, total_written[c] + n)
           IN  /\ piece \in Seq(Nat)
               /\ Len(piece) = n
               /\ \A i \in 1 .. n :
                     piece[i] = rcvd[c] - Len(msg[c]) + total_written[c] + i
<1> DEFINE a == total_written[c] + 1
           b == total_written[c] + n
<1>1. /\ total_written[c] \in Nat /\ Len(msg[c]) \in Nat /\ rcvd[c] \in Nat
      /\ msg[c] \in Seq(Nat)
    BY SessionFact
<1>2. /\ a \in Int /\ b \in Int /\ b - a + 1 = n
      /\ a .. b \subseteq 1 .. Len(msg[c])
      /\ (IF a <= b THEN b - a + 1 ELSE 0) = n
    <2>1. a \in Int /\ b \in Int /\ b - a + 1 = n
        BY <1>1
    <2>2. a .. b \subseteq 1 .. Len(msg[c])
        BY <1>1
    <2>3. (a <= b => b - a + 1 = n) /\ (~(a <= b) => n = 0)
        BY <1>1
    <2> QED BY <2>1, <2>2, <2>3
<1>7. ASSUME NEW i \in 1 .. n
      PROVE  /\ a + i - 1 = total_written[c] + i
             /\ a + i - 1 \in 1 .. Len(msg[c])
    BY <1>1
<1>3. \A i \in a .. b : msg[c][i] \in Nat
    BY <1>1, <1>2, ElementOfSeq
<1> HIDE DEF a, b
<1>4. /\ SubSeq(msg[c], a, b) \in Seq(Nat)
      /\ Len(SubSeq(msg[c], a, b)) = IF a <= b THEN b - a + 1 ELSE 0
      /\ \A i \in 1 .. b - a + 1 : SubSeq(msg[c], a, b)[i] = msg[c][a + i - 1]
    BY <1>2, <1>3, SubSeqProperties
<1>5. ASSUME NEW i \in 1 .. n
      PROVE  SubSeq(msg[c], a, b)[i] = rcvd[c] - Len(msg[c]) + total_written[c] + i
    <2>1. SubSeq(msg[c], a, b)[i] = msg[c][a + i - 1]
        BY <1>2, <1>4
    <2>2. msg[c][a + i - 1] = rcvd[c] - Len(msg[c]) + (a + i - 1)
        BY <1>7 DEF Counted
    <2>3. rcvd[c] - Len(msg[c]) + (total_written[c] + i)
             = rcvd[c] - Len(msg[c]) + total_written[c] + i
        BY <1>1
    <2> QED BY <1>7, <2>1, <2>2, <2>3
<1>6. SubSeq(msg[c], a, b) \in Seq(Nat) /\ Len(SubSeq(msg[c], a, b)) = n
    BY <1>2, <1>4
<1> QED
    BY <1>5, <1>6 DEF a, b

-----------------------------------------------------------------------------
(* The clients' steps and the loop's steps keep what is known *)

\* A client's steps keep the types.
LEMMA ClientStepTypes ==
    ASSUME SessionTypes, NEW c \in Client, ClientStep(c) PROVE SessionTypes'
<1> USE DEF SessionTypes
<1>1. CASE Connect(c)
    BY <1>1, AppendProperties DEF Connect, Goto, Place, loop
<1>2. CASE Drain(c)
    BY <1>2 DEF Drain, loop
<1>4. CASE Fin(c) \/ Reset(c)
    <2>1. peer' \in [Client -> {"off", "up", "fin", "rst", "pipe"}]
        BY <1>4 DEF Fin, Reset
    <2> QED BY <1>4, <2>1 DEF Fin, Reset, loop
<1>3. ASSUME NEW b \in Byte, Send(c, b) PROVE SessionTypes'
    <2>1. Append(text[c], b) \in Seq(Byte)
        BY AppendProperties
    <2> QED BY <1>3, <2>1 DEF Send, loop
<1> QED
    BY <1>1, <1>2, <1>3, <1>4 DEF ClientStep

\* The loop's steps keep the types.
LEMMA LoopStepTypes ==
    ASSUME SessionTypes, NEW c \in Client, Counted(c), LoopStep(c) \/ Close(c)
    PROVE  SessionTypes'
<1> USE DEF SessionTypes
<1>0. /\ Len(msg[c]) \in Nat /\ total_written[c] \in Nat /\ rcvd[c] \in Nat
      /\ Unread(c) \in Nat /\ Room(c) \in Nat
    BY SessionFact
<1>1. CASE Read(c)
    <2> DEFINE n == Piece(c)
               m == [i \in 1 .. n |-> rcvd[c] + i]
    <2>1. n \in Nat
        <3>1. BUFF_SIZE - 1 \in Nat
            BY SessionAssumption
        <3> QED BY <1>0, <3>1, LeastFact DEF Piece
    <2>3. /\ rcvd' = [rcvd EXCEPT ![c] = @ + n]
          /\ msg' = [msg EXCEPT ![c] = m]
          /\ total_written' = [total_written EXCEPT ![c] = 0]
          /\ Goto(c, IF IsQuit(c, m) THEN "close" ELSE "write")
          /\ UNCHANGED <<net, backlog, echoed>>
        BY <1>1 DEF Read, Piece
    <2> HIDE DEF n
    <2>2. m \in Seq(Nat)
        <3>1. \A i \in 1 .. n : rcvd[c] + i \in Nat
            BY <1>0
        <3> QED BY <2>1, <3>1
    <2> HIDE DEF m
    <2> QED BY <2>1, <2>2, <2>3 DEF Goto, Place, net
<1>2. CASE ReadEnds(c) \/ WriteBreaks(c) \/ WriteKilled(c) \/ Close(c)
    BY <1>2 DEF ReadEnds, WriteBreaks, WriteKilled, Close, Goto, Place, net, loop
<1>3. CASE WriteSome(c)
    <2> DEFINE n == Portion(c)
               piece == SubSeq(msg[c], total_written[c] + 1, total_written[c] + n)
    <2>1. n \in Nat /\ n <= Len(msg[c]) - total_written[c] /\ at[c] = "write"
        <3>1. Len(msg[c]) - total_written[c] \in Nat /\ at[c] = "write"
            BY <1>0, <1>3 DEF WriteSome, Counted
        <3> QED BY <1>0, <3>1, LeastFact DEF Portion
    <2>2. piece \in Seq(Nat)
        BY <2>1, PortionFact
    <2>3. /\ echoed' = [echoed EXCEPT ![c] = @ \o piece]
          /\ total_written' = [total_written EXCEPT ![c] = @ + n]
          /\ Goto(c, "read") \/ UNCHANGED at
          /\ UNCHANGED <<net, backlog, rcvd, msg>>
        BY <1>3 DEF WriteSome, Portion
    <2> HIDE DEF piece, n
    <2>4. echoed[c] \o piece \in Seq(Nat)
        BY <2>2, ConcatProperties
    <2>5. echoed' \in [Client -> Seq(Nat)]
        BY <2>3, <2>4
    <2>6. total_written' \in [Client -> Nat]
        BY <1>0, <2>1, <2>3
    <2>7. at' \in [Client -> Place]
        BY <2>3 DEF Goto, Place
    <2> QED BY <2>3, <2>5, <2>6, <2>7 DEF net
<1> QED
    BY <1>1, <1>2, <1>3 DEF LoopStep

\* A step of the loop keeps what is known of its connection and of the others.
LEMMA LoopStepKeeps ==
    ASSUME SessionTypes, NEW c \in Client, Counted(c), Answered(c),
           LoopStep(c) \/ Close(c),
           NEW d \in Client, Counted(d)
    PROVE  Counted(d)' /\ (Answered(d) => Answered(d)')
<1>0. /\ Len(msg[c]) \in Nat /\ total_written[c] \in Nat /\ rcvd[c] \in Nat
      /\ acked[c] \in Nat /\ Len(text[c]) \in Nat /\ Len(echoed[c]) \in Nat
      /\ Unread(c) \in Nat /\ Room(c) \in Nat /\ echoed[c] \in Seq(Nat)
      /\ at[c] \in Place
    BY SessionFact
<1>t. /\ peer \in [Client -> {"off", "up", "fin", "rst", "pipe"}]
      /\ at \in [Client -> Place] /\ rcvd \in [Client -> Nat]
      /\ msg \in [Client -> Seq(Nat)] /\ total_written \in [Client -> Nat]
      /\ echoed \in [Client -> Seq(Nat)]
    BY DEF SessionTypes
<1>1. CASE d # c
    <2>1. /\ peer'[d] = peer[d] /\ text'[d] = text[d] /\ acked'[d] = acked[d]
          /\ at'[d] = at[d] /\ rcvd'[d] = rcvd[d] /\ msg'[d] = msg[d]
          /\ total_written'[d] = total_written[d] /\ echoed'[d] = echoed[d]
        BY <1>t, <1>1
        DEF LoopStep, Read, ReadEnds, WriteSome, WriteBreaks, WriteKilled, Close,
            Goto, net, loop
    <2> QED BY <2>1, Untouched
<1>2. ASSUME Read(c) PROVE Counted(c)' /\ Answered(c)'
    <2> DEFINE n == Piece(c)
               m == [i \in 1 .. n |-> rcvd[c] + i]
    <2>1. n \in Nat /\ n <= Unread(c) /\ n > 0
        <3>1. BUFF_SIZE - 1 \in Nat
            BY SessionAssumption
        <3>2. n > 0
            BY <1>2 DEF Read, Piece
        <3> QED BY <1>0, <3>1, <3>2, LeastFact DEF Piece
    <2>2. /\ at[c] = "read"
          /\ rcvd'[c] = rcvd[c] + n
          /\ msg'[c] = m
          /\ total_written'[c] = 0
          /\ at'[c] = IF IsQuit(c, m) THEN "close" ELSE "write"
          /\ UNCHANGED <<peer, text, acked, echoed>>
        BY <1>t, <1>2 DEF Read, Piece, Goto, net
    <2> HIDE DEF n
    <2>3. Len(m) = n /\ \A i \in 1 .. n : m[i] = rcvd[c] + i
        <3>1. \A i \in 1 .. n : rcvd[c] + i \in Nat
            BY <1>0
        <3> QED BY <2>1, <3>1
    <2>4. m # << >>
        BY <2>1, <2>3, EmptySeq
    <2> HIDE DEF m
    <2>5. rcvd'[c] - Len(msg'[c]) = rcvd[c] /\ rcvd'[c] <= Len(text[c])
        BY <1>0, <2>1, <2>2, <2>3 DEF Unread
    <2>6. Len(msg'[c]) <= rcvd'[c]
        BY <1>0, <2>1, <2>2, <2>3
    <2>7. \A i \in 1 .. Len(msg'[c]) : msg'[c][i] = rcvd'[c] - Len(msg'[c]) + i
        BY <2>2, <2>3, <2>5
    <2>8. Counted(c)'
        BY <2>1, <2>2, <2>3, <2>5, <2>6, <2>7 DEF Counted
    <2>9. ~Gone(c) => Len(echoed[c]) = rcvd[c]
        BY <2>2 DEF Answered
    <2>10. rcvd'[c] - Len(msg'[c]) + total_written'[c] = rcvd[c]
        BY <1>0, <2>2, <2>5
    <2>11. IsQuit(c, msg[c])' <=> IsQuit(c, m)
        BY <2>2 DEF IsQuit
    <2>12. Gone(c)' <=> Gone(c)
        BY <2>2 DEF Gone
    <2> QED BY <2>2, <2>4, <2>5, <2>8, <2>9, <2>10, <2>11, <2>12 DEF Answered, IsQuit
<1>3. ASSUME ReadEnds(c) PROVE Counted(c)' /\ Answered(c)'
    <2>1. /\ at[c] = "read" /\ at'[c] = "close" /\ Unread(c) = 0 /\ peer[c] # "up"
          /\ UNCHANGED <<peer, text, acked, rcvd, msg, total_written, echoed>>
        BY <1>t, <1>3 DEF ReadEnds, Goto, net, loop
    <2>2. peer[c] \in {"fin", "rst", "pipe"}
        BY <1>t, <2>1 DEF Counted
    <2>3. rcvd[c] = Len(text[c])
        BY <1>0, <2>1 DEF Unread
    <2> QED BY <2>1, <2>2, <2>3 DEF Counted, Answered, Gone
<1>4. ASSUME WriteSome(c) PROVE Counted(c)' /\ Answered(c)'
    <2> DEFINE n == Portion(c)
               piece == SubSeq(msg[c], total_written[c] + 1, total_written[c] + n)
    <2>1. /\ n \in Nat /\ n <= Len(msg[c]) - total_written[c] /\ n <= Room(c)
          /\ at[c] = "write"
        <3>1. Len(msg[c]) - total_written[c] \in Nat /\ at[c] = "write"
            BY <1>0, <1>4 DEF WriteSome, Counted
        <3> QED BY <1>0, <3>1, LeastFact DEF Portion
    <2>2. piece \in Seq(Nat) /\ Len(piece) = n
        BY <2>1, PortionFact
    <2>3. /\ echoed'[c] = echoed[c] \o piece
          /\ total_written'[c] = total_written[c] + n
          /\ at'[c] = IF total_written[c] + n = Len(msg[c]) THEN "read" ELSE "write"
          /\ UNCHANGED <<peer, text, acked, rcvd, msg>>
        BY <1>t, <1>4, <2>1 DEF WriteSome, Portion, Goto, net
    <2> HIDE DEF piece, n
    <2>4. Len(echoed'[c]) = Len(echoed[c]) + n
        <3>1. Len(echoed[c] \o piece) = Len(echoed[c]) + Len(piece)
            BY <1>0, <2>2, ConcatProperties
        <3> QED BY <2>2, <2>3, <3>1
    <2>5. /\ acked[c] <= Len(echoed'[c])
          /\ Len(echoed'[c]) - acked[c] <= SNDBUF
        BY <1>0, <2>1, <2>4, SessionAssumption DEF Counted, Room
    <2>6. at'[c] = "write" => total_written'[c] < Len(msg[c])
        <3>1. at'[c] = "write" => total_written[c] + n # Len(msg[c])
            BY <2>3
        <3>2. total_written[c] + n <= Len(msg[c])
            BY <1>0, <2>1
        <3>3. \A w, k, l \in Nat : w + k <= l /\ w + k # l => w + k < l
            OBVIOUS
        <3>4. at'[c] = "write" => total_written[c] + n < Len(msg[c])
            BY <1>0, <2>1, <3>1, <3>2, <3>3
        <3> QED BY <2>3, <3>4
    <2>7. Counted(c)'
        BY <2>1, <2>3, <2>5, <2>6 DEF Counted
    <2>8. ~Gone(c) => Len(echoed[c]) = rcvd[c] - Len(msg[c]) + total_written[c]
        BY <2>1 DEF Answered
    <2>9. ~Gone(c) => /\ at'[c] = "read" => Len(echoed'[c]) = rcvd[c]
                      /\ at'[c] = "write" =>
                            Len(echoed'[c]) = rcvd[c] - Len(msg[c]) + total_written'[c]
        <3>1. ~Gone(c) => Len(echoed'[c]) = rcvd[c] - Len(msg[c]) + (total_written[c] + n)
            <4>1. \A e, r, l, w, k \in Nat : e = r - l + w => e + k = r - l + (w + k)
                OBVIOUS
            <4>2. Len(echoed[c]) = rcvd[c] - Len(msg[c]) + total_written[c] =>
                     Len(echoed[c]) + n = rcvd[c] - Len(msg[c]) + (total_written[c] + n)
                <5>1. /\ Len(echoed[c]) \in Nat /\ rcvd[c] \in Nat /\ Len(msg[c]) \in Nat
                      /\ total_written[c] \in Nat /\ n \in Nat
                    BY <1>0, <2>1
                <5> QED BY <5>1, <4>1
            <4> QED BY <2>4, <2>8, <4>2
        <3>2. at'[c] = "read" => total_written[c] + n = Len(msg[c])
            BY <2>3
        <3>3. rcvd[c] - Len(msg[c]) + Len(msg[c]) = rcvd[c]
            BY <1>0
        <3> QED BY <2>3, <3>1, <3>2, <3>3
    <2>10. at'[c] \notin {"close", "closed"} /\ (Gone(c)' <=> Gone(c))
        BY <2>3 DEF Gone
    <2> QED BY <2>3, <2>7, <2>9, <2>10 DEF Answered
<1>5. ASSUME WriteBreaks(c) \/ WriteKilled(c) PROVE Counted(c)' /\ Answered(c)'
    <2>1. /\ at[c] = "write" /\ at'[c] \in {"read", "killed"} /\ peer'[c] = "pipe"
          /\ peer[c] \in {"rst", "pipe"}
          /\ UNCHANGED <<text, acked, rcvd, msg, total_written, echoed>>
        BY <1>t, <1>5 DEF WriteBreaks, WriteKilled, Goto, net, loop
    <2> QED BY <2>1 DEF Counted, Answered, Gone
<1>6. ASSUME Close(c) PROVE Counted(c)' /\ Answered(c)'
    <2>1. /\ at[c] = "close" /\ at'[c] = "closed"
          /\ UNCHANGED <<peer, text, acked, rcvd, msg, total_written, echoed>>
        BY <1>t, <1>6 DEF Close, Goto, net, loop
    <2> QED BY <2>1 DEF Counted, Answered, Gone, IsQuit
<1> QED
    BY <1>1, <1>2, <1>3, <1>4, <1>5, <1>6 DEF LoopStep

\* A "q" that was read stays a "q" when more arrives.
LEMMA QuitStays ==
    ASSUME SessionTypes, NEW c \in Client, Counted(c), msg[c] # << >>,
           NEW b \in Byte, text'[c] = Append(text[c], b)
    PROVE  IsQuit(c, msg[c]) => /\ text'[c][msg[c][1]] = "q"
                                /\ Len(msg[c]) = 1 \/ text'[c][msg[c][2]] = "nul"
<1>0. /\ Len(msg[c]) \in Nat /\ rcvd[c] \in Nat /\ msg[c] \in Seq(Nat)
      /\ Len(text[c]) \in Nat /\ text[c] \in Seq(Byte)
    BY SessionFact
<1>1. Len(msg[c]) > 0
    BY <1>0, EmptySeq
<1>2. ASSUME NEW i \in 1 .. Len(msg[c]) PROVE text'[c][msg[c][i]] = text[c][msg[c][i]]
    <2>1. msg[c][i] = rcvd[c] - Len(msg[c]) + i
        BY DEF Counted
    <2>2. Len(msg[c]) <= rcvd[c] /\ rcvd[c] <= Len(text[c])
        BY DEF Counted
    <2>3. msg[c][i] \in 1 .. Len(text[c])
        BY <1>0, <2>1, <2>2
    <2>4. \A j \in 1 .. Len(text[c]) : Append(text[c], b)[j] = text[c][j]
        BY <1>0, AppendProperties
    <2> QED BY <2>3, <2>4
<1>3. 1 \in 1 .. Len(msg[c]) /\ (Len(msg[c]) # 1 => 2 \in 1 .. Len(msg[c]))
    <2>1. 1 \in 1 .. Len(msg[c])
        BY <1>0, <1>1
    <2>2. Len(msg[c]) # 1 => 2 \in 1 .. Len(msg[c])
        <3> DEFINE k == Len(msg[c])
        <3>1. k \in Nat /\ k > 0
            BY <1>0, <1>1
        <3> HIDE DEF k
        <3>2. k # 1 => 2 \in 1 .. k
            BY <3>1
        <3> QED BY <3>2 DEF k
    <2> QED BY <2>1, <2>2
<1> QED
    BY <1>2, <1>3 DEF IsQuit

\* What the peer does keeps it too.
LEMMA ClientStepKeeps ==
    ASSUME SessionTypes, NEW c \in Client, Counted(c), ClientStep(c),
           NEW d \in Client, Counted(d)
    PROVE  Counted(d)' /\ (Answered(d) => Answered(d)')
<1>0. /\ Len(msg[c]) \in Nat /\ rcvd[c] \in Nat
      /\ acked[c] \in Nat /\ Len(text[c]) \in Nat /\ Len(echoed[c]) \in Nat
      /\ text[c] \in Seq(Byte)
    BY SessionFact
<1>t. /\ peer \in [Client -> {"off", "up", "fin", "rst", "pipe"}]
      /\ at \in [Client -> Place] /\ acked \in [Client -> Nat]
      /\ text \in [Client -> Seq(Byte)]
    BY DEF SessionTypes
<1>1. CASE d # c
    <2>1. /\ peer'[d] = peer[d] /\ text'[d] = text[d] /\ acked'[d] = acked[d]
          /\ at'[d] = at[d] /\ rcvd'[d] = rcvd[d] /\ msg'[d] = msg[d]
          /\ total_written'[d] = total_written[d] /\ echoed'[d] = echoed[d]
        BY <1>t, <1>1 DEF ClientStep, Connect, Send, Drain, Fin, Reset, Goto, loop
    <2> QED BY <2>1, Untouched
<1>2. ASSUME Connect(c)
      PROVE  Counted(c)' /\ (Answered(c) => Answered(c)')
    <2>1. /\ peer[c] = "off" /\ peer'[c] = "up" /\ at'[c] = "backlog"
          /\ UNCHANGED <<text, acked, rcvd, msg, total_written, echoed>>
        BY <1>t, <1>2 DEF Connect, Goto, loop
    <2> QED BY <2>1 DEF Counted, Answered
<1>3. ASSUME Drain(c)
      PROVE  Counted(c)' /\ (Answered(c) => Answered(c)')
    <2>1. /\ acked[c] < Len(echoed[c]) /\ acked'[c] = acked[c] + 1
          /\ UNCHANGED <<peer, text, at, rcvd, msg, total_written, echoed>>
        BY <1>t, <1>3 DEF Drain, loop
    <2>2. acked'[c] <= Len(echoed[c]) /\ Len(echoed[c]) - acked'[c] <= SNDBUF
        BY <1>0, <2>1, SessionAssumption DEF Counted
    <2> QED BY <2>1, <2>2 DEF Counted, Answered, Gone, IsQuit
<1>4. ASSUME Fin(c) \/ Reset(c)
      PROVE  Counted(c)' /\ (Answered(c) => Answered(c)')
    <2>1. /\ peer[c] \in {"up", "fin"} /\ peer'[c] \in {"fin", "rst", "pipe"}
          /\ peer'[c] = "fin" => peer[c] = "up"
          /\ UNCHANGED <<text, acked, at, rcvd, msg, total_written, echoed>>
        BY <1>t, <1>4 DEF Fin, Reset, loop
    <2> QED BY <2>1 DEF Counted, Answered, Gone, IsQuit
<1>5. ASSUME NEW b \in Byte, Send(c, b)
      PROVE  Counted(c)' /\ (Answered(c) => Answered(c)')
    <2>1. /\ peer[c] = "up" /\ text'[c] = Append(text[c], b)
          /\ UNCHANGED <<peer, acked, at, rcvd, msg, total_written, echoed>>
        BY <1>t, <1>5 DEF Send, loop
    <2>2. Len(text'[c]) = Len(text[c]) + 1
        BY <1>0, <2>1, AppendProperties
    <2>3. rcvd[c] <= Len(text'[c])
        BY <1>0, <2>2 DEF Counted
    <2>4. Counted(c)'
        BY <2>1, <2>3 DEF Counted
    <2>5. msg[c] # << >> /\ IsQuit(c, msg[c]) => IsQuit(c, msg[c])'
        BY <2>1, QuitStays DEF IsQuit
    <2>6. ~Gone(c) /\ ~Gone(c)'
        BY <2>1 DEF Gone
    <2> QED BY <2>1, <2>4, <2>5, <2>6 DEF Answered
<1> QED
    BY <1>1, <1>2, <1>3, <1>4, <1>5 DEF ClientStep

\* Accepting a connection changes only where it is.
LEMMA AcceptKeeps ==
    ASSUME SessionTypes, NEW c \in Client, at[c] \in {"backlog", "accepted"},
           NEW l \in {"accepted", "read"}, Goto(c, l), UNCHANGED <<net, loop>>,
           NEW d \in Client, Counted(d)
    PROVE  Counted(d)' /\ (Answered(d) => Answered(d)')
<1>1. at \in [Client -> Place]
    BY DEF SessionTypes
<1>2. UNCHANGED <<peer, text, acked, rcvd, msg, total_written, echoed>>
    BY DEF net, loop
<1>3. CASE d # c
    <2>1. at'[d] = at[d]
        BY <1>1, <1>3 DEF Goto
    <2> QED BY <1>2, <2>1, Untouched
<1>4. CASE d = c
    <2>1. at'[c] = l
        BY <1>1 DEF Goto
    <2>2. Len(echoed[c]) = rcvd[c]
        BY <1>4 DEF Counted
    <2> QED BY <1>2, <1>4, <2>1, <2>2 DEF Counted, Answered, Gone
<1> QED
    BY <1>3, <1>4

\* What write() takes is the next of what the client has sent.
LEMMA EchoesNext ==
    ASSUME SessionTypes, NEW c \in Client, Counted(c), Answered(c), WriteSome(c)
    PROVE  \E n \in 1 .. Len(text[c]) - Len(echoed[c]) :
              echoed' = [echoed EXCEPT ![c] =
                            @ \o [i \in 1 .. n |-> Len(echoed[c]) + i]]
<1> DEFINE n == Portion(c)
           piece == SubSeq(msg[c], total_written[c] + 1, total_written[c] + n)
           next == [i \in 1 .. n |-> Len(echoed[c]) + i]
<1>0. at[c] = "write" /\ ~Gone(c)
    BY DEF WriteSome
<1>1. /\ Len(msg[c]) \in Nat /\ total_written[c] \in Nat /\ rcvd[c] \in Nat
      /\ Len(text[c]) \in Nat /\ Len(echoed[c]) \in Nat /\ Room(c) \in Nat
    BY <1>0, SessionFact
<1>2. /\ total_written[c] < Len(msg[c]) /\ rcvd[c] <= Len(text[c])
      /\ Len(echoed[c]) = rcvd[c] - Len(msg[c]) + total_written[c]
    BY <1>0 DEF Counted, Answered
<1>3. n \in Nat /\ n <= Len(msg[c]) - total_written[c] /\ n > 0
    <2>1. Len(msg[c]) - total_written[c] \in Nat
        BY <1>1, <1>2
    <2>2. n > 0
        BY DEF WriteSome, Portion
    <2> QED BY <1>1, <2>1, <2>2, LeastFact DEF Portion
<1>4. /\ piece \in Seq(Nat) /\ Len(piece) = n
      /\ \A i \in 1 .. n : piece[i] = rcvd[c] - Len(msg[c]) + total_written[c] + i
    BY <1>0, <1>3, PortionFact
<1>5. echoed' = [echoed EXCEPT ![c] = @ \o piece]
    BY DEF WriteSome, Portion
<1> HIDE DEF n, piece
<1>6. next \in Seq(Nat) /\ Len(next) = n /\ \A i \in 1 .. n : next[i] = Len(echoed[c]) + i
    <2>1. \A i \in 1 .. n : Len(echoed[c]) + i \in Nat
        BY <1>1, <1>3
    <2> QED BY <1>3, <2>1
<1>7. \A i \in 1 .. n : next[i] = piece[i]
    BY <1>1, <1>2, <1>4, <1>6
<1> HIDE DEF next
<1>8. next = piece
    BY <1>3, <1>4, <1>6, <1>7, SeqEqual
<1>9. n \in 1 .. Len(text[c]) - Len(echoed[c])
    <2>1. \A t, r, l, w, e, k \in Nat :
             e = r - l + w /\ k <= l - w /\ r <= t => k <= t - e
        OBVIOUS
    <2>2. n <= Len(text[c]) - Len(echoed[c])
        BY <1>1, <1>2, <1>3, <2>1
    <2> QED BY <1>1, <1>3, <2>2
<1> QED
    BY <1>5, <1>8, <1>9 DEF next

\* What was written back is the beginning of what the client has sent.
InOrder(c) ==
    /\ Len(echoed[c]) <= Len(text[c])
    /\ \A i \in 1 .. Len(echoed[c]) : echoed[c][i] = i

\* Neither side's steps put a byte out of order.
LEMMA OrderKept ==
    ASSUME SessionTypes, NEW c \in Client, Counted(c), Answered(c), InOrder(c),
           LoopStep(c) \/ Close(c) \/ ClientStep(c)
    PROVE  InOrder(c)'
<1>0. /\ Len(text[c]) \in Nat /\ Len(echoed[c]) \in Nat /\ echoed[c] \in Seq(Nat)
      /\ text[c] \in Seq(Byte)
      /\ text \in [Client -> Seq(Byte)] /\ echoed \in [Client -> Seq(Nat)]
    BY SessionFact DEF SessionTypes
<1>1. CASE WriteSome(c)
    <2>1. PICK n \in 1 .. Len(text[c]) - Len(echoed[c]) :
             echoed' = [echoed EXCEPT ![c] =
                           @ \o [i \in 1 .. n |-> Len(echoed[c]) + i]]
        BY <1>1, EchoesNext
    <2> DEFINE next == [i \in 1 .. n |-> Len(echoed[c]) + i]
    <2>2. n \in Nat /\ Len(echoed[c]) + n <= Len(text[c])
        BY <1>0
    <2>3. next \in Seq(Nat) /\ Len(next) = n /\ \A i \in 1 .. n : next[i] = Len(echoed[c]) + i
        <3>1. \A i \in 1 .. n : Len(echoed[c]) + i \in Nat
            BY <1>0
        <3> QED BY <2>2, <3>1
    <2>4. text' = text /\ echoed'[c] = echoed[c] \o next
        BY <1>0, <1>1, <2>1 DEF WriteSome, net
    <2> HIDE DEF next
    <2>5. /\ Len(echoed'[c]) = Len(echoed[c]) + n
          /\ \A i \in 1 .. Len(echoed[c]) + n :
                echoed'[c][i] = IF i <= Len(echoed[c]) THEN echoed[c][i]
                                ELSE next[i - Len(echoed[c])]
        BY <1>0, <2>3, <2>4, ConcatProperties
    <2>6. ASSUME NEW i \in 1 .. Len(echoed[c]) + n PROVE echoed'[c][i] = i
        <3>1. CASE i <= Len(echoed[c])
            <4>1. i \in 1 .. Len(echoed[c])
                BY <1>0, <2>2, <3>1
            <4> QED BY <2>5, <3>1, <4>1 DEF InOrder
        <3>2. CASE ~(i <= Len(echoed[c]))
            <4>1. /\ i - Len(echoed[c]) \in 1 .. n
                  /\ Len(echoed[c]) + (i - Len(echoed[c])) = i
                BY <1>0, <2>2, <3>2
            <4> QED BY <2>3, <2>5, <3>2, <4>1
        <3> QED BY <3>1, <3>2
    <2> QED BY <2>2, <2>4, <2>5, <2>6 DEF InOrder
<1>2. ASSUME NEW b \in Byte, Send(c, b) PROVE InOrder(c)'
    <2>1. text'[c] = Append(text[c], b) /\ echoed' = echoed
        BY <1>0, <1>2 DEF Send, loop
    <2>2. Len(text'[c]) = Len(text[c]) + 1
        BY <1>0, <2>1, AppendProperties
    <2>3. Len(echoed[c]) <= Len(text'[c])
        BY <1>0, <2>2 DEF InOrder
    <2> QED BY <2>1, <2>3 DEF InOrder
<1>3. CASE UNCHANGED <<text, echoed>>
    BY <1>3 DEF InOrder
<1> QED
    BY <1>1, <1>2, <1>3
    DEF LoopStep, Read, ReadEnds, WriteBreaks, WriteKilled, Close, ClientStep, Connect,
        Drain, Fin, Reset, net, loop

-----------------------------------------------------------------------------
(* The accept queue *)

\* The accept queue holds connections that wait, each of them once.
Queue ==
    /\ \A i \in 1 .. Len(backlog) : at[backlog[i]] = "backlog"
    /\ \A i, j \in 1 .. Len(backlog) : backlog[i] = backlog[j] => i = j

\* The first connection of the queue leaves it and the others stay.
LEMMA QueueMoves ==
    ASSUME SessionTypes, Queue, backlog # << >>
    PROVE  /\ Head(backlog) \in Client /\ at[Head(backlog)] = "backlog"
           /\ Tail(backlog) \in Seq(Client)
           /\ \A i \in 1 .. Len(Tail(backlog)) :
                 at[Tail(backlog)[i]] = "backlog" /\ Tail(backlog)[i] # Head(backlog)
           /\ \A i, j \in 1 .. Len(Tail(backlog)) :
                 Tail(backlog)[i] = Tail(backlog)[j] => i = j
<1>1. /\ backlog \in Seq(Client) /\ Len(backlog) \in Nat /\ Len(backlog) > 0
    BY EmptySeq, LenProperties DEF SessionTypes
<1>2. /\ Head(backlog) = backlog[1] /\ Head(backlog) \in Client
      /\ Tail(backlog) \in Seq(Client) /\ Len(Tail(backlog)) = Len(backlog) - 1
      /\ \A i \in 1 .. Len(Tail(backlog)) : Tail(backlog)[i] = backlog[i + 1]
    BY <1>1, HeadTailProperties, ElementOfSeq
<1>3. 1 \in 1 .. Len(backlog)
    BY <1>1
<1>4. ASSUME NEW i \in 1 .. Len(Tail(backlog))
      PROVE  i + 1 \in 1 .. Len(backlog) /\ i + 1 # 1
    BY <1>1, <1>2
<1>5. \A i, j \in 1 .. Len(Tail(backlog)) : i + 1 = j + 1 => i = j
    BY <1>1, <1>2
<1>6. at[Head(backlog)] = "backlog"
    BY <1>2, <1>3 DEF Queue
<1>7. \A i \in 1 .. Len(Tail(backlog)) :
         at[Tail(backlog)[i]] = "backlog" /\ Tail(backlog)[i] # Head(backlog)
    BY <1>2, <1>3, <1>4 DEF Queue
<1>8. \A i, j \in 1 .. Len(Tail(backlog)) : Tail(backlog)[i] = Tail(backlog)[j] => i = j
    BY <1>2, <1>4, <1>5 DEF Queue
<1> QED
    BY <1>2, <1>6, <1>7, <1>8

\* Only connect() adds to the queue, and only at its end.
LEMMA ClientStepQueues ==
    ASSUME SessionTypes, Queue, NEW c \in Client, Counted(c), ClientStep(c)
    PROVE  Queue'
<1>0. /\ backlog \in Seq(Client) /\ Len(backlog) \in Nat
      /\ at \in [Client -> Place]
      /\ \A i \in 1 .. Len(backlog) : backlog[i] \in Client
    <2>1. backlog \in Seq(Client) /\ at \in [Client -> Place]
        BY DEF SessionTypes
    <2> QED BY <2>1, LenProperties, ElementOfSeq
<1>1. CASE Connect(c)
    <2>1. at[c] = "off"
        BY <1>1 DEF Connect, Counted
    <2>2. backlog' = Append(backlog, c) /\ at'[c] = "backlog"
          /\ \A d \in Client \ {c} : at'[d] = at[d]
        BY <1>0, <1>1 DEF Connect, Goto
    <2>3. \A i \in 1 .. Len(backlog) :
             backlog[i] # c /\ at'[backlog[i]] = "backlog"
        BY <1>0, <2>1, <2>2 DEF Queue
    <2>4. /\ Len(backlog') = Len(backlog) + 1
          /\ \A i \in 1 .. Len(backlog) : backlog'[i] = backlog[i]
          /\ backlog'[Len(backlog) + 1] = c
        BY <1>0, <2>2, AppendProperties
    <2>5. ASSUME NEW i \in 1 .. Len(backlog')
          PROVE  i \in 1 .. Len(backlog) \/ i = Len(backlog) + 1
        BY <1>0, <2>4
    <2>6. \A i \in 1 .. Len(backlog') : at'[backlog'[i]] = "backlog"
        BY <2>2, <2>3, <2>4, <2>5
    <2>7. \A i, j \in 1 .. Len(backlog') : backlog'[i] = backlog'[j] => i = j
        BY <1>0, <2>3, <2>4, <2>5 DEF Queue
    <2> QED BY <2>6, <2>7 DEF Queue
<1>2. CASE ~Connect(c)
    <2>1. UNCHANGED <<backlog, at>>
        BY <1>2 DEF ClientStep, Drain, Fin, Reset, Send
    <2> QED BY <1>0, <2>1 DEF Queue
<1> QED BY <1>1, <1>2

\* The loop serves connections that have left the queue.
LEMMA LoopStepQueues ==
    ASSUME SessionTypes, Queue, NEW c \in Client, LoopStep(c) \/ Close(c)
    PROVE  Queue'
<1>1. /\ backlog \in Seq(Client) /\ at \in [Client -> Place]
      /\ \A i \in 1 .. Len(backlog) : backlog[i] \in Client
    BY ElementOfSeq DEF SessionTypes
<1>2. /\ at[c] # "backlog" /\ UNCHANGED backlog
      /\ \A d \in Client \ {c} : at'[d] = at[d]
    BY <1>1
    DEF LoopStep, Read, ReadEnds, WriteSome, WriteBreaks, WriteKilled, Close, Goto
<1> QED
    BY <1>1, <1>2 DEF Queue

\* accept() takes the first connection and leaves the others as they are.
LEMMA AcceptQueues ==
    ASSUME SessionTypes, Queue, backlog # << >>, backlog' = Tail(backlog),
           NEW l \in {"accepted", "read"}, Goto(Head(backlog), l),
           UNCHANGED <<net, loop>>
    PROVE  /\ Head(backlog) \in Client /\ at[Head(backlog)] = "backlog"
           /\ SessionTypes' /\ Queue'
           /\ \A d \in Client :
                 Counted(d) => Counted(d)' /\ (Answered(d) => Answered(d)')
<1> DEFINE c == Head(backlog)
           rest == Tail(backlog)
<1>1. /\ c \in Client /\ at[c] = "backlog" /\ rest \in Seq(Client)
      /\ \A i \in 1 .. Len(rest) : at[rest[i]] = "backlog" /\ rest[i] # c
      /\ \A i, j \in 1 .. Len(rest) : rest[i] = rest[j] => i = j
    BY QueueMoves
<1>2. backlog' = rest /\ Goto(c, l)
    OBVIOUS
<1>3. at \in [Client -> Place]
    BY DEF SessionTypes
<1> HIDE DEF c, rest
<1>4. \A i \in 1 .. Len(rest) : rest[i] \in Client
    BY <1>1, ElementOfSeq
<1>5. SessionTypes'
    <2>1. at' \in [Client -> Place]
        BY <1>1, <1>2, <1>3 DEF Goto, Place
    <2>2. backlog' \in Seq(Client)
        BY <1>1, <1>2
    <2>3. UNCHANGED <<peer, text, acked, rcvd, msg, total_written, echoed>>
        BY DEF net, loop
    <2> QED BY <2>1, <2>2, <2>3 DEF SessionTypes
<1>6. ASSUME NEW d \in Client, Counted(d)
      PROVE  Counted(d)' /\ (Answered(d) => Answered(d)')
    BY <1>1, <1>2, <1>6, AcceptKeeps
<1>7. Queue'
    BY <1>1, <1>2, <1>3, <1>4 DEF Queue, Goto
<1> QED
    BY <1>1, <1>5, <1>6, <1>7 DEF c

\* Nothing is sent, read or waiting before the first step.
LEMMA SessionBegins ==
    ASSUME NEW p, NEW l, SessionStart(p, l),
           (p = "off" /\ l = "off") \/ (p = "up" /\ l = "read")
    PROVE  /\ SessionTypes /\ Queue
           /\ \A c \in Client : Counted(c) /\ Answered(c)
<1>1. /\ << >> \in Seq(Byte) /\ << >> \in Seq(Nat) /\ << >> \in Seq(Client)
      /\ Len(<< >>) = 0
    OBVIOUS
<1>2. SessionTypes
    BY <1>1 DEF SessionStart, SessionTypes, Place
<1>3. Queue
    BY DEF SessionStart, Queue
<1>4. ASSUME NEW c \in Client PROVE Counted(c) /\ Answered(c)
    <2>1. /\ peer[c] = p /\ at[c] = l /\ acked[c] = 0 /\ rcvd[c] = 0
          /\ Len(echoed[c]) = 0 /\ Len(text[c]) = 0 /\ Len(msg[c]) = 0
        BY DEF SessionStart
    <2>2. SNDBUF \in Nat
        BY SessionAssumption
    <2> QED BY <2>1, <2>2 DEF Counted, Answered
<1> QED
    BY <1>2, <1>3, <1>4
=============================================================================
