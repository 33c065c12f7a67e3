------------------------------ MODULE UdpEcho ------------------------------
(***************************************************************************)
(* sem10-net-sockets/snippets/udp: udp_client.c sends each word it reads   *)
(* as a datagram and waits for one in return; udp_server.c sends back what *)
(* it receives.                                                            *)
(*                                                                         *)
(* A datagram is the number of its word, 0 an empty one of somebody else's *)
(* (no word is empty).  The network, external, loses, repeats and reorders *)
(* datagrams, and a sendto() that fails is a loss: neither program looks.  *)
(***************************************************************************)
EXTENDS Naturals, Sequences, FiniteSets

CONSTANTS
    MaxWords,       \* bound: the words typed
    MaxCopies       \* bound: how many datagrams are repeated

VARIABLES
    program,
    client,     \* "scanf", "recvfrom", "end"
    server,     \* "recvfrom", "end"
    words,      \* how many words the client has sent
    toServer, toClient,     \* the datagrams on their way
    answers,    \* what the client has printed
    (* History *)
    lost,       \* words of which a datagram was lost
    copies      \* how many datagrams were repeated

network == <<toServer, toClient, lost, copies>>
vars    == <<program, client, server, words, toServer, toClient, answers, lost, copies>>
-----------------------------------------------------------------------------
(* udp_client.c *)

\* Deviation: the client sends the next word without waiting for an answer.
SendAhead ==
    /\ client \in {"scanf", "recvfrom"}
    /\ words < MaxWords
    /\ words' = words + 1
    /\ toServer' = toServer \cup {words'}
    /\ client' = "recvfrom"
    /\ UNCHANGED <<program, server, toClient, answers, lost, copies>>

Send ==
    /\ client = "scanf"
    /\ words < MaxWords
    /\ words' = words + 1
    /\ toServer' = toServer \cup {words'}
    /\ client' = "recvfrom"
    /\ UNCHANGED <<program, server, toClient, answers, lost, copies>>

\* The answer is printed; it may be to any word, and from anyone.
Receive(d) ==
    /\ client = "recvfrom" /\ d \in toClient
    /\ answers' = Append(answers, d)
    /\ toClient' = toClient \ {d}
    /\ client' = "scanf"
    /\ UNCHANGED <<program, server, words, toServer, lost, copies>>

\* scanf() returns EOF, or received_bytes is 0.
EndClient ==
    /\ client = "scanf" \/ (client = "recvfrom" /\ 0 \in toClient)
    /\ client' = "end"
    /\ UNCHANGED <<program, server, words, network, answers>>
-----------------------------------------------------------------------------
(* udp_server.c *)

Echo(d) ==
    /\ server = "recvfrom" /\ d \in toServer \ {0}
    /\ toServer' = toServer \ {d}
    /\ toClient' = toClient \cup {d}
    /\ UNCHANGED <<program, client, server, words, answers, lost, copies>>

\* received_bytes is 0: the server takes an empty datagram for an error.
EmptyEnds ==
    /\ server = "recvfrom" /\ 0 \in toServer
    /\ toServer' = toServer \ {0}
    /\ server' = "end"
    /\ UNCHANGED <<program, client, words, toClient, answers, lost, copies>>
-----------------------------------------------------------------------------
(* The network, and somebody else on it *)

Lose(d) ==
    /\ \/ d \in toServer /\ toServer' = toServer \ {d} /\ UNCHANGED toClient
       \/ d \in toClient /\ toClient' = toClient \ {d} /\ UNCHANGED toServer
    /\ lost' = lost \cup {d}
    /\ UNCHANGED <<program, client, server, words, answers, copies>>

\* A datagram sent earlier arrives again.
Repeat(d) ==
    /\ copies < MaxCopies
    /\ d <= words
    /\ copies' = copies + 1
    /\ \/ toServer' = toServer \cup {d} /\ UNCHANGED toClient
       \/ d \in {answers[k] : k \in DOMAIN answers}
          /\ toClient' = toClient \cup {d} /\ UNCHANGED toServer
    /\ UNCHANGED <<program, client, server, words, answers, lost>>

\* Somebody else sends an empty datagram.  One that is not empty is assumed away: the
\* client would take it for its answer.
SendEmpty ==
    /\ \/ toServer' = toServer \cup {0} /\ UNCHANGED toClient
       \/ toClient' = toClient \cup {0} /\ UNCHANGED toServer
    /\ UNCHANGED <<program, client, server, words, answers, lost, copies>>
-----------------------------------------------------------------------------
Init ==
    /\ program = "udp"
    /\ client = "scanf"
    /\ server = "recvfrom"
    /\ words = 0
    /\ toServer = {}
    /\ toClient = {}
    /\ answers = << >>
    /\ lost = {}
    /\ copies = 0

Client == Send \/ EndClient \/ \E d \in 1 .. MaxWords : Receive(d)
Server == EmptyEnds \/ \E d \in 1 .. MaxWords : Echo(d)

Next ==
    \/ Client \/ Server \/ SendEmpty
    \/ \E d \in 1 .. MaxWords : Lose(d) \/ Repeat(d)
-----------------------------------------------------------------------------
(* Properties *)

\* Each word is sent after the answer to the one before: as long as no datagram
\* is repeated each answer is to the word just sent, however the network
\* delays and reorders.  With copies an answer may be an older word's, but
\* never a later one's, and each answer too many is a copy's.
AnswersInStep ==
    /\ copies = 0 => \A k \in DOMAIN answers : answers[k] = k
    /\ \A k \in DOMAIN answers : answers[k] <= k
    /\ Len(answers) - Cardinality({answers[k] : k \in DOMAIN answers}) <= copies

\* The client waits for an answer that will not come: a datagram of its word
\* was lost, or an empty datagram has ended the server.
Waits ==
    client = "recvfrom" /\ (words \in lost \/ server = "end")
=============================================================================
