---------------------------- MODULE EchoService ----------------------------
(***************************************************************************)
(* What every echo server of seminar 10 promises a client, with nothing    *)
(* said of sockets, buffers or readiness: the bytes a client gets back are *)
(* the bytes it has sent, in the same order, none missing in between, none *)
(* repeated and none before it was sent; nothing is sent back outside a    *)
(* session.  A session may be cut off at any moment.  The k-th byte of a   *)
(* client is written as the number k.                                      *)
(***************************************************************************)
EXTENDS Naturals, Sequences

CONSTANT Client

VARIABLES
    session,    \* "idle" before accept(), "open", "closed" for ever after
    sent,       \* how many bytes the client has sent
    echoed      \* the bytes the server has written back, in order

echoVars == <<session, sent, echoed>>

EchoInit ==
    /\ session = [c \in Client |-> "idle"]
    /\ sent = [c \in Client |-> 0]
    /\ echoed = [c \in Client |-> << >>]

Open(c) ==
    /\ session[c] = "idle"
    /\ session' = [session EXCEPT ![c] = "open"]
    /\ UNCHANGED <<sent, echoed>>

Receive(c) ==
    /\ session[c] # "closed"
    /\ sent' = [sent EXCEPT ![c] = @ + 1]
    /\ UNCHANGED <<session, echoed>>

\* Any number of the bytes still owed go back at once, oldest first.
Echo(c) ==
    /\ session[c] = "open"
    /\ \E n \in 1 .. sent[c] - Len(echoed[c]) :
          echoed' = [echoed EXCEPT ![c] =
                        @ \o [i \in 1 .. n |-> Len(echoed[c]) + i]]
    /\ UNCHANGED <<session, sent>>

\* One session ends, or all of them when the server process dies.
Close(S) ==
    /\ S # {}
    /\ session' = [c \in Client |-> IF c \in S THEN "closed" ELSE session[c]]
    /\ UNCHANGED <<sent, echoed>>

EchoNext ==
    \/ \E c \in Client : Open(c) \/ Receive(c) \/ Echo(c)
    \/ \E S \in SUBSET Client : Close(S)

EchoSpec == EchoInit /\ [][EchoNext]_echoVars
=============================================================================
