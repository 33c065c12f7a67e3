----------------------------- MODULE ForkServer -----------------------------
(***************************************************************************)
(* sem10-net-sockets/snippets/tcp-fork/tcp_server.c: the parent accepts    *)
(* and forks a child for each connection; the child runs the loop of       *)
(* TcpSession; a SIGCHLD handler reaps the children that have exited.      *)
(*                                                                         *)
(* SIGCHLD is not queued: children that exit while it is pending share one *)
(* delivery, and it stays blocked while its handler runs.  The handler     *)
(* interrupts the parent between any two of its calls; SA_RESTART resumes  *)
(* accept().                                                               *)
(***************************************************************************)
EXTENDS TcpSession

CONSTANT Nobody     \* no client: the parent's client_fd before accept()

ASSUME ForkAssumption == Nobody \notin Client

VARIABLES
    pc,         \* where the parent is: "accept", "fork", "parent", "failed"
    client_fd,  \* the client whose socket the parent holds
    child,      \* the process of a client: "none", "running", "zombie", "reaped"
    child_fd,   \* the clients whose socket is open in their child
    pending,    \* SIGCHLD is pending
    handler     \* sigchld_handler(): "off", "reaping" or about to "return"

parent  == <<pc, client_fd>>
process == <<child, child_fd>>
signal  == <<pending, handler>>
vars    == <<session, parent, process, signal>>
-----------------------------------------------------------------------------
(* The parent: main() *)

\* The parent's code runs while the handler does not.
At(l) == pc = l /\ handler = "off"

Accept ==
    /\ At("accept")
    /\ backlog # << >>
    /\ backlog' = Tail(backlog)
    /\ client_fd' = Head(backlog)
    /\ Goto(Head(backlog), "accepted")
    /\ pc' = "fork"
    /\ UNCHANGED <<net, loop, process, signal>>

\* The child starts with copies of the parent's descriptors.
Fork ==
    /\ At("fork")
    /\ pc' = "parent"
    /\ child' = [child EXCEPT ![client_fd] = "running"]
    /\ child_fd' = child_fd \cup {client_fd}
    /\ Goto(client_fd, "read")
    /\ UNCHANGED <<net, loop, backlog, client_fd, signal>>

ForkFails ==
    /\ At("fork")
    /\ pc' = "failed"
    /\ UNCHANGED <<session, client_fd, process, signal>>

\* Deviation: the parent does not close its descriptor (line 153).
ParentKeepsFd ==
    /\ pc \in {"parent", "failed"} /\ handler = "off"
    /\ pc' = "accept"
    /\ UNCHANGED <<session, client_fd, process, signal>>

\* Deviation: the parent waits for the child before it goes on.
ParentWaits ==
    /\ pc \in {"parent", "failed"} /\ handler = "off"
    /\ child[client_fd] # "running"
    /\ client_fd' = Nobody
    /\ pc' = "accept"
    /\ IF pc = "failed" THEN Goto(client_fd, "closed") ELSE UNCHANGED at
    /\ UNCHANGED <<net, loop, backlog, process, signal>>

\* close(client_fd), in both branches; after a failed fork() the parent's is
\* the only descriptor.
ParentClose ==
    /\ pc \in {"parent", "failed"} /\ handler = "off"
    /\ client_fd' = Nobody
    /\ pc' = "accept"
    /\ IF pc = "failed" THEN Goto(client_fd, "closed") ELSE UNCHANGED at
    /\ UNCHANGED <<net, loop, backlog, process, signal>>
-----------------------------------------------------------------------------
(* sigchld_handler() *)

Deliver ==
    /\ pending
    /\ handler = "off"
    /\ pending' = FALSE
    /\ handler' = "reaping"
    /\ UNCHANGED <<session, parent, process>>

\* Deviation: if in place of while in line 83.
ReapOne(c) ==
    /\ handler = "reaping"
    /\ child[c] = "zombie"
    /\ child' = [child EXCEPT ![c] = "reaped"]
    /\ handler' = "return"
    /\ UNCHANGED <<session, parent, child_fd, pending>>

\* waitpid() finds a child that has exited.
Reap(c) ==
    /\ handler = "reaping"
    /\ child[c] = "zombie"
    /\ child' = [child EXCEPT ![c] = "reaped"]
    /\ UNCHANGED <<session, parent, child_fd, signal>>

\* waitpid() finds none.
ReapNone ==
    /\ handler = "reaping"
    /\ \A c \in Client : child[c] # "zombie"
    /\ handler' = "return"
    /\ UNCHANGED <<session, parent, process, pending>>

Return ==
    /\ handler = "return"
    /\ handler' = "off"
    /\ UNCHANGED <<session, parent, process, pending>>
-----------------------------------------------------------------------------
(* The children *)

ChildLoop(c) ==
    /\ child[c] = "running"
    /\ LoopStep(c)
    /\ UNCHANGED <<parent, process, signal>>

ChildClose(c) ==
    /\ child[c] = "running"
    /\ Close(c)
    /\ child_fd' = child_fd \ {c}
    /\ UNCHANGED <<parent, child, signal>>

\* exit(), or the end by SIGPIPE: what is still open is closed.
ChildEnds(c) ==
    /\ child[c] = "running"
    /\ Over(c)
    /\ child' = [child EXCEPT ![c] = "zombie"]
    /\ child_fd' = child_fd \ {c}
    /\ pending' = TRUE
    /\ UNCHANGED <<session, parent, handler>>
-----------------------------------------------------------------------------
Init ==
    /\ SessionInit
    /\ pc = "accept"
    /\ client_fd = Nobody
    /\ child = [c \in Client |-> "none"]
    /\ child_fd = {}
    /\ pending = FALSE
    /\ handler = "off"

Parent == Accept \/ Fork \/ ForkFails \/ ParentClose

Handler == Deliver \/ (\E c \in Client : Reap(c)) \/ ReapNone \/ Return

Child(c) == ChildLoop(c) \/ ChildClose(c) \/ ChildEnds(c)

Network(c) == ClientStep(c) /\ UNCHANGED <<parent, process, signal>>

Next ==
    \/ Parent \/ Handler
    \/ \E c \in Client : Child(c) \/ Network(c)

Spec == Init /\ [][Next]_vars

(* Every process is scheduled, a pending signal is delivered, and clients   *)
(* take what they are sent.                                                 *)
Fairness ==
    /\ WF_vars(Handler)
    /\ WF_vars(Parent)
    /\ \A c \in Client : WF_vars(Child(c)) /\ WF_vars(Drain(c) /\ Network(c))

FairSpec == Spec /\ Fairness
-----------------------------------------------------------------------------
(* Properties *)

\* One SIGCHLD may stand for many children, and still no zombie is forgotten:
\* while there is one, a delivery is due or the handler is in its loop.
ZombieNoticed ==
    (\E c \in Client : child[c] = "zombie") => pending \/ handler = "reaping"

\* A connection that is over leaves no descriptor behind: neither in the
\* parent, which would keep it from ever being closed, nor in the child.
SocketReleased ==
    \A c \in Client :
        /\ child[c] \in {"zombie", "reaped"} => c \notin child_fd
        /\ pc = "accept" => c # client_fd
        /\ at[c] \in {"read", "write", "close"} =>
              c \in child_fd /\ child[c] = "running"

\* Neither a client that keeps its connection nor one whose child is killed
\* keeps the others from being accepted, and every child that has exited is
\* reaped.
NobodyLeftBehind ==
    \A c \in Client :
        /\ at[c] = "backlog" ~> at[c] # "backlog"
        /\ child[c] = "zombie" ~> child[c] = "reaped"
=============================================================================
