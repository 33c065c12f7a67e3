--------------------------- MODULE MCEpollServer ---------------------------
(***************************************************************************)
(* The epoll echo server on small instances.                               *)
(***************************************************************************)
EXTENDS EpollServer, TLC

\* The clients are interchangeable; used for safety only.
Symmetry == Permutations(Client)
=============================================================================
