----------------------------- MODULE MCTcpChat -----------------------------
(* The lines typed in the runs of TcpChat. *)
EXTENDS TcpChat

CONSTANT c1

MCClient == {c1}

MCLine == {<<"q">>, <<"x">>, <<"q", "x">>, <<"x", "x", "q">>}
=============================================================================
