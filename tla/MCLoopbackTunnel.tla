-------------------------- MODULE MCLoopbackTunnel --------------------------
(* Small instances of LoopbackTunnel. *)
EXTENDS LoopbackTunnel

CONSTANTS c1, c2

\* Data alone, and two frames of it behind another, in one message.
MCMessages == {<<"data">>, <<"other", "data", "data">>}
\* One connection has something to say, the other comes and goes.
MCMaxData == [c \in Conns |-> IF c = c1 THEN 3 ELSE 0]
MCMaxSends == [c \in Conns |-> IF c = c1 THEN 1 ELSE 0]
=============================================================================
