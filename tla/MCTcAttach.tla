----------------------------- MODULE MCTcAttach -----------------------------
(* Instances of TcAttach for TLC. *)
EXTENDS TcAttach

OneIface == <<"lan1">>
TwoIfaces == <<"lan1", "lan2">>
=============================================================================
