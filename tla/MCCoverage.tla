----------------------------- MODULE MCCoverage -----------------------------
(* Instances of Coverage for TLC. *)
EXTENDS Coverage

DirectOnly == <<"direct">>
DirectThenSync == <<"direct", "sync">>
=============================================================================
