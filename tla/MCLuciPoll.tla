----------------------------- MODULE MCLuciPoll -----------------------------
(* The instance TLC checks: three timeouts, any order of clicks and answers. *)
EXTENDS LuciPoll

CONSTANTS t1, t2, t3, p1, p2, p3, p4
=============================================================================
