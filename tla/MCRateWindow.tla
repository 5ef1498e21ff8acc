---------------------------- MODULE MCRateWindow ----------------------------
(* Instances of RateWindow for TLC: client a sends through two interfaces   *)
(* of one zone and receives, client b competes with it for the last place.  *)
EXTENDS RateWindow

K(c, d, i) == [client |-> c, dir |-> d, iface |-> i]

RoamingClient ==
  << K("a", "tx", "lan1"), K("b", "tx", "lan1"), K("a", "tx", "lan2"), K("a", "rx", "lan1") >>
=============================================================================
