---------------------------- MODULE MCCollectors ----------------------------
(* Instances of Collectors for TLC. *)
EXTENDS Collectors, TLC

CONSTANTS m1, m2, i1, i2

TwoMacs == {m1, m2}
TwoIps == {i1, i2}
Symmetric == Permutations(TwoMacs) \union Permutations(TwoIps)

\* The default, the fallback switched off, and the fallback forced back on.
SomeConfigs ==
  {[rate |-> "auto", conn |-> "auto", fallback |-> TRUE],
   [rate |-> "auto", conn |-> "auto", fallback |-> FALSE],
   [rate |-> "auto", conn |-> "netlink", fallback |-> FALSE]}

\* A device without NSS, one with conntrack sync only, one with ECM's state too.
SomeCaps == {{"acct"}, {"nss", "acct"}, {"nss", "direct", "acct"}}
=============================================================================
