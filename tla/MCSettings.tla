----------------------------- MODULE MCSettings -----------------------------
(***************************************************************************)
(* Two sessions; br-lan and lan1 may be collected on, wan only observed.   *)
(***************************************************************************)
EXTENDS Settings

CONSTANTS s1, s2

Shipped ==
  [rate |-> "auto", conn |-> "auto", legacy |-> "auto", window |-> 10000, minbps |-> 1,
   refresh |-> 1000, overview |-> 240,
   ifname |-> <<"br-lan">>, include |-> <<"br-lan">>, observe |-> <<>>]

\* An old file; one with junk and a daemon too small; one with numbers below
\* zero and interfaces entered by hand; one with numbers too large.
Edited ==
  {[Shipped EXCEPT !.rate = Absent, !.conn = Absent, !.legacy = "conntrack_procfs",
                   !.window = 500, !.minbps = 0, !.overview = 1000],
   [Shipped EXCEPT !.rate = "fast", !.conn = Junk, !.legacy = "auto", !.window = Junk, !.minbps = Junk,
                   !.refresh = Junk, !.overview = 1],
   [Shipped EXCEPT !.rate = "fast", !.legacy = "bpf", !.window = 0, !.minbps = -1, !.refresh = -5,
                   !.overview = -1, !.ifname = <<"wan", "lan1">>, !.include = <<"br-lan", "lan1">>,
                   !.observe = <<"br-lan", "wan", "wan">>],
   [Shipped EXCEPT !.window = Word, !.minbps = Exact + 1, !.refresh = IntWidth \div 2,
                   !.overview = IntWidth + 10]}

Files == {Shipped} \union Edited

Typed ==
  {[rate |-> "bpf", conn |-> "auto", window |-> ExponentFrom, minbps |-> -7],
   [rate |-> "auto", conn |-> "conntrack_netlink", window |-> Exact + 3, minbps |-> Junk]}

Picked ==
  {[d \in {"br-lan", "wan"} |-> IF d = "wan" THEN "observe" ELSE "collect"],
   [d \in {"br-lan", "lan1"} |-> "collect"],
   [d \in {"br-lan", "wan"} |-> "off"]}
=============================================================================
