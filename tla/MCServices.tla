----------------------------- MODULE MCServices -----------------------------
(***************************************************************************)
(* Most of the budget goes to one service at a time, some of it to all.    *)
(***************************************************************************)
EXTENDS Services

CONSTANTS m1, m2, a1, a2, lo, tv, pc, nas

Lease(m, a, n) == [mac |-> m, ip |-> a, name |-> n]
Host(a, n) == [ip |-> a, name |-> n]

WrittenLeases ==
  {<<Lease(m1, a1, tv), Lease(m1, a2, pc)>>, <<Lease(m2, a1, Nameless), Lease(m1, a1, nas)>>}

WrittenHosts == {<<Host(a2, nas), Host(lo, tv), Host(a2, tv)>>}

Addresses == {<<>>, <<a1>>, <<a2, a1>>, <<lo>>}

Links == <<"br-lan", "wan">>
Senders == <<"a", "b">>

None == [b \in Bounded |-> 0]
BudgetChoices ==
  {[None EXCEPT !.time = 3, !.calls = 2, !.writes = 3],
   [None EXCEPT !.time = 2, !.polls = 3, !.moves = 3],
   [None EXCEPT !.time = 2, !.collects = 2, !.calls = 1, !.frames = 3],
   [None EXCEPT !.time = 1, !.calls = 4, !.collects = 2, !.frames = 1],
   [b \in Bounded |-> IF b = "moves" THEN 0 ELSE 1]}
=============================================================================
