-------------------------------- MODULE Ring --------------------------------
(***************************************************************************)
(* The ring buffer behind coverage_ring and overview_ring of lanspeedd.c:  *)
(* an array of a fixed size, the next slot to write and the number of      *)
(* slots in use. Clearing a ring leaves the array as it was.               *)
(***************************************************************************)
EXTENDS Naturals, Sequences

Rings(size, S) == [slot : [0..size-1 -> S], head : 0..size-1, count : 0..size]

EmptyRing(size, filler) == [slot |-> [n \in 0..size-1 |-> filler], head |-> 0, count |-> 0]

\* Mutant of Push: the write position does not wrap.
PushUnwrapped(ring, size, s) ==
  [slot |-> [ring.slot EXCEPT ![ring.head] = s],
   head |-> ring.head + 1,
   count |-> IF ring.count < size THEN ring.count + 1 ELSE ring.count]

\* Writes the slot at the head; a full ring loses its oldest sample.
Push(ring, size, s) ==
  [slot |-> [ring.slot EXCEPT ![ring.head] = s],
   head |-> (ring.head + 1) % size,
   count |-> IF ring.count < size THEN ring.count + 1 ELSE ring.count]

Clear(ring) == [slot |-> ring.slot, head |-> 0, count |-> 0]

\* The sample `back` places before the newest, for back < count.
SampleAt(ring, size, back) == ring.slot[(ring.head + size - 1 - back) % size]
=============================================================================
