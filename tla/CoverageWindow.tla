--------------------------- MODULE CoverageWindow ---------------------------
(***************************************************************************)
(* What the coverage figure of `status` promises: it compares the newest   *)
(* of the last Window readings with the oldest complete one among them,    *)
(* and starts over when the two show that a counter went down.             *)
(***************************************************************************)
EXTENDS Naturals, Sequences

CONSTANTS
  Window,     \* LANSPEED_COVERAGE_WINDOW
  MinWindow,  \* LANSPEED_COVERAGE_MIN_WINDOW_MS
  MinDenom    \* LANSPEED_COVERAGE_MIN_DENOM_BYTES

VARIABLES
  reading,    \* [ts, iface, client, supported]: what a status call would sample
  window,     \* the readings compared, oldest first
  report      \* what the last status call said

Complete(s) == s.iface.ok /\ s.client.ok
Report(q, ms, denom, numer) == [quality |-> q, ms |-> ms, denom |-> denom, numer |-> numer]
Warmup == Report("warmup", 0, 0, 0)

\* The verdict of add_coverage_to_status on two complete readings.
Judge(newest, oldest) ==
  LET ms == newest.ts - oldest.ts
      denom == newest.iface.bytes - oldest.iface.bytes
      numer == newest.client.bytes - oldest.client.bytes
  IN IF \/ newest.iface.bytes < oldest.iface.bytes
        \/ newest.client.bytes < oldest.client.bytes
       THEN Report("counter_reset", ms, 0, 0)
       ELSE Report(IF ms < MinWindow THEN "warmup" ELSE IF denom < MinDenom THEN "idle" ELSE "ok",
                   ms, denom, numer)

Latest(w) == IF Len(w) > Window THEN Tail(w) ELSE w

Verdict(w) ==
  LET complete == {n \in 1..Len(w) : Complete(w[n])}
      oldest == w[CHOOSE n \in complete : \A m \in complete : n <= m]
      newest == w[Len(w)]
  IN IF ~newest.supported THEN Report("unsupported", 0, 0, 0)
     ELSE IF Complete(newest) /\ newest.ts > oldest.ts THEN Judge(newest, oldest)
     ELSE Warmup

Init == window = <<>> /\ report = Warmup

Status ==
  LET w == Latest(Append(window, reading))
  IN /\ report' = Verdict(w)
     /\ window' = IF report'.quality = "counter_reset" THEN <<>> ELSE w
     /\ reading' = reading

\* Counters, clock and policy move on; a reset of the rate state drops the window.
Observe ==
  /\ window' \in {window, <<>>}
  /\ report' = report

Next == Status \/ Observe

Spec == Init /\ [][Next]_<<reading, window, report>>
=============================================================================
