------------------------------ MODULE Coverage ------------------------------
(***************************************************************************)
(* The coverage figure of lanspeedd's `status`: each call pushes the       *)
(* interfaces' byte counters and the active collector's client totals into *)
(* a ring and compares its newest sample with the oldest complete one.     *)
(* Between calls the counters move, fall when an interface or a client's   *)
(* entry is replaced, the collector policy changes, and filters are        *)
(* restored or switched, which resets the BPF rate state unless it fails.  *)
(* One direction stands for both.                                          *)
(***************************************************************************)
EXTENDS Naturals, Sequences, Ring

CONSTANTS
  NssSeq,     \* the NSS sources, the one looked at first in front
  Window, MinWindow, MinDenom,  \* LANSPEED_COVERAGE_{WINDOW,MIN_WINDOW_MS,MIN_DENOM_BYTES}
  MaxBytes, MaxTime, MaxEvents  \* bounds of the model

Nss == {NssSeq[k] : k \in 1..Len(NssSeq)}
Sources == Nss \union {"bpf"}

ASSUME SourcesAssumption == NssSeq \in Seq(Nss) /\ "bpf" \notin Nss
ASSUME WindowAssumption == Window \in Nat \ {0}
ASSUME BoundAssumption == {MinWindow, MinDenom, MaxBytes, MaxTime, MaxEvents} \subseteq Nat

Absent == [ok |-> FALSE, bytes |-> 0]
Bytes(n) == [ok |-> TRUE, bytes |-> n]
Counters == {Absent} \union {Bytes(n) : n \in 0..MaxBytes}

VARIABLES
  clock,      \* monotonic_time_ms
  link,       \* the attach interfaces' counters in sysfs, summed
  totals,     \* [Sources -> Counters], the client bytes of each latest snapshot
  preferred,  \* the NSS sources the probe's capabilities allow
  enabled,    \* bpf_runtime_enabled
  ring,       \* coverage_ring, coverage_ring_head, coverage_ring_count
  report,     \* what the last status call said
  events,     \* changes left
  \* history
  heals,      \* recoveries and switches so far that put a filter in place
  failures,   \* bpf_runtime_self_heal_failures
  falls,      \* counters seen to go down from one complete sample to the next
  last,       \* the counters of the last complete sample
  announced,  \* counter_reset reports so far
  compared    \* what happened between the two samples behind the last report

vars == <<clock, link, totals, preferred, enabled, ring, report, events,
          heals, failures, falls, last, announced, compared>>
observed == <<clock, link, totals, preferred, enabled, events, heals, failures>>
outcome == <<report, falls, last, announced, compared>>

\* The abstract view: the ring as the sequence of samples it stands for.
Plain(s) == [ts |-> s.ts, iface |-> s.iface, client |-> s.client, supported |-> s.supported]

\* coverage_current_client_bytes: the first usable snapshot.
ClientBytes ==
  LET usable == {k \in 1..Len(NssSeq) : NssSeq[k] \in preferred /\ totals[NssSeq[k]].ok}
  IN IF usable # {} THEN totals[NssSeq[CHOOSE k \in usable : \A j \in usable : k <= j]]
     ELSE IF enabled THEN totals["bpf"]
     ELSE Absent

Reading ==
  [ts |-> clock, iface |-> link, client |-> ClientBytes,
   supported |-> enabled \/ preferred # {}]

Sample == [ts |-> Reading.ts, iface |-> Reading.iface, client |-> Reading.client,
           supported |-> Reading.supported, heals |-> heals, failures |-> failures,
           falls |-> falls]
Filler == [ts |-> 0, iface |-> Absent, client |-> Absent, supported |-> FALSE,
           heals |-> 0, failures |-> 0, falls |-> 0]

Abstract == INSTANCE CoverageWindow WITH
  reading <- Reading,
  window <- [n \in 1..ring.count |-> Plain(SampleAt(ring, Window, ring.count - n))]

Init ==
  /\ clock = 0 /\ link = Bytes(0) /\ totals = [s \in Sources |-> Absent]
  /\ preferred \in SUBSET Nss /\ enabled \in BOOLEAN
  /\ ring = EmptyRing(Window, Filler) /\ report = Abstract!Warmup
  /\ events = MaxEvents
  /\ heals = 0 /\ failures = 0 /\ falls = 0 /\ last = [iface |-> Absent, client |-> Absent] /\ announced = 0
  /\ compared = [healed |-> 0, failed |-> 0, fell |-> FALSE]

----------------------------------------------------------------------------
(* status_method *)

\* Mutant of Oldest: the search stops one sample short of the oldest.
OldestButOne(r) ==
  LET complete == {b \in 0..r.count-1 :
                     /\ Abstract!Complete(SampleAt(r, Window, b))
                     /\ b + 1 < r.count \/ r.count = 1}
  IN IF complete = {} THEN Filler
     ELSE SampleAt(r, Window, CHOOSE b \in complete : \A c \in complete : c <= b)

\* The loop over coverage_sample_at for the oldest complete sample.
Oldest(r) ==
  LET complete == {b \in 0..r.count-1 : Abstract!Complete(SampleAt(r, Window, b))}
  IN IF complete = {} THEN Filler
     ELSE SampleAt(r, Window, CHOOSE b \in complete : \A c \in complete : c <= b)

Falls(new, old) ==
  /\ Abstract!Complete(new) /\ Abstract!Complete(old)
  /\ new.iface.bytes < old.iface.bytes \/ new.client.bytes < old.client.bytes

\* Mutant of Recycle: the report does not drop the window.
RecycleNothing(r, verdict) == r

\* A window that shows a reset is dropped, its newest sample included.
Recycle(r, verdict) == IF verdict.quality = "counter_reset" THEN Clear(r) ELSE r

\* History: a complete sample below the last complete one is a decrease.
Fallen == IF Falls(Sample, last) THEN falls + 1 ELSE falls
Taken == [Sample EXCEPT !.falls = Fallen]

\* coverage_push_sample.
Pushed == Push(ring, Window, Taken)

\* add_coverage_to_status.
Verdict(newest, oldest) ==
  IF ~newest.supported THEN Abstract!Report("unsupported", 0, 0, 0)
  ELSE IF Abstract!Complete(newest) /\ newest.ts > oldest.ts THEN Abstract!Judge(newest, oldest)
  ELSE Abstract!Warmup

Status ==
  LET newest == SampleAt(Pushed, Window, 0)
      oldest == Oldest(Pushed)
  IN /\ report' = Verdict(newest, oldest)
     /\ ring' = Recycle(Pushed, report')
     /\ falls' = Fallen
     /\ last' = IF Abstract!Complete(Taken) THEN [iface |-> Taken.iface, client |-> Taken.client]
                ELSE last
     /\ announced' = IF report'.quality = "counter_reset" THEN announced + 1 ELSE announced
     /\ compared' = [healed |-> newest.heals - oldest.heals,
                     failed |-> newest.failures - oldest.failures,
                     fell |-> newest.falls # oldest.falls]
     /\ UNCHANGED observed

----------------------------------------------------------------------------
(* Between two calls *)

Change == events > 0 /\ events' = events - 1

Wait ==
  /\ clock < MaxTime /\ clock' = clock + 1
  /\ UNCHANGED <<link, totals, preferred, enabled, ring, events, heals, failures, outcome>>

\* Traffic raises the counters; an interface that is recreated starts at 0.
LinkMoves(c) ==
  /\ Change
  /\ link' = c /\ c # link
  /\ UNCHANGED <<clock, totals, preferred, enabled, ring, heals, failures, outcome>>

\* A collector takes a snapshot; closed connections and evicted keys leave it.
Collected(s, c) ==
  /\ Change
  /\ totals' = [totals EXCEPT ![s] = c] /\ c # totals[s]
  /\ UNCHANGED <<clock, link, preferred, enabled, ring, heals, failures, outcome>>

PolicyMoves(p) ==
  /\ Change
  /\ preferred' = p /\ p # preferred
  /\ UNCHANGED <<clock, link, totals, enabled, ring, heals, failures, outcome>>

\* Mutant of ResetRates: the coverage window outlives the rate state.
ResetKeepingWindow ==
  /\ enabled /\ Change
  /\ totals' = [totals EXCEPT !["bpf"] = Absent]
  /\ ring' = ring
  /\ heals' = heals + 1
  /\ UNCHANGED <<clock, link, preferred, enabled, failures, outcome>>

\* A recovery that restored what was missing, or a switch, ends in
\* bpf_runtime_reset_rate_state.
ResetRates ==
  /\ enabled /\ Change
  /\ totals' = [totals EXCEPT !["bpf"] = Absent]
  /\ ring' = Clear(ring)
  /\ heals' = heals + 1
  /\ UNCHANGED <<clock, link, preferred, enabled, failures, outcome>>

\* A recovery that fails on one interface after it restored another's filter,
\* and a switch that is rolled back, return before the reset.
RecoveryFails(restored) ==
  /\ enabled /\ Change
  /\ heals' = IF restored THEN heals + 1 ELSE heals
  /\ failures' = failures + 1
  /\ UNCHANGED <<clock, link, totals, preferred, enabled, ring, outcome>>

Next ==
  \/ Status \/ Wait \/ ResetRates
  \/ \E restored \in BOOLEAN : RecoveryFails(restored)
  \/ \E c \in Counters : LinkMoves(c) \/ \E s \in Sources : Collected(s, c)
  \/ \E p \in SUBSET Nss : PolicyMoves(p)

Spec == Init /\ [][Next]_vars
----------------------------------------------------------------------------
(* Properties *)

Samples == [ts : 0..MaxTime, iface : Counters, client : Counters, supported : BOOLEAN,
            heals : Nat, failures : Nat, falls : Nat]

TypeOK ==
  /\ clock \in 0..MaxTime /\ link \in Counters /\ totals \in [Sources -> Counters]
  /\ preferred \in SUBSET Nss /\ enabled \in BOOLEAN
  /\ ring \in Rings(Window, Samples)
  /\ report \in [quality : {"warmup", "idle", "counter_reset", "ok", "unsupported"},
                 ms : 0..MaxTime, denom : 0..MaxBytes, numer : 0..MaxBytes]
  /\ events \in 0..MaxEvents
  /\ {heals, failures, falls, announced} \subseteq Nat

\* Through wrap-around, clearing and the stale slots a cleared ring keeps, a
\* status call always judges exactly the last Window samples, the newest one
\* against the oldest complete one (coverage_sample_at's index arithmetic).
SlidesOverWindow == Abstract!Spec

\* One decrease is announced once: the window is dropped with the report, so
\* the next call does not find the same decrease again.
ResetsNotRepeated == announced <= falls

\* A figure compares counters across a restored filter or a policy switch only
\* where that recovery or switch failed: between its two samples there are no
\* more of them than failures, each counted in bpf_runtime_self_heal_failures,
\* which the same reply warns of.
SpansNoReset == report.quality \in {"idle", "ok"} => compared.healed <= compared.failed

\* lanspeedd.c:404-405 of the coverage window: "counter resets are detected by
\* (cur < old) and invalidate the window". Only the two ends are compared: a
\* counter that fell and outgrew its old value in between goes unnoticed.
ResetDetected == report.quality = "ok" => ~compared.fell
=============================================================================
