----------------------------- MODULE Interfaces -----------------------------
(***************************************************************************)
(* interfaces_method: reads each configured interface's counter in sysfs   *)
(* and shows its rate since the last call that could read it, whoever made *)
(* that call. Interfaces go and come back with fresh counters between any  *)
(* two steps. The rx counter stands for both; of tx only that its file may *)
(* be missing.                                                             *)
(***************************************************************************)
EXTENDS Daemon, Sequences

CONSTANTS
  IfaceSeq,  \* bpf_attach_ifnames, then observe_ifnames
  Width      \* 2^64, the range of the counters

Ifaces == {IfaceSeq[n] : n \in 1..Len(IfaceSeq)}

ASSUME WidthAssumption == Width \in Nat \ {0}
ASSUME LinksAssumption == IfaceSeq \in Seq(Ifaces) \ {<<>>}  \* else the call reads nothing

VARIABLES
  link,      \* [Ifaces -> [up, bytes, made]]: the devices, and how many before
  previous,  \* [Ifaces -> [valid, bytes, ms]]
  poll,      \* [ms, at, ok, bytes, made]: the call in progress
  \* history
  moved,     \* [Ifaces -> bytes its devices counted]
  shown      \* [Ifaces -> bytes behind the rates shown]

interfaces == <<link, previous, poll, moved, shown>>

InterfacesInit ==
  /\ link = [i \in Ifaces |-> [up |-> TRUE, bytes |-> 0, made |-> 0]]
  /\ previous = [i \in Ifaces |-> [valid |-> FALSE, bytes |-> 0, ms |-> 0]]
  /\ poll = [ms |-> 0, at |-> 1, ok |-> FALSE, bytes |-> 0, made |-> 0]
  /\ moved = [i \in Ifaces |-> 0] /\ shown = [i \in Ifaces |-> 0]

I == IfaceSeq[poll.at]

StartPoll ==
  /\ job = "idle" /\ Spend("polls") /\ job' = "open" /\ now' = now
  /\ poll' = [poll EXCEPT !.ms = now, !.at = 1]
  /\ UNCHANGED <<link, previous, moved, shown>>

\* fopen of rx_bytes
OpenCounter ==
  /\ job = "open" /\ job' = IF link[I].up THEN "read" ELSE "settle"
  /\ poll' = [poll EXCEPT !.ok = link[I].up, !.bytes = 0, !.made = link[I].made]
  /\ UNCHANGED <<link, previous, moved, shown>>

\* fgets: nothing comes from the file of a device that is gone, and 0 stays.
ReadCounter ==
  /\ job = "read" /\ job' = "settle"
  /\ poll' = [poll EXCEPT !.bytes = IF link[I].up /\ link[I].made = poll.made THEN link[I].bytes ELSE 0]
  /\ UNCHANGED <<link, previous, moved, shown>>

\* Mutant of RateBytes: counters that went down are subtracted as well.
RateBytesWrapping(prev) == (poll.bytes - prev.bytes) % Width

\* The bytes behind rx_bps.
RateBytes(prev) == IF poll.bytes >= prev.bytes THEN poll.bytes - prev.bytes ELSE 0

\* fopen of tx_bytes, the rate, and what the next call will compare with.
SettleInterface ==
  LET prev == previous[I]
      ok == poll.ok /\ link[I].up
  IN /\ job = "settle"
     /\ shown' = IF ok /\ prev.valid /\ poll.ms > prev.ms
                   THEN [shown EXCEPT ![I] = @ + RateBytes(prev)] ELSE shown
     /\ previous' = IF ok THEN [previous EXCEPT ![I] = [valid |-> TRUE, bytes |-> poll.bytes, ms |-> poll.ms]]
                    ELSE previous
     /\ IF poll.at < Len(IfaceSeq)
          THEN job' = "open" /\ poll' = [poll EXCEPT !.at = @ + 1]
          ELSE job' = "idle" /\ poll' = poll
     /\ UNCHANGED <<link, moved>>

InterfacesStep == OpenCounter \/ ReadCounter \/ SettleInterface

----------------------------------------------------------------------------
(* The devices *)

Traffic(i) ==
  /\ Spend("moves") /\ link[i].up
  /\ link' = [link EXCEPT ![i].bytes = (@ + 1) % Width]
  /\ moved' = [moved EXCEPT ![i] = @ + 1]
  /\ UNCHANGED <<previous, poll, shown>>

LinkGone(i) ==
  /\ Spend("moves") /\ link[i].up
  /\ link' = [link EXCEPT ![i].up = FALSE, ![i].bytes = 0]
  /\ UNCHANGED <<previous, poll, moved, shown>>

LinkBack(i) ==
  /\ ~link[i].up
  /\ link' = [link EXCEPT ![i].up = TRUE, ![i].made = @ + 1]
  /\ UNCHANGED <<left, previous, poll, moved, shown>>

InterfacesWorld == \E i \in Ifaces : Traffic(i) \/ LinkGone(i) \/ LinkBack(i)

----------------------------------------------------------------------------
(* Properties *)

\* No byte is shown in two rates, nor one no device moved, however many pages
\* poll and wherever in a call an interface goes or comes back.
RatesAreMoved == \A i \in Ifaces : shown[i] <= moved[i]
=============================================================================
