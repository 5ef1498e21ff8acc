----------------------------- MODULE RateWindow -----------------------------
(***************************************************************************)
(* From the kernel's counters to a rate: lanspeed_bpf_read_samples walks   *)
(* the LRU hash map one system call at a time while frames are counted and *)
(* entries evicted, bpf_collect_samples folds what it read into one total  *)
(* per client and direction, and collect_bpf_clients subtracts the totals  *)
(* of the last two reads.                                                  *)
(*                                                                         *)
(* A byte stands for any amount of traffic, and a client's delta for its   *)
(* rate (delta_bps multiplies it by 8000 and divides by the elapsed time). *)
(***************************************************************************)
EXTENDS Naturals, Sequences, FiniteSets, SequencesExt

CONSTANTS
  KeySeq,     \* the keys [client, dir, iface], in the order of the map's buckets
  Capacity,   \* LANSPEED_MAX_CLIENTS, entries of lanspeed_clients
  RawMax,     \* ARRAY_SIZE(raw), room for one read
  MaxFolded,  \* the lesser of max_clients and DEFAULT_MAX_CLIENTS
  MaxTraffic  \* bound of the model: bytes sent in all

Keys == {KeySeq[p] : p \in 1..Len(KeySeq)}
Clients == {k.client : k \in Keys}
Dirs == {"tx", "rx"}

ASSUME KeySeqAssumption ==
  /\ KeySeq \in Seq(Keys)
  /\ \A p, q \in 1..Len(KeySeq) : KeySeq[p] = KeySeq[q] => p = q
  /\ \A k \in Keys : k.dir \in Dirs
ASSUME SizeAssumption ==
  /\ Capacity \in Nat \ {0} /\ RawMax \in Nat \ {0}
  /\ MaxFolded \in Nat \ {0} /\ MaxTraffic \in Nat

VARIABLES
  map,       \* the entries of lanspeed_clients: a function on the live keys
  step,      \* of the read loop
  at,        \* bucket position of cur_key, 0 without one
  next,      \* bucket position of next_key
  raw,       \* what the read has written so far
  current,   \* bpf_current_samples: a function on the clients it holds
  previous,  \* bpf_previous_samples
  taken,     \* bpf_current_snapshot_ms > 0
  valid,     \* bpf_previous_snapshot_valid
  \* history
  sent,      \* [Clients -> [Dirs -> Nat]], all traffic so far
  steady,    \* keys in the map ever since the read in progress began
  repeated,  \* the walk started over at the first bucket
  span       \* of the reads behind current and previous: `sent` before and
             \* after, whether the walk started over, whether keys were left out

vars == <<map, step, at, next, raw, current, previous, taken, valid,
          sent, steady, repeated, span>>
walk == <<step, at, next, raw>>
snapshots == <<current, previous, taken, valid>>

Live == DOMAIN map
NoTraffic == [c \in Clients |-> [d \in Dirs |-> 0]]
NoClients == [c \in {} |-> [d \in Dirs |-> 0]]
NoSpan == [begin |-> NoTraffic, end |-> NoTraffic, repeated |-> FALSE, cut |-> FALSE]

Init ==
  /\ map = [k \in {} |-> 0]
  /\ step = "idle" /\ at = 0 /\ next = 0 /\ raw = <<>>
  /\ current = NoClients /\ previous = NoClients /\ taken = FALSE /\ valid = FALSE
  /\ sent = NoTraffic /\ steady = {} /\ repeated = FALSE
  /\ span = [current |-> NoSpan, previous |-> NoSpan, reading |-> NoTraffic]

----------------------------------------------------------------------------
(* The kernel *)

TotalSent == MapThenSumSet(LAMBDA c : sent[c].tx + sent[c].rx, Clients)

With(f, k, n) == [x \in DOMAIN f \union {k} |-> IF x = k THEN n ELSE f[x]]
Without(f, k) == [x \in DOMAIN f \ {k} |-> f[x]]

\* A frame is counted (account_frame); a new key in a full map evicts another.
Frame(k) ==
  /\ TotalSent < MaxTraffic
  /\ sent' = [sent EXCEPT ![k.client][k.dir] = @ + 1]
  /\ \/ k \in Live /\ map' = [map EXCEPT ![k] = @ + 1] /\ UNCHANGED steady
     \/ /\ k \notin Live /\ Cardinality(Live) < Capacity
        /\ map' = With(map, k, 1)
        /\ UNCHANGED steady
     \/ /\ k \notin Live /\ Cardinality(Live) = Capacity
        /\ \E old \in Live :
             map' = With(Without(map, old), k, 1) /\ steady' = steady \ {old}
  /\ UNCHANGED <<walk, snapshots, repeated, span>>

\* bpf_map_get_next_key's answer: the first live bucket after cur_key's, or
\* the first of all when cur_key is no longer in the map; 0 stands for ENOENT.
NextPosition ==
  LET from == IF at > 0 /\ KeySeq[at] \in Live THEN at ELSE 0
      later == {p \in 1..Len(KeySeq) : p > from /\ KeySeq[p] \in Live}
  IN IF later = {} THEN 0 ELSE CHOOSE p \in later : \A q \in later : p <= q

----------------------------------------------------------------------------
(* The daemon *)

\* Mutant of Folded: bpf_find_or_insert_client without its max_samples.
FoldedUnbounded(samples, start) ==
  FoldLeft(LAMBDA acc, s :
    LET old == IF s.key.client \in DOMAIN acc.clients THEN acc.clients[s.key.client]
                                                       ELSE [d \in Dirs |-> 0]
    IN [acc EXCEPT !.clients = With(@, s.key.client, [old EXCEPT ![s.key.dir] = @ + s.bytes])],
    [clients |-> start, cut |-> FALSE], samples)

\* A key adds to its client's total, unless a client has found no room before.
AddSample(acc, s) ==
  LET known == s.key.client \in DOMAIN acc.clients
      old == IF known THEN acc.clients[s.key.client] ELSE [d \in Dirs |-> 0]
  IN IF acc.cut \/ (~known /\ Cardinality(DOMAIN acc.clients) >= MaxFolded)
       THEN [acc EXCEPT !.cut = TRUE]
       ELSE [acc EXCEPT !.clients =
               With(@, s.key.client, [old EXCEPT ![s.key.dir] = @ + s.bytes])]

\* The fold of a read: what follows the first client without room is left out,
\* known clients too.
Folded(samples, start) == FoldLeft(AddSample, [clients |-> start, cut |-> FALSE], samples)

StartRead ==
  /\ step = "idle"
  /\ step' = "next" /\ at' = 0 /\ next' = 0 /\ raw' = <<>>
  /\ steady' = Live /\ repeated' = FALSE
  /\ span' = [span EXCEPT !.reading = sent]
  /\ UNCHANGED <<map, snapshots, sent>>

\* Mutant of Commit: the fold adds to the last snapshot's totals.
CommitKeeping(samples) ==
  LET fold == Folded(samples, current)
  IN /\ previous' = current /\ valid' = taken
     /\ current' = fold.clients /\ taken' = TRUE
     /\ span' = [span EXCEPT
          !.previous = span.current,
          !.current = [begin |-> span.reading, end |-> sent, repeated |-> repeated,
                       cut |-> fold.cut \/ Len(samples) = RawMax]]
     /\ step' = "idle"

\* bpf_collect_samples once the read has returned.
Commit(samples) ==
  LET fold == Folded(samples, NoClients)
  IN /\ previous' = current /\ valid' = taken
     /\ current' = fold.clients /\ taken' = TRUE
     /\ span' = [span EXCEPT
          !.previous = span.current,
          !.current = [begin |-> span.reading, end |-> sent, repeated |-> repeated,
                       cut |-> fold.cut \/ Len(samples) = RawMax]]
     /\ step' = "idle"

NextKey ==
  /\ step = "next" /\ NextPosition # 0
  /\ next' = NextPosition /\ step' = "lookup"
  /\ repeated' = (repeated \/ (at > 0 /\ KeySeq[at] \notin Live))
  /\ UNCHANGED <<map, at, raw, snapshots, sent, steady, span>>

WalkEnds ==
  /\ step = "next" /\ NextPosition = 0
  /\ Commit(raw)
  /\ UNCHANGED <<map, at, next, raw, sent, steady, repeated>>

\* Mutant of Lookup: a key that vanished since NextKey ends the walk.
LookupOrStop ==
  /\ step = "lookup"
  /\ at' = next
  /\ IF KeySeq[next] \in Live
       THEN raw' = Append(raw, [key |-> KeySeq[next], bytes |-> map[KeySeq[next]]])
       ELSE UNCHANGED raw
  /\ IF Len(raw') >= RawMax \/ KeySeq[next] \notin Live
       THEN Commit(raw') ELSE step' = "next" /\ UNCHANGED <<snapshots, span>>
  /\ UNCHANGED <<map, next, sent, steady, repeated>>

\* bpf_map_lookup_elem: a key evicted since NextKey is skipped; a full buffer
\* ends the walk (map_full_observed).
Lookup ==
  /\ step = "lookup"
  /\ at' = next
  /\ IF KeySeq[next] \in Live
       THEN raw' = Append(raw, [key |-> KeySeq[next], bytes |-> map[KeySeq[next]]])
       ELSE UNCHANGED raw
  /\ IF Len(raw') >= RawMax
       THEN Commit(raw') ELSE step' = "next" /\ UNCHANGED <<snapshots, span>>
  /\ UNCHANGED <<map, next, sent, steady, repeated>>

\* bpf_map_get_next_key fails: the snapshots stay as they were.
ReadFails ==
  /\ step = "next"
  /\ step' = "idle"
  /\ UNCHANGED <<map, at, next, raw, snapshots, sent, steady, repeated, span>>

\* bpf_runtime_reset_rate_state, after a filter was restored or the mode switched.
ResetRates ==
  /\ step = "idle" /\ taken
  /\ current' = NoClients /\ previous' = NoClients /\ taken' = FALSE /\ valid' = FALSE
  /\ UNCHANGED <<map, walk, sent, steady, repeated, span>>

Next ==
  \/ \E k \in Keys : Frame(k)
  \/ StartRead \/ NextKey \/ Lookup \/ WalkEnds \/ ReadFails \/ ResetRates

Spec == Init /\ [][Next]_vars

----------------------------------------------------------------------------
(* What collect_bpf_clients reports *)

\* delta_bps: a counter that went down (counter_anomaly) reports no traffic.
Delta(now, before) == IF now < before THEN 0 ELSE now - before

Reported(c, d) ==
  IF valid /\ c \in DOMAIN current /\ c \in DOMAIN previous
    THEN Delta(current[c][d], previous[c][d]) ELSE 0

----------------------------------------------------------------------------
(* Properties *)

Totals(f) == \A c \in DOMAIN f : c \in Clients /\ f[c] \in [Dirs -> Nat]

TypeOK ==
  /\ Live \subseteq Keys /\ Cardinality(Live) <= Capacity
  /\ \A k \in Live : map[k] \in Nat \ {0}
  /\ step \in {"idle", "next", "lookup"}
  /\ at \in 0..Len(KeySeq) /\ next \in 0..Len(KeySeq)
  /\ Len(raw) <= RawMax
  /\ Totals(current) /\ Cardinality(DOMAIN current) <= MaxFolded
  /\ Totals(previous) /\ Cardinality(DOMAIN previous) <= MaxFolded
  /\ taken \in BOOLEAN /\ valid \in BOOLEAN
  /\ sent \in [Clients -> [Dirs -> Nat]]
  /\ steady \subseteq Live /\ repeated \in BOOLEAN

\* No client is credited with more traffic than it had between the start of
\* the older read and the end of the newer one, however frames, evictions and
\* new entries interleave with the two walks; only a walk that started over,
\* or an older read that left keys out, may exceed it.
NoInflatedRate ==
  ~span.current.repeated /\ ~span.previous.cut =>
    \A c \in Clients, d \in Dirs :
      Reported(c, d) <= span.current.end[c][d] - span.previous.begin[c][d]

\* A walk that runs to its end has read every key that was in the map all the
\* while, evictions under the cursor notwithstanding.
ReadComplete ==
  [][step # "idle" /\ step' = "idle" /\ <<snapshots, span>>' # <<snapshots, span>> /\ Len(raw') < RawMax =>
       \A k \in steady : \E n \in 1..Len(raw') : raw'[n].key = k]_vars
=============================================================================
