------------------------------ MODULE Overview ------------------------------
(***************************************************************************)
(* The totals behind `overview`: bpf_collect_samples copies the kernel's   *)
(* entries one by one while frames arrive, and each `clients` call pushes  *)
(* how many clients it lists and how many of them are active into a ring,  *)
(* whose newest samples `overview` shows. A byte stands for any traffic of *)
(* at least active_client_min_bps.                                         *)
(***************************************************************************)
EXTENDS Daemon, Sequences, FiniteSets, Ring

CONSTANTS
  PeopleSeq,     \* clients, in the order of the map's buckets
  ActiveWindow,  \* active_client_window_ms
  Window,        \* LANSPEED_OVERVIEW_WINDOW
  Samples        \* overview_window_samples

People == {PeopleSeq[n] : n \in 1..Len(PeopleSeq)}

ASSUME PeopleAssumption == PeopleSeq \in Seq(People)
ASSUME OverviewAssumption == ActiveWindow \in Nat /\ Window \in Nat \ {0} /\ Samples \in 1..Window

VARIABLES
  entry,     \* [People -> [bytes, seen]]: lanspeed_clients, seen = 0 without one
  walk,      \* [ms, at, got, back]: the read in progress, and the job after it
  current,   \* [ms, got]: bpf_current_snapshot_ms and bpf_current_samples
  older,     \* [ms, got]: bpf_previous_snapshot_ms and bpf_previous_samples
  ring,      \* overview_ring with its head and count
  \* history
  frames,    \* [People -> when its frames arrived]
  pushed     \* all samples so far

snapshots == <<entry, walk, current, older, frames>>
overview == <<snapshots, ring, pushed>>

NoSnapshot == [ms |-> 0, got |-> [p \in {} |-> [bytes |-> 0, seen |-> 0]]]
NoSample == [ms |-> 0, clients |-> {}, active |-> {}]

OverviewInit ==
  /\ entry = [p \in People |-> [bytes |-> 0, seen |-> 0]]
  /\ walk = [ms |-> 0, at |-> 1, got |-> NoSnapshot.got, back |-> "idle"]
  /\ current = NoSnapshot /\ older = NoSnapshot
  /\ ring = EmptyRing(Window, NoSample)
  /\ frames = [p \in People |-> {}] /\ pushed = <<>>

----------------------------------------------------------------------------
(* account_frame *)

Frame(p) ==
  /\ Spend("frames") /\ UNCHANGED <<now, job>>
  /\ entry' = [entry EXCEPT ![p] = [bytes |-> @.bytes + 1, seen |-> now]]
  /\ frames' = [frames EXCEPT ![p] = @ \union {now}]
  /\ UNCHANGED <<walk, current, older, ring, pushed>>

----------------------------------------------------------------------------
(* bpf_collect_samples *)

Walk(from) ==
  /\ job = from /\ Spend("collects") /\ job' = "walk" /\ now' = now
  /\ walk' = [ms |-> now, at |-> 1, got |-> NoSnapshot.got, back |-> from]
  /\ UNCHANGED <<entry, frames, ring, pushed>>

\* bpf_runtime_reset_rate_state, for what it clears here.
ResetRates == current' = NoSnapshot /\ older' = NoSnapshot

\* The tick; a policy switch or a restored filter resets the rates first.
TickCollects == Walk("idle") /\ (ResetRates \/ UNCHANGED <<current, older>>)

\* A policy switch of clients_method, which collects before it answers.
SwitchCollects == Walk("answer") /\ ResetRates

ReadEntry ==
  LET p == PeopleSeq[walk.at]
  IN /\ job = "walk" /\ walk.at <= Len(PeopleSeq) /\ job' = job
     /\ walk' = [walk EXCEPT !.at = @ + 1,
          !.got = IF entry[p].seen = 0 THEN @
                  ELSE [q \in DOMAIN @ \union {p} |-> IF q = p THEN entry[p] ELSE @[q]]]
     /\ UNCHANGED <<entry, current, older, frames, ring, pushed>>

Collected ==
  /\ job = "walk" /\ walk.at > Len(PeopleSeq) /\ job' = walk.back
  /\ older' = current /\ current' = [ms |-> walk.ms, got |-> walk.got]
  /\ UNCHANGED <<entry, walk, frames, ring, pushed>>

----------------------------------------------------------------------------
(* clients_method, where rates come from BPF *)

\* Mutant of Recent: the window is open at its far end.
RecentStrictly(ms, seen) == ms # 0 /\ seen # 0 /\ seen <= ms /\ ms - seen < ActiveWindow

\* client_is_active_recent
Recent(ms, seen) == ms # 0 /\ seen # 0 /\ seen <= ms /\ ms - seen <= ActiveWindow

\* collect_bpf_clients: two snapshots with time between them.
RatesReady == older.ms # 0 /\ current.ms > older.ms

Rate(p) ==
  IF p \in DOMAIN older.got /\ current.got[p].bytes >= older.got[p].bytes
    THEN current.got[p].bytes - older.got[p].bytes ELSE 0

Listed == IF RatesReady THEN DOMAIN current.got ELSE {}

\* client_has_active_rate and client_is_active_recent on each client.
Active == {p \in Listed : Rate(p) > 0 /\ Recent(current.ms, current.got[p].seen)}

\* overview_push_from_clients, as the call is answered.
PushOverview ==
  LET sample == [ms |-> now, clients |-> Listed, active |-> Active]
  IN /\ job = "answer" /\ job' = "idle"
     /\ ring' = Push(ring, Window, sample)
     /\ pushed' = Append(pushed, sample)
     /\ UNCHANGED snapshots

\* Mutant of Shown: the oldest samples of the ring.
ShownOldest ==
  LET n == IF ring.count < Samples THEN ring.count ELSE Samples
  IN [k \in 1..n |-> SampleAt(ring, Window, ring.count - k)]

\* overview_method's reply: the samples no farther back than it is to show.
Shown ==
  LET n == IF ring.count < Samples THEN ring.count ELSE Samples
  IN [k \in 1..n |-> SampleAt(ring, Window, n - k)]

OverviewStep == ReadEntry \/ Collected

OverviewWorld == \E p \in People : Frame(p)

----------------------------------------------------------------------------
(* Properties *)

\* `overview` shows the newest samples of all that `clients` calls have taken,
\* in their order, with none twice and none left out.
WindowShown ==
  LET n == IF Len(pushed) < Samples THEN Len(pushed) ELSE Samples
  IN Shown = SubSeq(pushed, Len(pushed) - n + 1, Len(pushed))

\* Each sample counts the clients that sent something between the two reads and
\* had a frame in the window before the newer one, and no other; the one case in
\* which such a client is left out is that it sent more while that read was
\* under way: its last frame is then newer than the snapshot.
ActiveCounted ==
  [][pushed' # pushed =>
       \A p \in People :
         LET counted == p \in pushed'[Len(pushed')].active
             sent == /\ RatesReady /\ p \in DOMAIN current.got \intersect DOMAIN older.got
                     /\ current.got[p].bytes > older.got[p].bytes
             ages == {current.ms - t : t \in frames[p]}
         IN /\ counted => sent /\ ages \intersect 0..ActiveWindow # {}
            /\ sent /\ ages \intersect 1..ActiveWindow # {} =>
                 counted \/ current.got[p].seen > current.ms]_overview
=============================================================================
