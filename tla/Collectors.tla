----------------------------- MODULE Collectors -----------------------------
(***************************************************************************)
(* lanspeedd's `clients` call: it picks a source of rates from what the    *)
(* probe finds (NSS ECM state, conntrack, BPF), takes a snapshot of the    *)
(* flow counters, folds the flows into clients by ARP, subtracts the       *)
(* source's previous snapshot, then makes this one the previous.           *)
(* Any number of pollers call it and share the snapshots. Between calls    *)
(* flows open, count and close, ARP entries come and go, and the probe's   *)
(* findings change. BPF's own snapshots are those of RateWindow; here they *)
(* can be subtracted or not. One direction stands for both; connection     *)
(* counts are left out.                                                    *)
(***************************************************************************)
EXTENDS Integers, FiniteSets, FiniteSetsExt

CONSTANTS
  Macs,      \* the LAN clients
  Ips,       \* their addresses; each has at most one flow
  NoMac,     \* nobody: no ARP entry, or no MAC in an ECM flow
  Configs,   \* [rate, conn, fallback]: rate_collector_mode, conn_collector_mode, enable_conntrack_fallback
  CapsSets,  \* what the probe may find: sets of "nss", "direct", "acct"
  MaxClients,                    \* max_clients
  MaxBytes, MaxTime, MaxEvents   \* bounds of the model

ASSUME NoMacAssumption == NoMac \notin Macs
ASSUME IpsAssumption == IsFiniteSet(Ips)
ASSUME ConfigAssumption ==
  /\ Configs \subseteq [rate : {"auto", "bpf"}, conn : {"auto", "netlink", "procfs"}, fallback : BOOLEAN]
  /\ CapsSets \subseteq SUBSET {"nss", "direct", "acct"}
ASSUME BoundAssumption ==
  /\ MaxClients \in Nat \ {0}
  /\ {MaxBytes, MaxTime, MaxEvents} \subseteq Nat

Tables == {"direct", "conntrack"}    \* the sources that keep a previous snapshot

VARIABLES
  clock,     \* monotonic_time_ms
  flow,      \* [Ips -> [open, bytes, node]]; node: the MAC ECM knows the flow's source by
  arp,       \* [Ips -> Macs or NoMac], /proc/net/arp
  caps,      \* what inspect_runtime finds
  bpf,       \* "off"; "warming": attached, fewer than two snapshots; "ready"
  config,
  prev,      \* previous_{nss_ecm_direct,conntrack}_*: [Tables -> [valid, ms, bytes]]
  reply,     \* what the call that just ended returned
  events,    \* changes left
  \* history, since the table's previous snapshot
  moved,     \* [Tables -> [Macs -> bytes]]
  gained,    \* [Tables -> clients now credited with a flow that counted without them before]
  shrunk     \* [Tables -> clients that lost a flow]

vars == <<clock, flow, arp, caps, bpf, config, prev, reply, events, moved, gained, shrunk>>
history == <<moved, gained, shrunk>>

Closed == [open |-> FALSE, bytes |-> 0, node |-> NoMac]
NoSnapshot == [valid |-> FALSE, ms |-> 0, bytes |-> <<>>]
Silent == [source |-> "silent"]

Init ==
  /\ clock = 0 /\ events = MaxEvents
  /\ arp \in [Ips -> Macs]
  /\ flow \in [Ips -> {Closed} \union [open : {TRUE}, bytes : {0}, node : {NoMac}]]
  /\ caps \in CapsSets /\ bpf = "off" /\ config \in Configs
  /\ prev = [t \in Tables |-> NoSnapshot]
  /\ reply = Silent
  /\ moved = [t \in Tables |-> [m \in Macs |-> 0]]
  /\ gained = [t \in Tables |-> {}] /\ shrunk = [t \in Tables |-> {}]

----------------------------------------------------------------------------
(* Policy *)

Forced == config.conn # "auto"
DirectPreferred == config.rate = "auto" /\ {"nss", "direct"} \subseteq caps

\* Mutant of SyncPreferred: conntrack accounting is enough.
SyncWithoutNss == config.rate = "auto" /\ "acct" \in caps

SyncPreferred == config.rate = "auto" /\ {"nss", "acct"} \subseteq caps

PrimaryPreferred == DirectPreferred \/ SyncPreferred
FallbackActive ==
  (config.fallback \/ Forced) /\ PrimaryPreferred /\ ~DirectPreferred /\ "acct" \in caps
ReadActive ==
  FallbackActive \/ (DirectPreferred /\ (config.fallback \/ Forced) /\ SyncPreferred)

\* Mutant of PrimarySource: BPF is named whenever it is attached.
PrimaryBpfFirst ==
  IF bpf # "off" THEN "bpf"
  ELSE IF DirectPreferred THEN "direct"
  ELSE IF SyncPreferred THEN "conntrack"
  ELSE "none"

\* collector_primary_source: what `status` names. Its last case, an active
\* conntrack fallback, is one where SyncPreferred holds.
PrimarySource ==
  IF DirectPreferred THEN "direct"
  ELSE IF SyncPreferred THEN "conntrack"
  ELSE IF bpf # "off" THEN "bpf"
  ELSE "none"

----------------------------------------------------------------------------
(* Snapshots *)

\* find_arp_entry and the identity key; ECM's own source MAC comes first.
Owner(t, i, flows, neigh) ==
  IF ~flows[i].open \/ neigh[i] = NoMac THEN NoMac
  ELSE IF t = "direct" /\ flows[i].node # NoMac THEN flows[i].node
  ELSE neigh[i]

Credited(t, m) == {i \in Ips : Owner(t, i, flow, arp) = m}
Seen(t, dump) == {m \in Macs : Credited(t, m) \intersect dump # {}}
Missed(t, dump) == Seen(t, Ips \ dump)

\* The flows a read may find. A file's end and a failed read look the same to
\* fgets, and the kernel walks a live table; a broken netlink dump is an error.
Dumps(t) == IF t = "conntrack" /\ config.conn = "netlink" THEN {Ips} ELSE SUBSET Ips

\* The fold: once max_clients clients are in, further ones are skipped; which
\* ones come first is up to the order of the dump.
Kept(t, dump) ==
  IF Cardinality(Seen(t, dump)) <= MaxClients THEN {Seen(t, dump)}
  ELSE kSubset(MaxClients, Seen(t, dump))
Bytes == [i \in Ips |-> flow[i].bytes]
Folded(t, kept, dump) ==
  [m \in kept |-> SumFunctionOnSet(Bytes, Credited(t, m) \intersect dump)]

HasArp == \E i \in Ips : arp[i] # NoMac
Paths == IF Forced THEN {config.conn} ELSE {"netlink", "procfs"}

\* read_nss_ecm_direct_snapshot fails without a client, read_conntrack_snapshot_mode does not.
Readable(up) ==
  {t \in Tables : /\ HasArp
                  /\ t = "direct" => "ecm" \in up /\ Seen("direct", Ips) # {}
                  /\ t = "conntrack" => Paths \intersect up # {}}

----------------------------------------------------------------------------
(* clients_method *)

\* The tables this call would read, in the order direct, conntrack.
Asked == {t \in Tables : IF t = "direct" THEN DirectPreferred ELSE ReadActive}
OrBpf == IF bpf = "ready" THEN "bpf" ELSE "none"

\* Mutant of Chosen: an NSS device never falls back to BPF.
ChosenWithoutBpf(failed) ==
  IF "direct" \in Asked \ failed THEN "direct"
  ELSE IF "conntrack" \in Asked \ failed THEN "conntrack"
  ELSE IF PrimaryPreferred THEN "none" ELSE OrBpf

\* `failed`: the tables that cannot be read this time.
Chosen(failed) ==
  IF "direct" \in Asked \ failed THEN "direct"
  ELSE IF "conntrack" \in Asked \ failed THEN "conntrack"
  ELSE OrBpf

\* Mutant of Previous: both tables use one previous snapshot.
PreviousShared(t) == prev["conntrack"]
Previous(t) == prev[t]

\* Mutant of Delta: a counter that went down is not told apart.
DeltaUnguarded(now, old, ms) == IF ms = 0 THEN 0 ELSE now - old

\* delta_bps over the interval since the previous snapshot.
Delta(now, old, ms) == IF now < old \/ ms = 0 THEN 0 ELSE now - old

Rates(t, cur) ==
  LET old == Previous(t)
      ms == IF old.valid THEN clock - old.ms ELSE 0
  IN [m \in DOMAIN cur |->
        IF old.valid /\ m \in DOMAIN old.bytes
          THEN [known |-> TRUE, bytes |-> Delta(cur[m], old.bytes[m], ms)]
          ELSE [known |-> FALSE, bytes |-> 0]]

Answer(source, failed, listed, rates, missed) ==
  [source |-> source, failed |-> failed, listed |-> listed, rates |-> rates, missed |-> missed]

\* emit_conntrack_clients, and the same loop of collect_nss_ecm_direct_clients.
FromTable(t, failed) ==
  /\ Chosen(failed) = t
  /\ \E dump \in Dumps(t) : \E kept \in Kept(t, dump) :
       LET cur == Folded(t, kept, dump)
       IN /\ t = "direct" => kept # {}
          /\ reply' = Answer(t, IF t = "direct" THEN {} ELSE failed, kept, Rates(t, cur), Missed(t, dump))
          /\ prev' = [prev EXCEPT ![t] = [valid |-> TRUE, ms |-> clock, bytes |-> cur]]
          /\ gained' = [gained EXCEPT ![t] = Missed(t, dump)]
  /\ moved' = [moved EXCEPT ![t] = [m \in Macs |-> 0]]
  /\ shrunk' = [shrunk EXCEPT ![t] = {}]
  /\ UNCHANGED <<clock, flow, arp, caps, bpf, config, events>>

\* collect_bpf_clients, or an empty answer.
FromBpf(failed) ==
  /\ Chosen(failed) \in {"bpf", "none"}
  /\ \E listed \in IF Chosen(failed) = "bpf" THEN (SUBSET Macs) \ {{}} ELSE {{}} :
       reply' = Answer(Chosen(failed), failed, listed, <<>>, {})
  /\ UNCHANGED <<clock, flow, arp, caps, bpf, config, events, prev, history>>

\* `up`: the kernel interfaces that can be read this time.
ClientsCall ==
  \E failed \in {Asked \ Readable(up) : up \in SUBSET {"ecm", "netlink", "procfs"}} :
    (\E t \in Tables : FromTable(t, failed)) \/ FromBpf(failed)

----------------------------------------------------------------------------
(* Between two calls *)

Change == events > 0 /\ events' = events - 1 /\ reply' = Silent

Wait ==
  /\ clock < MaxTime /\ clock' = clock + 1 /\ reply' = Silent
  /\ UNCHANGED <<flow, arp, caps, bpf, config, prev, events, history>>

Traffic(i) ==
  /\ Change
  /\ flow[i].open /\ flow[i].bytes < MaxBytes
  /\ flow' = [flow EXCEPT ![i].bytes = @ + 1]
  /\ moved' = [t \in Tables |-> [m \in Macs |->
                 IF prev[t].valid /\ m = Owner(t, i, flow, arp) THEN moved[t][m] + 1 ELSE moved[t][m]]]
  /\ UNCHANGED <<clock, arp, caps, bpf, config, prev, gained, shrunk>>

\* A new flow or ARP entry; who is credited with the address's flow may change.
Rewire(flows, neigh) ==
  /\ Change
  /\ flow' = flows /\ arp' = neigh
  /\ gained' = [t \in Tables |-> gained[t] \union
       {m \in Macs : \E i \in Ips : /\ prev[t].valid /\ flow[i].open /\ Owner(t, i, flows, neigh) = m
                                    /\ Owner(t, i, flow, arp) # m}]
  /\ shrunk' = [t \in Tables |-> shrunk[t] \union
       {m \in Macs : \E i \in Ips : /\ prev[t].valid /\ Owner(t, i, flow, arp) = m
                                    /\ Owner(t, i, flows, neigh) # m}]
  /\ UNCHANGED <<clock, caps, bpf, config, prev, moved>>

FlowOpens(i, node) ==
  ~flow[i].open /\ Rewire([flow EXCEPT ![i] = [open |-> TRUE, bytes |-> 0, node |-> node]], arp)
FlowCloses(i) == flow[i].open /\ Rewire([flow EXCEPT ![i] = Closed], arp)
ArpChanges(i, m) == arp[i] # m /\ Rewire(flow, [arp EXCEPT ![i] = m])

\* A second BPF snapshot is in.
BpfWarms ==
  /\ bpf = "warming" /\ bpf' = "ready" /\ reply' = Silent
  /\ UNCHANGED <<clock, flow, arp, caps, config, prev, events, history>>

ProbeChanges(found, state) ==
  /\ Change
  /\ (found = caps) # (state = bpf)
  /\ caps' = found /\ bpf' = state
  /\ UNCHANGED <<clock, flow, arp, config, prev, history>>

Next ==
  \/ ClientsCall \/ Wait \/ BpfWarms
  \/ \E i \in Ips :
       \/ Traffic(i) \/ FlowCloses(i)
       \/ \E m \in Macs \union {NoMac} : FlowOpens(i, m) \/ ArpChanges(i, m)
  \/ \E found \in CapsSets, state \in {"off", "warming"} : ProbeChanges(found, state)

Spec == Init /\ [][Next]_vars
----------------------------------------------------------------------------
(* Properties *)

Sums == 0..MaxBytes * Cardinality(Ips)
Listings(S) == UNION {[ms -> S] : ms \in SUBSET Macs}
Replies ==
  {Silent} \union
  [source : Tables \union {"bpf", "none"}, failed : SUBSET Tables,
   listed : SUBSET Macs, missed : SUBSET Macs,
   rates : Listings([known : BOOLEAN, bytes : Sums])]

TypeOK ==
  /\ clock \in 0..MaxTime /\ events \in 0..MaxEvents
  /\ flow \in [Ips -> [open : BOOLEAN, bytes : 0..MaxBytes, node : Macs \union {NoMac}]]
  /\ arp \in [Ips -> Macs \union {NoMac}]
  /\ caps \in CapsSets /\ bpf \in {"off", "warming", "ready"} /\ config \in Configs
  /\ prev \in [Tables -> [valid : BOOLEAN, ms : 0..MaxTime, bytes : Listings(Sums)]]
  /\ reply \in Replies
  /\ moved \in [Tables -> [Macs -> Nat]]
  /\ {gained, shrunk} \subseteq [Tables -> SUBSET Macs]

Answered == reply.source # "silent"

\* Whatever other pollers and other sources were asked in between: the bytes
\* behind a client's rate are no more than it moved since the snapshot the
\* interval is counted from, and exactly those if it kept its flows (each table
\* keeps its own snapshot and time). Excepted is a client that came to be
\* credited with a flow that was counting already: the fold then adds the
\* flow's whole history to one interval.
RatesHonest ==
  [][\A t \in Tables : reply'.source = t =>
       \A m \in DOMAIN reply'.rates : LET rate == reply'.rates[m] IN
         rate.known =>
           /\ m \notin gained[t] => rate.bytes <= moved[t][m]
           /\ /\ m \notin gained[t] \union shrunk[t] \union reply'.missed
              /\ clock > prev[t].ms
              => rate.bytes = moved[t][m]
    ]_vars

\* A device without NSS never gets live rates from conntrack (README.md:32 of the
\* repository says so), nor does one where the fallback is switched off and no
\* conntrack reader is forced.
ConntrackNeedsNss ==
  reply.source = "conntrack" =>
    /\ {"nss", "acct"} \subseteq caps /\ config.rate = "auto"
    /\ config.fallback \/ Forced

\* BPF is the last resort of every path: while it has rates to offer, an answer
\* is empty only if conntrack could be read and knew no client.
BpfIsLastResort ==
  Answered /\ bpf = "ready" =>
    /\ reply.source # "none"
    /\ reply.listed = {} => reply.source = "conntrack"

\* `status` and `clients` name the same source unless the primary one could not
\* be read, BPF has no two snapshots yet, or conntrack is named as primary while
\* enable_conntrack_fallback keeps `clients` from reading it.
StatusNamesSource ==
  Answered /\ reply.source # PrimarySource =>
    CASE PrimarySource = "direct" -> "direct" \in reply.failed
      [] PrimarySource = "conntrack" -> "conntrack" \in reply.failed \/ ~(config.fallback \/ Forced)
      [] PrimarySource = "bpf" -> bpf = "warming"
      [] OTHER -> FALSE
=============================================================================
