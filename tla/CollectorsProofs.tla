-------------------------- MODULE CollectorsProofs --------------------------
(***************************************************************************)
(* What the `clients` call promises, for any LAN, any configuration, any   *)
(* findings of the probe and any number of calls: the source it answers    *)
(* from is the one the policy says, and the rates it computes from a       *)
(* table's snapshots are bytes that the client moved.                      *)
(***************************************************************************)
EXTENDS Collectors, DataLemmas

\* What a table would credit a client with if it were read in full now.
Total(t, m) == SumFunctionOnSet(Bytes, Credited(t, m))

\* The last answer follows from the policy and the reads that failed: the
\* findings and the configuration are still those it was made from.
ReplyRight ==
  Answered =>
    /\ reply.failed \subseteq Asked
    /\ reply.source = Chosen(reply.failed)
    /\ reply.source \in {"direct", "bpf"} => reply.listed # {}

\* What a client would be credited with now is what the snapshot says plus
\* what it moved since, or less: it has lost flows. Only a client that came to
\* be credited with a flow that was counting may have more.
SnapshotRight ==
  \A t \in Tables : prev[t].valid =>
    \A m \in DOMAIN prev[t].bytes : m \notin gained[t] =>
      /\ Total(t, m) <= prev[t].bytes[m] + moved[t][m]
      /\ m \notin shrunk[t] => Total(t, m) = prev[t].bytes[m] + moved[t][m]

----------------------------------------------------------------------------
(* The data *)

Counters == [Ips -> [open : BOOLEAN, bytes : 0..MaxBytes, node : Macs \union {NoMac}]]
Addresses == [Ips -> Macs \union {NoMac}]

\* An empty snapshot lists nobody.
LEMMA EmptyListing == ASSUME NEW S PROVE <<>> \in Listings(S)
<1>1. <<>> \in [{} -> S] /\ {} \in SUBSET Macs  OBVIOUS
<1> QED  BY <1>1 DEF Listings

LEMMA ListingType ==
  ASSUME NEW S, NEW r \in Listings(S)
  PROVE  DOMAIN r \subseteq Macs /\ \A m \in DOMAIN r : r[m] \in S
BY DEF Listings

LEMMA MakesListing ==
  ASSUME NEW S, NEW kept \in SUBSET Macs, NEW r \in [kept -> S]
  PROVE  r \in Listings(S)
BY DEF Listings

\* Owner names a client or nobody.
LEMMA OwnerType ==
  ASSUME NEW t, NEW i \in Ips, NEW flows \in Counters, NEW neigh \in Addresses
  PROVE  Owner(t, i, flows, neigh) \in Macs \union {NoMac}
BY DEF Owner, Counters, Addresses

\* A closed flow has no owner.
LEMMA OwnedIsOpen ==
  ASSUME NEW t, NEW i \in Ips, NEW flows, NEW neigh, NEW m \in Macs, Owner(t, i, flows, neigh) = m
  PROVE  flows[i].open
BY NoMacAssumption DEF Owner

\* The sums over a client's flows, whole or as far as they were read.
LEMMA SumsOfFlows ==
  ASSUME TypeOK, NEW S \in SUBSET Ips
  PROVE  /\ SumFunctionOnSet(Bytes, S) \in Sums
         /\ \A T \in SUBSET S : SumFunctionOnSet(Bytes, T) <= SumFunctionOnSet(Bytes, S)
<1>1. \A i \in Ips : Bytes[i] \in 0..MaxBytes /\ Bytes[i] \in Nat
  BY BoundAssumption DEF TypeOK, Bytes
<1>2. IsFiniteSet(S) /\ Cardinality(S) <= Cardinality(Ips)
  BY IpsAssumption, FS_Subset
<1>3. Cardinality(S) \in Nat /\ Cardinality(Ips) \in Nat
  BY <1>2, IpsAssumption, FS_CardinalityType
<1>4. MaxBytes \in Nat  BY BoundAssumption
<1>5. SumFunctionOnSet(Bytes, S) \in Nat  BY <1>1, <1>2, SumType
<1>6. SumFunctionOnSet(Bytes, S) <= MaxBytes * Cardinality(S)
  BY <1>1, <1>2, <1>4, SumBounded
<1>7. MaxBytes * Cardinality(S) <= MaxBytes * Cardinality(Ips)
  BY <1>2, <1>3, <1>4, TimesMonotone
<1>8. MaxBytes * Cardinality(S) \in Nat /\ MaxBytes * Cardinality(Ips) \in Nat
  BY <1>3, <1>4
<1>9. SumFunctionOnSet(Bytes, S) \in Sums  BY <1>5, <1>6, <1>7, <1>8 DEF Sums
<1>10. ASSUME NEW T \in SUBSET S
       PROVE  SumFunctionOnSet(Bytes, T) <= SumFunctionOnSet(Bytes, S)
  BY <1>1, <1>2, SumMonotone
<1> QED  BY <1>9, <1>10

----------------------------------------------------------------------------
(* Types *)

\* What a call does with what it read.
Reads(t, failed, dump, kept) ==
  LET cur == Folded(t, kept, dump)
  IN /\ t = "direct" => kept # {}
     /\ reply' = Answer(t, IF t = "direct" THEN {} ELSE failed, kept, Rates(t, cur), Missed(t, dump))
     /\ prev' = [prev EXCEPT ![t] = [valid |-> TRUE, ms |-> clock, bytes |-> cur]]
     /\ gained' = [gained EXCEPT ![t] = Missed(t, dump)]

\* Who is listed is a client, and what is listed for it is a sum of its flows.
LEMMA KeptType ==
  ASSUME NEW t, NEW dump \in SUBSET Ips, NEW kept \in Kept(t, dump)
  PROVE  kept \in SUBSET Macs
BY DEF Kept, Seen, kSubset

LEMMA FoldedType ==
  ASSUME TypeOK, NEW t, NEW dump \in SUBSET Ips, NEW kept \in SUBSET Macs
  PROVE  Folded(t, kept, dump) \in [kept -> Sums]
<1>1. ASSUME NEW m \in kept
      PROVE  SumFunctionOnSet(Bytes, Credited(t, m) \intersect dump) \in Sums
  <2>1. Credited(t, m) \intersect dump \in SUBSET Ips  OBVIOUS
  <2> QED  BY <2>1, SumsOfFlows
<1> QED  BY <1>1 DEF Folded

LEMMA SumsAreNat == Sums \subseteq Nat
<1>1. Cardinality(Ips) \in Nat  BY IpsAssumption, FS_CardinalityType
<1> QED  BY <1>1, BoundAssumption DEF Sums

LEMMA RatesType ==
  ASSUME TypeOK, NEW t \in Tables, NEW kept \in SUBSET Macs, NEW cur \in [kept -> Sums]
  PROVE  Rates(t, cur) \in [kept -> [known : BOOLEAN, bytes : Sums]]
<1>1. DOMAIN cur = kept  OBVIOUS
<1>2. prev[t].bytes \in Listings(Sums)  BY DEF TypeOK
<1>3. \A m \in DOMAIN prev[t].bytes : prev[t].bytes[m] \in Sums  BY <1>2, ListingType
<1>4. ASSUME NEW now \in Sums, NEW old \in Sums, NEW ms
      PROVE  Delta(now, old, ms) \in Sums
  <2>1. Cardinality(Ips) \in Nat /\ MaxBytes * Cardinality(Ips) \in Nat
    BY IpsAssumption, FS_CardinalityType, BoundAssumption
  <2> QED  BY <1>4, <2>1 DEF Delta, Sums
<1>5. \A m \in kept : cur[m] \in Sums  OBVIOUS
<1>6. 0 \in Sums
  <2>1. Cardinality(Ips) \in Nat /\ MaxBytes * Cardinality(Ips) \in Nat
    BY IpsAssumption, FS_CardinalityType, BoundAssumption
  <2> QED  BY <2>1 DEF Sums
<1> QED  BY <1>1, <1>3, <1>4, <1>5, <1>6 DEF Rates, Previous

LEMMA TypeInit == Init => TypeOK
<1> SUFFICES ASSUME Init PROVE TypeOK
  OBVIOUS
<1>1. flow \in [Ips -> [open : BOOLEAN, bytes : 0..MaxBytes, node : Macs \union {NoMac}]]
  <2> DEFINE Record == [open : BOOLEAN, bytes : 0..MaxBytes, node : Macs \union {NoMac}]
  <2>1. Closed \in Record  BY BoundAssumption DEF Closed
  <2>2. [open : {TRUE}, bytes : {0}, node : {NoMac}] \subseteq Record
    <3>1. 0 \in 0..MaxBytes  BY BoundAssumption
    <3> QED  BY <3>1
  <2>3. flow \in [Ips -> {Closed} \union [open : {TRUE}, bytes : {0}, node : {NoMac}]]
    BY DEF Init
  <2> HIDE DEF Record
  <2>4. flow \in [Ips -> Record]  BY <2>1, <2>2, <2>3
  <2> QED  BY <2>4 DEF Record
<1>2. prev \in [Tables -> [valid : BOOLEAN, ms : 0..MaxTime, bytes : Listings(Sums)]]
  BY EmptyListing, BoundAssumption DEF Init, NoSnapshot
<1> QED  BY <1>1, <1>2, BoundAssumption DEF Init, TypeOK, Replies

LEMMA TypeFromTable ==
  ASSUME TypeOK, NEW failed \in SUBSET Tables, NEW t \in Tables, FromTable(t, failed)
  PROVE  TypeOK'
<1>0. PICK dump \in SUBSET Ips : \E kept \in Kept(t, dump) : Reads(t, failed, dump, kept)
  BY DEF FromTable, Dumps, Reads
<1>1. PICK kept \in Kept(t, dump) : Reads(t, failed, dump, kept)  BY <1>0
<1> DEFINE cur == Folded(t, kept, dump)
<1>2. kept \in SUBSET Macs  BY <1>1, KeptType
<1>3. cur \in [kept -> Sums]  BY <1>1, <1>2, FoldedType
<1>4. Missed(t, dump) \in SUBSET Macs  BY DEF Missed, Seen
<1>5. reply' \in Replies
  <2> DEFINE missed == Missed(t, dump)
             rates == Rates(t, cur)
             lost == IF t = "direct" THEN {} ELSE failed
  <2>1. rates \in Listings([known : BOOLEAN, bytes : Sums])
    <3>1. rates \in [kept -> [known : BOOLEAN, bytes : Sums]]
      <4> HIDE DEF cur
      <4> QED  BY <1>2, <1>3, RatesType
    <3> HIDE DEF rates
    <3> QED  BY <1>2, <3>1, MakesListing
  <2>2. lost \in SUBSET Tables /\ missed \in SUBSET Macs  BY <1>4
  <2>3. reply' = Answer(t, lost, kept, rates, missed)  BY <1>1 DEF Reads
  <2> HIDE DEF missed, rates, lost
  <2> QED  BY <1>2, <2>1, <2>2, <2>3 DEF Answer, Replies
<1>6. prev' \in [Tables -> [valid : BOOLEAN, ms : 0..MaxTime, bytes : Listings(Sums)]]
  <2>1. cur \in Listings(Sums)
    <3> HIDE DEF cur
    <3> QED  BY <1>2, <1>3, MakesListing
  <2>2. prev' = [prev EXCEPT ![t] = [valid |-> TRUE, ms |-> clock, bytes |-> cur]]  BY <1>1 DEF Reads
  <2> HIDE DEF cur
  <2> QED  BY <2>1, <2>2 DEF TypeOK
<1>7. gained' \in [Tables -> SUBSET Macs]  BY <1>1, <1>4 DEF TypeOK, Reads
<1> HIDE DEF cur
<1> QED  BY <1>5, <1>6, <1>7 DEF FromTable, TypeOK

LEMMA TypeFromBpf ==
  ASSUME TypeOK, NEW failed \in SUBSET Tables, FromBpf(failed)
  PROVE  TypeOK'
<1>1. reply' \in Replies
  <2>1. PICK listed \in SUBSET Macs : reply' = Answer(Chosen(failed), failed, listed, <<>>, {})
    BY DEF FromBpf
  <2>2. Chosen(failed) \in {"bpf", "none"}  BY DEF FromBpf
  <2> QED  BY <2>1, <2>2, EmptyListing DEF Answer, Replies
<1> QED  BY <1>1 DEF FromBpf, TypeOK, history

LEMMA TypeOfFlow ==
  ASSUME TypeOK, NEW i \in Ips, NEW m \in Macs \union {NoMac}
  PROVE  /\ [flow EXCEPT ![i] = [open |-> TRUE, bytes |-> 0, node |-> m]] \in Counters
         /\ [flow EXCEPT ![i] = Closed] \in Counters
         /\ flow \in Counters
         /\ [arp EXCEPT ![i] = m] \in Addresses
         /\ arp \in Addresses
BY BoundAssumption DEF TypeOK, Closed, Counters, Addresses

LEMMA TypeRewire ==
  ASSUME TypeOK, NEW flows \in Counters, NEW neigh \in Addresses, Rewire(flows, neigh)
  PROVE  TypeOK'
<1>1. gained' \in [Tables -> SUBSET Macs] /\ shrunk' \in [Tables -> SUBSET Macs]
  BY DEF TypeOK, Rewire
<1> QED  BY <1>1, BoundAssumption DEF Rewire, Change, TypeOK, Counters, Addresses, Replies

LEMMA TypeStep == TypeOK /\ [Next]_vars => TypeOK'
<1> SUFFICES ASSUME TypeOK, [Next]_vars PROVE TypeOK'
  OBVIOUS
<1>1. CASE ClientsCall
  BY <1>1, TypeFromTable, TypeFromBpf DEF ClientsCall, Asked
<1>2. CASE Wait
  BY <1>2, BoundAssumption DEF Wait, TypeOK, Replies, history
<1>3. CASE BpfWarms
  BY <1>3 DEF BpfWarms, TypeOK, Replies, history
<1>4. ASSUME NEW i \in Ips, Traffic(i) PROVE TypeOK'
  <2>1. moved' \in [Tables -> [Macs -> Nat]]  BY <1>4 DEF Traffic, TypeOK
  <2>2. flow' \in [Ips -> [open : BOOLEAN, bytes : 0..MaxBytes, node : Macs \union {NoMac}]]
    BY <1>4, BoundAssumption DEF Traffic, TypeOK
  <2> QED  BY <1>4, <2>1, <2>2, BoundAssumption DEF Traffic, Change, TypeOK, Replies
<1>5. ASSUME NEW i \in Ips, FlowCloses(i) PROVE TypeOK'
  BY <1>5, TypeRewire, TypeOfFlow DEF FlowCloses
<1>6. ASSUME NEW i \in Ips, NEW m \in Macs \union {NoMac}, FlowOpens(i, m) \/ ArpChanges(i, m)
      PROVE  TypeOK'
  BY <1>6, TypeRewire, TypeOfFlow DEF FlowOpens, ArpChanges
<1>7. ASSUME NEW found \in CapsSets, NEW state \in {"off", "warming"}, ProbeChanges(found, state)
      PROVE  TypeOK'
  BY <1>7, BoundAssumption DEF ProbeChanges, Change, TypeOK, Replies, history
<1>8. CASE UNCHANGED vars
  BY <1>8 DEF vars, TypeOK, Replies
<1> QED  BY <1>1, <1>2, <1>3, <1>4, <1>5, <1>6, <1>7, <1>8 DEF Next

\* The variables always hold what their declarations say; for prev and reply
\* that bounds what a table can credit a client with.
THEOREM TypesHold == Spec => []TypeOK
<1> QED  BY TypeInit, TypeStep, PTL DEF Spec

----------------------------------------------------------------------------
(* The answer and the policy *)

LEMMA ReplyStep == TypeOK /\ ReplyRight /\ [Next]_vars => ReplyRight'
<1> SUFFICES ASSUME TypeOK, ReplyRight, [Next]_vars PROVE ReplyRight'
  OBVIOUS
<1>1. ASSUME NEW failed \in SUBSET Asked, NEW t \in Tables, FromTable(t, failed)
      PROVE  ReplyRight'
  <2>1. PICK dump \in SUBSET Ips : \E kept \in Kept(t, dump) : Reads(t, failed, dump, kept)
    BY <1>1 DEF FromTable, Dumps, Reads
  <2>2. PICK kept \in Kept(t, dump) : Reads(t, failed, dump, kept)  BY <2>1
  <2>3. /\ reply'.source = t /\ reply'.listed = kept
        /\ reply'.failed = IF t = "direct" THEN {} ELSE failed
        /\ t = "direct" => kept # {}
    BY <2>2 DEF Reads, Answer
  <2>4. Asked' = Asked
    BY <1>1 DEF FromTable, Asked, ReadActive, FallbackActive, PrimaryPreferred, DirectPreferred,
                SyncPreferred, Forced
  <2>5. t = Chosen(failed) /\ (t = "direct" => t = Chosen({}))
    BY <1>1 DEF FromTable, Chosen, OrBpf
  <2>6. Chosen(reply'.failed) = t  BY <2>3, <2>5
  <2>7. Chosen(reply'.failed) = Chosen(reply.failed)'
    BY <1>1, <2>4 DEF Chosen, OrBpf, FromTable
  <2> QED  BY <1>1, <2>3, <2>4, <2>6, <2>7 DEF ReplyRight, Tables
<1>2. ASSUME NEW failed \in SUBSET Asked, FromBpf(failed)
      PROVE  ReplyRight'
  <2>1. PICK listed : /\ reply' = Answer(Chosen(failed), failed, listed, <<>>, {})
                      /\ Chosen(failed) = "bpf" => listed # {}
    <3>1. PICK listed \in IF Chosen(failed) = "bpf" THEN (SUBSET Macs) \ {{}} ELSE {{}} :
            reply' = Answer(Chosen(failed), failed, listed, <<>>, {})
      BY <1>2 DEF FromBpf
    <3>2. Chosen(failed) = "bpf" => listed # {}  BY <3>1
    <3> QED  BY <3>1, <3>2
  <2>2. Asked' = Asked
    BY <1>2 DEF FromBpf, Asked, ReadActive, FallbackActive, PrimaryPreferred, DirectPreferred,
                SyncPreferred, Forced
  <2>3. Chosen(failed) \in {"bpf", "none"}  BY <1>2 DEF FromBpf
  <2>4. /\ reply'.source = Chosen(failed) /\ reply'.listed = listed /\ reply'.failed = failed
    BY <2>1 DEF Answer
  <2>5. Chosen(failed) = Chosen(reply.failed)'
    BY <1>2, <2>2, <2>4 DEF Chosen, OrBpf, FromBpf
  <2> QED  BY <1>2, <2>1, <2>2, <2>3, <2>4, <2>5 DEF ReplyRight
<1>3. ASSUME reply' = Silent PROVE ReplyRight'
  BY <1>3 DEF ReplyRight, Answered, Silent
<1>4. ASSUME UNCHANGED vars PROVE ReplyRight'
  BY <1>4 DEF vars, ReplyRight, Answered, Asked, ReadActive, FallbackActive, PrimaryPreferred,
              DirectPreferred, SyncPreferred, Forced, Chosen, OrBpf
<1>5. CASE ClientsCall
  BY <1>1, <1>2, <1>5 DEF ClientsCall
<1>6. ClientsCall \/ reply' = Silent \/ UNCHANGED vars
  BY DEF Next, Wait, BpfWarms, Traffic, FlowCloses, FlowOpens, ArpChanges, Rewire, ProbeChanges, Change
<1> QED  BY <1>3, <1>4, <1>5, <1>6

LEMMA ReplyHolds == Spec => []ReplyRight
<1>1. Init => ReplyRight  BY DEF Init, ReplyRight, Answered, Silent
<1> QED  BY <1>1, TypeInit, TypeStep, ReplyStep, PTL DEF Spec

\* An answer from conntrack comes from a device with NSS whose connections are
\* accounted, in the rate mode and with the fallback or the reader that allow it.
THEOREM OnlyNssUsesConntrack == Spec => []ConntrackNeedsNss
<1>1. ReplyRight => ConntrackNeedsNss
  BY DEF ReplyRight, ConntrackNeedsNss, Answered, Chosen, OrBpf, Asked, ReadActive, FallbackActive,
         PrimaryPreferred, DirectPreferred, SyncPreferred
<1> QED  BY <1>1, ReplyHolds, PTL

\* As long as BPF has rates to offer, an answer without clients is conntrack's,
\* whatever could not be read.
THEOREM BpfComesLast == Spec => []BpfIsLastResort
<1>1. ReplyRight => BpfIsLastResort
  BY DEF ReplyRight, BpfIsLastResort, Answered, Chosen, OrBpf
<1> QED  BY <1>1, ReplyHolds, PTL

\* What `status` calls the primary source is the one `clients` answers from,
\* but for the exceptions the property names.
THEOREM StatusIsClients == Spec => []StatusNamesSource
<1>1. TypeOK /\ ReplyRight => StatusNamesSource
  <2> SUFFICES ASSUME TypeOK, ReplyRight, Answered, reply.source # PrimarySource
               PROVE  CASE PrimarySource = "direct" -> "direct" \in reply.failed
                        [] PrimarySource = "conntrack" ->
                             "conntrack" \in reply.failed \/ ~(config.fallback \/ Forced)
                        [] PrimarySource = "bpf" -> bpf = "warming"
                        [] OTHER -> FALSE
    BY DEF StatusNamesSource
  <2>1. reply.source = Chosen(reply.failed)  BY DEF ReplyRight
  <2>2. CASE DirectPreferred
    <3>1. PrimarySource = "direct" /\ "direct" \in Asked  BY <2>2 DEF PrimarySource, Asked, Tables
    <3> QED  BY <2>1, <3>1 DEF Chosen
  <2>3. CASE ~DirectPreferred /\ SyncPreferred
    <3>1. PrimarySource = "conntrack"  BY <2>3 DEF PrimarySource
    <3>2. config.fallback \/ Forced => "conntrack" \in Asked /\ "direct" \notin Asked
      BY <2>3 DEF Asked, Tables, ReadActive, FallbackActive, PrimaryPreferred, SyncPreferred
    <3> QED  BY <2>1, <3>1, <3>2 DEF Chosen
  <2>4. CASE ~DirectPreferred /\ ~SyncPreferred
    <3>1. Asked = {}
      BY <2>4 DEF Asked, Tables, ReadActive, FallbackActive, PrimaryPreferred
    <3>2. reply.source = OrBpf  BY <2>1, <3>1 DEF Chosen
    <3>3. CASE bpf = "off"  BY <2>4, <3>2, <3>3 DEF PrimarySource, OrBpf
    <3>4. CASE bpf # "off"
      BY <2>4, <3>2, <3>4 DEF PrimarySource, OrBpf, TypeOK
    <3> QED  BY <3>3, <3>4
  <2> QED  BY <2>2, <2>3, <2>4
<1> QED  BY <1>1, TypesHold, ReplyHolds, PTL

----------------------------------------------------------------------------
(* The snapshots and what moved since *)

LEMMA TotalType ==
  ASSUME TypeOK, NEW t, NEW m
  PROVE  Total(t, m) \in Nat
<1>1. Credited(t, m) \in SUBSET Ips  BY DEF Credited
<1>2. Total(t, m) \in Sums  BY <1>1, SumsOfFlows DEF Total
<1> QED  BY <1>2, SumsAreNat

\* The hypotheses on the types that the steps below need.
LEMMA SnapshotType ==
  ASSUME TypeOK, NEW t \in Tables
  PROVE  /\ DOMAIN prev[t].bytes \subseteq Macs
         /\ \A m \in DOMAIN prev[t].bytes : prev[t].bytes[m] \in Nat
         /\ \A m \in Macs : moved[t][m] \in Nat
         /\ gained[t] \subseteq Macs /\ shrunk[t] \subseteq Macs
<1>1. prev[t].bytes \in Listings(Sums)  BY DEF TypeOK
<1>2. /\ DOMAIN prev[t].bytes \subseteq Macs
      /\ \A m \in DOMAIN prev[t].bytes : prev[t].bytes[m] \in Sums
  BY <1>1, ListingType
<1> QED  BY <1>2, SumsAreNat DEF TypeOK

\* A call sums what it read; of a client it did not miss anything of, all.
LEMMA ReadSums ==
  ASSUME TypeOK, NEW t \in Tables, NEW dump \in SUBSET Ips, NEW kept \in Kept(t, dump),
         NEW m \in kept
  PROVE  /\ Folded(t, kept, dump)[m] \in Nat
         /\ Folded(t, kept, dump)[m] <= Total(t, m)
         /\ m \notin Missed(t, dump) => Folded(t, kept, dump)[m] = Total(t, m)
<1> DEFINE S == Credited(t, m)
           T == S \intersect dump
<1>1. S \in SUBSET Ips /\ T \in SUBSET S /\ T \in SUBSET Ips  BY DEF Credited
<1>2. Folded(t, kept, dump)[m] = SumFunctionOnSet(Bytes, T)  BY DEF Folded
<1>3. SumFunctionOnSet(Bytes, T) \in Nat /\ SumFunctionOnSet(Bytes, T) <= SumFunctionOnSet(Bytes, S)
  <2> HIDE DEF S, T
  <2> QED  BY <1>1, SumsOfFlows, SumsAreNat
<1>4. m \in Macs  BY KeptType
<1>5. m \notin Missed(t, dump) => T = S
  BY <1>1, <1>4 DEF Missed, Seen
<1> QED  BY <1>2, <1>3, <1>5 DEF Total

LEMMA SnapshotFromTable ==
  ASSUME TypeOK, SnapshotRight, NEW failed, NEW t \in Tables, FromTable(t, failed)
  PROVE  SnapshotRight'
<1>0. PICK dump \in SUBSET Ips : \E kept \in Kept(t, dump) : Reads(t, failed, dump, kept)
  BY DEF FromTable, Dumps, Reads
<1>1. PICK kept \in Kept(t, dump) : Reads(t, failed, dump, kept)  BY <1>0
<1>2. \A u \in Tables, m \in Macs : Total(u, m)' = Total(u, m)
  BY DEF FromTable, Total, Bytes, Credited, Owner
<1>3. \A u \in Tables : u # t => /\ prev'[u] = prev[u] /\ gained'[u] = gained[u]
                                 /\ moved'[u] = moved[u] /\ shrunk'[u] = shrunk[u]
  BY <1>1 DEF Reads, FromTable, TypeOK
<1>4. /\ prev'[t].bytes = Folded(t, kept, dump) /\ gained'[t] = Missed(t, dump)
      /\ moved'[t] = [m \in Macs |-> 0] /\ shrunk'[t] = {}
  BY <1>1 DEF Reads, FromTable, TypeOK
<1>5. DOMAIN Folded(t, kept, dump) = kept  BY DEF Folded
<1>6. ASSUME NEW u \in Tables, prev'[u].valid, NEW m \in DOMAIN prev'[u].bytes, m \notin gained'[u]
      PROVE  /\ Total(u, m)' <= prev'[u].bytes[m] + moved'[u][m]
             /\ m \notin shrunk'[u] => Total(u, m)' = prev'[u].bytes[m] + moved'[u][m]
  <2>1. CASE u = t
    <3>1. m \in kept /\ m \notin Missed(t, dump)  BY <1>4, <1>5, <1>6, <2>1
    <3>2. m \in Macs  BY <1>1, <3>1, KeptType
    <3>3. Folded(t, kept, dump)[m] = Total(t, m) /\ Total(t, m) \in Nat  BY <1>1, <3>1, ReadSums
    <3>4. Total(u, m)' = Total(t, m) /\ moved'[u][m] = 0  BY <1>2, <1>4, <2>1, <3>2
    <3> QED  BY <1>4, <2>1, <3>3, <3>4
  <2>2. CASE u # t
    <3>1. /\ prev[u].valid /\ m \in DOMAIN prev[u].bytes /\ m \notin gained[u]
          /\ prev'[u] = prev[u] /\ moved'[u] = moved[u] /\ shrunk'[u] = shrunk[u]
      BY <1>3, <1>6, <2>2
    <3>2. m \in Macs  BY <3>1, SnapshotType
    <3>3. Total(u, m)' = Total(u, m)  BY <1>2, <3>2
    <3> QED  BY <3>1, <3>3 DEF SnapshotRight
  <2> QED  BY <2>1, <2>2
<1> QED  BY <1>6 DEF SnapshotRight

\* A flow that counts adds to its owner's total what it adds to its moved bytes.
LEMMA SnapshotTraffic ==
  ASSUME TypeOK, SnapshotRight, NEW i \in Ips, Traffic(i)
  PROVE  SnapshotRight'
<1>1. /\ \A j \in Ips : Bytes'[j] = IF j = i THEN Bytes[j] + 1 ELSE Bytes[j]
      /\ \A j \in Ips : Bytes[j] \in Nat /\ Bytes'[j] \in Nat
  BY BoundAssumption DEF Traffic, Bytes, TypeOK
<1>2. \A u \in Tables, m \in Macs : Credited(u, m)' = Credited(u, m)
  BY DEF Traffic, Credited, Owner, TypeOK
<1>3. ASSUME NEW u \in Tables, prev[u].valid, NEW m \in Macs
      PROVE  \/ Total(u, m)' = Total(u, m) /\ moved'[u][m] = moved[u][m]
             \/ Total(u, m)' = Total(u, m) + 1 /\ moved'[u][m] = moved[u][m] + 1
  <2> DEFINE S == Credited(u, m)
             R == S \ {i}
             Now(s) == SumFunctionOnSet(Bytes', s)
             Old(s) == SumFunctionOnSet(Bytes, s)
  <2>1. IsFiniteSet(S) /\ IsFiniteSet(R) /\ S \in SUBSET Ips /\ R \in SUBSET Ips
    <3>1. S \in SUBSET Ips /\ R \in SUBSET Ips  BY DEF Credited
    <3> QED  BY <3>1, IpsAssumption, FS_Subset
  <2>2. Total(u, m)' = Now(S) /\ Total(u, m) = Old(S)  BY <1>2 DEF Total
  <2>3. moved[u][m] \in Nat  BY SnapshotType
  <2>4. CASE i \in S
    <3>1. moved'[u][m] = moved[u][m] + 1  BY <1>3, <2>4 DEF Credited, Traffic
    <3>2. Now(R) = Old(R)
      <4> DEFINE f == Bytes
                 g == Bytes'
      <4>1. /\ \A x \in R : f[x] = g[x] /\ g[x] \in Nat
            /\ R \in SUBSET R /\ \A x \in R \ R : g[x] = 0
        BY <1>1, <2>1
      <4> HIDE DEF f, g, R
      <4>2. SumFunctionOnSet(f, R) = SumFunctionOnSet(g, R)  BY <2>1, <4>1, SumAgrees
      <4> QED  BY <4>2 DEF f, g
    <3>3. Old(S) = Bytes[i] + Old(R)
      <4> HIDE DEF S
      <4> QED  BY <1>1, <2>1, <2>4, SumRemove
    <3>4. Now(S) = Bytes'[i] + Now(R)
      <4> DEFINE g == Bytes'
      <4>1. \A x \in S : g[x] \in Nat  BY <1>1, <2>1
      <4> HIDE DEF g, S
      <4>2. SumFunctionOnSet(g, S) = g[i] + SumFunctionOnSet(g, S \ {i})
        BY <2>1, <2>4, <4>1, SumRemove
      <4> QED  BY <4>2 DEF g
    <3>5. Bytes'[i] = Bytes[i] + 1 /\ Bytes[i] \in Nat  BY <1>1
    <3>6. Old(R) \in Nat
      <4> HIDE DEF R
      <4> QED  BY <2>1, SumsOfFlows, SumsAreNat
    <3> HIDE DEF S, R, Now, Old
    <3> QED  BY <2>2, <2>3, <3>1, <3>2, <3>3, <3>4, <3>5, <3>6
  <2>5. CASE i \notin S
    <3>1. moved'[u][m] = moved[u][m]  BY <1>3, <2>5 DEF Credited, Traffic
    <3>2. Now(S) = Old(S)
      <4> DEFINE f == Bytes
                 g == Bytes'
      <4>1. /\ \A x \in S : f[x] = g[x] /\ g[x] \in Nat
            /\ S \in SUBSET S /\ \A x \in S \ S : g[x] = 0
        BY <1>1, <2>1, <2>5
      <4> HIDE DEF f, g, S
      <4>2. SumFunctionOnSet(f, S) = SumFunctionOnSet(g, S)  BY <2>1, <4>1, SumAgrees
      <4> QED  BY <4>2 DEF f, g
    <3>3. Old(S) \in Nat
      <4> HIDE DEF S
      <4> QED  BY <2>1, SumsOfFlows, SumsAreNat
    <3> HIDE DEF S, Now, Old
    <3> QED  BY <2>2, <2>3, <3>1, <3>2, <3>3
  <2> QED  BY <2>4, <2>5
<1>4. UNCHANGED <<prev, gained, shrunk>>  BY DEF Traffic
<1>5. ASSUME NEW u \in Tables, prev[u].valid, NEW m \in DOMAIN prev[u].bytes, m \notin gained[u]
      PROVE  /\ Total(u, m)' <= prev[u].bytes[m] + moved'[u][m]
             /\ m \notin shrunk[u] => Total(u, m)' = prev[u].bytes[m] + moved'[u][m]
  <2>1. m \in Macs /\ prev[u].bytes[m] \in Nat /\ moved[u][m] \in Nat  BY SnapshotType
  <2>2. Total(u, m) \in Nat  BY TotalType
  <2>3. /\ Total(u, m) <= prev[u].bytes[m] + moved[u][m]
        /\ m \notin shrunk[u] => Total(u, m) = prev[u].bytes[m] + moved[u][m]
    BY <1>5 DEF SnapshotRight
  <2> QED  BY <1>3, <1>5, <2>1, <2>2, <2>3
<1> QED  BY <1>4, <1>5 DEF SnapshotRight

\* A rewiring may add flows that never counted, and take flows away.
LEMMA SnapshotRewire ==
  ASSUME TypeOK, SnapshotRight, NEW flows \in Counters, NEW neigh \in Addresses,
         Rewire(flows, neigh),
         \A i \in Ips : flows[i].open =>
           flows[i].bytes = IF flow[i].open THEN flow[i].bytes ELSE 0
  PROVE  SnapshotRight'
<1>1. ASSUME NEW u \in Tables, prev[u].valid, NEW m \in DOMAIN prev[u].bytes, m \notin gained'[u]
      PROVE  /\ Total(u, m)' <= prev[u].bytes[m] + moved[u][m]
             /\ m \notin shrunk'[u] => Total(u, m)' = prev[u].bytes[m] + moved[u][m]
  <2> DEFINE S == Credited(u, m)
             N == {i \in Ips : Owner(u, i, flows, neigh) = m}
             T == N \intersect S
             f == Bytes
             g == [i \in Ips |-> flows[i].bytes]
  <2>1. m \in Macs /\ prev[u].bytes[m] \in Nat /\ moved[u][m] \in Nat  BY <1>1, SnapshotType
  <2>2. m \notin gained[u] /\ (m \notin shrunk'[u] => m \notin shrunk[u])
    BY <1>1 DEF Rewire
  <2>3. Total(u, m)' = SumFunctionOnSet(g, N)  BY DEF Rewire, Total, Credited, Bytes
  <2>4. \A i \in N \ S : ~flow[i].open
    BY <1>1, <2>1 DEF Rewire, Credited
  <2>5. m \notin shrunk'[u] => T = S
    BY <1>1, <2>1 DEF Rewire, Credited
  <2>6. \A i \in N : flows[i].open  BY <2>1, OwnedIsOpen
  <2>7. \A i \in S : flow[i].open  BY <2>1, OwnedIsOpen DEF Credited
  <2>8. SumFunctionOnSet(f, T) = SumFunctionOnSet(g, N)
    <3>1. IsFiniteSet(N) /\ T \in SUBSET N  BY IpsAssumption, FS_Subset
    <3>2. \A x \in N : g[x] \in Nat  BY BoundAssumption DEF Counters
    <3>3. \A x \in T : f[x] = g[x]  BY <2>6, <2>7 DEF Bytes
    <3>4. \A x \in N \ T : g[x] = 0  BY <2>4, <2>6
    <3> HIDE DEF f, g, N, T
    <3> QED  BY <3>1, <3>2, <3>3, <3>4, SumAgrees
  <2>9. /\ SumFunctionOnSet(f, T) <= SumFunctionOnSet(f, S)
        /\ SumFunctionOnSet(f, T) \in Nat /\ SumFunctionOnSet(f, S) \in Nat
    <3>1. S \in SUBSET Ips /\ T \in SUBSET S /\ T \in SUBSET Ips  BY DEF Credited
    <3> HIDE DEF S, T
    <3> QED  BY <3>1, SumsOfFlows, SumsAreNat
  <2>10. /\ Total(u, m) <= prev[u].bytes[m] + moved[u][m]
         /\ m \notin shrunk[u] => Total(u, m) = prev[u].bytes[m] + moved[u][m]
    BY <1>1, <2>2 DEF SnapshotRight
  <2>11. Total(u, m) = SumFunctionOnSet(f, S)  BY DEF Total
  <2> HIDE DEF f, g, S, T, N
  <2> QED  BY <2>1, <2>2, <2>3, <2>5, <2>8, <2>9, <2>10, <2>11
<1>2. UNCHANGED <<prev, moved>>  BY DEF Rewire
<1> QED  BY <1>1, <1>2 DEF SnapshotRight

LEMMA SnapshotStep == TypeOK /\ SnapshotRight /\ [Next]_vars => SnapshotRight'
<1> SUFFICES ASSUME TypeOK, SnapshotRight, [Next]_vars PROVE SnapshotRight'
  OBVIOUS
<1>1. ASSUME NEW failed, NEW t \in Tables, FromTable(t, failed) PROVE SnapshotRight'
  BY <1>1, SnapshotFromTable
<1>2. ASSUME UNCHANGED <<flow, arp, prev, moved, gained, shrunk>> PROVE SnapshotRight'
  <2>1. \A u \in Tables, m \in Macs : Total(u, m)' = Total(u, m)
    BY <1>2 DEF Total, Bytes, Credited, Owner
  <2>2. \A u \in Tables : DOMAIN prev[u].bytes \subseteq Macs  BY SnapshotType
  <2> QED  BY <1>2, <2>1, <2>2 DEF SnapshotRight
<1>3. ASSUME NEW i \in Ips, Traffic(i) PROVE SnapshotRight'
  BY <1>3, SnapshotTraffic
<1>4. ASSUME NEW i \in Ips, NEW m \in Macs \union {NoMac}, FlowOpens(i, m) PROVE SnapshotRight'
  <2> DEFINE flows == [flow EXCEPT ![i] = [open |-> TRUE, bytes |-> 0, node |-> m]]
  <2>1. flows \in Counters /\ arp \in Addresses  BY TypeOfFlow
  <2>2. Rewire(flows, arp) /\ ~flow[i].open  BY <1>4 DEF FlowOpens
  <2>3. \A j \in Ips : flows[j].open => flows[j].bytes = IF flow[j].open THEN flow[j].bytes ELSE 0
    BY <2>2 DEF TypeOK
  <2> HIDE DEF flows
  <2> QED  BY <2>1, <2>2, <2>3, SnapshotRewire
<1>5. ASSUME NEW i \in Ips, FlowCloses(i) PROVE SnapshotRight'
  <2> DEFINE flows == [flow EXCEPT ![i] = Closed]
  <2>1. flows \in Counters /\ arp \in Addresses  BY TypeOfFlow DEF Addresses, TypeOK
  <2>2. Rewire(flows, arp)  BY <1>5 DEF FlowCloses
  <2>3. \A j \in Ips : flows[j].open => flows[j].bytes = IF flow[j].open THEN flow[j].bytes ELSE 0
    BY DEF TypeOK, Closed
  <2> HIDE DEF flows
  <2> QED  BY <2>1, <2>2, <2>3, SnapshotRewire
<1>6. ASSUME NEW i \in Ips, NEW m \in Macs \union {NoMac}, ArpChanges(i, m) PROVE SnapshotRight'
  <2> DEFINE neigh == [arp EXCEPT ![i] = m]
  <2>1. flow \in Counters /\ neigh \in Addresses  BY TypeOfFlow
  <2>2. Rewire(flow, neigh)  BY <1>6 DEF ArpChanges
  <2> HIDE DEF neigh
  <2> QED  BY <2>1, <2>2, SnapshotRewire
<1>7. CASE ClientsCall
  BY <1>1, <1>2, <1>7 DEF ClientsCall, FromBpf, history
<1>8. CASE Wait \/ BpfWarms \/ UNCHANGED vars
  BY <1>2, <1>8 DEF Wait, BpfWarms, vars, history
<1>9. CASE \E found \in CapsSets, state \in {"off", "warming"} : ProbeChanges(found, state)
  BY <1>2, <1>9 DEF ProbeChanges, history
<1> QED  BY <1>3, <1>4, <1>5, <1>6, <1>7, <1>8, <1>9 DEF Next

LEMMA SnapshotHolds == Spec => []SnapshotRight
<1>1. Init => SnapshotRight  BY DEF Init, SnapshotRight, NoSnapshot
<1> QED  BY <1>1, TypeInit, TypeStep, SnapshotStep, PTL DEF Spec

\* Whoever else polls, whatever source is asked in between and however the flows
\* change: the bytes behind a client's rate are bytes it moved since the snapshot
\* the interval is counted from, and all of them if it kept its flows.
THEOREM RatesAreBytesMoved == Spec => RatesHonest
<1> DEFINE Honest ==
      \A t \in Tables : reply'.source = t =>
       \A m \in DOMAIN reply'.rates : LET rate == reply'.rates[m] IN
         rate.known =>
           /\ m \notin gained[t] => rate.bytes <= moved[t][m]
           /\ /\ m \notin gained[t] \union shrunk[t] \union reply'.missed
              /\ clock > prev[t].ms
              => rate.bytes = moved[t][m]
<1>1. TypeOK /\ SnapshotRight /\ [Next]_vars => [Honest]_vars
  <2> SUFFICES ASSUME TypeOK, SnapshotRight, Next, NEW t \in Tables, reply'.source = t
               PROVE  \A m \in DOMAIN reply'.rates : LET rate == reply'.rates[m] IN
                        rate.known =>
                          /\ m \notin gained[t] => rate.bytes <= moved[t][m]
                          /\ /\ m \notin gained[t] \union shrunk[t] \union reply'.missed
                             /\ clock > prev[t].ms
                             => rate.bytes = moved[t][m]
    OBVIOUS
  <2>1. reply' # Silent  BY DEF Silent, Tables
  <2>2. ClientsCall
    BY <2>1 DEF Next, Wait, BpfWarms, Traffic, FlowCloses, FlowOpens, ArpChanges, Rewire,
                ProbeChanges, Change
  <2>3. PICK failed : FromTable(t, failed)
    BY <2>2 DEF ClientsCall, FromTable, FromBpf, Answer, Tables
  <2>4. PICK dump \in SUBSET Ips : \E kept \in Kept(t, dump) : Reads(t, failed, dump, kept)
    BY <2>3 DEF FromTable, Dumps, Reads
  <2>5. PICK kept \in Kept(t, dump) : Reads(t, failed, dump, kept)  BY <2>4
  <2> DEFINE cur == Folded(t, kept, dump)
  <2>6. DOMAIN cur = kept  BY DEF Folded
  <2>7. reply'.rates = Rates(t, cur) /\ reply'.missed = Missed(t, dump)
    BY <2>5 DEF Reads, Answer
  <2>8. ASSUME NEW m \in kept, Rates(t, cur)[m].known
        PROVE  /\ m \notin gained[t] => Rates(t, cur)[m].bytes <= moved[t][m]
               /\ /\ m \notin gained[t] \union shrunk[t] \union Missed(t, dump)
                  /\ clock > prev[t].ms
                  => Rates(t, cur)[m].bytes = moved[t][m]
    <3>1. /\ prev[t].valid /\ m \in DOMAIN prev[t].bytes
          /\ Rates(t, cur)[m].bytes = Delta(cur[m], prev[t].bytes[m], clock - prev[t].ms)
      BY <2>6, <2>8 DEF Rates, Previous
    <3>2. /\ cur[m] \in Nat /\ cur[m] <= Total(t, m)
          /\ m \notin Missed(t, dump) => cur[m] = Total(t, m)
      BY <2>5, ReadSums
    <3>3. prev[t].bytes[m] \in Nat /\ moved[t][m] \in Nat /\ Total(t, m) \in Nat
      BY <3>1, SnapshotType, TotalType
    <3>4. clock \in Nat /\ prev[t].ms \in Nat  BY BoundAssumption DEF TypeOK
    <3>5. m \notin gained[t] =>
            /\ Total(t, m) <= prev[t].bytes[m] + moved[t][m]
            /\ m \notin shrunk[t] => Total(t, m) = prev[t].bytes[m] + moved[t][m]
      BY <3>1 DEF SnapshotRight
    <3> HIDE DEF cur
    <3> QED  BY <3>1, <3>2, <3>3, <3>4, <3>5 DEF Delta
  <2>9. DOMAIN reply'.rates = kept  BY <2>6, <2>7 DEF Rates
  <2> HIDE DEF cur
  <2> QED  BY <2>7, <2>8, <2>9
<1> QED  BY <1>1, TypesHold, SnapshotHolds, PTL DEF Spec, RatesHonest
=============================================================================
