-------------------------- MODULE RateWindowProofs --------------------------
(***************************************************************************)
(* The rates, for any number of keys, sizes of the buffers and traffic: a  *)
(* walk that ends has read all that was in the map throughout, and no rate *)
(* is greater than the traffic between the start of the older read and the *)
(* end of the newer one.                                                   *)
(***************************************************************************)
EXTENDS RateWindow, DataLemmas

N == Len(KeySeq)
Samples == [key : Keys, bytes : Nat]
Traffic == [Clients -> [Dirs -> Nat]]
Spans == [begin : Traffic, end : Traffic, repeated : BOOLEAN, cut : BOOLEAN]

\* A snapshot: totals of some clients, not more than there is room for.
IsSnapshot(f) ==
  /\ f \in Partial(Clients, [Dirs -> Nat])
  /\ IsFiniteSet(DOMAIN f) /\ Cardinality(DOMAIN f) <= MaxFolded

\* The walk's buckets number the keys, of which there are finitely many.
LEMMA KeysAreNumbered ==
  /\ N \in Nat /\ \A p \in 1..N : KeySeq[p] \in Keys
  /\ \A k \in Keys : \E p \in 1..N : KeySeq[p] = k
  /\ \A p, q \in 1..N : KeySeq[p] = KeySeq[q] => p = q
  /\ IsFiniteSet(Keys)
<1>1. N \in Nat  BY KeySeqAssumption DEF N
<1>2. IsFiniteSet(Keys)
  <2> DEFINE S == 1..N
             f == [n \in S |-> KeySeq[n]]
  <2>1. IsFiniteSet(S)  BY <1>1, FS_Interval
  <2>2. f \in Surjection(S, Keys)  BY DEF Surjection, Keys, N
  <2> HIDE DEF S, f
  <2> QED  BY <2>1, <2>2, FS_Surjection
<1> QED  BY <1>1, <1>2, KeySeqAssumption DEF Keys, N

\* A partial function with an entry more, or one less.
LEMMA WithType ==
  ASSUME NEW D, NEW R, NEW f \in Partial(D, R), NEW k \in D, NEW n \in R
  PROVE  With(f, k, n) \in Partial(D, R)
<1> DEFINE E == DOMAIN f \union {k}
           g == With(f, k, n)
<1>1. DOMAIN f \subseteq D /\ \A x \in DOMAIN f : f[x] \in R  BY PartialType
<1>2. g = [x \in E |-> IF x = k THEN n ELSE f[x]]  BY DEF With
<1>3. \A x \in E : (IF x = k THEN n ELSE f[x]) \in R  BY <1>1
<1>4. E \in SUBSET D  BY <1>1
<1> HIDE DEF E, g
<1>5. g \in [E -> R]  BY <1>2, <1>3
<1>6. g \in Partial(D, R)  BY <1>4, <1>5 DEF Partial
<1> QED  BY <1>6 DEF g

LEMMA WithoutType ==
  ASSUME NEW D, NEW R, NEW f \in Partial(D, R), NEW k
  PROVE  Without(f, k) \in Partial(D, R)
<1> DEFINE E == DOMAIN f \ {k}
           g == Without(f, k)
<1>1. DOMAIN f \subseteq D /\ \A x \in DOMAIN f : f[x] \in R  BY PartialType
<1>2. g = [x \in E |-> f[x]]  BY DEF Without
<1>3. \A x \in E : f[x] \in R  BY <1>1
<1>4. E \in SUBSET D  BY <1>1
<1> HIDE DEF E, g
<1>5. g \in [E -> R]  BY <1>2, <1>3
<1>6. g \in Partial(D, R)  BY <1>4, <1>5 DEF Partial
<1> QED  BY <1>6 DEF g

----------------------------------------------------------------------------
(* The kernel's answer to the walk *)

\* Where bpf_map_get_next_key looks from.
From == IF at > 0 /\ KeySeq[at] \in Live THEN at ELSE 0

\* It is the first live bucket from there on, or 0 if there is none.
LEMMA NextIs ==
  /\ NextPosition = 0 => \A p \in 1..N : p > From => KeySeq[p] \notin Live
  /\ NextPosition # 0 =>
       /\ NextPosition \in 1..N /\ NextPosition > From /\ KeySeq[NextPosition] \in Live
       /\ \A p \in 1..N : p > From /\ KeySeq[p] \in Live => NextPosition <= p
<1> DEFINE later == {p \in 1..N : p > From /\ KeySeq[p] \in Live}
<1>1. NextPosition = IF later = {} THEN 0 ELSE CHOOSE p \in later : \A q \in later : p <= q
  BY DEF NextPosition, From, N
<1>2. ASSUME later # {} PROVE \E p \in later : \A q \in later : p <= q
  <2>1. later \in SUBSET Nat /\ later # {}  BY <1>2, KeysAreNumbered
  <2> HIDE DEF later
  <2> QED  BY <2>1, LeastNatural
<1>3. \A p \in later : p \in 1..N /\ p > From /\ KeySeq[p] \in Live /\ p # 0
  BY KeysAreNumbered
<1>4. \A p \in 1..N : p > From /\ KeySeq[p] \in Live => p \in later  OBVIOUS
<1> HIDE DEF later
<1>5. CASE later = {}  BY <1>1, <1>4, <1>5
<1>6. CASE later # {}
  <2>1. NextPosition \in later /\ \A q \in later : NextPosition <= q  BY <1>1, <1>2, <1>6
  <2> QED  BY <1>3, <1>4, <2>1
<1> QED  BY <1>5, <1>6

----------------------------------------------------------------------------
(* The fold as a chain, one link per sample *)

\* What the fold has after some of the samples.
Accs == [clients : {f \in Partial(Clients, [Dirs -> Nat]) : IsSnapshot(f)}, cut : BOOLEAN]

\* What a sample adds to its client.
Added(f, s) ==
  With(f, s.key.client,
       [(IF s.key.client \in DOMAIN f THEN f[s.key.client] ELSE [d \in Dirs |-> 0])
          EXCEPT ![s.key.dir] = @ + s.bytes])

\* A sample is added, or the fold is cut from there on.
LEMMA AddSampleIs ==
  ASSUME NEW acc \in Accs, NEW s \in Samples
  PROVE  /\ AddSample(acc, s) \in Accs
         /\ \/ AddSample(acc, s) = [acc EXCEPT !.cut = TRUE]
            \/ /\ AddSample(acc, s) = [acc EXCEPT !.clients = Added(acc.clients, s)]
               /\ ~acc.cut
<1> DEFINE f == acc.clients
           c == s.key.client
           old == IF c \in DOMAIN f THEN f[c] ELSE [d \in Dirs |-> 0]
           new == [old EXCEPT ![s.key.dir] = @ + s.bytes]
           g == With(f, c, new)
<1>1. c \in Clients /\ s.key.dir \in Dirs /\ s.bytes \in Nat
  BY KeySeqAssumption DEF Samples, Clients
<1>2. /\ f \in Partial(Clients, [Dirs -> Nat])
      /\ IsFiniteSet(DOMAIN f) /\ Cardinality(DOMAIN f) <= MaxFolded
  BY DEF Accs, IsSnapshot
<1>3. DOMAIN f \subseteq Clients /\ \A x \in DOMAIN f : f[x] \in [Dirs -> Nat]
  BY <1>2, PartialType
<1>4. old \in [Dirs -> Nat]  BY <1>3
<1> HIDE DEF old
<1>5. new \in [Dirs -> Nat]  BY <1>1, <1>4
<1> HIDE DEF new
<1>6. g \in Partial(Clients, [Dirs -> Nat]) /\ DOMAIN g = DOMAIN f \union {c}
  <2>1. DOMAIN g = DOMAIN f \union {c}  BY DEF With
  <2>2. f \in Partial(Clients, [Dirs -> Nat])  BY <1>2
  <2> HIDE DEF f, c
  <2>3. With(f, c, new) \in Partial(Clients, [Dirs -> Nat])  BY <1>1, <1>5, <2>2, WithType DEF c
  <2> QED  BY <2>1, <2>3
<1>7. CASE acc.cut \/ (c \notin DOMAIN f /\ Cardinality(DOMAIN f) >= MaxFolded)
  <2>1. AddSample(acc, s) = [acc EXCEPT !.cut = TRUE]  BY <1>7 DEF AddSample
  <2>2. [acc EXCEPT !.cut = TRUE] \in Accs  BY DEF Accs, IsSnapshot
  <2> QED  BY <2>1, <2>2
<1>8. CASE ~acc.cut /\ (c \in DOMAIN f \/ ~(Cardinality(DOMAIN f) >= MaxFolded))
  <2>1. AddSample(acc, s) = [acc EXCEPT !.clients = g]  BY <1>8 DEF AddSample, g, new, old
  <2>2. g = Added(f, s)  BY DEF Added, g, new, old
  <2> HIDE DEF g
  <2>3. IsFiniteSet(DOMAIN g) /\ Cardinality(DOMAIN g) <= MaxFolded
    <3>1. CASE c \in DOMAIN f
      <4>1. DOMAIN g = DOMAIN f  BY <1>6, <3>1
      <4> QED  BY <1>2, <4>1
    <3>2. CASE c \notin DOMAIN f
      <4>1. Cardinality(DOMAIN f) \in Nat  BY <1>2, FS_CardinalityType
      <4>2. IsFiniteSet(DOMAIN f \union {c}) /\ Cardinality(DOMAIN f \union {c}) = Cardinality(DOMAIN f) + 1
        BY <1>2, <3>2, FS_AddElement
      <4> QED  BY <1>6, <1>8, <3>2, <4>1, <4>2, SizeAssumption
    <3> QED  BY <3>1, <3>2
  <2>4. [acc EXCEPT !.clients = g] \in Accs  BY <1>6, <2>3 DEF Accs, IsSnapshot
  <2> QED  BY <1>8, <2>1, <2>2, <2>4
<1> QED  BY <1>7, <1>8

\* `h` is the recursive function behind Folded.
FoldFun(h, base, samples) ==
  h = [s \in SUBSET DOMAIN samples |->
         IF s = {} THEN base ELSE AddSample(h[s \ {Max(s)}], samples[Max(s)])]

LEMMA FoldFunExists ==
  ASSUME NEW base \in Accs, NEW samples \in Seq(Samples)
  PROVE  \E h : FoldFun(h, base, samples)
<1> DEFINE n == Len(samples)
           op == [p \in (1..n) \X Accs |-> AddSample(p[2], samples[p[1]])]
<1>1. n \in Nat /\ DOMAIN samples = 1..n /\ \A i \in 1..n : samples[i] \in Samples  OBVIOUS
<1>2. \A i \in 1..n, v \in Accs : op[<<i, v>>] = AddSample(v, samples[i])  OBVIOUS
<1> HIDE DEF n, op
<1>3. ASSUME NEW i \in 1..n, NEW v \in Accs PROVE op[<<i, v>>] \in Accs
  <2>1. samples[i] \in Samples  BY <1>1
  <2>2. AddSample(v, samples[i]) \in Accs  BY <2>1, AddSampleIs
  <2> QED  BY <1>2, <2>2
<1>4. PICK it : SeqFold(it, n, op, base) /\ \A s \in SUBSET (1..n) : it[s] \in Accs
  BY <1>1, <1>3, SeqFoldExists
<1>5. \A s \in SUBSET (1..n) :
        it[s] = IF s = {} THEN base ELSE AddSample(it[s \ {Max(s)}], samples[Max(s)])
  <2> SUFFICES ASSUME NEW s \in SUBSET (1..n)
               PROVE  it[s] = IF s = {} THEN base ELSE AddSample(it[s \ {Max(s)}], samples[Max(s)])
    OBVIOUS
  <2>1. it[s] = IF s = {} THEN base ELSE op[<<Max(s), it[s \ {Max(s)}]>>]  BY <1>4 DEF SeqFold
  <2>2. ASSUME s # {} PROVE Max(s) \in 1..n /\ it[s \ {Max(s)}] \in Accs
    <3>1. s \in SUBSET (0..n) /\ s \ {Max(s)} \in SUBSET (1..n)
      <4>1. \A x \in 1..n : x \in 0..n  BY <1>1
      <4> QED  BY <4>1
    <3>2. Max(s) \in s  BY <1>1, <2>2, <3>1, MaxIsElement
    <3> QED  BY <1>4, <3>1, <3>2
  <2> QED  BY <1>2, <2>1, <2>2
<1>6. it = [s \in SUBSET (1..n) |-> it[s]]  BY <1>4 DEF SeqFold
<1> QED  BY <1>1, <1>5, <1>6 DEF FoldFun

Start == [clients |-> NoClients, cut |-> FALSE]

\* Each link of the chain `c` is the one before with a sample added.
FoldChain(c, samples) ==
  /\ c[0] = Start /\ c[Len(samples)] = Folded(samples, NoClients)
  /\ \A k \in 1..Len(samples) : c[k] = AddSample(c[k-1], samples[k])

LEMMA StartIsAcc == Start \in Accs
<1> DEFINE e == [c \in {} |-> [d \in Dirs |-> 0]]
<1>1. e \in [{} -> [Dirs -> Nat]] /\ {} \in SUBSET Clients /\ DOMAIN e = {}  OBVIOUS
<1> HIDE DEF e
<1>2. e \in Partial(Clients, [Dirs -> Nat])  BY <1>1 DEF Partial
<1>3. IsFiniteSet(DOMAIN e) /\ Cardinality(DOMAIN e) <= MaxFolded
  BY <1>1, FS_EmptySet, SizeAssumption
<1> QED  BY <1>2, <1>3 DEF Start, Accs, IsSnapshot, NoClients, e

LEMMA FoldBySample ==
  ASSUME NEW samples \in Seq(Samples)
  PROVE  \E c : FoldChain(c, samples)
<1> DEFINE h == CHOOSE g : FoldFun(g, Start, samples)
           n == Len(samples)
           c == [k \in 0..n |-> h[1..k]]
<1>1. FoldFun(h, Start, samples)  BY FoldFunExists, StartIsAcc
<1>2. Folded(samples, NoClients) = h[DOMAIN samples]
  BY DEF Folded, FoldLeft, MapThenFoldSet, FoldFun, Start
<1>3. n \in Nat /\ DOMAIN samples = 1..n  OBVIOUS
<1> HIDE DEF h, n
<1>4. c[0] = Start
  <2>1. c[0] = h[1..0] /\ 1..0 = {}  BY <1>3
  <2> QED  BY <1>1, <2>1 DEF FoldFun
<1>5. c[n] = Folded(samples, NoClients)  BY <1>2, <1>3
<1>6. ASSUME NEW k \in 1..n PROVE c[k] = AddSample(c[k-1], samples[k])
  <2>0. k \in Nat \ {0}  BY <1>3
  <2>1. Max(1..k) = k /\ (1..k) \ {k} = 1..k-1 /\ 1..k # {}  BY <2>0, MaxOfFirst
  <2>2. 1..k \in SUBSET DOMAIN samples  BY <1>3
  <2>3. h[1..k] = AddSample(h[(1..k) \ {Max(1..k)}], samples[Max(1..k)])
    BY <1>1, <2>1, <2>2 DEF FoldFun
  <2>4. c[k] = h[1..k] /\ c[k-1] = h[1..k-1]  BY <1>3
  <2> QED  BY <2>1, <2>3, <2>4
<1> HIDE DEF c
<1> QED  BY <1>4, <1>5, <1>6 DEF FoldChain, n

----------------------------------------------------------------------------
(* Types *)

USE DEF Live

IsMap(m) == m \in Partial(Keys, Nat \ {0}) /\ Cardinality(DOMAIN m) <= Capacity

TypeInv ==
  /\ IsMap(map)
  /\ step \in {"idle", "next", "lookup"}
  /\ at \in 0..N /\ next \in 0..N /\ (step = "lookup" => next \in 1..N)
  /\ raw \in Seq(Samples) /\ Len(raw) <= RawMax /\ (step # "idle" => Len(raw) < RawMax)
  /\ IsSnapshot(current) /\ IsSnapshot(previous)
  /\ taken \in BOOLEAN /\ valid \in BOOLEAN
  /\ sent \in Traffic
  /\ steady \subseteq Live /\ repeated \in BOOLEAN
  /\ span \in [current : Spans, previous : Spans, reading : Traffic]

LEMMA TypeHolds == TypeInv => TypeOK
<1> SUFFICES ASSUME TypeInv PROVE TypeOK
  OBVIOUS
<1>1. Live \subseteq Keys /\ \A k \in Live : map[k] \in Nat \ {0}
  BY PartialType DEF TypeInv, IsMap
<1>2. ASSUME NEW f, IsSnapshot(f) PROVE Totals(f)
  BY <1>2, PartialType DEF IsSnapshot, Totals
<1>3. Totals(current) /\ Totals(previous)  BY <1>2 DEF TypeInv
<1> QED  BY <1>1, <1>3 DEF TypeInv, TypeOK, IsMap, IsSnapshot, Traffic, N

LEMMA EmptyIsSnapshot == IsSnapshot(NoClients)
BY StartIsAcc DEF Start, Accs, IsSnapshot

LEMMA TypeInit == Init => TypeInv
<1> SUFFICES ASSUME Init PROVE TypeInv
  OBVIOUS
<1>1. IsMap(map)
  <2>1. map = [k \in {} |-> 0]  BY DEF Init
  <2>2. DOMAIN map = {} /\ map = [k \in DOMAIN map |-> map[k]]  BY <2>1
  <2>3. map \in Partial(Keys, Nat \ {0})  BY <2>2, PartialType
  <2>4. Cardinality({}) = 0  BY FS_EmptySet
  <2> QED  BY <2>2, <2>3, <2>4, SizeAssumption DEF IsMap
<1>2. NoTraffic \in Traffic  BY DEF NoTraffic, Traffic
<1>3. NoSpan \in Spans  BY <1>2 DEF NoSpan, Spans
<1>4. span \in [current : Spans, previous : Spans, reading : Traffic]  BY <1>2, <1>3 DEF Init
<1>5. raw \in Seq(Samples) /\ Len(raw) = 0  BY DEF Init
<1>6. steady \subseteq Live /\ sent \in Traffic /\ repeated \in BOOLEAN  BY <1>2 DEF Init
<1>7. IsSnapshot(current) /\ IsSnapshot(previous)  BY EmptyIsSnapshot DEF Init
<1>8. /\ step = "idle" /\ at \in 0..N /\ next \in 0..N /\ taken \in BOOLEAN /\ valid \in BOOLEAN
  <2>1. 0 \in 0..N  BY KeysAreNumbered
  <2> QED  BY <2>1 DEF Init
<1> QED  BY <1>1, <1>4, <1>5, <1>6, <1>7, <1>8, SizeAssumption DEF TypeInv

\* What a frame of key k does to the map: it counts on k's entry, a new one if
\* there was none, for which others may have gone.
Counts(k, gone) ==
  /\ gone \subseteq Live \ {k} /\ (k \in Live => gone = {})
  /\ Live' = (Live \ gone) \union {k} /\ steady' = steady \ gone
  /\ map'[k] = IF k \in Live THEN map[k] + 1 ELSE 1
  /\ \A x \in Live \ (gone \union {k}) : map'[x] = map[x]

LEMMA FrameCounts ==
  ASSUME TypeInv, NEW k \in Keys, Frame(k)
  PROVE  IsMap(map') /\ \E gone : Counts(k, gone)
<1>1. /\ map \in Partial(Keys, Nat \ {0}) /\ Cardinality(Live) <= Capacity
      /\ IsFiniteSet(Live) /\ Cardinality(Live) \in Nat
  BY KeysAreNumbered, PartialType, FS_Subset, FS_CardinalityType DEF TypeInv, IsMap
<1>2. Live \subseteq Keys /\ map = [x \in Live |-> map[x]] /\ \A x \in Live : map[x] \in Nat \ {0}
  BY <1>1, PartialType
<1>3. steady \subseteq Live  BY DEF TypeInv
<1>4. CASE k \in Live /\ map' = [map EXCEPT ![k] = @ + 1] /\ UNCHANGED steady
  <2>1. Live' = Live /\ map'[k] = map[k] + 1 /\ \A x \in Live \ {k} : map'[x] = map[x]
    BY <1>2, <1>4
  <2>2. map' = [x \in DOMAIN map' |-> map'[x]] /\ \A x \in DOMAIN map' : map'[x] \in Nat \ {0}
    <3>1. \A x \in Live : map'[x] \in Nat \ {0}  BY <1>2, <2>1
    <3>2. map' = [x \in Live |-> map'[x]]  BY <1>2, <1>4
    <3> QED  BY <2>1, <3>1, <3>2
  <2>3. map' \in Partial(Keys, Nat \ {0})  BY <1>2, <2>1, <2>2, PartialType
  <2>4. Counts(k, {})  BY <1>4, <2>1 DEF Counts
  <2> QED  BY <1>1, <2>1, <2>3, <2>4 DEF IsMap
<1>5. CASE /\ k \notin Live /\ Cardinality(Live) < Capacity
           /\ map' = With(map, k, 1) /\ UNCHANGED steady
  <2>1. map' \in Partial(Keys, Nat \ {0})  BY <1>1, <1>5, WithType
  <2>2. /\ DOMAIN map' = DOMAIN map \union {k} /\ map'[k] = 1
        /\ \A x \in DOMAIN map \ {k} : map'[x] = map[x]
    <3>1. /\ DOMAIN With(map, k, 1) = DOMAIN map \union {k} /\ With(map, k, 1)[k] = 1
          /\ \A x \in DOMAIN map \ {k} : With(map, k, 1)[x] = map[x]
      BY DEF With
    <3> QED  BY <1>5, <3>1
  <2>3. Cardinality(DOMAIN map \union {k}) = Cardinality(DOMAIN map) + 1
    BY <1>1, <1>5, FS_AddElement
  <2>4. Counts(k, {})  BY <1>5, <2>2 DEF Counts
  <2> QED  BY <1>1, <1>5, <2>1, <2>2, <2>3, <2>4, SizeAssumption DEF IsMap
<1>6. ASSUME k \notin Live, NEW old \in Live,
             map' = With(Without(map, old), k, 1) /\ steady' = steady \ {old}
      PROVE  IsMap(map') /\ \E gone : Counts(k, gone)
  <2> DEFINE m == Without(map, old)
  <2>1. m \in Partial(Keys, Nat \ {0})  BY <1>1, WithoutType
  <2>2. DOMAIN m = Live \ {old} /\ \A x \in Live \ {old} : m[x] = map[x]  BY DEF Without
  <2>3. map' = With(m, k, 1)  BY <1>6
  <2> HIDE DEF m
  <2>4. map' \in Partial(Keys, Nat \ {0})  BY <2>1, <2>3, WithType
  <2>5. DOMAIN map' = DOMAIN m \union {k} /\ map'[k] = 1 /\ \A x \in DOMAIN m \ {k} : map'[x] = m[x]
    <3>1. /\ DOMAIN With(m, k, 1) = DOMAIN m \union {k} /\ With(m, k, 1)[k] = 1
          /\ \A x \in DOMAIN m \ {k} : With(m, k, 1)[x] = m[x]
      BY DEF With
    <3> QED  BY <2>3, <3>1
  <2>6. IsFiniteSet(Live \ {old}) /\ Cardinality(Live \ {old}) = Cardinality(Live) - 1
    BY <1>1, FS_RemoveElement
  <2>7. Cardinality((Live \ {old}) \union {k}) = (Cardinality(Live) - 1) + 1
    BY <1>6, <2>6, FS_AddElement
  <2>8. Cardinality(DOMAIN map') <= Capacity  BY <1>1, <2>2, <2>5, <2>7
  <2>9. Counts(k, {old})  BY <1>6, <2>2, <2>5 DEF Counts
  <2> QED  BY <2>4, <2>8, <2>9 DEF IsMap
<1> QED  BY <1>4, <1>5, <1>6 DEF Frame

\* The fold of a read is a snapshot.
LEMMA FoldIsSnapshot ==
  ASSUME NEW samples \in Seq(Samples)
  PROVE  IsSnapshot(Folded(samples, NoClients).clients) /\ Folded(samples, NoClients).cut \in BOOLEAN
<1>1. PICK c : FoldChain(c, samples)  BY FoldBySample
<1> DEFINE n == Len(samples)
           V == [k \in 0..n |-> Accs]
<1>2. n \in Nat /\ \A k \in 1..n : samples[k] \in Samples  OBVIOUS
<1>3. c[0] \in V[0]  BY <1>1, <1>2, StartIsAcc DEF FoldChain
<1>4. \A k \in 1..n : c[k-1] \in V[k-1] => c[k] \in V[k]
  <2> SUFFICES ASSUME NEW k \in 1..n, c[k-1] \in V[k-1] PROVE c[k] \in V[k]
    OBVIOUS
  <2>1. V[k-1] = Accs /\ V[k] = Accs  BY <1>2
  <2>2. c[k] = AddSample(c[k-1], samples[k])  BY <1>1 DEF FoldChain
  <2>3. c[k-1] \in Accs /\ samples[k] \in Samples  BY <1>2, <2>1
  <2>4. AddSample(c[k-1], samples[k]) \in Accs  BY <2>3, AddSampleIs
  <2> QED  BY <2>1, <2>2, <2>4
<1>5. c[n] \in V[n]
  <2> HIDE DEF V, n
  <2>1. \A k \in 0..n : c[k] \in V[k]  BY <1>2, <1>3, <1>4, ChainStays
  <2> QED  BY <1>2, <2>1
<1>6. c[n] \in Accs  BY <1>2, <1>5
<1> QED  BY <1>1, <1>6 DEF FoldChain, Accs, IsSnapshot

\* What a commit leaves of a read.
LEMMA CommitType ==
  ASSUME TypeInv, NEW samples \in Seq(Samples), Commit(samples)
  PROVE  /\ IsSnapshot(current') /\ IsSnapshot(previous') /\ valid' \in BOOLEAN /\ taken' = TRUE
         /\ span' \in [current : Spans, previous : Spans, reading : Traffic] /\ step' = "idle"
<1> DEFINE cut == Folded(samples, NoClients).cut \/ Len(samples) = RawMax
           new == [begin |-> span.reading, end |-> sent, repeated |-> repeated, cut |-> cut]
<1>1. IsSnapshot(Folded(samples, NoClients).clients)  BY FoldIsSnapshot
<1>2. new \in Spans  BY DEF TypeInv, Spans
<1>3. span' = [span EXCEPT !.previous = span.current, !.current = new]  BY DEF Commit
<1> HIDE DEF new, cut
<1>4. span' \in [current : Spans, previous : Spans, reading : Traffic]
  BY <1>2, <1>3 DEF TypeInv
<1> QED  BY <1>1, <1>4 DEF Commit, TypeInv

\* A lookup takes the key's counter, if it is still there.
LEMMA LookupRaw ==
  ASSUME TypeInv, Lookup
  PROVE  /\ raw' \in Seq(Samples) /\ Len(raw') <= RawMax
         /\ IF KeySeq[next] \in Live
              THEN raw' = Append(raw, [key |-> KeySeq[next], bytes |-> map[KeySeq[next]]])
              ELSE raw' = raw
<1>1. raw \in Seq(Samples) /\ Len(raw) < RawMax /\ next \in 1..N  BY DEF TypeInv, Lookup
<1>2. KeySeq[next] \in Keys /\ (KeySeq[next] \in Live => map[KeySeq[next]] \in Nat)
  BY <1>1, KeysAreNumbered, PartialType DEF TypeInv, IsMap
<1>3. CASE KeySeq[next] \in Live
  <2> DEFINE s == [key |-> KeySeq[next], bytes |-> map[KeySeq[next]]]
  <2>1. s \in Samples  BY <1>2, <1>3 DEF Samples
  <2>2. raw' = Append(raw, s)  BY <1>3 DEF Lookup
  <2> HIDE DEF s
  <2>3. raw' \in Seq(Samples) /\ Len(raw') = Len(raw) + 1  BY <1>1, <2>1, <2>2
  <2> QED  BY <1>1, <1>3, <2>2, <2>3, SizeAssumption DEF s
<1>4. CASE KeySeq[next] \notin Live
  BY <1>1, <1>4, SizeAssumption DEF Lookup
<1> QED  BY <1>3, <1>4

\* Each action keeps the types.
LEMMA TypeNext == TypeInv /\ [Next]_vars => TypeInv'
<1> SUFFICES ASSUME TypeInv, [Next]_vars PROVE TypeInv'
  OBVIOUS
<1>1. N \in Nat /\ RawMax \in Nat \ {0} /\ Len(<<>>) = 0  BY KeysAreNumbered, SizeAssumption
<1>2. ASSUME NEW k \in Keys, Frame(k) PROVE TypeInv'
  <2>1. IsMap(map)'  BY <1>2, FrameCounts DEF IsMap
  <2>2. steady' \subseteq Live'
    <3>1. PICK gone : Counts(k, gone)  BY <1>2, FrameCounts
    <3> QED  BY <3>1 DEF Counts, TypeInv
  <2>3. sent' \in Traffic
    <3>1. k.client \in Clients /\ k.dir \in Dirs  BY KeySeqAssumption DEF Clients
    <3> QED  BY <1>2, <3>1 DEF Frame, TypeInv, Traffic
  <2> QED  BY <1>2, <2>1, <2>2, <2>3 DEF Frame, TypeInv, walk, snapshots, IsSnapshot
<1>3. CASE StartRead
  <2>1. span' \in [current : Spans, previous : Spans, reading : Traffic]
    BY <1>3 DEF StartRead, TypeInv
  <2>2. raw' \in Seq(Samples) /\ Len(raw') = 0  BY <1>3 DEF StartRead
  <2>3. at' \in 0..N /\ next' \in 0..N
    <3>1. 0 \in 0..N  BY <1>1
    <3> QED  BY <1>3, <3>1 DEF StartRead
  <2>4. 0 < RawMax /\ 0 <= RawMax  BY <1>1
  <2> QED  BY <1>3, <2>1, <2>2, <2>3, <2>4 DEF StartRead, TypeInv, snapshots, IsMap, IsSnapshot
<1>4. CASE NextKey
  <2>1. NextPosition \in 1..N  BY <1>4, NextIs DEF NextKey
  <2> QED  BY <1>1, <1>4, <2>1 DEF NextKey, TypeInv, snapshots, IsMap, IsSnapshot
<1>5. CASE WalkEnds
  <2>1. raw \in Seq(Samples) /\ Commit(raw)  BY <1>5 DEF WalkEnds, TypeInv
  <2> QED  BY <1>1, <1>5, <2>1, CommitType DEF WalkEnds, TypeInv, IsMap, IsSnapshot
<1>6. CASE Lookup
  <2>1. raw' \in Seq(Samples) /\ Len(raw') <= RawMax  BY <1>6, LookupRaw
  <2>2. next \in 1..N  BY <1>6 DEF Lookup, TypeInv
  <2>3. CASE Len(raw') >= RawMax
    <3>1. PICK samples \in Seq(Samples) : samples = raw'  BY <2>1
    <3>2. Commit(samples)  BY <1>6, <2>3, <3>1 DEF Lookup
    <3> QED  BY <1>1, <1>6, <2>1, <2>2, <3>2, CommitType DEF Lookup, TypeInv, IsMap, IsSnapshot
  <2>4. CASE ~(Len(raw') >= RawMax)
    <3>1. Len(raw') < RawMax  BY <1>1, <2>1, <2>4
    <3> QED  BY <1>1, <1>6, <2>1, <2>2, <2>4, <3>1 DEF Lookup, TypeInv, snapshots, IsMap, IsSnapshot
  <2> QED  BY <2>3, <2>4
<1>7. CASE ReadFails
  BY <1>1, <1>7 DEF ReadFails, TypeInv, snapshots, IsMap, IsSnapshot
<1>8. CASE ResetRates
  BY <1>1, <1>8, EmptyIsSnapshot DEF ResetRates, TypeInv, walk, IsMap, IsSnapshot
<1>9. CASE UNCHANGED vars
  BY <1>9 DEF vars, walk, snapshots, TypeInv, IsMap, IsSnapshot
<1> QED  BY <1>2, <1>3, <1>4, <1>5, <1>6, <1>7, <1>8, <1>9 DEF Next

----------------------------------------------------------------------------
(* The walk *)

\* Whether the walk is beyond bucket p.
Passed(p) == IF step = "next" THEN p <= at ELSE p < next

HasRead(k) == \E n \in 1..Len(raw) : raw[n].key = k

\* The walk has read what was there all along in the buckets behind it, and,
\* unless it started over, only those, and each once.
Complete == \A p \in 1..N : KeySeq[p] \in steady /\ Passed(p) => HasRead(KeySeq[p])

Once ==
  /\ \A n \in 1..Len(raw) : \E p \in 1..N : KeySeq[p] = raw[n].key /\ Passed(p)
  /\ \A m, n \in 1..Len(raw) : raw[m].key = raw[n].key => m = n

WalkInv == step # "idle" => Complete /\ (~repeated => Once)

\* Steps the walk does not notice.
LEMMA WalkStays ==
  ASSUME TypeInv, WalkInv, UNCHANGED <<walk, repeated>>, steady' \subseteq steady
  PROVE  WalkInv'
<1>1. \A p : Passed(p)' = Passed(p)  BY DEF walk, Passed
<1>2. \A k : HasRead(k)' = HasRead(k)  BY DEF walk, HasRead
<1>3. Complete => Complete'  BY <1>1, <1>2 DEF Complete
<1>4. Once => Once'  BY <1>1 DEF Once, walk
<1> QED  BY <1>3, <1>4 DEF WalkInv, walk

\* The walk goes on from where it is, or starts over at the first bucket.
LEMMA FromIs ==
  ASSUME TypeInv
  PROVE  /\ From = at \/ From = 0
         /\ (at > 0 => KeySeq[at] \in Live) => From = at
BY KeysAreNumbered DEF From, TypeInv

\* A key that is looked up after others is none of them.
LEMMA LookupDistinct ==
  ASSUME TypeInv, Once, Lookup
  PROVE  \A m, n \in 1..Len(raw') : raw'[m].key = raw'[n].key => m = n
<1>1. /\ step = "lookup" /\ next \in 1..N /\ raw \in Seq(Samples) /\ Len(raw) \in Nat
      /\ \A p : Passed(p) <=> p < next
  BY DEF Lookup, TypeInv, Passed
<1>2. \A n \in 1..Len(raw) : raw[n].key # KeySeq[next]
  <2> SUFFICES ASSUME NEW n \in 1..Len(raw), raw[n].key = KeySeq[next] PROVE FALSE
    OBVIOUS
  <2>1. PICK p \in 1..N : KeySeq[p] = raw[n].key /\ Passed(p)  BY <1>1 DEF Once
  <2>2. p = next  BY <1>1, <2>1, KeysAreNumbered
  <2>3. p < next /\ N \in Nat  BY <1>1, <2>1, KeysAreNumbered
  <2> QED  BY <1>1, <2>2, <2>3
<1>3. CASE KeySeq[next] \notin Live
  <2>1. raw' = raw  BY <1>3, LookupRaw
  <2> QED  BY <1>1, <2>1 DEF Once
<1>4. CASE KeySeq[next] \in Live
  <2> DEFINE s == [key |-> KeySeq[next], bytes |-> map[KeySeq[next]]]
  <2>1. raw' = Append(raw, s) /\ s.key = KeySeq[next]  BY <1>4, LookupRaw
  <2>2. s \in Samples
    <3>1. KeySeq[next] \in Keys /\ map[KeySeq[next]] \in Nat
      BY <1>4, PartialType DEF TypeInv, IsMap
    <3> QED  BY <3>1 DEF Samples
  <2> HIDE DEF s
  <2>3. /\ raw'[Len(raw) + 1] = s /\ \A n \in 1..Len(raw) : raw'[n] = raw[n]
        /\ \A n \in 1..Len(raw') : n \in 1..Len(raw) \/ n = Len(raw) + 1
    BY <1>1, <2>1, <2>2
  <2>4. ASSUME NEW m \in 1..Len(raw'), NEW n \in 1..Len(raw'), raw'[m].key = raw'[n].key
        PROVE  m = n
    <3>1. CASE m \in 1..Len(raw) /\ n \in 1..Len(raw)  BY <1>1, <2>3, <2>4, <3>1 DEF Once
    <3>2. CASE m \in 1..Len(raw) /\ n = Len(raw) + 1  BY <1>2, <2>1, <2>3, <2>4, <3>2
    <3>3. CASE m = Len(raw) + 1 /\ n \in 1..Len(raw)  BY <1>2, <2>1, <2>3, <2>4, <3>3
    <3> QED  BY <2>3, <3>1, <3>2, <3>3
  <2> QED  BY <2>4
<1> QED  BY <1>3, <1>4

\* Each action keeps the walk's invariant.
LEMMA WalkNext == TypeInv /\ TypeInv' /\ WalkInv /\ [Next]_vars => WalkInv'
<1> SUFFICES ASSUME TypeInv, TypeInv', WalkInv, [Next]_vars PROVE WalkInv'
  OBVIOUS
<1>1. N \in Nat /\ at \in 0..N /\ next \in 0..N /\ raw \in Seq(Samples) /\ Len(raw) \in Nat
  BY KeysAreNumbered DEF TypeInv
<1>2. ASSUME NEW k \in Keys, Frame(k) PROVE WalkInv'
  <2>1. PICK gone : Counts(k, gone)  BY <1>2, FrameCounts
  <2> QED  BY <1>2, <2>1, WalkStays DEF Frame, Counts
<1>3. CASE StartRead
  <2>1. step' = "next" /\ at' = 0 /\ Len(raw') = 0  BY <1>3 DEF StartRead
  <2>2. \A p \in 1..N : ~Passed(p)'  BY <1>1, <2>1 DEF Passed
  <2> QED  BY <1>1, <2>1, <2>2 DEF WalkInv, Complete, Once
<1>4. CASE NextKey
  <2>1. /\ next' \in 1..N /\ next' > From /\ step = "next" /\ step' = "lookup"
        /\ \A p \in 1..N : p > From /\ KeySeq[p] \in Live => next' <= p
    BY <1>4, NextIs DEF NextKey
  <2>2. /\ raw' = raw /\ steady' = steady /\ at' = at
        /\ repeated' = (repeated \/ (at > 0 /\ KeySeq[at] \notin Live))
    BY <1>4 DEF NextKey
  <2>3. \A p : (Passed(p) <=> p <= at) /\ (Passed(p)' <=> p < next')  BY <2>1 DEF Passed
  <2>4. ASSUME Complete, NEW p \in 1..N, KeySeq[p] \in steady, Passed(p)' PROVE HasRead(KeySeq[p])
    <3>1. p < next' /\ KeySeq[p] \in Live  BY <2>3, <2>4 DEF TypeInv
    <3>2. ~(p > From)  BY <1>1, <2>1, <3>1
    <3>3. From = at  BY <1>1, <3>2, FromIs
    <3> QED  BY <1>1, <2>3, <2>4, <3>2, <3>3 DEF Complete
  <2>5. Complete => Complete'  BY <2>2, <2>4 DEF Complete, HasRead
  <2>6. ASSUME Once, ~repeated' PROVE Once'
    <3>1. From = at  BY <2>2, <2>6, FromIs
    <3>2. \A p \in 1..N : Passed(p) => Passed(p)'  BY <1>1, <2>1, <2>3, <3>1
    <3> QED  BY <2>2, <2>6, <3>2 DEF Once
  <2> QED  BY <2>1, <2>2, <2>5, <2>6 DEF WalkInv
<1>5. CASE WalkEnds
  BY <1>5 DEF WalkEnds, Commit, WalkInv
<1>6. CASE Lookup
  <2> SUFFICES ASSUME step' # "idle" PROVE WalkInv'
    BY DEF WalkInv
  <2>1. /\ step = "lookup" /\ step' = "next" /\ at' = next /\ next \in 1..N
        /\ steady' = steady /\ repeated' = repeated
    BY <1>6 DEF Lookup, Commit, TypeInv
  <2>2. \A p : (Passed(p) <=> p < next) /\ (Passed(p)' <=> p <= next)  BY <2>1 DEF Passed
  <2>3. CASE KeySeq[next] \notin Live
    <3>1. raw' = raw  BY <1>6, <2>3, LookupRaw
    <3>2. ASSUME NEW p \in 1..N, KeySeq[p] \in steady, Passed(p)' PROVE Passed(p)
      <4>1. p # next  BY <2>3, <3>2 DEF TypeInv
      <4> QED  BY <1>1, <2>2, <3>2, <4>1
    <3>3. Complete => Complete'  BY <2>1, <3>1, <3>2 DEF Complete, HasRead
    <3>4. \A p \in 1..N : Passed(p) => Passed(p)'  BY <1>1, <2>2
    <3>5. Once => Once'  BY <3>1, <3>4 DEF Once
    <3> QED  BY <2>1, <3>3, <3>5 DEF WalkInv
  <2>4. CASE KeySeq[next] \in Live
    <3> DEFINE s == [key |-> KeySeq[next], bytes |-> map[KeySeq[next]]]
    <3>1. raw' = Append(raw, s) /\ s.key = KeySeq[next]  BY <1>6, <2>4, LookupRaw
    <3>2. s \in Samples
      <4>1. KeySeq[next] \in Keys /\ map[KeySeq[next]] \in Nat
        BY <2>1, <2>4, KeysAreNumbered, PartialType DEF TypeInv, IsMap
      <4> QED  BY <4>1 DEF Samples
    <3> HIDE DEF s
    <3>3. /\ Len(raw') = Len(raw) + 1 /\ raw'[Len(raw) + 1] = s
          /\ \A n \in 1..Len(raw) : raw'[n] = raw[n]
      BY <1>1, <3>1, <3>2
    <3>4. \A n \in 1..Len(raw') : n \in 1..Len(raw) \/ n = Len(raw) + 1  BY <1>1, <3>3
    <3>5. \A p \in 1..N : Passed(p)' <=> Passed(p) \/ p = next  BY <1>1, <2>1, <2>2
    <3>6. \A k : HasRead(k) => HasRead(k)'  BY <1>1, <3>3 DEF HasRead
    <3>7. HasRead(KeySeq[next])'  
      <4>1. Len(raw) + 1 \in 1..Len(raw')  BY <1>1, <3>3
      <4>2. PICK k : k = KeySeq[next]  OBVIOUS
      <4>3. \E n \in 1..Len(raw') : raw'[n].key = k  BY <3>1, <3>3, <4>1, <4>2
      <4>4. HasRead(k)'  BY <4>3 DEF HasRead
      <4>5. next' = next  BY <1>6 DEF Lookup
      <4> QED  BY <4>2, <4>4, <4>5
    <3>8. ASSUME Complete PROVE Complete'
      <4> SUFFICES ASSUME NEW p \in 1..N, KeySeq[p] \in steady, Passed(p)' PROVE HasRead(KeySeq[p])'
        BY <2>1 DEF Complete
      <4>1. CASE Passed(p)  BY <3>6, <3>8, <4>1 DEF Complete
      <4>2. CASE p = next  
        <5>1. next' = next  BY <1>6 DEF Lookup
        <5> QED  BY <3>7, <4>2, <5>1
      <4> QED  BY <3>5, <4>1, <4>2
    <3>9. ASSUME Once PROVE Once'
      <4>1. \A n \in 1..Len(raw') : \E p \in 1..N : KeySeq[p] = raw'[n].key /\ Passed(p)'
        BY <2>1, <3>1, <3>3, <3>4, <3>5, <3>9 DEF Once
      <4>2. \A m, n \in 1..Len(raw') : raw'[m].key = raw'[n].key => m = n
        BY <1>6, <3>9, LookupDistinct
      <4> QED  BY <4>1, <4>2 DEF Once
    <3> QED  BY <2>1, <3>8, <3>9 DEF WalkInv
  <2> QED  BY <2>3, <2>4
<1>7. CASE ReadFails
  BY <1>7 DEF ReadFails, WalkInv
<1>8. CASE ResetRates
  BY <1>8, WalkStays DEF ResetRates
<1>9. CASE UNCHANGED vars
  BY <1>9, WalkStays DEF vars, walk
<1> QED  BY <1>2, <1>3, <1>4, <1>5, <1>6, <1>7, <1>8, <1>9 DEF Next

\* What the walk has read when it ends.
LEMMA WalkReads ==
  ASSUME TypeInv, WalkInv, WalkEnds
  PROVE  \A k \in steady : HasRead(k)
<1> SUFFICES ASSUME NEW k \in steady PROVE HasRead(k)
  OBVIOUS
<1>1. k \in Live /\ k \in Keys  BY PartialType DEF TypeInv, IsMap
<1>2. PICK p \in 1..N : KeySeq[p] = k  BY <1>1, KeysAreNumbered
<1>3. ~(p > From)  BY <1>1, <1>2, NextIs DEF WalkEnds
<1>4. N \in Nat /\ at \in 0..N  BY KeysAreNumbered DEF TypeInv
<1>5. From = at  BY <1>3, <1>4, FromIs
<1>6. Passed(p)  BY <1>3, <1>4, <1>5 DEF Passed, WalkEnds
<1>7. Complete  BY DEF WalkInv, WalkEnds
<1> QED  BY <1>2, <1>6, <1>7 DEF Complete

\* Only the end of the walk, or a full buffer, commits what was read.
LEMMA ReadCompleteNext ==
  ASSUME TypeInv, WalkInv, [Next]_vars, step # "idle", step' = "idle",
         <<snapshots, span>>' # <<snapshots, span>>, Len(raw') < RawMax
  PROVE  \A k \in steady : \E n \in 1..Len(raw') : raw'[n].key = k
<1>1. CASE WalkEnds
  <2>1. raw' = raw  BY <1>1 DEF WalkEnds
  <2>2. \A k \in steady : HasRead(k)  BY <1>1, WalkReads
  <2> QED  BY <2>1, <2>2 DEF HasRead
<1>2. CASE Lookup
  <2>1. Len(raw') >= RawMax  BY <1>2 DEF Lookup
  <2>2. raw' \in Seq(Samples)  BY <1>2, LookupRaw
  <2>3. Len(raw') \in Nat /\ RawMax \in Nat  BY <2>2, SizeAssumption
  <2> QED  BY <2>1, <2>3
<1>3. \A k \in Keys : ~Frame(k)
  <2> SUFFICES ASSUME NEW k \in Keys, Frame(k) PROVE FALSE
    OBVIOUS
  <2>1. UNCHANGED walk  BY DEF Frame
  <2> QED  BY <2>1 DEF walk
<1>4. ~StartRead /\ ~NextKey /\ ~ReadFails /\ ~ResetRates /\ ~UNCHANGED vars
  BY DEF StartRead, NextKey, ReadFails, ResetRates, vars, snapshots
<1> QED  BY <1>1, <1>2, <1>3, <1>4 DEF Next

LEMMA WalkInit == Init => WalkInv  BY DEF Init, WalkInv

----------------------------------------------------------------------------
(* What the fold of a read adds up to *)

\* The keys of a client's traffic in a direction, and the sum of a value of theirs.
Of(c, d) == {k \in Keys : k.client = c /\ k.dir = d}
Sum(f, c, d) == SumFunctionOnSet(f, Of(c, d))

Values == [Keys -> Nat]

\* What a snapshot holds for a client.
Total(f, c, d) == IF c \in DOMAIN f THEN f[c][d] ELSE 0

LEMMA SumIsNat ==
  ASSUME NEW f \in Values, NEW c, NEW d
  PROVE  IsFiniteSet(Of(c, d)) /\ (\A k \in Of(c, d) : f[k] \in Nat) /\ Sum(f, c, d) \in Nat
<1>1. IsFiniteSet(Of(c, d))  BY KeysAreNumbered, FS_Subset DEF Of
<1>2. \A k \in Of(c, d) : f[k] \in Nat  BY DEF Of, Values
<1> QED  BY <1>1, <1>2, SumType DEF Sum

LEMMA SumGrows ==
  ASSUME NEW f \in Values, NEW k \in Keys, NEW n \in Nat, NEW c, NEW d
  PROVE  Sum([f EXCEPT ![k] = @ + n], c, d)
           = Sum(f, c, d) + (IF k.client = c /\ k.dir = d THEN n ELSE 0)
<1> DEFINE g == [f EXCEPT ![k] = @ + n]
           S == Of(c, d)
<1>1. IsFiniteSet(S) /\ \A x \in S : f[x] \in Nat  BY SumIsNat
<1>2. \A x \in S : g[x] = IF x = k THEN f[x] + n ELSE f[x]  BY DEF Of, Values
<1>3. k \in S <=> (k.client = c /\ k.dir = d)  BY DEF Of
<1> HIDE DEF g, S
<1>4. SumFunctionOnSet(g, S) = SumFunctionOnSet(f, S) + (IF k \in S THEN n ELSE 0)
  BY <1>1, <1>2, SumAdd
<1> QED  BY <1>3, <1>4 DEF Sum, g, S

\* A sample adds to its client in its direction, and to no other total.
LEMMA AddedTotal ==
  ASSUME NEW f \in Partial(Clients, [Dirs -> Nat]), NEW s \in Samples, NEW c \in Clients, NEW d \in Dirs
  PROVE  /\ Total(f, c, d) \in Nat
         /\ Total(Added(f, s), c, d)
              = Total(f, c, d) + (IF s.key.client = c /\ s.key.dir = d THEN s.bytes ELSE 0)
<1>1. \A x \in DOMAIN f : f[x] \in [Dirs -> Nat]  BY PartialType
<1>2. Total(f, c, d) \in Nat  BY <1>1 DEF Total
<1> DEFINE old == IF s.key.client \in DOMAIN f THEN f[s.key.client] ELSE [e \in Dirs |-> 0]
           new == [old EXCEPT ![s.key.dir] = @ + s.bytes]
<1>3. Added(f, s) = With(f, s.key.client, new)  BY DEF Added
<1>4. s.bytes \in Nat /\ s.key.dir \in Dirs  BY KeySeqAssumption DEF Samples
<1>5. old \in [Dirs -> Nat] /\ old[d] = Total(f, s.key.client, d)  BY <1>1 DEF Total
<1>6. c = s.key.client => old[d] = Total(f, c, d)  BY <1>5
<1> HIDE DEF old
<1>7. new[d] = old[d] + (IF s.key.dir = d THEN s.bytes ELSE 0)  BY <1>4, <1>5
<1> HIDE DEF new
<1>8. Total(Added(f, s), c, d) = IF c = s.key.client THEN new[d] ELSE Total(f, c, d)
  BY <1>3 DEF Total, With
<1> QED  BY <1>2, <1>4, <1>5, <1>6, <1>7, <1>8

\* One of the samples a read has of a key, if any.
Chosen(samples, k) ==
  IF \E n \in 1..Len(samples) : samples[n].key = k
    THEN CHOOSE n \in 1..Len(samples) : samples[n].key = k ELSE 0

\* Its value, among the first j samples.
Value(samples, j) ==
  [k \in Keys |-> IF Chosen(samples, k) \in 1..j THEN samples[Chosen(samples, k)].bytes ELSE 0]

Distinct(samples) ==
  \A m, n \in 1..Len(samples) : samples[m].key = samples[n].key => m = n

LEMMA ChosenIs ==
  ASSUME NEW samples \in Seq(Samples), NEW k
  PROVE  /\ Chosen(samples, k) \in 0..Len(samples)
         /\ Chosen(samples, k) # 0 => samples[Chosen(samples, k)].key = k
         /\ \A n \in 1..Len(samples) : samples[n].key = k => Chosen(samples, k) # 0
<1>1. Len(samples) \in Nat  OBVIOUS
<1>2. CASE \E n \in 1..Len(samples) : samples[n].key = k
  <2>1. Chosen(samples, k) = CHOOSE n \in 1..Len(samples) : samples[n].key = k  BY <1>2 DEF Chosen
  <2>2. Chosen(samples, k) \in 1..Len(samples) /\ samples[Chosen(samples, k)].key = k  BY <1>2, <2>1
  <2> QED  BY <1>1, <2>2
<1>3. CASE ~ \E n \in 1..Len(samples) : samples[n].key = k
  BY <1>1, <1>3 DEF Chosen
<1> QED  BY <1>2, <1>3

\* A value is counted at its sample, and at none for a key that was not read.
LEMMA ValueIs ==
  ASSUME NEW samples \in Seq(Samples)
  PROVE  /\ \A j \in 0..Len(samples) : Value(samples, j) \in Values
         /\ \A k \in Keys : Value(samples, 0)[k] = 0
         /\ \A j \in 1..Len(samples) :
              /\ samples[j].key \in Keys /\ samples[j].bytes \in Nat
              /\ Value(samples, j) =
                   IF Chosen(samples, samples[j].key) = j
                     THEN [Value(samples, j-1) EXCEPT ![samples[j].key] = @ + samples[j].bytes]
                     ELSE Value(samples, j-1)
         /\ \A k \in Keys : 
              \/ Value(samples, Len(samples))[k] = 0 /\ \A n \in 1..Len(samples) : samples[n].key # k
              \/ \E n \in 1..Len(samples) : 
                   samples[n].key = k /\ Value(samples, Len(samples))[k] = samples[n].bytes
<1>1. /\ Len(samples) \in Nat
      /\ \A n \in 1..Len(samples) : samples[n].key \in Keys /\ samples[n].bytes \in Nat
  <2>1. Len(samples) \in Nat /\ \A n \in 1..Len(samples) : samples[n] \in Samples  OBVIOUS
  <2> QED  BY <2>1 DEF Samples
<1>2. ASSUME NEW j \in 0..Len(samples) PROVE Value(samples, j) \in Values
  <2>1. \A k \in Keys : Chosen(samples, k) \in 1..j => samples[Chosen(samples, k)].bytes \in Nat
    <3> SUFFICES ASSUME NEW k \in Keys, Chosen(samples, k) \in 1..j
                 PROVE  samples[Chosen(samples, k)].bytes \in Nat
      OBVIOUS
    <3>1. Chosen(samples, k) \in 1..Len(samples)  BY <1>1
    <3> QED  BY <1>1, <3>1
  <2> QED  BY <2>1 DEF Value, Values
<1>3. \A k \in Keys : Value(samples, 0)[k] = 0
  <2>1. 1..0 = {}  OBVIOUS
  <2> QED  BY <2>1 DEF Value
<1>4. ASSUME NEW j \in 1..Len(samples)
      PROVE  Value(samples, j) =
               IF Chosen(samples, samples[j].key) = j
                 THEN [Value(samples, j-1) EXCEPT ![samples[j].key] = @ + samples[j].bytes]
                 ELSE Value(samples, j-1)
  <2> DEFINE key == samples[j].key
             was == Value(samples, j-1)
  <2>1. \A k \in Keys : Chosen(samples, k) \in 0..Len(samples)
                        /\ (Chosen(samples, k) = j => k = key)
    BY <1>1, ChosenIs
  <2>2. \A k \in Keys : Chosen(samples, k) \in 1..j <=> Chosen(samples, k) \in 1..j-1 \/ Chosen(samples, k) = j
    BY <1>1, <2>1
  <2>3. ~(j \in 1..j-1) /\ j \in 1..j  BY <1>1
  <2>4. DOMAIN was = Keys /\ key \in Keys  BY <1>1 DEF Value
  <2>5. CASE Chosen(samples, key) = j
    <3>1. was[key] = 0  BY <2>3, <2>4, <2>5 DEF Value
    <3>2. \A k \in Keys : k # key => Value(samples, j)[k] = was[k]  BY <2>1, <2>2 DEF Value
    <3>3. Value(samples, j)[key] = was[key] + samples[j].bytes
      BY <1>1, <2>3, <2>4, <2>5, <3>1 DEF Value
    <3>4. Value(samples, j) = [k \in Keys |-> Value(samples, j)[k]]  BY DEF Value
    <3>5. was = [k \in Keys |-> was[k]]  BY DEF Value
    <3> HIDE DEF was, key
    <3>6. \A k \in Keys : Value(samples, j)[k] = [was EXCEPT ![key] = @ + samples[j].bytes][k]
      BY <2>4, <3>2, <3>3
    <3>7. [was EXCEPT ![key] = @ + samples[j].bytes]
            = [k \in Keys |-> [was EXCEPT ![key] = @ + samples[j].bytes][k]]
      BY <3>5
    <3>8. Value(samples, j) = [was EXCEPT ![key] = @ + samples[j].bytes]
      BY <3>4, <3>6, <3>7
    <3> QED  BY <2>5, <3>8 DEF was, key
  <2>6. CASE Chosen(samples, key) # j
    <3>1. \A k \in Keys : Chosen(samples, k) # j  BY <2>1, <2>6
    <3>2. Value(samples, j) = Value(samples, j-1)  BY <2>2, <3>1 DEF Value
    <3> QED  BY <2>6, <3>2
  <2> QED  BY <2>5, <2>6
<1>5. ASSUME NEW k \in Keys
      PROVE \/ Value(samples, Len(samples))[k] = 0 /\ \A n \in 1..Len(samples) : samples[n].key # k
            \/ \E n \in 1..Len(samples) : 
                 samples[n].key = k /\ Value(samples, Len(samples))[k] = samples[n].bytes
  <2>1. CASE Chosen(samples, k) = 0
    <3>1. \A n \in 1..Len(samples) : samples[n].key # k  BY <2>1, ChosenIs
    <3>2. ~(0 \in 1..Len(samples))  OBVIOUS
    <3> QED  BY <2>1, <3>1, <3>2 DEF Value
  <2>2. CASE Chosen(samples, k) # 0
    <3>1. Chosen(samples, k) \in 1..Len(samples) /\ samples[Chosen(samples, k)].key = k
      <4>1. Chosen(samples, k) \in 0..Len(samples) /\ samples[Chosen(samples, k)].key = k  BY <2>2, ChosenIs
      <4> QED  BY <1>1, <2>2, <4>1
    <3>2. Value(samples, Len(samples))[k] = samples[Chosen(samples, k)].bytes  BY <3>1 DEF Value
    <3> QED  BY <3>1, <3>2
  <2> QED  BY <2>1, <2>2
<1> QED  BY <1>1, <1>2, <1>3, <1>4, <1>5

\* A fold holds no less than one sample of each key, if it was not cut, and no
\* more, if no key was read twice.
LEMMA FoldTotal ==
  ASSUME NEW samples \in Seq(Samples), NEW c \in Clients, NEW d \in Dirs
  PROVE  LET fold  == Folded(samples, NoClients)
             total == Total(fold.clients, c, d)
             sum   == Sum(Value(samples, Len(samples)), c, d)
         IN /\ total \in Nat /\ sum \in Nat
            /\ Distinct(samples) => total <= sum
            /\ ~fold.cut => sum <= total
<1> DEFINE S(j) == Sum(Value(samples, j), c, d)
           T(a) == Total(a.clients, c, d)
           Right(a, j) == (Distinct(samples) => T(a) <= S(j)) /\ (~a.cut => S(j) <= T(a))
           V == [j \in 0..Len(samples) |-> {a \in Accs : Right(a, j)}]
<1>1. PICK l : FoldChain(l, samples)  BY FoldBySample
<1>2. Len(samples) \in Nat /\ \A n \in 1..Len(samples) : samples[n] \in Samples  OBVIOUS
<1>3. \A j \in 0..Len(samples) : S(j) \in Nat  BY ValueIs, SumIsNat
<1>4. \A a \in Accs : a.clients \in Partial(Clients, [Dirs -> Nat]) /\ a.cut \in BOOLEAN
  BY DEF Accs, IsSnapshot
<1>5. ASSUME NEW a \in Accs PROVE T(a) \in Nat
  <2>1. a.clients \in Partial(Clients, [Dirs -> Nat])  BY <1>4
  <2>2. \A x \in DOMAIN a.clients : a.clients[x] \in [Dirs -> Nat]  BY <2>1, PartialType
  <2> QED  BY <2>2 DEF Total
<1>6. Right(Start, 0) /\ Start \in Accs
  <2>1. T(Start) = 0
    <3>1. DOMAIN NoClients = {}  BY DEF NoClients
    <3> QED  BY <3>1 DEF Total, Start
  <2>2. S(0) = 0
    <3> DEFINE w == Value(samples, 0)
    <3>1. w \in Values /\ \A k \in Keys : w[k] = 0  BY <1>2, ValueIs
    <3> HIDE DEF w
    <3>2. \A k \in Of(c, d) : w[k] = 0  BY <3>1 DEF Of
    <3>3. IsFiniteSet(Of(c, d))  BY <3>1, SumIsNat
    <3>4. SumFunctionOnSet(w, Of(c, d)) = 0  BY <3>2, <3>3, SumOfZeros
    <3> QED  BY <3>4 DEF w, Sum
  <2> HIDE DEF S, T
  <2> QED  BY <2>1, <2>2, StartIsAcc
<1>7. ASSUME NEW j \in 1..Len(samples), NEW a \in Accs, Right(a, j-1)
      PROVE  AddSample(a, samples[j]) \in Accs /\ Right(AddSample(a, samples[j]), j)
  <2> DEFINE s == samples[j]
             b == AddSample(a, s)
             new == Chosen(samples, s.key) = j
             x == IF s.key.client = c /\ s.key.dir = d THEN s.bytes ELSE 0
  <2>1. s \in Samples /\ s.key \in Keys /\ s.bytes \in Nat /\ x \in Nat  BY <1>2, ValueIs
  <2>2. b \in Accs  BY <2>1, AddSampleIs
  <2>3. j \in Nat /\ j-1 \in 0..Len(samples) /\ j \in 0..Len(samples)  BY <1>2
  <2>4. S(j) = S(j-1) + (IF new THEN x ELSE 0)
    <3>1. Value(samples, j) = IF new THEN [Value(samples, j-1) EXCEPT ![s.key] = @ + s.bytes]
                                     ELSE Value(samples, j-1)
      BY ValueIs
    <3>2. Value(samples, j-1) \in Values  BY <2>3, ValueIs
    <3>3. Sum([Value(samples, j-1) EXCEPT ![s.key] = @ + s.bytes], c, d) = S(j-1) + x
      BY <2>1, <3>2, SumGrows
    <3>4. S(j-1) \in Nat  BY <1>3, <2>3
    <3> HIDE DEF new, x, s
    <3>5. CASE new  BY <3>1, <3>3, <3>5
    <3>6. CASE ~new  BY <3>1, <3>4, <3>6
    <3> QED  BY <3>5, <3>6
  <2>5. Distinct(samples) => new
    <3> SUFFICES ASSUME Distinct(samples) PROVE Chosen(samples, s.key) = j
      OBVIOUS
    <3>1. Chosen(samples, s.key) # 0 /\ Chosen(samples, s.key) \in 0..Len(samples)
          /\ samples[Chosen(samples, s.key)].key = s.key
      BY ChosenIs
    <3>2. Chosen(samples, s.key) \in 1..Len(samples)  BY <1>2, <3>1
    <3> QED  BY <3>1, <3>2 DEF Distinct
  <2>6. b = [a EXCEPT !.cut = TRUE] \/ (b = [a EXCEPT !.clients = Added(a.clients, s)] /\ ~a.cut)
    BY <2>1, AddSampleIs
  <2>7. CASE b = [a EXCEPT !.cut = TRUE]
    <3>1. T(b) = T(a) /\ b.cut  BY <2>7 DEF Accs, IsSnapshot
    <3>2. T(a) \in Nat /\ S(j-1) \in Nat  BY <1>3, <1>5, <2>3
    <3>3. Distinct(samples) => T(a) <= S(j-1)  BY <1>7
    <3> HIDE DEF S, T, b, x, new, s
    <3>4. Right(b, j)  BY <2>1, <2>4, <3>1, <3>2, <3>3
    <3> QED  BY <2>2, <3>4 DEF b, s
  <2>8. CASE b = [a EXCEPT !.clients = Added(a.clients, s)] /\ ~a.cut
    <3>1. b.clients = Added(a.clients, s) /\ b.cut = a.cut  BY <2>8 DEF Accs, IsSnapshot
    <3>2. a.clients \in Partial(Clients, [Dirs -> Nat])  BY <1>4
    <3>3. Total(Added(a.clients, s), c, d) = Total(a.clients, c, d) + x
      BY <2>1, <3>2, AddedTotal
    <3>4. T(b) = T(a) + x
      <4> HIDE DEF b, x, s
      <4> QED  BY <3>1, <3>3
    <3>5. T(a) \in Nat /\ S(j-1) \in Nat  BY <1>3, <1>5, <2>3
    <3>6. (Distinct(samples) => T(a) <= S(j-1)) /\ S(j-1) <= T(a)  BY <1>7, <2>8
    <3> HIDE DEF S, T, b, x, new, s
    <3>7. Right(b, j)  BY <2>1, <2>4, <2>5, <3>4, <3>5, <3>6
    <3> QED  BY <2>2, <3>7 DEF b, s
  <2> QED  BY <2>6, <2>7, <2>8
<1>8. \A j \in 0..Len(samples) : \A a : a \in V[j] <=> a \in Accs /\ Right(a, j)  OBVIOUS
<1> HIDE DEF V, Right
<1>9. l[0] \in V[0]  BY <1>1, <1>2, <1>6, <1>8 DEF FoldChain
<1>10. ASSUME NEW j \in 1..Len(samples), l[j-1] \in V[j-1] PROVE l[j] \in V[j]
  <2>1. j-1 \in 0..Len(samples) /\ j \in 0..Len(samples)  BY <1>2
  <2>2. l[j] = AddSample(l[j-1], samples[j])  BY <1>1 DEF FoldChain
  <2>3. l[j-1] \in Accs /\ Right(l[j-1], j-1)  BY <1>8, <1>10, <2>1
  <2> QED  BY <1>7, <1>8, <2>1, <2>2, <2>3
<1>11. \A j \in 0..Len(samples) : l[j] \in V[j]  BY <1>2, <1>9, <1>10, ChainStays
<1>12. Len(samples) \in 0..Len(samples)  BY <1>2
<1>13. l[Len(samples)] \in V[Len(samples)] /\ l[Len(samples)] = Folded(samples, NoClients)
  BY <1>1, <1>11, <1>12 DEF FoldChain
<1>14. Folded(samples, NoClients) \in Accs /\ Right(Folded(samples, NoClients), Len(samples))
  BY <1>8, <1>12, <1>13
<1> QED  BY <1>3, <1>5, <1>12, <1>14 DEF Right

----------------------------------------------------------------------------
(***************************************************************************)
(* The rate: T gives what has been counted of each key so far, B what had  *)
(* been when the read in progress began, C when the read behind `current`  *)
(* began, v what that read found.                                          *)
(***************************************************************************)

Adds(f, t) == \A c \in Clients, d \in Dirs : Sum(f, c, d) = t[c][d]

\* The samples of this read: what a key still holds has been counted since.
ReadBound(s, T, B) ==
  \A n \in 1..Len(s) :
    s[n].key \in Live => map[s[n].key] + B[s[n].key] <= s[n].bytes + T[s[n].key]

\* An entry that is new since the read began holds no more than was counted since.
NewBound(T, B) == \A k \in Live \ steady : map[k] + B[k] <= T[k]

\* The samples of this read against those of the last.
SampleBound(s, T, C, v) ==
  \A n \in 1..Len(s) : s[n].bytes + C[s[n].key] <= v[s[n].key] + T[s[n].key]

\* The entries of the map against the samples of the last read.
EntryBound(T, C, v) == \A k \in Live : map[k] + C[k] <= v[k] + T[k]

\* The last snapshot holds all its read found.
Holds(v) == \A c \in DOMAIN current, d \in Dirs : Sum(v, c, d) <= current[c][d]

Whole == taken /\ ~span.current.cut

Explained(T, B, C, v) ==
  /\ Adds(T, sent) /\ Adds(B, span.reading) /\ Adds(C, span.current.begin)
  /\ \A k \in Keys : B[k] <= T[k] /\ C[k] <= T[k]
  /\ step # "idle" => ReadBound(raw, T, B) /\ NewBound(T, B)
  /\ Whole => EntryBound(T, C, v) /\ Holds(v)
  /\ Whole /\ step # "idle" => SampleBound(raw, T, C, v)

Ordered == \A c \in Clients, d \in Dirs : span.previous.begin[c][d] <= span.current.end[c][d]

Grown ==
  valid /\ ~span.current.repeated /\ ~span.previous.cut =>
    \A c \in DOMAIN current \intersect DOMAIN previous, d \in Dirs :
      current[c][d] + span.previous.begin[c][d] <= previous[c][d] + span.current.end[c][d]

RateInv ==
  /\ Ordered /\ Grown
  /\ \E T, B, C, v \in Values : Explained(T, B, C, v)

\* What NoInflatedRate says of Delta follows from the totals.
LEMMA RateHolds == TypeInv /\ Ordered /\ Grown => NoInflatedRate
<1> SUFFICES ASSUME TypeInv, Ordered, Grown, ~span.current.repeated, ~span.previous.cut,
                    NEW c \in Clients, NEW d \in Dirs
             PROVE  Reported(c, d) <= span.current.end[c][d] - span.previous.begin[c][d]
  BY DEF NoInflatedRate
<1> DEFINE e == span.current.end[c][d]
           b == span.previous.begin[c][d]
<1>1. e \in Nat /\ b \in Nat /\ b <= e  BY DEF TypeInv, Spans, Traffic, Ordered
<1>2. CASE valid /\ c \in DOMAIN current /\ c \in DOMAIN previous
  <2>1. current[c] \in [Dirs -> Nat] /\ previous[c] \in [Dirs -> Nat]
    BY <1>2, PartialType DEF TypeInv, IsSnapshot
  <2>2. current[c][d] \in Nat /\ previous[c][d] \in Nat  BY <2>1
  <2>3. current[c][d] + b <= previous[c][d] + e  BY <1>2 DEF Grown
  <2>4. Reported(c, d) = IF current[c][d] < previous[c][d] THEN 0 ELSE current[c][d] - previous[c][d]
    BY <1>2 DEF Reported, Delta
  <2> HIDE DEF e, b
  <2>5. Reported(c, d) <= e - b  BY <1>1, <2>2, <2>3, <2>4
  <2> QED  BY <2>5 DEF e, b
<1>3. CASE ~(valid /\ c \in DOMAIN current /\ c \in DOMAIN previous)
  <2>1. Reported(c, d) = 0  BY <1>3 DEF Reported
  <2> HIDE DEF e, b
  <2>2. 0 <= e - b  BY <1>1
  <2> QED  BY <2>1, <2>2 DEF e, b
<1> QED  BY <1>2, <1>3

LEMMA RateInit == Init => RateInv
<1> SUFFICES ASSUME Init PROVE RateInv
  OBVIOUS
<1> DEFINE z == [k \in Keys |-> 0]
<1>1. z \in Values /\ \A k \in Keys : z[k] = 0  BY DEF Values
<1>2. Adds(z, NoTraffic)
  <2> SUFFICES ASSUME NEW c \in Clients, NEW d \in Dirs PROVE Sum(z, c, d) = 0
    BY DEF Adds, NoTraffic
  <2> HIDE DEF z
  <2>1. \A k \in Of(c, d) : z[k] = 0  BY <1>1 DEF Of
  <2>2. IsFiniteSet(Of(c, d))  BY <1>1, SumIsNat
  <2>3. SumFunctionOnSet(z, Of(c, d)) = 0  BY <2>1, <2>2, SumOfZeros
  <2> QED  BY <2>3 DEF Sum
<1> HIDE DEF z
<1>3. Explained(z, z, z, z)
  BY <1>1, <1>2 DEF Init, Explained, Whole, NoSpan
<1>4. Ordered  BY DEF Init, Ordered, NoSpan, NoTraffic
<1>5. Grown  BY DEF Init, Grown
<1> QED  BY <1>1, <1>3, <1>4, <1>5 DEF RateInv

\* Sums of lesser values are no greater.
LEMMA AddsBelow ==
  ASSUME NEW f \in Values, NEW g \in Values, \A k \in Keys : f[k] <= g[k], NEW c, NEW d
  PROVE  Sum(f, c, d) <= Sum(g, c, d)
<1> DEFINE S == Of(c, d)
<1>1. IsFiniteSet(S) /\ \A x \in S : f[x] \in Nat /\ f[x] <= g[x] /\ g[x] \in Nat
  <2>1. IsFiniteSet(S) /\ \A x \in S : f[x] \in Nat  BY SumIsNat
  <2>2. \A x \in S : g[x] \in Nat  BY SumIsNat
  <2>3. \A x \in S : f[x] <= g[x]  BY DEF Of
  <2> QED  BY <2>1, <2>2, <2>3
<1> HIDE DEF S
<1>2. S \in SUBSET S  OBVIOUS
<1>3. SumFunctionOnSet(f, S) <= SumFunctionOnSet(g, S)  BY <1>1, <1>2, SumMonotone
<1> QED  BY <1>3 DEF Sum, S

\* A frame is one more of its key, in the map at most one more, too.
LEMMA FrameExplained ==
  ASSUME TypeInv, NEW k \in Keys, Frame(k), NEW T \in Values, NEW B \in Values, NEW C \in Values,
         NEW v \in Values, Explained(T, B, C, v)
  PROVE  \E U \in Values : Explained(U, B, C, v)'
<1> DEFINE U == [T EXCEPT ![k] = @ + 1]
<1>1. U \in Values /\ U[k] = T[k] + 1 /\ \A x \in Keys : x # k => U[x] = T[x]  BY DEF Values
<1>2. \A x \in Keys : /\ T[x] \in Nat /\ B[x] \in Nat /\ C[x] \in Nat /\ v[x] \in Nat
                      /\ B[x] <= T[x] /\ C[x] <= T[x]
  BY DEF Explained, Values
<1>3. Adds(U, sent')
  <2> SUFFICES ASSUME NEW c \in Clients, NEW d \in Dirs PROVE Sum(U, c, d) = sent'[c][d]
    BY DEF Adds
  <2>1. Sum(U, c, d) = Sum(T, c, d) + (IF k.client = c /\ k.dir = d THEN 1 ELSE 0)  BY SumGrows
  <2>2. Sum(T, c, d) = sent[c][d] /\ sent \in Traffic  BY DEF Explained, Adds, TypeInv
  <2>3. sent' = [sent EXCEPT ![k.client][k.dir] = @ + 1]  BY DEF Frame
  <2>4. sent'[c][d] = sent[c][d] + (IF k.client = c /\ k.dir = d THEN 1 ELSE 0)
    BY <2>2, <2>3 DEF Traffic
  <2> QED  BY <2>1, <2>2, <2>4
<1> HIDE DEF U
<1>4. PICK gone : Counts(k, gone)  BY FrameCounts
<1>5. /\ k \in Live' /\ \A x \in Live' : x = k \/ (x \in Live /\ x # k /\ map'[x] = map[x])
      /\ map'[k] = (IF k \in Live THEN map[k] + 1 ELSE 1)
      /\ \A x \in Live' \ steady' : x \in Live => x \notin steady
  BY <1>4 DEF Counts
<1>6. Live \subseteq Keys /\ \A x \in Live : map[x] \in Nat  BY PartialType DEF TypeInv, IsMap
<1>7. UNCHANGED <<step, raw, current, taken, span>>  BY DEF Frame, walk, snapshots
<1>8. \A x \in Live' : x \in Keys  BY <1>5, <1>6
<1>9. ASSUME NEW s \in Seq(Samples), ReadBound(s, T, B) PROVE ReadBound(s, U, B)'
  <2> SUFFICES ASSUME NEW n \in 1..Len(s), s[n].key \in Live'
               PROVE  map'[s[n].key] + B[s[n].key] <= s[n].bytes + U[s[n].key]
    BY DEF ReadBound
  <2>1. s[n] \in Samples  OBVIOUS
  <2>2. s[n].key \in Keys /\ s[n].bytes \in Nat  BY <2>1 DEF Samples
  <2>3. s[n].key \in Live => map[s[n].key] + B[s[n].key] <= s[n].bytes + T[s[n].key]
    BY <1>9 DEF ReadBound
  <2>4. PICK x, b : x = s[n].key /\ b = s[n].bytes  OBVIOUS
  <2>5. x \in Keys /\ x \in Live' /\ b \in Nat /\ (x \in Live => map[x] + B[x] <= b + T[x])
    BY <2>2, <2>3, <2>4
  <2>6. CASE x \in Live /\ x = k
    <3>1. map'[x] = map[x] + 1 /\ U[x] = T[x] + 1  BY <1>1, <1>5, <2>6
    <3> QED  BY <1>2, <1>6, <2>4, <2>5, <2>6, <3>1
  <2>7. CASE x \in Live /\ x # k
    <3>1. map'[x] = map[x] /\ U[x] = T[x]  BY <1>1, <1>5, <2>5, <2>7
    <3> QED  BY <2>4, <2>5, <2>7, <3>1
  <2>8. CASE x \notin Live
    <3>1. map'[x] = 1 /\ U[x] = T[x] + 1  BY <1>1, <1>5, <2>5, <2>8
    <3> QED  BY <1>2, <2>4, <2>5, <3>1
  <2> QED  BY <2>6, <2>7, <2>8
<1>10. ASSUME NewBound(T, B) PROVE NewBound(U, B)'
  <2> SUFFICES ASSUME NEW x \in Live' \ steady' PROVE map'[x] + B[x] <= U[x]
    BY DEF NewBound
  <2>1. x \in Keys /\ (x \in Live => map[x] + B[x] <= T[x])  BY <1>5, <1>8, <1>10 DEF NewBound
  <2>2. CASE x \in Live  BY <1>1, <1>2, <1>5, <1>6, <2>1, <2>2
  <2>3. CASE x \notin Live  BY <1>1, <1>2, <1>5, <2>1, <2>3
  <2> QED  BY <2>2, <2>3
<1>11. ASSUME NEW s \in Seq(Samples), SampleBound(s, T, C, v) PROVE SampleBound(s, U, C, v)
  <2> SUFFICES ASSUME NEW n \in 1..Len(s)
               PROVE  s[n].bytes + C[s[n].key] <= v[s[n].key] + U[s[n].key]
    BY DEF SampleBound
  <2>1. s[n] \in Samples  OBVIOUS
  <2>2. s[n].key \in Keys /\ s[n].bytes \in Nat  BY <2>1 DEF Samples
  <2>3. s[n].bytes + C[s[n].key] <= v[s[n].key] + T[s[n].key]  BY <1>11 DEF SampleBound
  <2>4. U[s[n].key] = T[s[n].key] \/ U[s[n].key] = T[s[n].key] + 1  BY <1>1, <2>2
  <2> QED  BY <1>2, <2>2, <2>3, <2>4
<1>12. ASSUME EntryBound(T, C, v) PROVE EntryBound(U, C, v)'
  <2> SUFFICES ASSUME NEW x \in Live' PROVE map'[x] + C[x] <= v[x] + U[x]
    BY DEF EntryBound
  <2>1. x \in Keys /\ (x \in Live => map[x] + C[x] <= v[x] + T[x])  BY <1>8, <1>12 DEF EntryBound
  <2>2. CASE x \in Live  BY <1>1, <1>2, <1>5, <1>6, <2>1, <2>2
  <2>3. CASE x \notin Live  BY <1>1, <1>2, <1>5, <2>1, <2>3
  <2> QED  BY <2>2, <2>3
<1>13. \A x \in Keys : B[x] <= U[x] /\ C[x] <= U[x]
  <2> SUFFICES ASSUME NEW x \in Keys PROVE B[x] <= U[x] /\ C[x] <= U[x]
    OBVIOUS
  <2>1. U[x] = T[x] \/ U[x] = T[x] + 1  BY <1>1
  <2> QED  BY <1>2, <2>1
<1>14. raw \in Seq(Samples)  BY DEF TypeInv
<1>15. step # "idle" => ReadBound(raw, U, B)' /\ NewBound(U, B)'
  <2> SUFFICES ASSUME step # "idle" PROVE ReadBound(raw, U, B)' /\ NewBound(U, B)'
    OBVIOUS
  <2>1. PICK s \in Seq(Samples) : s = raw  BY <1>14
  <2>2. ReadBound(s, T, B) /\ NewBound(T, B)  BY <2>1 DEF Explained
  <2>3. ReadBound(s, U, B)'  BY <1>9, <2>2
  <2>4. raw' = s  BY <1>7, <2>1
  <2> QED  BY <1>10, <2>2, <2>3, <2>4 DEF ReadBound
<1>16. Whole => EntryBound(U, C, v)' /\ Holds(v)'
  BY <1>7, <1>12 DEF Explained, Holds
<1>17. Whole /\ step # "idle" => SampleBound(raw, U, C, v)'
  <2>1. raw' = raw  BY <1>7
  <2> QED  BY <1>11, <1>14, <2>1 DEF Explained, SampleBound
<1>18. Adds(U, sent)' /\ Adds(B, span.reading)' /\ Adds(C, span.current.begin)'
  BY <1>3, <1>7 DEF Explained, Adds
<1>19. Whole' <=> Whole  BY <1>7 DEF Whole
<1> QED  BY <1>1, <1>7, <1>13, <1>15, <1>16, <1>17, <1>18, <1>19 DEF Explained

\* A lookup adds what is in the map to the samples.
LEMMA LookupBounds ==
  ASSUME TypeInv, Lookup, NEW T \in Values, NEW B \in Values, NEW C \in Values, NEW v \in Values,
         \A k \in Keys : B[k] <= T[k], ReadBound(raw, T, B),
         Whole => SampleBound(raw, T, C, v) /\ EntryBound(T, C, v),
         NEW z \in Seq(Samples), z = raw'
  PROVE  ReadBound(z, T, B) /\ (Whole => SampleBound(z, T, C, v))
<1> SUFFICES ASSUME KeySeq[next] \in Live
             PROVE  ReadBound(z, T, B) /\ (Whole => SampleBound(z, T, C, v))
  BY LookupRaw
<1> DEFINE k == KeySeq[next]
           x == [key |-> k, bytes |-> map[k]]
<1>1. k \in Keys /\ map[k] \in Nat /\ raw \in Seq(Samples)  BY PartialType DEF TypeInv, IsMap
<1>2. x \in Samples /\ x.key = k /\ x.bytes = map[k]  BY <1>1 DEF Samples
<1>3. z = Append(raw, x)  BY LookupRaw
<1>4. k \in Live  OBVIOUS
<1> HIDE DEF x, k
<1>5. \A n \in 1..Len(z) : (n \in 1..Len(raw) /\ z[n] = raw[n]) \/ z[n] = x
  BY <1>1, <1>2, <1>3
<1>6. T[k] \in Nat /\ B[k] \in Nat /\ C[k] \in Nat /\ v[k] \in Nat  BY <1>1 DEF Values
<1>7. ReadBound(z, T, B)
  <2> SUFFICES ASSUME NEW n \in 1..Len(z), z[n].key \in Live
               PROVE  map[z[n].key] + B[z[n].key] <= z[n].bytes + T[z[n].key]
    BY DEF ReadBound
  <2>1. CASE n \in 1..Len(raw) /\ z[n] = raw[n]  BY <2>1 DEF ReadBound
  <2>2. CASE z[n] = x
    <3>1. map[k] + B[k] <= map[k] + T[k]  BY <1>1, <1>6
    <3> QED  BY <1>2, <2>2, <3>1
  <2> QED  BY <1>5, <2>1, <2>2
<1>8. ASSUME Whole PROVE SampleBound(z, T, C, v)
  <2> SUFFICES ASSUME NEW n \in 1..Len(z)
               PROVE  z[n].bytes + C[z[n].key] <= v[z[n].key] + T[z[n].key]
    BY DEF SampleBound
  <2>1. CASE n \in 1..Len(raw) /\ z[n] = raw[n]  BY <1>8, <2>1 DEF SampleBound
  <2>2. CASE z[n] = x
    <3>1. map[k] + C[k] <= v[k] + T[k]  BY <1>4, <1>8 DEF EntryBound
    <3> QED  BY <1>2, <2>2, <3>1
  <2> QED  BY <1>5, <2>1, <2>2
<1> QED  BY <1>7, <1>8

\* A commit makes the read in progress the last one.
LEMMA CommitExplained ==
  ASSUME TypeInv, step # "idle", NEW s \in Seq(Samples), Len(s) <= RawMax, Commit(s),
         UNCHANGED <<map, sent, steady>>,
         NEW T \in Values, NEW B \in Values, NEW C \in Values, NEW v \in Values,
         Explained(T, B, C, v), ReadBound(s, T, B), Whole => SampleBound(s, T, C, v),
         Len(s) < RawMax => \A k \in steady : \E n \in 1..Len(s) : s[n].key = k,
         ~repeated => Distinct(s)
  PROVE  Ordered' /\ Grown' /\ \E w \in Values : Explained(T, B, B, w)'
<1> DEFINE fold == Folded(s, NoClients)
           w == Value(s, Len(s))
<1>1. /\ previous' = current /\ valid' = taken /\ current' = fold.clients /\ taken' = TRUE
      /\ step' = "idle"
  BY DEF Commit
<1>2. /\ span'.previous = span.current /\ span'.reading = span.reading
      /\ span'.current.begin = span.reading /\ span'.current.end = sent
      /\ span'.current.repeated = repeated
      /\ span'.current.cut = (fold.cut \/ Len(s) = RawMax)
  BY DEF Commit, TypeInv
<1>3. Len(s) \in Nat /\ w \in Values /\ \A n \in 1..Len(s) : s[n].key \in Keys /\ s[n].bytes \in Nat
  BY ValueIs
<1>4. \A k \in Keys : \/ w[k] = 0 /\ \A n \in 1..Len(s) : s[n].key # k
                      \/ \E n \in 1..Len(s) : s[n].key = k /\ w[k] = s[n].bytes
  BY ValueIs
<1>5. \A c \in Clients, d \in Dirs :
        /\ Total(fold.clients, c, d) \in Nat /\ Sum(w, c, d) \in Nat
        /\ Distinct(s) => Total(fold.clients, c, d) <= Sum(w, c, d)
        /\ ~fold.cut => Sum(w, c, d) <= Total(fold.clients, c, d)
  BY FoldTotal
<1> HIDE DEF fold, w
<1>6. \A k \in Keys : /\ T[k] \in Nat /\ B[k] \in Nat /\ C[k] \in Nat /\ v[k] \in Nat /\ w[k] \in Nat
                      /\ B[k] <= T[k] /\ C[k] <= T[k]
  BY <1>3 DEF Explained, Values
<1>7. Adds(T, sent) /\ Adds(B, span.reading) /\ Adds(C, span.current.begin)  BY DEF Explained
<1>8. Ordered'
  <2> SUFFICES ASSUME NEW c \in Clients, NEW d \in Dirs
               PROVE  span'.previous.begin[c][d] <= span'.current.end[c][d]
    BY DEF Ordered
  <2>1. Sum(C, c, d) <= Sum(T, c, d)  BY <1>6, AddsBelow
  <2> QED  BY <1>2, <1>7, <2>1 DEF Adds
<1>9. Live \subseteq Keys /\ DOMAIN current \subseteq Clients
  BY PartialType DEF TypeInv, IsMap, IsSnapshot
<1>10. ASSUME Whole' PROVE EntryBound(T, B, w)' /\ Holds(w)'
  <2>1. ~fold.cut /\ Len(s) < RawMax
    <3>1. ~(fold.cut \/ Len(s) = RawMax)  BY <1>2, <1>10 DEF Whole
    <3> QED  BY <1>3, <3>1, SizeAssumption
  <2>2. ASSUME NEW k \in Live PROVE map[k] + B[k] <= w[k] + T[k]
    <3>0. k \in Keys  BY <1>9
    <3>1. CASE \E n \in 1..Len(s) : s[n].key = k /\ w[k] = s[n].bytes
      BY <3>1 DEF ReadBound
    <3>2. CASE w[k] = 0 /\ \A n \in 1..Len(s) : s[n].key # k
      <4>1. k \notin steady  BY <2>1, <3>2
      <4>2. map[k] + B[k] <= T[k]  BY <4>1 DEF Explained, NewBound
      <4> QED  BY <1>6, <3>0, <3>2, <4>2
    <3> QED  BY <1>4, <3>0, <3>1, <3>2
  <2>3. EntryBound(T, B, w)'  BY <2>2 DEF EntryBound
  <2>4. Holds(w)'
    <3>1. IsSnapshot(current')  BY CommitType
    <3>2. DOMAIN current' \subseteq Clients  BY <3>1, PartialType DEF IsSnapshot
    <3>3. \A c \in DOMAIN current', d \in Dirs : Sum(w, c, d) <= current'[c][d]
      BY <1>1, <1>5, <2>1, <3>2 DEF Total
    <3> QED  BY <3>3 DEF Holds
  <2> QED  BY <2>3, <2>4
<1>11. Explained(T, B, B, w)'
  <2>1. Adds(T, sent)' /\ Adds(B, span.reading)' /\ Adds(B, span.current.begin)'
    BY <1>2, <1>7 DEF Adds
  <2> QED  BY <1>1, <1>6, <1>10, <2>1 DEF Explained
<1>12. Grown'
  <2> SUFFICES ASSUME taken, ~repeated, ~span.current.cut,
                      NEW c \in DOMAIN current' \intersect DOMAIN current, NEW d \in Dirs
               PROVE  current'[c][d] + span.current.begin[c][d] <= current[c][d] + sent[c][d]
    BY <1>1, <1>2 DEF Grown
  <2>1. SampleBound(s, T, C, v) /\ Holds(v)  BY DEF Whole, Explained
  <2>2. c \in Clients  BY <1>9
  <2>3. \A k \in Keys : w[k] + C[k] <= v[k] + T[k]
    <3> SUFFICES ASSUME NEW k \in Keys PROVE w[k] + C[k] <= v[k] + T[k]
      OBVIOUS
    <3>1. CASE \E n \in 1..Len(s) : s[n].key = k /\ w[k] = s[n].bytes
      BY <2>1, <3>1 DEF SampleBound
    <3>2. CASE w[k] = 0  BY <1>6, <3>2
    <3> QED  BY <1>4, <3>1, <3>2
  <2>4. Sum(w, c, d) + Sum(C, c, d) <= Sum(v, c, d) + Sum(T, c, d)
    <3> DEFINE S == Of(c, d)
    <3>1. IsFiniteSet(S) /\ \A k \in S : k \in Keys
      <4>1. IsFiniteSet(S)  BY <1>3, SumIsNat
      <4> QED  BY <4>1 DEF Of
    <3> HIDE DEF S
    <3>2. \A k \in S : w[k] \in Nat /\ C[k] \in Nat /\ v[k] \in Nat /\ T[k] \in Nat  BY <1>6, <3>1
    <3>3. \A k \in S : w[k] + C[k] <= v[k] + T[k]  BY <2>3, <3>1
    <3>4. SumFunctionOnSet(w, S) + SumFunctionOnSet(C, S)
            <= SumFunctionOnSet(v, S) + SumFunctionOnSet(T, S)
      BY <3>1, <3>2, <3>3, SumPairs
    <3> QED  BY <3>4 DEF Sum, S
  <2>5. current'[c][d] \in Nat /\ current'[c][d] <= Sum(w, c, d)
    BY <1>1, <1>5, <2>2 DEF Total
  <2>6. Sum(v, c, d) <= current[c][d]  BY <2>1 DEF Holds
  <2>7. current[c][d] \in Nat
    <3>1. current[c] \in [Dirs -> Nat]  BY PartialType DEF TypeInv, IsSnapshot
    <3> QED  BY <3>1
  <2>8. Sum(C, c, d) = span.current.begin[c][d] /\ Sum(T, c, d) = sent[c][d]  BY <1>7, <2>2 DEF Adds
  <2>9. Sum(w, c, d) \in Nat /\ Sum(C, c, d) \in Nat /\ Sum(v, c, d) \in Nat /\ Sum(T, c, d) \in Nat
    BY <1>3, SumIsNat
  <2>10. current'[c][d] + Sum(C, c, d) <= current[c][d] + Sum(T, c, d)
    <3>1. PICK a, b, e, f, g, h : /\ a = current'[c][d] /\ b = current[c][d] /\ e = Sum(w, c, d)
                                  /\ f = Sum(C, c, d) /\ g = Sum(v, c, d) /\ h = Sum(T, c, d)
      OBVIOUS
    <3>2. /\ a \in Nat /\ b \in Nat /\ e \in Nat /\ f \in Nat /\ g \in Nat /\ h \in Nat
          /\ a <= e /\ e + f <= g + h /\ g <= b
      BY <2>4, <2>5, <2>6, <2>7, <2>9, <3>1
    <3>3. a + f <= b + h  BY <3>2
    <3> QED  BY <3>1, <3>3
  <2> QED  BY <2>8, <2>10
<1> QED  BY <1>3, <1>8, <1>11, <1>12

\* Each action keeps the rate's invariant.
LEMMA RateNext == TypeInv /\ WalkInv /\ RateInv /\ [Next]_vars => RateInv'
<1> SUFFICES ASSUME TypeInv, WalkInv, RateInv, [Next]_vars PROVE RateInv'
  OBVIOUS
<1>1. PICK T, B, C, v \in Values : Explained(T, B, C, v)  BY DEF RateInv
<1>2. Ordered /\ Grown  BY DEF RateInv
<1>3. ASSUME UNCHANGED <<current, previous, valid, span>> 
      PROVE  Ordered' /\ Grown'
  BY <1>2, <1>3 DEF Ordered, Grown
<1>4. ASSUME NEW k \in Keys, Frame(k) PROVE RateInv'
  <2>1. \E U \in Values : Explained(U, B, C, v)'  BY <1>1, <1>4, FrameExplained
  <2>2. UNCHANGED <<current, previous, valid, span>>  BY <1>4 DEF Frame, snapshots
  <2> QED  BY <1>3, <2>1, <2>2 DEF RateInv
<1>5. CASE StartRead
  <2>1. /\ UNCHANGED <<map, current, previous, taken, valid, sent>> /\ steady' = Live /\ Len(raw') = 0
        /\ span' = [span EXCEPT !.reading = sent] /\ step' # "idle"
    BY <1>5 DEF StartRead, snapshots
  <2>2. span'.reading = sent /\ span'.current = span.current /\ span'.previous = span.previous
    BY <2>1 DEF TypeInv
  <2>3. Adds(T, sent)' /\ Adds(T, span.reading)' /\ Adds(C, span.current.begin)'
    BY <1>1, <2>1, <2>2 DEF Explained, Adds
  <2>4. ReadBound(raw, T, T)' /\ NewBound(T, T)' /\ SampleBound(raw, T, C, v)'
    BY <2>1 DEF ReadBound, NewBound, SampleBound
  <2>5. (Whole' <=> Whole) /\ (EntryBound(T, C, v)' <=> EntryBound(T, C, v)) /\ (Holds(v)' <=> Holds(v))
    BY <2>1, <2>2 DEF Whole, EntryBound, Holds
  <2>6. \A k \in Keys : T[k] <= T[k] /\ C[k] <= T[k]  BY <1>1 DEF Explained, Values
  <2>7. Explained(T, T, C, v)'  BY <1>1, <2>3, <2>4, <2>5, <2>6 DEF Explained
  <2>8. Ordered' /\ Grown'  BY <1>2, <2>1, <2>2 DEF Ordered, Grown
  <2> QED  BY <2>7, <2>8 DEF RateInv
<1>6. ASSUME UNCHANGED <<map, raw, snapshots, sent, steady, span>>, step' # "idle" => step # "idle"
      PROVE  RateInv'
  <2>1. Explained(T, B, C, v)'
    BY <1>1, <1>6 DEF Explained, Adds, ReadBound, NewBound, SampleBound, EntryBound, Holds, Whole, snapshots
  <2>2. UNCHANGED <<current, previous, valid, span>>  BY <1>6 DEF snapshots
  <2> QED  BY <1>3, <2>1, <2>2 DEF RateInv
<1>7. CASE NextKey
  BY <1>6, <1>7 DEF NextKey
<1>8. CASE WalkEnds
  <2>1. PICK s \in Seq(Samples) : s = raw  BY DEF TypeInv
  <2>2. Commit(s) /\ step # "idle" /\ UNCHANGED <<map, sent, steady>>  BY <1>8, <2>1 DEF WalkEnds
  <2>3. ReadBound(s, T, B) /\ (Whole => SampleBound(s, T, C, v))  BY <1>1, <2>1, <2>2 DEF Explained
  <2>4. \A k \in steady : \E n \in 1..Len(s) : s[n].key = k
    BY <1>8, <2>1, WalkReads DEF HasRead
  <2>5. ~repeated => Distinct(s)  BY <2>1, <2>2 DEF WalkInv, Once, Distinct
  <2>6. Len(s) <= RawMax  BY <2>1 DEF TypeInv
  <2>7. Ordered' /\ Grown' /\ \E w \in Values : Explained(T, B, B, w)'
    BY <1>1, <2>2, <2>3, <2>4, <2>5, <2>6, CommitExplained
  <2> QED  BY <2>7 DEF RateInv
<1>9. CASE Lookup
  <2>1. raw' \in Seq(Samples) /\ Len(raw') <= RawMax  BY <1>9, LookupRaw
  <2>2. step # "idle" /\ UNCHANGED <<map, sent, steady>> /\ raw \in Seq(Samples)
    BY <1>9 DEF Lookup, TypeInv
  <2>3. ReadBound(raw, T, B) /\ NewBound(T, B) /\ (Whole => SampleBound(raw, T, C, v) /\ EntryBound(T, C, v))
    BY <1>1, <2>2 DEF Explained
  <2>4. PICK s \in Seq(Samples) : s = raw'  BY <2>1
  <2>5. ReadBound(s, T, B) /\ (Whole => SampleBound(s, T, C, v))
    <3>1. \A k \in Keys : B[k] <= T[k]  BY <1>1 DEF Explained
    <3> QED  BY <1>1, <1>9, <2>3, <2>4, <3>1, LookupBounds
  <2>6. CASE Len(raw') >= RawMax
    <3>1. Commit(s) /\ ~(Len(s) < RawMax) /\ Len(s) <= RawMax
      <4>1. Commit(s)  BY <1>9, <2>4, <2>6 DEF Lookup
      <4>2. Len(s) \in Nat /\ RawMax \in Nat  BY SizeAssumption
      <4> QED  BY <2>1, <2>4, <2>6, <4>1, <4>2
    <3>2. ASSUME ~repeated PROVE Distinct(s)
      <4>1. Once  BY <2>2, <3>2 DEF WalkInv
      <4> QED  BY <1>9, <2>4, <4>1, LookupDistinct DEF Distinct
    <3>3. Ordered' /\ Grown' /\ \E w \in Values : Explained(T, B, B, w)'
      BY <1>1, <2>2, <2>5, <3>1, <3>2, CommitExplained
    <3> QED  BY <3>3 DEF RateInv
  <2>7. CASE ~(Len(raw') >= RawMax)
    <3>1. UNCHANGED <<current, previous, taken, valid, span>>  BY <1>9, <2>7 DEF Lookup, snapshots
    <3>2. ReadBound(raw, T, B)' /\ (Whole => SampleBound(raw, T, C, v)')
      BY <2>2, <2>4, <2>5 DEF ReadBound, SampleBound
    <3>3. Explained(T, B, C, v)'
      BY <1>1, <2>2, <2>3, <3>1, <3>2 DEF Explained, Adds, NewBound, EntryBound, Holds, Whole
    <3> QED  BY <1>3, <3>1, <3>3 DEF RateInv
  <2> QED  BY <2>6, <2>7
<1>10. CASE ReadFails
  BY <1>6, <1>10 DEF ReadFails
<1>11. CASE ResetRates
  <2>1. UNCHANGED <<map, step, raw, sent, steady, span>> /\ ~taken' /\ ~valid'
    BY <1>11 DEF ResetRates, walk
  <2>2. Explained(T, B, C, v)'
    BY <1>1, <2>1 DEF Explained, Adds, ReadBound, NewBound, Whole
  <2> QED  BY <1>2, <2>1, <2>2 DEF RateInv, Ordered, Grown
<1>12. CASE UNCHANGED vars
  BY <1>6, <1>12 DEF vars, snapshots
<1> QED  BY <1>4, <1>5, <1>7, <1>8, <1>9, <1>10, <1>11, <1>12 DEF Next

----------------------------------------------------------------------------
(* The theorems *)

IInv == TypeInv /\ WalkInv /\ RateInv

LEMMA IInvHolds == Spec => []IInv
<1>1. Init => IInv  BY TypeInit, WalkInit, RateInit DEF IInv
<1>2. IInv /\ [Next]_vars => IInv'  BY TypeNext, WalkNext, RateNext DEF IInv
<1> QED  BY <1>1, <1>2, PTL DEF Spec

\* The snapshots hold totals of known clients and not more of them than there
\* is room for, the map is never over its capacity, and the buffer of a read
\* never overflows (bpf_collect_samples, lanspeed_bpf_read_samples).
THEOREM TypesHold == Spec => []TypeOK
<1>1. IInv => TypeOK  BY TypeHolds DEF IInv
<1> QED  BY <1>1, IInvHolds, PTL

\* lanspeed_bpf_read_samples misses no key that was in the map from the start
\* of the read to its end, whatever was evicted meanwhile, unless its buffer
\* was full.
THEOREM ReadsAreComplete == Spec => ReadComplete
<1>1. IInv /\ [Next]_vars =>
        [step # "idle" /\ step' = "idle" /\ <<snapshots, span>>' # <<snapshots, span>> /\ Len(raw') < RawMax =>
           \A k \in steady : \E n \in 1..Len(raw') : raw'[n].key = k]_vars
  BY ReadCompleteNext DEF IInv
<1> QED  BY <1>1, IInvHolds, PTL DEF Spec, ReadComplete

\* What collect_bpf_clients takes for a client's traffic between two reads was
\* sent between the start of the older and the end of the newer, unless the
\* newer walk started over or the older read left keys out.
THEOREM RatesAreNotInflated == Spec => []NoInflatedRate
<1>1. IInv => NoInflatedRate  BY RateHolds DEF IInv, RateInv
<1> QED  BY <1>1, IInvHolds, PTL
=============================================================================
