----------------------------- MODULE DataLemmas -----------------------------
(***************************************************************************)
(* Lemmas about the data the components' models are built from, cited by   *)
(* the proofs of those components.                                         *)
(*   Rings: what Push does to the samples a ring holds, for a ring of any  *)
(*     size: the new sample is the newest, every sample that stays is one  *)
(*     place older, and none is overwritten but the oldest of a full ring. *)
(*   Folds and sums over a finite set. They are by induction on the set,   *)
(*     in the form "take a minimal subset for which it fails".             *)
(*   The least and the greatest natural number of a set, and chains of     *)
(*     values, in the form "take the first link that fails".               *)
(*   Sequences, and functions on some of the elements of a set.            *)
(***************************************************************************)
EXTENDS Ring, Functions, FiniteSetsExt, FiniteSetTheorems, TLAPS

----------------------------------------------------------------------------
(* Rings *)

\* The two cases of the index arithmetic, which Z3 decides without the rest.
LEMMA ModSmall ==
  ASSUME NEW n \in Nat \ {0}, NEW x \in 0..n-1
  PROVE  x % n = x
BY SMT

LEMMA ModWrap ==
  ASSUME NEW n \in Nat \ {0}, NEW x \in n..2*n-1
  PROVE  x % n = x - n
BY SMT

\* Where coverage_sample_at looks, without the modulus.
LEMMA Position ==
  ASSUME NEW n \in Nat \ {0}, NEW head \in 0..n-1, NEW back \in 0..n-1
  PROVE  (head + n - 1 - back) % n = IF back < head THEN head - 1 - back ELSE head + n - 1 - back
<1>1. CASE back < head
  <2>1. head + n - 1 - back \in n..2*n-1  BY <1>1
  <2> QED  BY <1>1, <2>1, ModWrap
<1>2. CASE ~(back < head)
  <2>1. head + n - 1 - back \in 0..n-1  BY <1>2
  <2> QED  BY <1>2, <2>1, ModSmall
<1> QED  BY <1>1, <1>2

\* Where coverage_push_sample writes next.
LEMMA NextHead ==
  ASSUME NEW n \in Nat \ {0}, NEW head \in 0..n-1
  PROVE  (head + 1) % n = IF head + 1 = n THEN 0 ELSE head + 1
<1>1. CASE head + 1 = n
  <2>1. head + 1 \in n..2*n-1  BY <1>1
  <2> QED  BY <1>1, <2>1, ModWrap
<1>2. CASE head + 1 # n
  <2>1. head + 1 \in 0..n-1  BY <1>2
  <2> QED  BY <1>2, <2>1, ModSmall
<1> QED  BY <1>1, <1>2

LEMMA EmptyIsRing ==
  ASSUME NEW n \in Nat \ {0}, NEW S, NEW s \in S
  PROVE  EmptyRing(n, s) \in Rings(n, S)
BY DEF EmptyRing, Rings

LEMMA ClearIsRing ==
  ASSUME NEW n \in Nat \ {0}, NEW S, NEW r \in Rings(n, S)
  PROVE  Clear(r) \in Rings(n, S) /\ Clear(r).count = 0
BY DEF Clear, Rings

LEMMA SampleType ==
  ASSUME NEW n \in Nat \ {0}, NEW S, NEW r \in Rings(n, S), NEW back \in 0..n-1
  PROVE  SampleAt(r, n, back) \in S
<1>1. (r.head + n - 1 - back) % n \in 0..n-1  BY Position DEF Rings
<1> QED  BY <1>1 DEF Rings, SampleAt

LEMMA PushIsRing ==
  ASSUME NEW n \in Nat \ {0}, NEW S, NEW r \in Rings(n, S), NEW s \in S
  PROVE  /\ Push(r, n, s) \in Rings(n, S)
         /\ Push(r, n, s).count = IF r.count < n THEN r.count + 1 ELSE r.count
<1>1. (r.head + 1) % n \in 0..n-1  BY NextHead DEF Rings
<1> QED  BY <1>1 DEF Rings, Push

\* The sample pushed is the newest.
LEMMA PushNewest ==
  ASSUME NEW n \in Nat \ {0}, NEW S, NEW r \in Rings(n, S), NEW s \in S
  PROVE  SampleAt(Push(r, n, s), n, 0) = s
<1> DEFINE p == Push(r, n, s)
<1>1. p.head = (IF r.head + 1 = n THEN 0 ELSE r.head + 1) /\ p.head \in 0..n-1
  BY NextHead DEF Rings, Push
<1>2. (p.head + n - 1 - 0) % n = r.head
  <2>1. (p.head + n - 1 - 0) % n = IF 0 < p.head THEN p.head - 1 - 0 ELSE p.head + n - 1 - 0
    BY <1>1, Position
  <2> QED  BY <1>1, <2>1 DEF Rings
<1>3. p.slot[r.head] = s  BY DEF Rings, Push
<1> QED  BY <1>2, <1>3 DEF SampleAt

\* Seen from the next head, a slot is one place farther back; it is not the
\* slot just written.
LEMMA Shift ==
  ASSUME NEW n \in Nat \ {0}, NEW head \in 0..n-1, NEW back \in 0..n-2
  PROVE  LET was == (head + n - 1 - back) % n
         IN /\ (((head + 1) % n) + n - 1 - (back + 1)) % n = was
            /\ was \in 0..n-1 /\ was # head
<1> DEFINE was == (head + n - 1 - back) % n
           next == (head + 1) % n
<1>1. was = IF back < head THEN head - 1 - back ELSE head + n - 1 - back
  BY Position
<1>2. next = (IF head + 1 = n THEN 0 ELSE head + 1) /\ next \in 0..n-1
  BY NextHead
<1>3. (next + n - 1 - (back + 1)) % n
        = IF back + 1 < next THEN next - 1 - (back + 1) ELSE next + n - 1 - (back + 1)
  BY <1>2, Position
<1>4. was \in 0..n-1 /\ was # head
  <2> HIDE DEF was
  <2> QED  BY <1>1
<1>5. (next + n - 1 - (back + 1)) % n = was
  <2> HIDE DEF was, next
  <2>1. CASE back + 1 < next  BY <2>1, <1>1, <1>2, <1>3
  <2>2. CASE ~(back + 1 < next)  BY <2>2, <1>1, <1>2, <1>3
  <2> QED  BY <2>1, <2>2
<1> QED  BY <1>4, <1>5

\* Every other sample within reach was there before, one place nearer.
LEMMA PushOlder ==
  ASSUME NEW n \in Nat \ {0}, NEW S, NEW r \in Rings(n, S), NEW s \in S,
         NEW back \in 0..n-2
  PROVE  SampleAt(Push(r, n, s), n, back + 1) = SampleAt(r, n, back)
<1> DEFINE p == Push(r, n, s)
           was == (r.head + n - 1 - back) % n
<1>1. r.head \in 0..n-1  BY DEF Rings
<1>2. (p.head + n - 1 - (back + 1)) % n = was /\ was \in 0..n-1 /\ was # r.head
  BY <1>1, Shift DEF Push
<1>3. p.slot[was] = r.slot[was]
  <2> HIDE DEF was
  <2> QED  BY <1>2 DEF Rings, Push
<1> QED  BY <1>2, <1>3 DEF SampleAt

----------------------------------------------------------------------------
(* Folds *)

\* Among some subsets of a finite set one is minimal.
LEMMA MinimalSubset ==
  ASSUME NEW S, IsFiniteSet(S), NEW F \in SUBSET SUBSET S, F # {}
  PROVE  \E m \in F : \A s \in F : s \subseteq m => s = m
<1>1. IsWellFoundedOn(StrictSubsetOrdering(S), FiniteSubsetsOf(S))
  BY FS_StrictSubsetOrderingWellFounded
<1>2. F \subseteq FiniteSubsetsOf(S)  BY FS_Subset DEF FiniteSubsetsOf
<1>3. \E m \in F : \A s \in F : ~(<<s, m>> \in StrictSubsetOrdering(S))
  BY <1>1, <1>2, WFMin
<1> QED  BY <1>3 DEF StrictSubsetOrdering

\* `it` is the recursive function of a fold over the subsets of S, which takes
\* the element `pick` gives and combines it with the rest by `op`.
IsFold(it, S, pick, op, base) ==
  it = [s \in SUBSET S |-> IF s = {} THEN base ELSE op[<<pick[s], it[s \ {pick[s]}]>>]]

Picks(pick, S) == \A s \in SUBSET S : s # {} => pick[s] \in s

\* `op` leads from V of the rest to V of the whole.
Stays(V, S, pick, op) ==
  \A s \in SUBSET S : s # {} =>
    \A v \in V[s \ {pick[s]}] : op[<<pick[s], v>>] \in V[s]

\* It is unique, also where another set is folded.
LEMMA FoldUnique ==
  ASSUME NEW S, NEW T, IsFiniteSet(S), NEW pick, NEW op, NEW base,
         Picks(pick, S),
         NEW g, NEW h, IsFold(g, S, pick, op, base), IsFold(h, T, pick, op, base),
         NEW u \in SUBSET (S \intersect T)
  PROVE  g[u] = h[u]
<1> SUFFICES ASSUME g[u] # h[u] PROVE FALSE
  OBVIOUS
<1> DEFINE F == {s \in SUBSET (S \intersect T) : g[s] # h[s]}
<1>1. F \in SUBSET SUBSET S /\ F # {}  OBVIOUS
<1>2. PICK m \in F : \A s \in F : s \subseteq m => s = m
  <2> HIDE DEF F
  <2> QED  BY <1>1, MinimalSubset
<1>3. m \in SUBSET S /\ m \in SUBSET T /\ g[m] # h[m]  BY <1>2
<1>4. m # {}  BY <1>3 DEF IsFold
<1>5. pick[m] \in m  BY <1>3, <1>4 DEF Picks
<1> DEFINE n == m \ {pick[m]}
<1>6. n \in SUBSET (S \intersect T) /\ n \subseteq m /\ n # m  BY <1>3, <1>5
<1>7. g[n] = h[n]  BY <1>2, <1>6
<1>8. g[m] = op[<<pick[m], g[n]>>]  BY <1>3, <1>4 DEF IsFold
<1>9. h[m] = op[<<pick[m], h[n]>>]  BY <1>3, <1>4 DEF IsFold
<1> QED  BY <1>3, <1>7, <1>8, <1>9

\* It exists, and its values are where `op` keeps them.
LEMMA FoldExists ==
  ASSUME NEW S, IsFiniteSet(S), NEW pick, NEW op, NEW base,
         Picks(pick, S)
  PROVE  \E it : IsFold(it, S, pick, op, base)
<1> DEFINE Fold(it, T) == IsFold(it, T, pick, op, base)
<1> SUFFICES ASSUME ~\E it : Fold(it, S) PROVE FALSE
  OBVIOUS
<1> DEFINE F == {T \in SUBSET S : ~\E it : Fold(it, T)}
<1>1. F \in SUBSET SUBSET S /\ F # {}  OBVIOUS
<1>2. PICK m \in F : \A T \in F : T \subseteq m => T = m
  <2> HIDE DEF F
  <2> QED  BY <1>1, MinimalSubset
<1>3. m \in SUBSET S /\ ~\E it : Fold(it, m)  BY <1>2
<1>4. \A T \in SUBSET m : T # m => \E it : Fold(it, T)  BY <1>2, <1>3
<1> DEFINE g == [T \in SUBSET m |-> CHOOSE it : Fold(it, T)]
           v(s) == IF s = {} THEN base ELSE op[<<pick[s], g[s \ {pick[s]}][s \ {pick[s]}]>>]
           it == [s \in SUBSET m |-> v(s)]
<1>5. ASSUME NEW T \in SUBSET m, T # m PROVE Fold(g[T], T)
  <2>1. \E f : Fold(f, T)  BY <1>4, <1>5
  <2>2. g[T] = CHOOSE f : Fold(f, T)  OBVIOUS
  <2> HIDE DEF g, Fold
  <2> QED  BY <2>1, <2>2
<1> HIDE DEF g
<1>6. ASSUME NEW s \in SUBSET m, s # {}
      PROVE  it[s] = op[<<pick[s], it[s \ {pick[s]}]>>]
  <2> DEFINE n == s \ {pick[s]}
  <2>1. pick[s] \in s  BY <1>3, <1>6 DEF Picks
  <2>2. n \in SUBSET m /\ n # m  BY <2>1
  <2>3. Fold(g[n], n)  BY <1>5, <2>2
  <2>4. g[n][n] = it[n]
    <3>1. CASE n = {}
      <4>1. g[n][n] = base  BY <2>3, <3>1 DEF IsFold
      <4> QED  BY <2>2, <3>1, <4>1
    <3>2. CASE n # {}
      <4> DEFINE o == n \ {pick[n]}
      <4>1. pick[n] \in n  BY <1>3, <2>2, <3>2 DEF Picks
      <4>2. g[n][n] = op[<<pick[n], g[n][o]>>]  BY <2>3, <3>2 DEF IsFold
      <4>3. o \in SUBSET m /\ o # m /\ o \in SUBSET (n \intersect o)  BY <2>2, <4>1
      <4>4. Fold(g[o], o)  BY <1>5, <4>3
      <4>5. IsFiniteSet(n) /\ Picks(pick, n)
        <5>1. n \in SUBSET S  BY <1>3, <2>2
        <5> QED  BY <5>1, FS_Subset DEF Picks
      <4>6. g[n][o] = g[o][o]
        <5> DEFINE a == g[n]
                   b == g[o]
        <5>1. IsFold(a, n, pick, op, base) /\ IsFold(b, o, pick, op, base)
          BY <2>3, <4>4
        <5> HIDE DEF n, o, a, b
        <5>2. a[o] = b[o]  BY <4>3, <4>5, <5>1, FoldUnique
        <5> QED  BY <5>2 DEF a, b
      <4>7. it[n] = op[<<pick[n], g[o][o]>>]  BY <2>2, <3>2
      <4> QED  BY <4>2, <4>6, <4>7
    <3> QED  BY <3>1, <3>2
  <2>5. it[s] = op[<<pick[s], g[n][n]>>]  BY <1>6
  <2> QED  BY <2>4, <2>5
<1>7. Fold(it, m)
  <2>1. ASSUME NEW s \in SUBSET m
        PROVE  it[s] = IF s = {} THEN base ELSE op[<<pick[s], it[s \ {pick[s]}]>>]
    <3>1. CASE s = {}  BY <3>1
    <3>2. CASE s # {}  BY <1>6, <3>2
    <3> QED  BY <3>1, <3>2
  <2>2. it = [s \in SUBSET m |-> it[s]]  OBVIOUS
  <2> HIDE DEF it
  <2> QED  BY <2>1, <2>2 DEF IsFold
<1> HIDE DEF it, Fold
<1> QED  BY <1>3, <1>7

\* Its values stay where the base is and `op` leads to, subset by subset.
LEMMA FoldStays ==
  ASSUME NEW S, IsFiniteSet(S), NEW pick, NEW op, NEW base,
         Picks(pick, S), NEW it, IsFold(it, S, pick, op, base),
         NEW V, base \in V[{}], Stays(V, S, pick, op)
  PROVE  \A s \in SUBSET S : it[s] \in V[s]
<1> DEFINE F == {s \in SUBSET S : it[s] \notin V[s]}
<1> SUFFICES ASSUME F # {} PROVE FALSE
  OBVIOUS
<1>1. PICK m \in F : \A s \in F : s \subseteq m => s = m
  <2>1. F \in SUBSET SUBSET S /\ F # {}  OBVIOUS
  <2> HIDE DEF F
  <2> QED  BY <2>1, MinimalSubset
<1>2. m \in SUBSET S /\ it[m] \notin V[m]  BY <1>1
<1>3. m # {}  BY <1>2 DEF IsFold
<1> DEFINE n == m \ {pick[m]}
<1>4. pick[m] \in m /\ n \in SUBSET S /\ n \subseteq m /\ n # m  BY <1>2, <1>3 DEF Picks
<1>5. it[n] \in V[n]  BY <1>1, <1>4
<1>6. it[m] = op[<<pick[m], it[n]>>]  BY <1>2, <1>3 DEF IsFold
<1> QED  BY <1>2, <1>3, <1>5, <1>6 DEF Stays

----------------------------------------------------------------------------
(* Naturals *)

LEMMA LeastNatural ==
  ASSUME NEW S \in SUBSET Nat, S # {}
  PROVE  \E m \in S : \A k \in S : m <= k
<1>1. PICK b \in S : TRUE  OBVIOUS
<1> DEFINE B == 0..b
           F == {0..k : k \in {x \in S : x <= b}}
<1>2. F \in SUBSET SUBSET B /\ F # {}  BY <1>1
<1>3. IsFiniteSet(B)  BY FS_Interval
<1>4. PICK s \in F : \A t \in F : t \subseteq s => t = s
  <2> HIDE DEF F, B
  <2> QED  BY <1>2, <1>3, MinimalSubset
<1>5. PICK m \in S : m <= b /\ s = 0..m  BY <1>4
<1>6. ASSUME NEW k \in S, k < m PROVE FALSE
  <2>1. 0..k \in F /\ 0..k \subseteq 0..m  BY <1>5, <1>6
  <2>2. 0..k = 0..m  BY <1>4, <1>5, <2>1
  <2>3. m \in 0..m /\ m \notin 0..k  BY <1>6
  <2> QED  BY <2>2, <2>3
<1> QED  BY <1>6

\* The least and the greatest of a set.
LEMMA MinIs ==
  ASSUME NEW S \in SUBSET Nat, NEW n \in S, \A m \in S : n <= m
  PROVE  Min(S) = n
<1>1. Min(S) \in S /\ \A m \in S : Min(S) <= m  BY DEF Min
<1>2. Min(S) \in Nat /\ n \in Nat  BY <1>1
<1>3. Min(S) <= n /\ n <= Min(S)  BY <1>1
<1> QED  BY <1>2, <1>3

LEMMA MaxIs ==
  ASSUME NEW S \in SUBSET Nat, NEW n \in S, \A m \in S : n >= m
  PROVE  Max(S) = n
<1>1. Max(S) \in S /\ \A m \in S : Max(S) >= m  BY DEF Max
<1>2. Max(S) \in Nat /\ n \in Nat  BY <1>1
<1>3. Max(S) <= n /\ n <= Max(S)  BY <1>1
<1> QED  BY <1>2, <1>3

LEMMA MinIsElement ==
  ASSUME NEW S \in SUBSET Nat, S # {}
  PROVE  Min(S) \in S
<1>1. PICK n \in S : \A m \in S : n <= m  BY LeastNatural
<1> QED  BY <1>1, MinIs

LEMMA GreatestNatural ==
  ASSUME NEW b \in Nat, NEW S \in SUBSET (0..b), S # {}
  PROVE  \E n \in S : \A m \in S : n >= m
<1> DEFINE T == {b - x : x \in S}
<1>1. T \in SUBSET Nat /\ T # {}
  <2>1. \A x \in S : x \in 0..b /\ b - x \in Nat  OBVIOUS
  <2>2. PICK x \in S : TRUE  OBVIOUS
  <2> QED  BY <2>1, <2>2
<1>2. PICK t \in T : \A u \in T : t <= u
  <2> HIDE DEF T
  <2> QED  BY <1>1, LeastNatural
<1>3. PICK n \in S : t = b - n  BY <1>2
<1>4. ASSUME NEW m \in S PROVE n >= m
  <2>1. m \in 0..b /\ n \in 0..b  BY <1>3
  <2>2. b - n <= b - m  BY <1>2, <1>3
  <2> QED  BY <2>1, <2>2
<1> QED  BY <1>4

LEMMA MaxIsElement ==
  ASSUME NEW b \in Nat, NEW S \in SUBSET (0..b), S # {}
  PROVE  Max(S) \in S
<1>1. PICK n \in S : \A m \in S : n >= m  BY GreatestNatural
<1> QED  BY <1>1, MaxIs

\* A chain of values that no link leads out of the sets given for it.
LEMMA ChainStays ==
  ASSUME NEW n \in Nat, NEW c, NEW V, c[0] \in V[0],
         \A k \in 1..n : c[k-1] \in V[k-1] => c[k] \in V[k]
  PROVE  \A k \in 0..n : c[k] \in V[k]
<1> DEFINE S == {k \in 0..n : c[k] \notin V[k]}
<1> SUFFICES ASSUME S # {} PROVE FALSE
  OBVIOUS
<1>1. S \in SUBSET Nat  OBVIOUS
<1>2. PICK m \in S : \A k \in S : m <= k
  <2> HIDE DEF S
  <2> QED  BY <1>1, LeastNatural
<1>3. m \in 1..n  BY <1>2
<1>4. m - 1 \in 0..n /\ m - 1 \notin S  BY <1>2, <1>3
<1> QED  BY <1>2, <1>3, <1>4

----------------------------------------------------------------------------
(* Sums *)

LEMMA TimesMonotone ==
  ASSUME NEW n \in Nat, NEW a \in Nat, NEW b \in Nat, a <= b
  PROVE  n * a <= n * b
<1>1. b - a \in Nat /\ n * (b - a) \in Nat /\ b = a + (b - a)  BY SMT
<1>2. n * (a + (b - a)) = n * a + n * (b - a)  BY SMT
<1> QED  BY <1>1, <1>2, SMT

AnyOf(s) == CHOOSE x \in s : TRUE

\* `h` is the recursive function behind SumFunctionOnSet.
IsSum(h, f, S) ==
  h = [s \in SUBSET S |-> IF s = {} THEN 0 ELSE f[AnyOf(s)] + h[s \ {AnyOf(s)}]]

LEMMA AnyOfIsElement == \A s : s # {} => AnyOf(s) \in s
BY DEF AnyOf

LEMMA SumExists ==
  ASSUME NEW S, IsFiniteSet(S), NEW f, \A x \in S : f[x] \in Nat
  PROVE  \E h : IsSum(h, f, S)
<1> DEFINE pick == [s \in SUBSET S |-> AnyOf(s)]
           op == [p \in S \X Nat |-> f[p[1]] + p[2]]
           V == [s \in SUBSET S |-> Nat]
<1>1. Picks(pick, S)  BY AnyOfIsElement DEF Picks
<1>2. \A x \in S, v \in Nat : op[<<x, v>>] = f[x] + v /\ op[<<x, v>>] \in Nat  OBVIOUS
<1>3. 0 \in V[{}] /\ \A s \in SUBSET S : V[s] = Nat  OBVIOUS
<1>4. \A s \in SUBSET S : s # {} => pick[s] \in S /\ s \ {pick[s]} \in SUBSET S  BY <1>1 DEF Picks
<1>5. \A s \in SUBSET S : pick[s] = AnyOf(s)  OBVIOUS
<1> HIDE DEF pick, op, V
<1>6. PICK it : IsFold(it, S, pick, op, 0)  BY <1>1, FoldExists
<1>7. \A s \in SUBSET S : it[s] \in V[s]
  <2>1. Stays(V, S, pick, op)  BY <1>2, <1>3, <1>4 DEF Stays
  <2>2. 0 \in V[{}]  BY <1>3
  <2> QED  BY <1>1, <1>6, <2>1, <2>2, FoldStays
<1>8. ASSUME NEW s \in SUBSET S
      PROVE  it[s] = IF s = {} THEN 0 ELSE f[AnyOf(s)] + it[s \ {AnyOf(s)}]
  <2>1. CASE s = {}  BY <1>6, <2>1 DEF IsFold
  <2>2. CASE s # {}
    <3>1. it[s] = op[<<pick[s], it[s \ {pick[s]}]>>]  BY <1>6, <2>2 DEF IsFold
    <3>2. it[s \ {pick[s]}] \in Nat  BY <1>3, <1>4, <1>7, <2>2
    <3>3. pick[s] \in S /\ pick[s] = AnyOf(s)  BY <1>4, <1>5, <2>2
    <3>4. it[s] = f[pick[s]] + it[s \ {pick[s]}]  BY <1>2, <3>1, <3>2, <3>3
    <3>5. it[s] = f[AnyOf(s)] + it[s \ {AnyOf(s)}]  BY <3>3, <3>4
    <3> QED  BY <2>2, <3>5
  <2> QED  BY <2>1, <2>2
<1>9. it = [s \in SUBSET S |-> it[s]]  BY <1>6 DEF IsFold
<1>10. IsSum(it, f, S)  BY <1>8, <1>9 DEF IsSum
<1> QED  BY <1>10

\* SumFunctionOnSet is the value of such a function.
LEMMA SumIsRecursive ==
  ASSUME NEW S, IsFiniteSet(S), NEW f, \A x \in S : f[x] \in Nat
  PROVE  \E h : IsSum(h, f, S) /\ SumFunctionOnSet(f, S) = h[S]
<1> DEFINE h == CHOOSE g : IsSum(g, f, S)
<1>1. IsSum(h, f, S)  BY SumExists
<1>2. SumFunctionOnSet(f, S) = h[S]
  BY DEF SumFunctionOnSet, FoldFunctionOnSet, MapThenFoldSet, IsSum, AnyOf
<1> QED  BY <1>1, <1>2

LEMMA SumUnique ==
  ASSUME NEW S, IsFiniteSet(S), NEW T, NEW f, NEW g, NEW h, IsSum(g, f, S), IsSum(h, f, T),
         NEW u \in SUBSET (S \intersect T)
  PROVE  g[u] = h[u]
<1> SUFFICES ASSUME g[u] # h[u] PROVE FALSE
  OBVIOUS
<1> DEFINE F == {s \in SUBSET (S \intersect T) : g[s] # h[s]}
<1>1. PICK m \in F : \A s \in F : s \subseteq m => s = m
  <2>1. F \in SUBSET SUBSET S /\ F # {}  OBVIOUS
  <2> HIDE DEF F
  <2> QED  BY <2>1, MinimalSubset
<1>2. m \in SUBSET S /\ m \in SUBSET T /\ g[m] # h[m]  BY <1>1
<1>3. m # {}  BY <1>2 DEF IsSum
<1> DEFINE n == m \ {AnyOf(m)}
<1>4. AnyOf(m) \in m  BY <1>3, AnyOfIsElement
<1>5. n \in SUBSET (S \intersect T) /\ n \subseteq m /\ n # m  BY <1>2, <1>4
<1>6. g[n] = h[n]  BY <1>1, <1>5
<1>7. g[m] = f[AnyOf(m)] + g[n]  BY <1>2, <1>3 DEF IsSum
<1>8. h[m] = f[AnyOf(m)] + h[n]  BY <1>2, <1>3 DEF IsSum
<1> QED  BY <1>2, <1>6, <1>7, <1>8

\* A sum is taken off one element at a time.
LEMMA SumTakes ==
  ASSUME NEW S, IsFiniteSet(S), NEW f, \A x \in S : f[x] \in Nat
  PROVE  /\ S = {} => SumFunctionOnSet(f, S) = 0
         /\ S # {} => SumFunctionOnSet(f, S) = f[AnyOf(S)] + SumFunctionOnSet(f, S \ {AnyOf(S)})
<1>1. PICK g : IsSum(g, f, S) /\ SumFunctionOnSet(f, S) = g[S]  BY SumIsRecursive
<1>2. S = {} => g[S] = 0  BY <1>1 DEF IsSum
<1>3. ASSUME S # {} PROVE g[S] = f[AnyOf(S)] + SumFunctionOnSet(f, S \ {AnyOf(S)})
  <2> DEFINE n == S \ {AnyOf(S)}
  <2>1. IsFiniteSet(n) /\ \A x \in n : f[x] \in Nat  BY FS_Subset
  <2>2. PICK h : IsSum(h, f, n) /\ SumFunctionOnSet(f, n) = h[n]  BY <2>1, SumIsRecursive
  <2>3. n \in SUBSET (S \intersect n)  OBVIOUS
  <2>4. g[n] = h[n]
    <3> HIDE DEF n
    <3> QED  BY <1>1, <2>2, <2>3, SumUnique
  <2>5. g[S] = f[AnyOf(S)] + g[n]  BY <1>1, <1>3 DEF IsSum
  <2> QED  BY <2>2, <2>4, <2>5
<1> QED  BY <1>1, <1>2, <1>3

LEMMA SumType ==
  ASSUME NEW S, IsFiniteSet(S), NEW f, \A x \in S : f[x] \in Nat
  PROVE  SumFunctionOnSet(f, S) \in Nat
<1> DEFINE F == {s \in SUBSET S : SumFunctionOnSet(f, s) \notin Nat}
<1> SUFFICES ASSUME F # {} PROVE FALSE
  OBVIOUS
<1>1. PICK m \in F : \A s \in F : s \subseteq m => s = m
  <2>1. F \in SUBSET SUBSET S /\ F # {}  OBVIOUS
  <2> HIDE DEF F
  <2> QED  BY <2>1, MinimalSubset
<1>2. /\ m \in SUBSET S /\ SumFunctionOnSet(f, m) \notin Nat
      /\ \A s \in SUBSET m : s # m => SumFunctionOnSet(f, s) \in Nat
  BY <1>1
<1>3. IsFiniteSet(m) /\ \A x \in m : f[x] \in Nat  BY <1>2, FS_Subset
<1>4. m # {}
  <2> SUFFICES ASSUME m = {} PROVE FALSE  OBVIOUS
  <2>1. SumFunctionOnSet(f, m) = 0  BY <1>3, SumTakes
  <2> QED  BY <1>2, <2>1
<1>5. AnyOf(m) \in m  BY <1>4, AnyOfIsElement
<1>6. SumFunctionOnSet(f, m \ {AnyOf(m)}) \in Nat  BY <1>2, <1>5
<1>7. SumFunctionOnSet(f, m) = f[AnyOf(m)] + SumFunctionOnSet(f, m \ {AnyOf(m)})
  BY <1>3, <1>4, SumTakes
<1> QED  BY <1>2, <1>3, <1>5, <1>6, <1>7

\* Any element may be taken off.
LEMMA SumRemove ==
  ASSUME NEW S, IsFiniteSet(S), NEW f, \A x \in S : f[x] \in Nat, NEW y \in S
  PROVE  SumFunctionOnSet(f, S) = f[y] + SumFunctionOnSet(f, S \ {y})
<1> DEFINE Sum(s) == SumFunctionOnSet(f, s)
           F == {s \in SUBSET S : \E z \in s : Sum(s) # f[z] + Sum(s \ {z})}
<1> SUFFICES ASSUME F # {} PROVE FALSE
  OBVIOUS
<1>1. PICK m \in F : \A s \in F : s \subseteq m => s = m
  <2>1. F \in SUBSET SUBSET S /\ F # {}  OBVIOUS
  <2> HIDE DEF F
  <2> QED  BY <2>1, MinimalSubset
<1>2. PICK z \in m : Sum(m) # f[z] + Sum(m \ {z})  BY <1>1
<1>3. m \in SUBSET S /\ \A s \in SUBSET m : s # m => \A x \in s : Sum(s) = f[x] + Sum(s \ {x})
  BY <1>1
<1>4. \A s \in SUBSET m : IsFiniteSet(s) /\ \A x \in s : f[x] \in Nat  BY <1>3, FS_Subset
<1>5. \A s \in SUBSET m : Sum(s) \in Nat  BY <1>4, SumType
<1> DEFINE p == AnyOf(m)
<1>6. p \in m /\ Sum(m) = f[p] + Sum(m \ {p})  BY <1>4, SumTakes, AnyOfIsElement
<1> HIDE DEF Sum, p
<1>7. p # z  BY <1>2, <1>6
<1>8. Sum(m \ {p}) = f[z] + Sum((m \ {p}) \ {z})  BY <1>3, <1>6, <1>7
<1>9. Sum(m \ {z}) = f[p] + Sum((m \ {z}) \ {p})  BY <1>2, <1>3, <1>6, <1>7
<1>10. (m \ {p}) \ {z} = (m \ {z}) \ {p}  OBVIOUS
<1>11. Sum((m \ {z}) \ {p}) \in Nat /\ f[p] \in Nat /\ f[z] \in Nat  BY <1>4, <1>5, <1>6
<1> QED  BY <1>2, <1>6, <1>8, <1>9, <1>10, <1>11

\* More terms, or greater ones, give no smaller sum.
LEMMA SumMonotone ==
  ASSUME NEW S, IsFiniteSet(S), NEW T \in SUBSET S, NEW f, NEW g,
         \A x \in T : f[x] \in Nat /\ f[x] <= g[x], \A x \in S : g[x] \in Nat
  PROVE  SumFunctionOnSet(f, T) <= SumFunctionOnSet(g, S)
<1> DEFINE A(s) == SumFunctionOnSet(f, s \intersect T)
           B(s) == SumFunctionOnSet(g, s)
           F == {s \in SUBSET S : ~(A(s) <= B(s))}
<1>0. S \intersect T = T  OBVIOUS
<1> SUFFICES ASSUME F # {} PROVE FALSE
  BY <1>0
<1>1. PICK m \in F : \A s \in F : s \subseteq m => s = m
  <2>1. F \in SUBSET SUBSET S /\ F # {}  OBVIOUS
  <2> HIDE DEF F
  <2> QED  BY <2>1, MinimalSubset
<1>2. m \in SUBSET S /\ ~(A(m) <= B(m)) /\ \A s \in SUBSET m : s # m => A(s) <= B(s)
  BY <1>1
<1>3. \A s \in SUBSET S : /\ IsFiniteSet(s) /\ IsFiniteSet(s \intersect T)
                          /\ s \intersect T \in SUBSET T
  BY FS_Subset
<1>4. \A s \in SUBSET S : A(s) \in Nat /\ B(s) \in Nat  BY <1>3, SumType
<1>5. m # {}
  <2>1. {} \intersect T = {} /\ IsFiniteSet({})  BY FS_EmptySet
  <2>2. A({}) = 0 /\ B({}) = 0  BY <2>1, SumTakes
  <2> HIDE DEF A, B
  <2>3. A({}) <= B({})  BY <2>2
  <2> QED  BY <1>2, <2>3
<1>6. PICK y \in m : TRUE  BY <1>5
<1> DEFINE n == m \ {y}
<1>7. n \in SUBSET S /\ A(n) <= B(n) /\ y \in S  BY <1>2, <1>6
<1>8. B(m) = g[y] + B(n) /\ g[y] \in Nat  BY <1>2, <1>3, SumRemove
<1>9. CASE y \in T
  <2>1. (m \intersect T) \ {y} = n \intersect T  OBVIOUS
  <2>2. A(m) = f[y] + A(n)  BY <1>2, <1>3, <1>9, <2>1, SumRemove
  <2>3. f[y] \in Nat /\ f[y] <= g[y]  BY <1>9
  <2> HIDE DEF A, B
  <2> QED  BY <1>2, <1>4, <1>7, <1>8, <2>2, <2>3
<1>10. CASE y \notin T
  <2>1. m \intersect T = n \intersect T  BY <1>10
  <2>2. A(m) = A(n)  BY <2>1
  <2> HIDE DEF A, B
  <2> QED  BY <1>2, <1>4, <1>7, <1>8, <2>2
<1> QED  BY <1>9, <1>10

\* The same terms, but for some that are zero, give the same sum.
LEMMA SumAgrees ==
  ASSUME NEW S, IsFiniteSet(S), NEW T \in SUBSET S, NEW f, NEW g,
         \A x \in T : f[x] = g[x], \A x \in S : g[x] \in Nat, \A x \in S \ T : g[x] = 0
  PROVE  SumFunctionOnSet(f, T) = SumFunctionOnSet(g, S)
<1> DEFINE A(s) == SumFunctionOnSet(f, s \intersect T)
           B(s) == SumFunctionOnSet(g, s)
           F == {s \in SUBSET S : A(s) # B(s)}
<1>0. S \intersect T = T  OBVIOUS
<1> SUFFICES ASSUME F # {} PROVE FALSE
  BY <1>0
<1>1. PICK m \in F : \A s \in F : s \subseteq m => s = m
  <2>1. F \in SUBSET SUBSET S /\ F # {}  OBVIOUS
  <2> HIDE DEF F
  <2> QED  BY <2>1, MinimalSubset
<1>2. m \in SUBSET S /\ A(m) # B(m) /\ \A s \in SUBSET m : s # m => A(s) = B(s)
  BY <1>1
<1>3. \A s \in SUBSET S : /\ IsFiniteSet(s) /\ IsFiniteSet(s \intersect T)
                          /\ s \intersect T \in SUBSET T /\ \A x \in s \intersect T : f[x] \in Nat
  BY FS_Subset
<1>4. \A s \in SUBSET S : B(s) \in Nat  BY <1>3, SumType
<1>5. m # {}
  <2>1. {} \intersect T = {} /\ IsFiniteSet({})  BY FS_EmptySet
  <2>2. A({}) = 0 /\ B({}) = 0  BY <2>1, SumTakes
  <2> QED  BY <1>2, <2>2
<1>6. PICK y \in m : TRUE  BY <1>5
<1> DEFINE n == m \ {y}
<1>7. n \in SUBSET S /\ A(n) = B(n) /\ y \in S  BY <1>2, <1>6
<1>8. B(m) = g[y] + B(n) /\ g[y] \in Nat  BY <1>2, <1>3, SumRemove
<1>9. CASE y \in T
  <2>1. (m \intersect T) \ {y} = n \intersect T  OBVIOUS
  <2>2. A(m) = f[y] + A(n)  BY <1>2, <1>3, <1>9, <2>1, SumRemove
  <2>3. f[y] = g[y]  BY <1>9
  <2> HIDE DEF A, B
  <2> QED  BY <1>2, <1>4, <1>7, <1>8, <2>2, <2>3
<1>10. CASE y \notin T
  <2>1. m \intersect T = n \intersect T  BY <1>10
  <2>2. A(m) = A(n) /\ g[y] = 0  BY <1>7, <1>10, <2>1
  <2> HIDE DEF A, B
  <2> QED  BY <1>2, <1>4, <1>7, <1>8, <2>2
<1> QED  BY <1>9, <1>10

\* No sum exceeds its number of terms times their bound.
LEMMA SumBounded ==
  ASSUME NEW S, IsFiniteSet(S), NEW f, NEW n \in Nat, \A x \in S : f[x] \in 0..n
  PROVE  SumFunctionOnSet(f, S) <= n * Cardinality(S)
<1> DEFINE Sum(s) == SumFunctionOnSet(f, s)
           F == {s \in SUBSET S : ~(Sum(s) <= n * Cardinality(s))}
<1> SUFFICES ASSUME F # {} PROVE FALSE
  OBVIOUS
<1>1. PICK m \in F : \A s \in F : s \subseteq m => s = m
  <2>1. F \in SUBSET SUBSET S /\ F # {}  OBVIOUS
  <2> HIDE DEF F
  <2> QED  BY <2>1, MinimalSubset
<1>2. /\ m \in SUBSET S /\ ~(Sum(m) <= n * Cardinality(m))
      /\ \A s \in SUBSET m : s # m => Sum(s) <= n * Cardinality(s)
  BY <1>1
<1>3. \A s \in SUBSET S : IsFiniteSet(s) /\ Cardinality(s) \in Nat /\ Sum(s) \in Nat
  BY FS_Subset, FS_CardinalityType, SumType
<1>4. m # {}
  <2>1. Cardinality({}) = 0 /\ IsFiniteSet({})  BY FS_EmptySet
  <2>2. Sum({}) = 0  BY <2>1, SumTakes
  <2>3. n * 0 = 0  OBVIOUS
  <2> HIDE DEF Sum
  <2>4. Sum({}) <= n * Cardinality({})  BY <2>1, <2>2, <2>3
  <2> QED  BY <1>2, <2>4
<1>5. PICK y \in m : TRUE  BY <1>4
<1> DEFINE r == m \ {y}
<1>6. r \in SUBSET S /\ Sum(r) <= n * Cardinality(r)  BY <1>2
<1>7. Sum(m) = f[y] + Sum(r) /\ f[y] \in Nat /\ f[y] <= n  BY <1>2, <1>3, SumRemove
<1>8. Cardinality(m) = Cardinality(r) + 1  BY <1>2, <1>3, FS_RemoveElement
<1>9. Cardinality(r) \in Nat /\ Sum(r) \in Nat  BY <1>3, <1>6
<1>10. n * (Cardinality(r) + 1) = n * Cardinality(r) + n  BY <1>9
<1> HIDE DEF Sum, r
<1> QED  BY <1>2, <1>6, <1>7, <1>8, <1>9, <1>10

\* A sum of zeros.
LEMMA SumOfZeros ==
  ASSUME NEW S, IsFiniteSet(S), NEW f, \A x \in S : f[x] = 0
  PROVE  SumFunctionOnSet(f, S) = 0
<1>1. \A x \in S : f[x] \in 0..0 /\ f[x] \in Nat  OBVIOUS
<1>2. SumFunctionOnSet(f, S) <= 0 * Cardinality(S)  BY <1>1, SumBounded
<1>3. Cardinality(S) \in Nat /\ SumFunctionOnSet(f, S) \in Nat  BY <1>1, FS_CardinalityType, SumType
<1> QED  BY <1>2, <1>3

\* Terms that are bounded in pairs have sums that are.
LEMMA SumPairs ==
  ASSUME NEW S, IsFiniteSet(S), NEW a, NEW b, NEW c, NEW d,
         \A x \in S : a[x] \in Nat /\ b[x] \in Nat /\ c[x] \in Nat /\ d[x] \in Nat,
         \A x \in S : a[x] + b[x] <= c[x] + d[x]
  PROVE  SumFunctionOnSet(a, S) + SumFunctionOnSet(b, S)
           <= SumFunctionOnSet(c, S) + SumFunctionOnSet(d, S)
<1> DEFINE A(s) == SumFunctionOnSet(a, s)
           B(s) == SumFunctionOnSet(b, s)
           C(s) == SumFunctionOnSet(c, s)
           D(s) == SumFunctionOnSet(d, s)
           F == {s \in SUBSET S : ~(A(s) + B(s) <= C(s) + D(s))}
<1> SUFFICES ASSUME F # {} PROVE FALSE
  OBVIOUS
<1>1. PICK m \in F : \A s \in F : s \subseteq m => s = m
  <2>1. F \in SUBSET SUBSET S /\ F # {}  OBVIOUS
  <2> HIDE DEF F
  <2> QED  BY <2>1, MinimalSubset
<1>2. /\ m \in SUBSET S /\ ~(A(m) + B(m) <= C(m) + D(m))
      /\ \A s \in SUBSET m : s # m => A(s) + B(s) <= C(s) + D(s)
  BY <1>1
<1>3. \A s \in SUBSET S : IsFiniteSet(s)  BY FS_Subset
<1>4. \A s \in SUBSET S : A(s) \in Nat /\ B(s) \in Nat /\ C(s) \in Nat /\ D(s) \in Nat
  BY <1>3, SumType
<1>5. m # {}
  <2>1. IsFiniteSet({})  BY FS_EmptySet
  <2>2. A({}) = 0 /\ B({}) = 0 /\ C({}) = 0 /\ D({}) = 0  BY <2>1, SumTakes
  <2> HIDE DEF A, B, C, D
  <2>3. A({}) + B({}) <= C({}) + D({})  BY <2>2
  <2> QED  BY <1>2, <2>3
<1>6. PICK y \in m : TRUE  BY <1>5
<1> DEFINE n == m \ {y}
<1>7. n \in SUBSET S /\ A(n) + B(n) <= C(n) + D(n) /\ y \in S  BY <1>2, <1>6
<1>8. IsFiniteSet(m) /\ \A x \in m : a[x] \in Nat /\ b[x] \in Nat /\ c[x] \in Nat /\ d[x] \in Nat
  BY <1>2, <1>3
<1>9. /\ A(m) = a[y] + A(n) /\ B(m) = b[y] + B(n)
      /\ C(m) = c[y] + C(n) /\ D(m) = d[y] + D(n)
  BY <1>8, SumRemove
<1>10. /\ a[y] \in Nat /\ b[y] \in Nat /\ c[y] \in Nat /\ d[y] \in Nat
       /\ a[y] + b[y] <= c[y] + d[y]
  BY <1>7
<1>11. A(n) \in Nat /\ B(n) \in Nat /\ C(n) \in Nat /\ D(n) \in Nat  BY <1>4, <1>7
<1> HIDE DEF A, B, C, D, n
<1> QED  BY <1>2, <1>7, <1>9, <1>10, <1>11

\* A sum grows by what one of its terms grows by.
LEMMA SumAdd ==
  ASSUME NEW S, IsFiniteSet(S), NEW f, NEW g, \A x \in S : f[x] \in Nat, NEW y, NEW n \in Nat,
         \A x \in S : g[x] = IF x = y THEN f[x] + n ELSE f[x]
  PROVE  SumFunctionOnSet(g, S) = SumFunctionOnSet(f, S) + (IF y \in S THEN n ELSE 0)
<1>1. \A x \in S : g[x] \in Nat  OBVIOUS
<1>2. SumFunctionOnSet(f, S) \in Nat  BY SumType
<1>3. CASE y \notin S
  <2>1. \A x \in S : g[x] = f[x]  BY <1>3
  <2>2. SumFunctionOnSet(g, S) = SumFunctionOnSet(f, S)  BY <2>1, SumAgrees
  <2> QED  BY <1>2, <1>3, <2>2
<1>4. CASE y \in S
  <2> DEFINE R == S \ {y}
  <2>1. SumFunctionOnSet(f, S) = f[y] + SumFunctionOnSet(f, R)  BY <1>4, SumRemove
  <2>2. SumFunctionOnSet(g, S) = g[y] + SumFunctionOnSet(g, R)  BY <1>1, <1>4, SumRemove
  <2>3. IsFiniteSet(R) /\ \A x \in R : g[x] = f[x] /\ f[x] \in Nat  BY FS_Subset
  <2> HIDE DEF R
  <2>4. SumFunctionOnSet(g, R) = SumFunctionOnSet(f, R)  BY <2>3, SumAgrees
  <2>5. SumFunctionOnSet(f, R) \in Nat  BY <2>3, SumType
  <2>6. g[y] = f[y] + n /\ f[y] \in Nat  BY <1>4
  <2> QED  BY <1>4, <2>1, <2>2, <2>4, <2>5, <2>6
<1> QED  BY <1>3, <1>4

----------------------------------------------------------------------------
(* Sequences and partial functions *)

LEMMA Joined ==
  ASSUME NEW S, NEW a \in Seq(S), NEW b \in Seq(S)
  PROVE  /\ a \o b \in Seq(S) /\ Len(a \o b) = Len(a) + Len(b)
         /\ \A n \in 1..Len(a) : (a \o b)[n] = a[n]
         /\ \A n \in 1..Len(b) : (a \o b)[Len(a) + n] = b[n]
<1>1. /\ a \o b \in Seq(S) /\ Len(a \o b) = Len(a) + Len(b)
      /\ Len(a) \in Nat /\ Len(b) \in Nat
      /\ \A n \in 1..Len(a) + Len(b) : (a \o b)[n] = IF n <= Len(a) THEN a[n] ELSE b[n - Len(a)]
  OBVIOUS
<1>2. ASSUME NEW n \in 1..Len(b) PROVE (a \o b)[Len(a) + n] = b[n]
  <2>1. Len(a) + n \in 1..Len(a) + Len(b) /\ ~(Len(a) + n <= Len(a)) /\ (Len(a) + n) - Len(a) = n
    BY <1>1
  <2>2. (a \o b)[Len(a) + n] = b[(Len(a) + n) - Len(a)]  BY <1>1, <2>1
  <2> QED  BY <2>1, <2>2
<1>3. \A n \in 1..Len(a) : (a \o b)[n] = a[n]  BY <1>1
<1> QED  BY <1>1, <1>2, <1>3

\* The function behind FoldLeft over n elements, with the combination as a function.
SeqFold(it, n, op, base) ==
  it = [s \in SUBSET (1..n) |-> IF s = {} THEN base ELSE op[<<Max(s), it[s \ {Max(s)}]>>]]

LEMMA SeqFoldExists ==
  ASSUME NEW n \in Nat, NEW C, NEW base \in C, NEW op,
         \A i \in 1..n, v \in C : op[<<i, v>>] \in C
  PROVE  \E it : SeqFold(it, n, op, base) /\ \A s \in SUBSET (1..n) : it[s] \in C
<1> DEFINE S == 1..n
           pick == [s \in SUBSET S |-> Max(s)]
           V == [s \in SUBSET S |-> C]
<1>1. \A s \in SUBSET S : s # {} => Max(s) \in s
  <2> SUFFICES ASSUME NEW s \in SUBSET S, s # {} PROVE Max(s) \in s
    OBVIOUS
  <2>1. s \in SUBSET (0..n)  OBVIOUS
  <2> QED  BY <2>1, MaxIsElement
<1>2. \A s \in SUBSET S : pick[s] = Max(s) /\ V[s] = C  OBVIOUS
<1>3. IsFiniteSet(S)  BY FS_Interval
<1>4. base \in V[{}] /\ \A i \in S, v \in C : op[<<i, v>>] \in C  OBVIOUS
<1> HIDE DEF S, pick, V
<1>5. Picks(pick, S)  BY <1>1, <1>2 DEF Picks
<1>6. Stays(V, S, pick, op)  BY <1>1, <1>2, <1>4 DEF Stays
<1>7. PICK it : IsFold(it, S, pick, op, base)  BY <1>3, <1>5, FoldExists
<1>8. \A s \in SUBSET S : it[s] \in V[s]  BY <1>3, <1>4, <1>5, <1>6, <1>7, FoldStays
<1>9. \A s \in SUBSET S : it[s] \in C  BY <1>2, <1>8
<1>10. it = [s \in SUBSET S |-> IF s = {} THEN base ELSE op[<<Max(s), it[s \ {Max(s)}]>>]]
  <2>1. it = [s \in SUBSET S |-> IF s = {} THEN base ELSE op[<<pick[s], it[s \ {pick[s]}]>>]]
    BY <1>7 DEF IsFold
  <2>2. \A s \in SUBSET S : it[s] = IF s = {} THEN base ELSE op[<<Max(s), it[s \ {Max(s)}]>>]
    BY <1>2, <2>1
  <2>3. it = [s \in SUBSET S |-> it[s]]  BY <2>1
  <2> QED  BY <2>2, <2>3
<1> QED  BY <1>9, <1>10 DEF SeqFold, S

\* What such a function gives for the first elements.
LEMMA MaxOfFirst ==
  ASSUME NEW k \in Nat \ {0}
  PROVE  Max(1..k) = k /\ (1..k) \ {k} = 1..k-1 /\ 1..k # {}
<1>1. 1..k \in SUBSET Nat /\ k \in 1..k /\ \A m \in 1..k : k >= m  OBVIOUS
<1>2. Max(1..k) = k
  <2> DEFINE S == 1..k
  <2>1. S \in SUBSET Nat /\ k \in S /\ \A m \in S : k >= m  BY <1>1
  <2> HIDE DEF S
  <2>2. Max(S) = k  BY <2>1, MaxIs
  <2> QED  BY <2>2 DEF S
<1>3. \A x : x \in (1..k) \ {k} <=> x \in 1..k-1  OBVIOUS
<1>4. (1..k) \ {k} = 1..k-1  BY <1>3
<1> QED  BY <1>1, <1>2, <1>4

\* Functions on some of the elements of a set.
Partial(D, R) == UNION {[d -> R] : d \in SUBSET D}

LEMMA PartialType ==
  ASSUME NEW D, NEW R, NEW f
  PROVE  f \in Partial(D, R) <=>
           DOMAIN f \subseteq D /\ f = [x \in DOMAIN f |-> f[x]] /\ \A x \in DOMAIN f : f[x] \in R
<1>1. ASSUME f \in Partial(D, R)
      PROVE  DOMAIN f \subseteq D /\ f = [x \in DOMAIN f |-> f[x]] /\ \A x \in DOMAIN f : f[x] \in R
  BY <1>1 DEF Partial
<1>2. ASSUME DOMAIN f \subseteq D, f = [x \in DOMAIN f |-> f[x]], \A x \in DOMAIN f : f[x] \in R
      PROVE  f \in Partial(D, R)
  <2>1. f \in [DOMAIN f -> R]  BY <1>2
  <2> QED  BY <1>2, <2>1 DEF Partial
<1> QED  BY <1>1, <1>2
=============================================================================
