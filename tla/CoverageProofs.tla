--------------------------- MODULE CoverageProofs ---------------------------
(***************************************************************************)
(* The coverage figure, for any window size, any list of NSS sources and   *)
(* any counters: it implements CoverageWindow, announces a decrease once,  *)
(* and compares across a restored filter only where a recovery failed.     *)
(***************************************************************************)
EXTENDS Coverage, DataLemmas, WellFoundedInduction, SequenceTheorems

\* The samples in the ring, by their distance from the newest.
Back(b) == SampleAt(ring, Window, b)

\* Every restoration since a held sample was taken belongs to a failure since:
\* those that succeeded emptied the ring.
HeldSinceHeal ==
  \A b \in 0..ring.count-1 : heals + Back(b).failures <= failures + Back(b).heals

\* A held sample saw every decrease that was announced; if it saw as many
\* as there were, the last complete sample is no lower than it.
HeldOrdered ==
  \A b \in 0..ring.count-1 :
    /\ announced <= Back(b).falls
    /\ Back(b).falls <= falls
    /\ Abstract!Complete(Back(b)) =>
         /\ Abstract!Complete(last)
         /\ Back(b).falls = falls =>
              /\ Back(b).iface.bytes <= last.iface.bytes
              /\ Back(b).client.bytes <= last.client.bytes

IInv ==
  /\ TypeOK
  /\ last \in [iface : Counters, client : Counters]
  /\ HeldSinceHeal
  /\ HeldOrdered
  /\ ResetsNotRepeated
  /\ SpansNoReset

USE SourcesAssumption, WindowAssumption, BoundAssumption

----------------------------------------------------------------------------
(* What a status call judges *)

LEMMA Bounds ==
  MinWindow \in Nat /\ MinDenom \in Nat /\ MaxBytes \in Nat /\ MaxTime \in Nat /\ MaxEvents \in Nat
OBVIOUS

LEMMA Least ==
  ASSUME NEW T \in SUBSET Nat, T # {}
  PROVE  \E k \in T : \A j \in T : k <= j
<1>1. PICK k \in T : \A j \in T : <<j, k>> \notin OpToRel(<, Nat)
  BY NatLessThanWellFounded, WFMin
<1>2. \A j \in T : ~(j < k)  BY <1>1 DEF OpToRel
<1> QED  BY <1>2

LEMMA Greatest ==
  ASSUME NEW n \in Nat, NEW T \in SUBSET (0..n-1), T # {}
  PROVE  \E b \in T : \A c \in T : c <= b
<1> DEFINE U == {n - 1 - b : b \in T}
<1>1. U \in SUBSET Nat /\ U # {}  OBVIOUS
<1>2. PICK k \in U : \A j \in U : k <= j  BY <1>1, Least
<1>3. PICK b \in T : k = n - 1 - b  BY <1>2
<1>4. \A c \in T : c <= b
  <2> TAKE c \in T
  <2>1. n - 1 - c \in U  OBVIOUS
  <2>2. n - 1 - b <= n - 1 - c  BY <1>2, <1>3, <2>1
  <2> QED  BY <2>2
<1> QED  BY <1>4

LEMMA CounterTypes ==
  /\ Absent \in Counters
  /\ \A c \in Counters : c.ok \in BOOLEAN /\ c.bytes \in 0..MaxBytes
<1>1. 0 \in 0..MaxBytes  BY Bounds
<1>2. Absent \in Counters  BY DEF Counters
<1>3. ASSUME NEW c \in Counters
      PROVE  c.ok \in BOOLEAN /\ c.bytes \in 0..MaxBytes
  <2>1. CASE c = Absent  BY <1>1, <2>1 DEF Absent
  <2>2. CASE c # Absent
    <3>1. PICK n \in 0..MaxBytes : c = Bytes(n)  BY <2>2 DEF Counters
    <3>2. c.ok = TRUE /\ c.bytes = n  BY <3>1 DEF Bytes
    <3> QED  BY <3>2
  <2> QED  BY <2>1, <2>2
<1> QED  BY <1>2, <1>3

LEMMA ReadingType ==
  ASSUME TypeOK
  PROVE  Reading \in [ts : 0..MaxTime, iface : Counters, client : Counters, supported : BOOLEAN]
<1>1. ClientBytes \in Counters
  <2> DEFINE usable == {k \in 1..Len(NssSeq) : NssSeq[k] \in preferred /\ totals[NssSeq[k]].ok}
             first == CHOOSE k \in usable : \A j \in usable : k <= j
  <2>1. CASE usable # {}
    <3>1. usable \in SUBSET Nat  OBVIOUS
    <3>2. \E k \in usable : \A j \in usable : k <= j  BY <2>1, <3>1, Least
    <3>3. first \in usable  BY <3>2
    <3>4. NssSeq[first] \in Sources  BY <3>3 DEF Nss, Sources
    <3>5. ClientBytes = totals[NssSeq[first]]  BY <2>1 DEF ClientBytes
    <3> QED  BY <3>4, <3>5 DEF TypeOK
  <2>2. CASE usable = {}
    <3>1. ClientBytes = IF enabled THEN totals["bpf"] ELSE Absent  BY <2>2 DEF ClientBytes
    <3> QED  BY <3>1, CounterTypes DEF TypeOK, Sources
  <2> QED  BY <2>1, <2>2
<1> QED  BY <1>1 DEF TypeOK, Reading

LEMMA TakenType ==
  ASSUME TypeOK
  PROVE  /\ Taken \in Samples
         /\ Taken.heals = heals /\ Taken.failures = failures /\ Taken.falls = Fallen
         /\ Plain(Taken) = Reading
         /\ Fallen \in Nat
<1>1. Fallen \in Nat  BY DEF Fallen, TypeOK
<1>2. /\ Sample \in Samples /\ Sample.heals = heals /\ Sample.failures = failures
      /\ Sample.ts = Reading.ts /\ Sample.iface = Reading.iface
      /\ Sample.client = Reading.client /\ Sample.supported = Reading.supported
  BY ReadingType DEF Sample, Samples, TypeOK
<1>3. /\ Taken \in Samples /\ Taken.falls = Fallen
      /\ Taken.heals = heals /\ Taken.failures = failures
      /\ Taken.ts = Reading.ts /\ Taken.iface = Reading.iface
      /\ Taken.client = Reading.client /\ Taken.supported = Reading.supported
  BY <1>1, <1>2 DEF Taken, Samples
<1>4. Plain(Taken) = Reading
  BY <1>3 DEF Plain, Reading
<1> QED  BY <1>1, <1>3, <1>4

\* After a push, the newest sample is the one taken now and every other was held.
LEMMA PushedHolds ==
  ASSUME TypeOK
  PROVE  /\ Pushed \in Rings(Window, Samples)
         /\ Pushed.count = (IF ring.count < Window THEN ring.count + 1 ELSE ring.count)
         /\ Pushed.count \in 1..Window
         /\ SampleAt(Pushed, Window, 0) = Taken
         /\ \A b \in 1..Pushed.count-1 :
              b - 1 \in 0..ring.count-1 /\ SampleAt(Pushed, Window, b) = Back(b - 1)
<1>1. ring \in Rings(Window, Samples) /\ Taken \in Samples  BY TakenType DEF TypeOK
<1>2. ring.count \in 0..Window  BY <1>1 DEF Rings
<1>3. /\ Pushed \in Rings(Window, Samples)
      /\ Pushed.count = (IF ring.count < Window THEN ring.count + 1 ELSE ring.count)
  BY <1>1, PushIsRing DEF Pushed
<1>4. SampleAt(Pushed, Window, 0) = Taken  BY <1>1, PushNewest DEF Pushed
<1>5. ASSUME NEW b \in 1..Pushed.count-1
      PROVE  b - 1 \in 0..ring.count-1 /\ SampleAt(Pushed, Window, b) = Back(b - 1)
  <2>1. b - 1 \in 0..Window-2 /\ b - 1 \in 0..ring.count-1 /\ (b - 1) + 1 = b  BY <1>2, <1>3
  <2>2. SampleAt(Pushed, Window, (b - 1) + 1) = SampleAt(ring, Window, b - 1)
    BY <1>1, <2>1, PushOlder DEF Pushed
  <2> QED  BY <2>1, <2>2 DEF Back
<1> QED  BY <1>2, <1>3, <1>4, <1>5

\* The search for the oldest complete sample finds one if there is one.
LEMMA OldestIs ==
  ASSUME NEW r \in Rings(Window, Samples),
         NEW c \in 0..r.count-1, Abstract!Complete(SampleAt(r, Window, c))
  PROVE  \E b \in 0..r.count-1 :
           /\ Oldest(r) = SampleAt(r, Window, b)
           /\ Abstract!Complete(SampleAt(r, Window, b))
           /\ \A d \in 0..r.count-1 : Abstract!Complete(SampleAt(r, Window, d)) => d <= b
<1> DEFINE complete == {b \in 0..r.count-1 : Abstract!Complete(SampleAt(r, Window, b))}
           b == CHOOSE d \in complete : \A e \in complete : e <= d
<1>1. r.count \in Nat  BY DEF Rings
<1>2. complete \in SUBSET (0..r.count-1) /\ complete # {}  OBVIOUS
<1>3. \E d \in complete : \A e \in complete : e <= d  BY <1>1, <1>2, Greatest
<1>4. b \in complete /\ \A e \in complete : e <= b  BY <1>3
<1>5. Oldest(r) = SampleAt(r, Window, b)  BY <1>2 DEF Oldest
<1> QED  BY <1>4, <1>5

\* Two samples that are compared are the new one and one that was held.
LEMMA ComparedWithHeld ==
  ASSUME TypeOK, Abstract!Complete(Taken), Taken.ts > Oldest(Pushed).ts
  PROVE  \E b \in 0..ring.count-1 : Oldest(Pushed) = Back(b) /\ Abstract!Complete(Back(b))
<1>1. Abstract!Complete(SampleAt(Pushed, Window, 0)) /\ 0 \in 0..Pushed.count-1
  BY PushedHolds
<1>2. PICK b \in 0..Pushed.count-1 :
         Oldest(Pushed) = SampleAt(Pushed, Window, b) /\ Abstract!Complete(SampleAt(Pushed, Window, b))
  BY <1>1, PushedHolds, OldestIs
<1>3. b # 0
  <2> SUFFICES ASSUME b = 0  PROVE FALSE  OBVIOUS
  <2>1. Oldest(Pushed).ts = Taken.ts  BY <1>2, PushedHolds
  <2>2. Taken.ts \in 0..MaxTime  BY TakenType DEF Samples
  <2> QED  BY <2>1, <2>2, Bounds
<1>4. b \in 1..Pushed.count-1  BY <1>3
<1>5. b - 1 \in 0..ring.count-1 /\ SampleAt(Pushed, Window, b) = Back(b - 1)
  BY <1>4, PushedHolds
<1> QED  BY <1>2, <1>5

LEMMA HeldType ==
  ASSUME TypeOK, NEW b \in 0..ring.count-1
  PROVE  Back(b) \in Samples
<1>1. ring \in Rings(Window, Samples)  BY DEF TypeOK
<1>2. b \in 0..Window-1  BY <1>1 DEF Rings
<1> QED  BY <1>1, <1>2, SampleType DEF Back

Reports ==
  [quality : {"warmup", "idle", "counter_reset", "ok", "unsupported"},
   ms : 0..MaxTime, denom : 0..MaxBytes, numer : 0..MaxBytes]

LEMMA CounterBytes ==
  ASSUME NEW c \in Counters
  PROVE  c.bytes \in Nat
<1>1. c.bytes \in 0..MaxBytes  BY CounterTypes
<1> QED  BY <1>1, Bounds

\* What one counter is ahead of another.
LEMMA Difference ==
  ASSUME NEW m \in Nat, NEW a \in 0..m, NEW b \in 0..m, ~(a < b)
  PROVE  a - b \in 0..m
OBVIOUS

LEMMA LessIsNotMore ==
  ASSUME NEW a \in Nat, NEW b \in Nat, a < b
  PROVE  ~(b <= a)
OBVIOUS

\* The verdict is one of those that compare nothing, or the judgement on the
\* new sample and a held one.
LEMMA VerdictCases ==
  ASSUME TypeOK
  PROVE  LET oldest == Oldest(Pushed)
             verdict == Verdict(Taken, oldest)
         IN \/ /\ verdict \in Reports /\ verdict.quality \in {"unsupported", "warmup"}
            \/ /\ Abstract!Complete(Taken)
               /\ \E b \in 0..ring.count-1 : oldest = Back(b) /\ Abstract!Complete(Back(b))
               /\ Taken.ts > oldest.ts
               /\ verdict = Abstract!Judge(Taken, oldest)
               /\ verdict \in Reports
<1> DEFINE oldest == Oldest(Pushed)
           verdict == Verdict(Taken, oldest)
<1>1. CASE Taken.supported /\ Abstract!Complete(Taken) /\ Taken.ts > oldest.ts
  <2>1. PICK b \in 0..ring.count-1 : oldest = Back(b) /\ Abstract!Complete(Back(b))
    BY <1>1, ComparedWithHeld
  <2>2. verdict = Abstract!Judge(Taken, oldest)  BY <1>1 DEF Verdict
  <2>3. oldest \in Samples /\ Taken \in Samples  BY <2>1, HeldType, TakenType
  <2>4. Abstract!Judge(Taken, oldest) \in Reports
    <3> HIDE DEF oldest
    <3>1. Taken.ts - oldest.ts \in 0..MaxTime  BY <1>1, <2>3, Bounds DEF Samples
    <3>2. Taken.iface.bytes \in 0..MaxBytes /\ oldest.iface.bytes \in 0..MaxBytes
      BY <2>3, CounterTypes DEF Samples
    <3>3. Taken.client.bytes \in 0..MaxBytes /\ oldest.client.bytes \in 0..MaxBytes
      BY <2>3, CounterTypes DEF Samples
    <3>4. CASE Taken.iface.bytes < oldest.iface.bytes \/ Taken.client.bytes < oldest.client.bytes
      BY <3>1, <3>4, Bounds DEF Abstract!Judge, Abstract!Report, Reports
    <3>5. CASE ~(Taken.iface.bytes < oldest.iface.bytes \/ Taken.client.bytes < oldest.client.bytes)
      <4>1. /\ Taken.iface.bytes - oldest.iface.bytes \in 0..MaxBytes
            /\ Taken.client.bytes - oldest.client.bytes \in 0..MaxBytes
        <5>1. /\ ~(Taken.iface.bytes < oldest.iface.bytes)
              /\ ~(Taken.client.bytes < oldest.client.bytes)
          BY <3>5
        <5> QED  BY <3>2, <3>3, <5>1, Bounds, Difference
      <4> QED  BY <3>1, <3>5, <4>1 DEF Abstract!Judge, Abstract!Report, Reports
    <3> QED  BY <3>4, <3>5
  <2> QED  BY <1>1, <2>1, <2>2, <2>4
<1>2. CASE ~(Taken.supported /\ Abstract!Complete(Taken) /\ Taken.ts > oldest.ts)
  <2>1. verdict \in {Abstract!Report("unsupported", 0, 0, 0), Abstract!Warmup}
    BY <1>2 DEF Verdict
  <2> QED  BY <2>1, Bounds DEF Abstract!Report, Abstract!Warmup, Reports
<1> QED  BY <1>1, <1>2

----------------------------------------------------------------------------
(* The invariant *)

LEMMA InitInv == Init => IInv
<1> SUFFICES ASSUME Init PROVE IInv  OBVIOUS
<1>1. Filler \in Samples
  BY CounterTypes, Bounds DEF Filler, Samples
<1>2. ring \in Rings(Window, Samples) /\ ring.count = 0
  BY <1>1, EmptyIsRing DEF Init, EmptyRing
<1>3. report \in Reports
  BY Bounds DEF Init, Abstract!Warmup, Abstract!Report, Reports
<1>4. Bytes(0) \in Counters /\ Absent \in Counters  BY Bounds DEF Counters
<1>5. TypeOK  BY <1>2, <1>3, <1>4, Bounds DEF Init, TypeOK, Reports
<1>6. HeldSinceHeal /\ HeldOrdered  BY <1>2 DEF HeldSinceHeal, HeldOrdered
<1>7. ResetsNotRepeated /\ SpansNoReset  BY DEF Init, ResetsNotRepeated, SpansNoReset
<1>8. last \in [iface : Counters, client : Counters]
  BY <1>4 DEF Init
<1> QED  BY <1>5, <1>6, <1>7, <1>8 DEF IInv

\* What a status call does to the ring and to the history.
LEMMA StatusEffect ==
  ASSUME TypeOK, Status
  PROVE  /\ report' = Verdict(Taken, Oldest(Pushed))
         /\ report' \in Reports
         /\ ring' = IF report'.quality = "counter_reset" THEN Clear(Pushed) ELSE Pushed
         /\ ring' \in Rings(Window, Samples)
         /\ falls' = Fallen
         /\ last' = IF Abstract!Complete(Taken) THEN [iface |-> Taken.iface, client |-> Taken.client]
                    ELSE last
         /\ announced' = IF report'.quality = "counter_reset" THEN announced + 1 ELSE announced
         /\ compared' = [healed |-> Taken.heals - Oldest(Pushed).heals,
                         failed |-> Taken.failures - Oldest(Pushed).failures,
                         fell |-> Taken.falls # Oldest(Pushed).falls]
<1>1. SampleAt(Pushed, Window, 0) = Taken /\ Pushed \in Rings(Window, Samples)
  BY PushedHolds
<1>2. report' = Verdict(Taken, Oldest(Pushed))  BY <1>1 DEF Status
<1>3. report' \in Reports  BY <1>2, VerdictCases
<1>4. ring' = IF report'.quality = "counter_reset" THEN Clear(Pushed) ELSE Pushed
  BY DEF Status, Recycle
<1>5. ring' \in Rings(Window, Samples)  BY <1>1, <1>4, ClearIsRing
<1> QED  BY <1>1, <1>2, <1>3, <1>4, <1>5 DEF Status

\* A report of a decrease leaves an empty ring; otherwise the ring holds the
\* new sample and samples it held before.
LEMMA HeldAfter ==
  ASSUME TypeOK, Status, NEW b \in 0..ring'.count-1
  PROVE  /\ report'.quality # "counter_reset"
         /\ \/ (Back(b))' = Taken
            \/ \E c \in 0..ring.count-1 : (Back(b))' = Back(c)
<1>1. report'.quality # "counter_reset"
  <2> SUFFICES ASSUME report'.quality = "counter_reset" PROVE FALSE  OBVIOUS
  <2>1. ring'.count = 0  BY StatusEffect, PushedHolds, ClearIsRing
  <2> QED  BY <2>1
<1>2. ring' = Pushed  BY <1>1, StatusEffect
<1>3. (Back(b))' = SampleAt(Pushed, Window, b)  BY <1>2 DEF Back
<1>4. CASE b = 0  BY <1>1, <1>3, <1>4, PushedHolds
<1>5. CASE b # 0
  <2>1. b \in 1..Pushed.count-1  BY <1>2, <1>5
  <2>2. b - 1 \in 0..ring.count-1 /\ SampleAt(Pushed, Window, b) = Back(b - 1)
    BY <2>1, PushedHolds
  <2> QED  BY <1>1, <1>3, <2>2
<1> QED  BY <1>4, <1>5

\* The new sample against a held one: counters that are lower than those of a
\* held complete sample have been seen to fall since.
LEMMA TakenOrdered ==
  ASSUME IInv, NEW b \in 0..ring.count-1
  PROVE  /\ announced <= Back(b).falls
         /\ Back(b).falls <= Fallen
         /\ Abstract!Complete(Back(b)) /\ Abstract!Complete(Taken) /\ Back(b).falls = Fallen =>
              /\ Back(b).iface.bytes <= Taken.iface.bytes
              /\ Back(b).client.bytes <= Taken.client.bytes
<1>1. announced <= Back(b).falls /\ Back(b).falls <= falls  BY DEF IInv, HeldOrdered
<1>2. TypeOK  BY DEF IInv
<1>3. Back(b) \in Samples /\ Taken \in Samples  BY <1>2, HeldType, TakenType
<1>4. falls \in Nat /\ Back(b).falls \in Nat /\ (Fallen = falls \/ Fallen = falls + 1)
  BY <1>2, <1>3 DEF TypeOK, Samples, Fallen
<1>5. Back(b).falls <= Fallen  BY <1>1, <1>4
<1>6. ASSUME Abstract!Complete(Back(b)), Abstract!Complete(Taken), Back(b).falls = Fallen
      PROVE  /\ Back(b).iface.bytes <= Taken.iface.bytes
             /\ Back(b).client.bytes <= Taken.client.bytes
  <2>1. Fallen = falls /\ Back(b).falls = falls  BY <1>1, <1>4, <1>6
  <2>2. /\ Abstract!Complete(last)
        /\ Back(b).iface.bytes <= last.iface.bytes
        /\ Back(b).client.bytes <= last.client.bytes
    BY <1>6, <2>1 DEF IInv, HeldOrdered
  <2>3. ~Falls(Sample, last)  BY <2>1, <1>4 DEF Fallen
  <2>4. Taken.iface = Sample.iface /\ Taken.client = Sample.client
    BY DEF Taken, Sample
  <2>5. ~(Taken.iface.bytes < last.iface.bytes) /\ ~(Taken.client.bytes < last.client.bytes)
    BY <1>6, <2>2, <2>3, <2>4 DEF Falls, Abstract!Complete
  <2>6. last.iface \in Counters /\ last.client \in Counters  BY DEF IInv
  <2>7. /\ last.iface.bytes \in Nat /\ last.client.bytes \in Nat
        /\ Taken.iface.bytes \in Nat /\ Taken.client.bytes \in Nat
        /\ Back(b).iface.bytes \in Nat /\ Back(b).client.bytes \in Nat
    <3>1. /\ Back(b).iface \in Counters /\ Back(b).client \in Counters
          /\ Taken.iface \in Counters /\ Taken.client \in Counters
      BY <1>3 DEF Samples
    <3> QED  BY <3>1, <2>6, CounterBytes
  <2> DEFINE b1 == Back(b).iface.bytes  l1 == last.iface.bytes  t1 == Taken.iface.bytes
             b2 == Back(b).client.bytes  l2 == last.client.bytes  t2 == Taken.client.bytes
  <2>8. /\ b1 <= l1 /\ b2 <= l2 /\ ~(t1 < l1) /\ ~(t2 < l2)
        /\ b1 \in Nat /\ b2 \in Nat /\ l1 \in Nat /\ l2 \in Nat /\ t1 \in Nat /\ t2 \in Nat
    BY <2>2, <2>5, <2>7
  <2> HIDE DEF b1, b2, l1, l2, t1, t2
  <2>9. b1 <= t1 /\ b2 <= t2  BY <2>8
  <2> QED  BY <2>9 DEF b1, b2, t1, t2
<1> QED  BY <1>1, <1>5, <1>6

LEMMA StatusKeepsInv ==
  ASSUME IInv, Status
  PROVE  IInv'
<1>1. TypeOK /\ announced <= falls /\ announced \in Nat /\ falls \in Nat
  BY DEF IInv, ResetsNotRepeated, TypeOK
<1>2. Taken \in Samples /\ Taken.heals = heals /\ Taken.falls = Fallen /\ Fallen \in Nat
      /\ falls <= Fallen
  BY <1>1, TakenType DEF Fallen
<1>3. UNCHANGED observed  BY DEF Status
<1>4. TypeOK'
  <2>1. announced' \in Nat /\ falls' \in Nat  BY <1>1, <1>2, StatusEffect
  <2> QED  BY <1>1, <1>3, <2>1, StatusEffect DEF TypeOK, observed, Reports, Nss
<1>5. (last \in [iface : Counters, client : Counters])'
  <2>1. [iface |-> Taken.iface, client |-> Taken.client] \in [iface : Counters, client : Counters]
    BY <1>2 DEF Samples
  <2> QED  BY <1>1, <2>1, StatusEffect DEF IInv
<1>6. /\ Taken.failures = failures /\ heals \in Nat /\ failures \in Nat
      /\ heals' = heals /\ failures' = failures
  BY <1>1, <1>3, TakenType DEF TypeOK, observed
<1>7. HeldSinceHeal'
  <2> SUFFICES ASSUME NEW b \in 0..ring'.count-1
               PROVE  heals' + (Back(b))'.failures <= failures' + (Back(b))'.heals
    BY DEF HeldSinceHeal
  <2>1. CASE (Back(b))' = Taken  BY <1>2, <1>6, <2>1
  <2>2. CASE \E c \in 0..ring.count-1 : (Back(b))' = Back(c)
    BY <1>6, <2>2 DEF IInv, HeldSinceHeal
  <2> QED  BY <1>1, <2>1, <2>2, HeldAfter
<1>8. HeldOrdered'
  <2> SUFFICES ASSUME NEW b \in 0..ring'.count-1
               PROVE  /\ announced' <= (Back(b))'.falls
                      /\ (Back(b))'.falls <= falls'
                      /\ Abstract!Complete((Back(b))') =>
                           /\ Abstract!Complete(last')
                           /\ (Back(b))'.falls = falls' =>
                                /\ (Back(b))'.iface.bytes <= last'.iface.bytes
                                /\ (Back(b))'.client.bytes <= last'.client.bytes
    BY DEF HeldOrdered, Abstract!Complete
  <2>1. announced' = announced /\ falls' = Fallen  BY <1>1, HeldAfter, StatusEffect
  <2>2. CASE (Back(b))' = Taken
    <3>1. announced <= Taken.falls /\ Taken.falls <= Fallen  BY <1>1, <1>2
    <3>2. ASSUME Abstract!Complete(Taken)
          PROVE  /\ Abstract!Complete(last')
                 /\ Taken.iface.bytes <= last'.iface.bytes
                 /\ Taken.client.bytes <= last'.client.bytes
      <4>1. last' = [iface |-> Taken.iface, client |-> Taken.client]
        BY <1>1, <3>2, StatusEffect
      <4>2. last'.iface = Taken.iface /\ last'.client = Taken.client  BY <4>1
      <4>3. Taken.iface.bytes \in Nat /\ Taken.client.bytes \in Nat
        BY <1>2, CounterTypes DEF Samples
      <4> QED  BY <3>2, <4>2, <4>3 DEF Abstract!Complete
    <3> QED  BY <2>1, <2>2, <3>1, <3>2
  <2>3. ASSUME NEW c \in 0..ring.count-1, (Back(b))' = Back(c)
        PROVE  /\ announced' <= (Back(b))'.falls
               /\ (Back(b))'.falls <= falls'
               /\ Abstract!Complete((Back(b))') =>
                    /\ Abstract!Complete(last')
                    /\ (Back(b))'.falls = falls' =>
                         /\ (Back(b))'.iface.bytes <= last'.iface.bytes
                         /\ (Back(b))'.client.bytes <= last'.client.bytes
    <3>1. announced <= Back(c).falls /\ Back(c).falls <= Fallen  BY TakenOrdered
    <3>2. ASSUME Abstract!Complete(Back(c))
          PROVE  /\ Abstract!Complete(last')
                 /\ Back(c).falls = Fallen =>
                      /\ Back(c).iface.bytes <= last'.iface.bytes
                      /\ Back(c).client.bytes <= last'.client.bytes
      <4>1. CASE Abstract!Complete(Taken)
        <5>1. last' = [iface |-> Taken.iface, client |-> Taken.client]
          BY <1>1, <4>1, StatusEffect
        <5>2. last'.iface = Taken.iface /\ last'.client = Taken.client  BY <5>1
        <5> QED  BY <3>2, <4>1, <5>2, TakenOrdered DEF Abstract!Complete
      <4>2. CASE ~Abstract!Complete(Taken)
        <5>1. last' = last  BY <1>1, <4>2, StatusEffect
        <5>2. Fallen = falls
          BY <4>2 DEF Fallen, Falls, Abstract!Complete, Taken, Sample
        <5> QED  BY <3>2, <5>1, <5>2 DEF IInv, HeldOrdered
      <4> QED  BY <4>1, <4>2
    <3> QED  BY <2>1, <2>3, <3>1, <3>2
  <2> QED  BY <1>1, <2>2, <2>3, HeldAfter
<1>9. ResetsNotRepeated'
  <2>1. CASE report'.quality # "counter_reset"
    BY <1>1, <1>2, <2>1, StatusEffect DEF ResetsNotRepeated
  <2>2. CASE report'.quality = "counter_reset"
    <3>1. announced' = announced + 1 /\ falls' = Fallen  BY <1>1, <2>2, StatusEffect
    <3>2. /\ Abstract!Complete(Taken)
          /\ report' = Abstract!Judge(Taken, Oldest(Pushed))
          /\ \E b \in 0..ring.count-1 :
               Oldest(Pushed) = Back(b) /\ Abstract!Complete(Back(b))
      BY <1>1, <2>2, StatusEffect, VerdictCases
    <3>3. PICK b \in 0..ring.count-1 : Oldest(Pushed) = Back(b) /\ Abstract!Complete(Back(b))
      BY <3>2
    <3>4. \/ Taken.iface.bytes < Back(b).iface.bytes
          \/ Taken.client.bytes < Back(b).client.bytes
      BY <2>2, <3>2, <3>3 DEF Abstract!Judge, Abstract!Report
    <3>5. Back(b) \in Samples  BY <1>1, HeldType
    <3>6. /\ Taken.iface.bytes \in Nat /\ Taken.client.bytes \in Nat
          /\ Back(b).iface.bytes \in Nat /\ Back(b).client.bytes \in Nat
          /\ Back(b).falls \in Nat
      <4>1. /\ Back(b).iface \in Counters /\ Back(b).client \in Counters
            /\ Taken.iface \in Counters /\ Taken.client \in Counters
            /\ Back(b).falls \in Nat
        BY <1>2, <3>5 DEF Samples
      <4> QED  BY <4>1, CounterBytes
    <3>7. Back(b).falls # Fallen
      <4> SUFFICES ASSUME Back(b).falls = Fallen  PROVE FALSE  OBVIOUS
      <4>1. /\ Back(b).iface.bytes <= Taken.iface.bytes
            /\ Back(b).client.bytes <= Taken.client.bytes
        BY <3>2, <3>3, TakenOrdered
      <4>2. ~(Back(b).iface.bytes <= Taken.iface.bytes) \/ ~(Back(b).client.bytes <= Taken.client.bytes)
        BY <3>4, <3>6, LessIsNotMore
      <4> QED  BY <4>1, <4>2
    <3>8. announced <= Back(b).falls /\ Back(b).falls <= Fallen  BY TakenOrdered
    <3> QED  BY <1>1, <1>2, <3>1, <3>6, <3>7, <3>8 DEF ResetsNotRepeated
  <2> QED  BY <2>1, <2>2
<1>10. SpansNoReset'
  <2> SUFFICES ASSUME report'.quality \in {"idle", "ok"}
               PROVE  compared'.healed <= compared'.failed
    BY DEF SpansNoReset
  <2>1. PICK b \in 0..ring.count-1 : Oldest(Pushed) = Back(b)
    BY <1>1, StatusEffect, VerdictCases
  <2>2. heals + Back(b).failures <= failures + Back(b).heals  BY DEF IInv, HeldSinceHeal
  <2>3. Back(b).heals \in Nat /\ Back(b).failures \in Nat
    BY <1>1, HeldType DEF Samples
  <2>4. compared'.healed = heals - Back(b).heals /\ compared'.failed = failures - Back(b).failures
    BY <1>1, <1>2, <1>6, <2>1, StatusEffect
  <2> QED  BY <1>6, <2>2, <2>3, <2>4
<1> QED  BY <1>4, <1>5, <1>7, <1>8, <1>9, <1>10 DEF IInv

\* Nothing but a status call and a reset of the rates touches the ring, and
\* these steps do not touch the filters either.
LEMMA OthersKeepInv ==
  ASSUME IInv,
         \/ Wait
         \/ \E c \in Counters : LinkMoves(c) \/ \E s \in Sources : Collected(s, c)
         \/ \E p \in SUBSET Nss : PolicyMoves(p)
         \/ UNCHANGED vars
  PROVE  IInv' /\ ring' = ring /\ report' = report
<1>1. UNCHANGED <<ring, heals, failures, report, falls, last, announced, compared>>
  BY DEF Wait, LinkMoves, Collected, PolicyMoves, vars, outcome
<1>2. TypeOK'
  <2>1. CASE Wait
    BY <1>1, <2>1, Bounds DEF IInv, TypeOK, Wait
  <2>2. CASE \E c \in Counters : LinkMoves(c)
    BY <1>1, <2>2, Bounds DEF IInv, TypeOK, LinkMoves, Change
  <2>3. CASE \E c \in Counters, s \in Sources : Collected(s, c)
    BY <1>1, <2>3, Bounds DEF IInv, TypeOK, Collected, Change
  <2>4. CASE \E p \in SUBSET Nss : PolicyMoves(p)
    BY <1>1, <2>4, Bounds DEF IInv, TypeOK, PolicyMoves, Change
  <2>5. CASE UNCHANGED vars
    BY <1>1, <2>5 DEF IInv, TypeOK, vars
  <2> QED  BY <2>1, <2>2, <2>3, <2>4, <2>5
<1>3. HeldSinceHeal' /\ HeldOrdered'
  BY <1>1 DEF IInv, HeldSinceHeal, HeldOrdered, Back, Abstract!Complete
<1>4. ResetsNotRepeated' /\ SpansNoReset'
  BY <1>1 DEF IInv, ResetsNotRepeated, SpansNoReset
<1> QED  BY <1>1, <1>2, <1>3, <1>4 DEF IInv

LEMMA ResetKeepsInv ==
  ASSUME IInv, ResetRates
  PROVE  IInv' /\ ring'.count = 0 /\ report' = report
<1>1. ring \in Rings(Window, Samples)  BY DEF IInv, TypeOK
<1>2. ring' \in Rings(Window, Samples) /\ ring'.count = 0
  BY <1>1, ClearIsRing DEF ResetRates
<1>3. UNCHANGED <<clock, link, preferred, enabled, failures>> /\ UNCHANGED outcome
  BY DEF ResetRates
<1>4. TypeOK'
  <2>1. totals' \in [Sources -> Counters]
    BY CounterTypes DEF IInv, TypeOK, ResetRates
  <2>2. events' \in 0..MaxEvents /\ heals' \in Nat
    BY Bounds DEF IInv, TypeOK, ResetRates, Change
  <2> QED  BY <1>2, <1>3, <2>1, <2>2 DEF IInv, TypeOK, outcome, Nss
<1>5. HeldSinceHeal' /\ HeldOrdered'  BY <1>2 DEF HeldSinceHeal, HeldOrdered
<1>6. ResetsNotRepeated' /\ SpansNoReset'
  BY <1>3 DEF IInv, outcome, ResetsNotRepeated, SpansNoReset
<1> QED  BY <1>2, <1>3, <1>4, <1>5, <1>6 DEF IInv, outcome

LEMMA OneMoreEach ==
  ASSUME NEW h \in Nat, NEW f \in Nat, NEW old \in Nat, NEW oldf \in Nat, NEW new \in Nat,
         h + oldf <= f + old, new <= h + 1
  PROVE  new + oldf <= (f + 1) + old
OBVIOUS

\* A recovery that failed counts for the one filter it may have restored.
LEMMA FailureKeepsInv ==
  ASSUME IInv, NEW restored \in BOOLEAN, RecoveryFails(restored)
  PROVE  IInv' /\ ring' = ring /\ report' = report
<1>1. UNCHANGED <<clock, link, totals, preferred, enabled, ring>> /\ UNCHANGED outcome
  BY DEF RecoveryFails
<1>2. /\ heals \in Nat /\ failures \in Nat
      /\ heals' \in Nat /\ heals' <= heals + 1 /\ failures' = failures + 1
  <2>1. heals \in Nat /\ failures \in Nat  BY DEF IInv, TypeOK
  <2>2. heals' \in {heals, heals + 1} /\ failures' = failures + 1  BY DEF RecoveryFails
  <2> QED  BY <2>1, <2>2
<1>3. TypeOK'
  <2>1. events' \in 0..MaxEvents  BY Bounds DEF IInv, TypeOK, RecoveryFails, Change
  <2> QED  BY <1>1, <1>2, <2>1 DEF IInv, TypeOK, outcome, Nss
<1>4. HeldSinceHeal'
  <2> SUFFICES ASSUME NEW b \in 0..ring.count-1
               PROVE  heals' + Back(b).failures <= failures' + Back(b).heals
    BY <1>1 DEF HeldSinceHeal, Back
  <2>1. heals + Back(b).failures <= failures + Back(b).heals  BY DEF IInv, HeldSinceHeal
  <2>2. Back(b).heals \in Nat /\ Back(b).failures \in Nat
    BY HeldType DEF IInv, Samples
  <2> QED  BY <1>2, <2>1, <2>2, OneMoreEach
<1>5. HeldOrdered'
  BY <1>1 DEF IInv, HeldOrdered, Back, outcome, Abstract!Complete
<1>6. ResetsNotRepeated' /\ SpansNoReset'
  BY <1>1 DEF IInv, outcome, ResetsNotRepeated, SpansNoReset
<1> QED  BY <1>1, <1>3, <1>4, <1>5, <1>6 DEF IInv, outcome

LEMMA StepKeepsInv == IInv /\ [Next]_vars => IInv'
BY StatusKeepsInv, OthersKeepInv, ResetKeepsInv, FailureKeepsInv DEF Next

LEMMA Invariance == Spec => []IInv
BY InitInv, StepKeepsInv, PTL DEF Spec

----------------------------------------------------------------------------
(* What follows from the invariant *)

\* Every value is of its type, and the ring never writes outside its slots.
THEOREM TypeCorrect == Spec => []TypeOK
<1>1. IInv => TypeOK  BY DEF IInv
<1> QED  BY <1>1, Invariance, PTL

\* One decrease of a counter is reported once.
THEOREM AnnouncedOnce == Spec => []ResetsNotRepeated
<1>1. IInv => ResetsNotRepeated  BY DEF IInv
<1> QED  BY <1>1, Invariance, PTL

\* A figure compares samples from before a restored filter or a switch with
\* samples after it only where that recovery or switch failed.
THEOREM NeverAcrossReset == Spec => []SpansNoReset
<1>1. IInv => SpansNoReset  BY DEF IInv
<1> QED  BY <1>1, Invariance, PTL

----------------------------------------------------------------------------
(* The ring as a sliding window *)

Readings == [ts : 0..MaxTime, iface : Counters, client : Counters, supported : BOOLEAN]

\* The sequence a ring stands for.
View(r) == [n \in 1..r.count |-> Plain(SampleAt(r, Window, r.count - n))]

LEMMA ViewType ==
  ASSUME NEW r \in Rings(Window, Samples)
  PROVE  View(r) \in Seq(Readings) /\ Len(View(r)) = r.count
<1>1. r.count \in 0..Window  BY DEF Rings
<1>2. ASSUME NEW n \in 1..r.count
      PROVE  Plain(SampleAt(r, Window, r.count - n)) \in Readings
  <2>1. r.count - n \in 0..Window-1  BY <1>1
  <2>2. SampleAt(r, Window, r.count - n) \in Samples  BY <2>1, SampleType
  <2> QED  BY <2>2 DEF Samples, Plain, Readings
<1>3. View(r) \in [1..r.count -> Readings]  BY <1>2 DEF View
<1> QED  BY <1>1, <1>3

LEMMA EmptyView ==
  ASSUME NEW r \in Rings(Window, Samples), r.count = 0
  PROVE  View(r) = <<>>
BY ViewType, EmptySeq

\* Pushing the new sample is appending its reading and keeping the last Window.
LEMMA PushSlides ==
  ASSUME TypeOK
  PROVE  View(Pushed) = Abstract!Latest(Append(View(ring), Reading))
<1> DEFINE w == View(ring)
           a == Append(w, Reading)
           k == ring.count
<1>1. ring \in Rings(Window, Samples) /\ k \in 0..Window  BY DEF TypeOK, Rings
<1>2. w \in Seq(Readings) /\ Len(w) = k  BY <1>1, ViewType
<1>3. Reading \in Readings  BY ReadingType DEF Readings
<1>4. /\ a \in Seq(Readings) /\ Len(a) = k + 1
      /\ \A n \in 1..k : a[n] = w[n]
      /\ a[k + 1] = Reading
  BY <1>2, <1>3, AppendProperties
<1>5. \A n \in 1..k : w[n] = Plain(Back(k - n))  BY DEF View, Back
<1>6. Pushed \in Rings(Window, Samples)  BY PushedHolds
<1>7. View(Pushed) \in Seq(Readings) /\ Len(View(Pushed)) = Pushed.count
  BY <1>6, ViewType
<1>8. /\ Pushed.count \in 1..Window
      /\ \A n \in 1..Pushed.count :
           View(Pushed)[n] = IF n = Pushed.count THEN Reading
                             ELSE Plain(Back(Pushed.count - n - 1))
  <2>1. Pushed.count \in 1..Window  BY PushedHolds
  <2>2. ASSUME NEW n \in 1..Pushed.count
        PROVE  View(Pushed)[n] = IF n = Pushed.count THEN Reading
                                 ELSE Plain(Back(Pushed.count - n - 1))
    <3>1. View(Pushed)[n] = Plain(SampleAt(Pushed, Window, Pushed.count - n))  BY DEF View
    <3>2. CASE n = Pushed.count
      <4>1. Pushed.count - n = 0  BY <2>1, <3>2
      <4> QED  BY <3>1, <3>2, <4>1, PushedHolds, TakenType
    <3>3. CASE n # Pushed.count
      <4>1. Pushed.count - n \in 1..Pushed.count-1  BY <2>1, <3>3
      <4> QED  BY <3>1, <3>3, <4>1, PushedHolds
    <3> QED  BY <3>2, <3>3
  <2> QED  BY <2>1, <2>2
<1>9. CASE k < Window
  <2>1. Pushed.count = k + 1  BY <1>9, PushedHolds
  <2>2. Abstract!Latest(a) = a  BY <1>1, <1>4, <1>9 DEF Abstract!Latest
  <2>3. ASSUME NEW n \in 1..k+1  PROVE View(Pushed)[n] = a[n]
    <3> HIDE DEF a, w, k
    <3>1. CASE n = k + 1  BY <1>4, <1>8, <2>1, <3>1
    <3>2. CASE n # k + 1
      <4>1. n \in 1..k /\ Pushed.count - n - 1 = k - n  BY <1>1, <2>1, <3>2
      <4> QED  BY <1>4, <1>5, <1>8, <2>1, <3>2, <4>1
    <3> QED  BY <3>1, <3>2
  <2>4. View(Pushed) = a
    <3> HIDE DEF a, w, k
    <3> QED  BY <1>4, <1>7, <2>1, <2>3, SeqEqual
  <2> QED  BY <2>2, <2>4
<1>10. CASE k = Window
  <2>1. Pushed.count = k  BY <1>10, PushedHolds
  <2>2. Abstract!Latest(a) = Tail(a)  BY <1>1, <1>4, <1>10 DEF Abstract!Latest
  <2>3. a # <<>>  BY <1>2, <1>3, AppendProperties
  <2>4. /\ Tail(a) \in Seq(Readings) /\ Len(Tail(a)) = k
        /\ \A n \in 1..k : Tail(a)[n] = a[n + 1]
    <3> HIDE DEF a, w, k
    <3>1. /\ Tail(a) \in Seq(Readings) /\ Len(Tail(a)) = Len(a) - 1
          /\ \A n \in 1..Len(Tail(a)) : Tail(a)[n] = a[n + 1]
      BY <1>4, <2>3, HeadTailProperties
    <3> QED  BY <1>1, <1>4, <3>1
  <2>5. ASSUME NEW n \in 1..k  PROVE View(Pushed)[n] = Tail(a)[n]
    <3> HIDE DEF a, w, k
    <3>1. CASE n = k  BY <1>4, <1>8, <2>1, <2>4, <3>1
    <3>2. CASE n # k
      <4>1. n + 1 \in 1..k /\ Pushed.count - n - 1 = k - (n + 1)  BY <1>1, <2>1, <3>2
      <4> QED  BY <1>4, <1>5, <1>8, <2>1, <2>4, <3>2, <4>1
    <3> QED  BY <3>1, <3>2
  <2>6. View(Pushed) = Tail(a)
    <3> HIDE DEF a, w, k
    <3> QED  BY <1>7, <2>1, <2>4, <2>5, SeqEqual
  <2> QED  BY <2>2, <2>6
<1> QED  BY <1>1, <1>9, <1>10

LEMMA PlainCompares ==
  ASSUME NEW s, NEW t
  PROVE  /\ Abstract!Complete(Plain(s)) <=> Abstract!Complete(s)
         /\ Plain(s).ts = s.ts /\ Plain(s).supported = s.supported
         /\ Abstract!Judge(Plain(s), Plain(t)) = Abstract!Judge(s, t)
BY DEF Plain, Abstract!Complete, Abstract!Judge

\* The verdict on the ring is the verdict on the sequence it stands for.
LEMMA SameVerdict ==
  ASSUME TypeOK
  PROVE  Verdict(Taken, Oldest(Pushed)) = Abstract!Verdict(View(Pushed))
<1> DEFINE w == View(Pushed)
           k == Pushed.count
           complete == {n \in 1..Len(w) : Abstract!Complete(w[n])}
           first == CHOOSE n \in complete : \A m \in complete : n <= m
<1>1. Pushed \in Rings(Window, Samples) /\ k \in 1..Window  BY PushedHolds
<1>2. Len(w) = k  BY <1>1, ViewType
<1>3. \A n \in 1..k : w[n] = Plain(SampleAt(Pushed, Window, k - n))  BY DEF View
<1>4. w[Len(w)] = Plain(Taken)
  <2>1. k - k = 0 /\ k \in 1..k  BY <1>1
  <2> QED  BY <1>2, <1>3, <2>1, PushedHolds
<1>5. Abstract!Verdict(w)
        = IF ~Taken.supported THEN Abstract!Report("unsupported", 0, 0, 0)
          ELSE IF Abstract!Complete(Taken) /\ Taken.ts > w[first].ts
               THEN Abstract!Judge(Plain(Taken), w[first])
          ELSE Abstract!Warmup
  BY <1>4, PlainCompares DEF Abstract!Verdict
<1>6. CASE ~Abstract!Complete(Taken)
  BY <1>5, <1>6 DEF Verdict
<1>7. CASE Abstract!Complete(Taken)
  <2>1. 0 \in 0..k-1 /\ Abstract!Complete(SampleAt(Pushed, Window, 0))
    BY <1>1, <1>7, PushedHolds
  <2>2. PICK b \in 0..k-1 :
           /\ Oldest(Pushed) = SampleAt(Pushed, Window, b)
           /\ Abstract!Complete(SampleAt(Pushed, Window, b))
           /\ \A d \in 0..k-1 : Abstract!Complete(SampleAt(Pushed, Window, d)) => d <= b
    BY <1>1, <2>1, OldestIs
  <2>3. k - b \in 1..k /\ k - (k - b) = b  BY <1>1
  <2>4. w[k - b] = Plain(Oldest(Pushed))  BY <1>3, <2>2, <2>3
  <2>5. k - b \in complete  BY <1>2, <2>2, <2>3, <2>4, PlainCompares
  <2>6. \A m \in complete : k - b <= m
    <3> SUFFICES ASSUME NEW m \in 1..k, Abstract!Complete(w[m])  PROVE k - b <= m
      BY <1>2
    <3>1. Abstract!Complete(SampleAt(Pushed, Window, k - m)) /\ k - m \in 0..k-1
      BY <1>1, <1>3, PlainCompares
    <3>2. k - m <= b  BY <2>2, <3>1
    <3> QED  BY <1>1, <3>2
  <2>7. first = k - b
    <3>1. complete \in SUBSET Nat  OBVIOUS
    <3>2. first \in complete /\ \A m \in complete : first <= m  BY <2>5, <2>6
    <3>3. first <= k - b /\ k - b <= first /\ first \in Nat /\ k - b \in Nat
      BY <2>3, <2>5, <2>6, <3>1, <3>2
    <3> HIDE DEF first, complete
    <3> QED  BY <3>3
  <2>8. w[first] = Plain(Oldest(Pushed))  BY <2>4, <2>7
  <2>9. w[first].ts = Oldest(Pushed).ts
        /\ Abstract!Judge(Plain(Taken), w[first]) = Abstract!Judge(Taken, Oldest(Pushed))
    BY <2>8, PlainCompares
  <2> QED  BY <1>5, <1>7, <2>9 DEF Verdict
<1> QED  BY <1>6, <1>7

LEMMA StatusRefines ==
  ASSUME IInv, Status
  PROVE  Abstract!Status
<1>1. TypeOK  BY DEF IInv
<1>2. View(Pushed) = Abstract!Latest(Append(View(ring), Reading))  BY <1>1, PushSlides
<1>3. report' = Abstract!Verdict(View(Pushed))  BY <1>1, StatusEffect, SameVerdict
<1>4. View(ring') = IF report'.quality = "counter_reset" THEN <<>> ELSE View(Pushed)
  <2>1. CASE report'.quality = "counter_reset"
    <3>1. ring' = Clear(Pushed)  BY <1>1, <2>1, StatusEffect
    <3>2. ring' \in Rings(Window, Samples) /\ ring'.count = 0
      BY <1>1, <3>1, PushedHolds, ClearIsRing
    <3> QED  BY <2>1, <3>2, EmptyView
  <2>2. CASE report'.quality # "counter_reset"
    BY <1>1, <2>2, StatusEffect
  <2> QED  BY <2>1, <2>2
<1>5. Reading' = Reading
  BY DEF Status, observed, Reading, ClientBytes
<1> QED  BY <1>2, <1>3, <1>4, <1>5 DEF Abstract!Status, View

LEMMA StepRefines ==
  ASSUME IInv, [Next]_vars
  PROVE  [Abstract!Next]_<<Reading, View(ring), report>>
<1>1. CASE Status  BY <1>1, StatusRefines DEF Abstract!Next
<1>2. CASE ResetRates
  <2>1. ring'.count = 0 /\ report' = report /\ ring' \in Rings(Window, Samples)
    BY <1>2, ResetKeepsInv DEF IInv, TypeOK
  <2>2. View(ring') = <<>>  BY <2>1, EmptyView
  <2> QED  BY <2>1, <2>2 DEF Abstract!Next, Abstract!Observe, View
<1>3. CASE ~Status /\ ~ResetRates
  <2>1. ring' = ring /\ report' = report  BY <1>3, OthersKeepInv, FailureKeepsInv DEF Next
  <2>2. View(ring') = View(ring)  BY <2>1
  <2> QED  BY <2>1, <2>2 DEF Abstract!Next, Abstract!Observe, View
<1> QED  BY <1>1, <1>2, <1>3

\* The ring buffer with its wrap-around, its stale slots and its search for
\* the oldest sample does what CoverageWindow promises.
THEOREM Refines == Spec => SlidesOverWindow
<1>1. Init => Abstract!Init
  <2> SUFFICES ASSUME Init PROVE Abstract!Init  OBVIOUS
  <2>1. ring \in Rings(Window, Samples) /\ ring.count = 0
    BY InitInv DEF Init, EmptyRing, IInv, TypeOK
  <2>2. View(ring) = <<>>  BY <2>1, EmptyView
  <2> QED  BY <2>2 DEF Init, Abstract!Init, View
<1>2. IInv /\ [Next]_vars => [Abstract!Next]_<<Reading, View(ring), report>>
  BY StepRefines
<1> QED  BY <1>1, <1>2, Invariance, PTL DEF Spec, SlidesOverWindow, Abstract!Spec, View
=============================================================================
