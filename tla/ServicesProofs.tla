--------------------------- MODULE ServicesProofs ---------------------------
(***************************************************************************)
(* The overview shows the newest samples for any size of its ring, the     *)
(* interface rates never show a byte twice for any interfaces and budgets, *)
(* the names of the hostname cache are those of files left alone for its   *)
(* refresh interval, for files of any content and any addresses, and a     *)
(* sample counts as active just the clients that it should.                *)
(***************************************************************************)
EXTENDS Services, DataLemmas

USE LinksAssumption, WidthAssumption, OverviewAssumption

----------------------------------------------------------------------------
(* The overview ring *)

\* The ring holds the newest of the samples in S that were pushed.
Holds(S) ==
  /\ ring \in Rings(Window, S) /\ pushed \in Seq(S)
  /\ ring.count = IF Len(pushed) < Window THEN Len(pushed) ELSE Window
  /\ \A b \in 0..ring.count-1 : SampleAt(ring, Window, b) = pushed[Len(pushed) - b]

RingInv == \E S : Holds(S)

LEMMA RingInit == Init => RingInv
<1> SUFFICES ASSUME Init PROVE Holds({NoSample})
  BY DEF RingInv
<1>1. ring \in Rings(Window, {NoSample}) /\ ring.count = 0
  BY EmptyIsRing DEF Init, OverviewInit, EmptyRing
<1>2. pushed = <<>> /\ Len(pushed) = 0  BY DEF Init, OverviewInit
<1> QED  BY <1>1, <1>2 DEF Holds

\* Pushing one sample keeps the ring in step with the history.
LEMMA PushKeeps ==
  ASSUME NEW S, Holds(S), NEW s, ring' = Push(ring, Window, s), pushed' = Append(pushed, s)
  PROVE  Holds(S \union {s})'
<1> DEFINE T == S \union {s}
<1>1. Window \in Nat \ {0} /\ s \in T  OBVIOUS
<1>2. ring \in Rings(Window, T)  BY DEF Holds, Rings
<1>3. pushed \in Seq(T)  BY DEF Holds
<1>4. /\ ring' \in Rings(Window, T)
      /\ ring'.count = IF ring.count < Window THEN ring.count + 1 ELSE ring.count
  BY <1>1, <1>2, PushIsRing
<1>5. /\ pushed' \in Seq(T) /\ Len(pushed') = Len(pushed) + 1
      /\ pushed'[Len(pushed) + 1] = s
      /\ \A k \in 1..Len(pushed) : pushed'[k] = pushed[k]
  BY <1>1, <1>3
<1>6. Len(pushed) \in Nat  BY <1>3
<1>7. ring'.count = IF Len(pushed') < Window THEN Len(pushed') ELSE Window
  BY <1>1, <1>4, <1>5, <1>6 DEF Holds
<1>8. ASSUME NEW b \in 0..ring'.count-1
      PROVE  SampleAt(ring', Window, b) = pushed'[Len(pushed') - b]
  <2>1. CASE b = 0
    <3>1. SampleAt(ring', Window, 0) = s  BY <1>1, <1>2, PushNewest
    <3> QED  BY <2>1, <3>1, <1>5, <1>6
  <2>2. CASE b # 0
    <3> DEFINE c == b - 1
    <3>1. c \in 0..Window-2 /\ c \in 0..ring.count-1 /\ b = c + 1
      BY <1>1, <1>4, <2>2, <1>6 DEF Holds
    <3> HIDE DEF c
    <3>2. SampleAt(ring', Window, c + 1) = SampleAt(ring, Window, c)
      BY <1>1, <1>2, <3>1, PushOlder
    <3>3. SampleAt(ring, Window, c) = pushed[Len(pushed) - c]  BY <3>1 DEF Holds
    <3>4. Len(pushed) - c \in 1..Len(pushed)  BY <3>1, <1>1, <1>6 DEF Holds
    <3>5. Len(pushed') - b = Len(pushed) - c  BY <3>1, <1>5, <1>6
    <3> QED  BY <3>1, <3>2, <3>3, <3>4, <3>5, <1>5
  <2> QED  BY <2>1, <2>2
<1> QED  BY <1>4, <1>5, <1>7, <1>8 DEF Holds

LEMMA RingStep == RingInv /\ [Next]_vars => RingInv'
<1> SUFFICES ASSUME RingInv, [Next]_vars PROVE RingInv'
  OBVIOUS
<1>1. PICK S : Holds(S)  BY DEF RingInv
<1>2. CASE ClientsAnswer
  <2>1. PICK s : ring' = Push(ring, Window, s) /\ pushed' = Append(pushed, s)
    BY <1>2 DEF ClientsAnswer, PushOverview
  <2>2. Holds(S \union {s})'  BY <1>1, <2>1, PushKeeps
  <2> QED  BY <2>2 DEF RingInv
<1>3. CASE UNCHANGED <<ring, pushed>>
  <2>1. Holds(S)'  BY <1>1, <1>3 DEF Holds
  <2> QED  BY <2>1 DEF RingInv
<1>4. ClientsAnswer \/ UNCHANGED <<ring, pushed>>
  BY DEF Next, vars, overview, ClientsCall, NamesStep, InterfacesCall, Collect, World, TickCollects,
         SwitchCollects, Walk, OverviewStep, ReadEntry, Collected, OverviewWorld, Frame
<1> QED  BY <1>2, <1>3, <1>4

\* The last n elements of a sequence.
LEMMA LastElements ==
  ASSUME NEW S, NEW s \in Seq(S), NEW n \in 0..Len(s)
  PROVE  SubSeq(s, Len(s) - n + 1, Len(s)) = [k \in 1..n |-> s[Len(s) - (n - k)]]
<1> DEFINE len == Len(s)
           a == len - n + 1
<1>1. len \in Nat /\ n \in Nat /\ n <= len  OBVIOUS
<1>2. SubSeq(s, a, len) = [k \in 1..(len - a + 1) |-> s[a + k - 1]]
  BY <1>1
<1>3. len - a + 1 = n  BY <1>1
<1>4. ASSUME NEW k \in 1..n PROVE a + k - 1 = len - (n - k)
  BY <1>1
<1> HIDE DEF len, a
<1>5. [k \in 1..n |-> s[a + k - 1]] = [k \in 1..n |-> s[len - (n - k)]]
  BY <1>4
<1>6. SubSeq(s, a, len) = [k \in 1..n |-> s[len - (n - k)]]  BY <1>2, <1>3, <1>5
<1> QED  BY <1>6 DEF a, len

LEMMA RingShows == RingInv => WindowShown
<1> SUFFICES ASSUME NEW S, Holds(S) PROVE WindowShown
  BY DEF RingInv
<1> DEFINE n == IF ring.count < Samples THEN ring.count ELSE Samples
           m == IF Len(pushed) < Samples THEN Len(pushed) ELSE Samples
           len == Len(pushed)
<1>1. len \in Nat /\ pushed \in Seq(S) /\ ring.count \in 0..Window
  BY DEF Holds, Rings
<1>2. n = m /\ n \in Nat /\ n <= len /\ n <= ring.count
  BY <1>1 DEF Holds
<1>3. ASSUME NEW k \in 1..n
      PROVE  SampleAt(ring, Window, n - k) = pushed[len - (n - k)]
  <2> HIDE DEF n
  <2>1. n - k \in 0..ring.count-1  BY <1>1, <1>2
  <2> QED  BY <2>1 DEF Holds
<1>4. Shown = [k \in 1..n |-> pushed[len - (n - k)]]
  <2>1. Shown = [k \in 1..n |-> SampleAt(ring, Window, n - k)]  BY DEF Shown
  <2> HIDE DEF n, len
  <2> QED  BY <2>1, <1>3
<1>5. SubSeq(pushed, len - n + 1, len) = [k \in 1..n |-> pushed[len - (n - k)]]
  <2>1. n \in 0..Len(pushed)  BY <1>1, <1>2
  <2> HIDE DEF n
  <2> QED  BY <1>1, <2>1, LastElements, Zenon
<1>6. WindowShown <=> Shown = SubSeq(pushed, len - m + 1, len)
  BY DEF WindowShown
<1> HIDE DEF n, m, len
<1> QED  BY <1>2, <1>4, <1>5, <1>6

\* `overview` shows the newest samples taken, in order, whatever the size of
\* the ring and of the window to show (overview_push_from_clients and
\* overview_method).
THEOREM OverviewShowsNewest == Spec => []WindowShown
BY RingInit, RingStep, RingShows, PTL DEF Spec

----------------------------------------------------------------------------
(* The rates of the interfaces *)

\* How far a counter is ahead of an older value.
Above(a, b) == IF a >= b THEN a - b ELSE 0

InterfacesType ==
  /\ now \in Nat /\ walk.back \in {"idle", "answer"}
  /\ link \in [Ifaces -> [up : BOOLEAN, bytes : Nat, made : Nat]]
  /\ previous \in [Ifaces -> [valid : BOOLEAN, bytes : Nat, ms : Nat]]
  /\ poll \in [ms : Nat, at : 1..Len(IfaceSeq), ok : BOOLEAN, bytes : Nat, made : Nat]
  /\ moved \in [Ifaces -> Nat] /\ shown \in [Ifaces -> Nat]

\* What the next rate of an interface would be based on, were its counter read
\* now, has not been shown yet; nor has anything a new device counted.
Unshown(i) ==
  /\ shown[i] <= moved[i]
  /\ previous[i].valid => shown[i] + Above(link[i].bytes, previous[i].bytes) <= moved[i]
  /\ link[i].bytes < Width /\ (~link[i].up => link[i].bytes = 0)

\* The rate about to be shown, and what follows the counter just read.
Due == IF previous[I].valid THEN RateBytes(previous[I]) ELSE 0

\* The interface that is being read: its device is the one opened, or a newer
\* one of which nothing has been shown.
Reading ==
  /\ job = "read" => /\ poll.made <= link[I].made
                     /\ ~link[I].up \/ link[I].made # poll.made
                          => shown[I] + link[I].bytes <= moved[I]
  /\ job = "settle" /\ poll.ok => shown[I] + Due + Above(link[I].bytes, poll.bytes) <= moved[I]

RatesInv == InterfacesType /\ (\A i \in Ifaces : Unshown(i)) /\ Reading

LEMMA CurrentInterface == InterfacesType => I \in Ifaces /\ poll.at \in Nat
BY DEF InterfacesType, I, Ifaces

LEMMA RatesInit == Init => RatesInv
<1> SUFFICES ASSUME Init PROVE RatesInv
  OBVIOUS
<1>1. Len(IfaceSeq) \in Nat /\ 1 \in 1..Len(IfaceSeq)  OBVIOUS
<1>2. InterfacesType
  BY <1>1 DEF Init, DaemonInit, InterfacesInit, OverviewInit, InterfacesType
<1>3. \A i \in Ifaces : Unshown(i)
  BY DEF Init, InterfacesInit, Unshown
<1>4. Reading  BY DEF Init, DaemonInit, Reading
<1> QED  BY <1>2, <1>3, <1>4 DEF RatesInv

\* What other handlers do meanwhile.
LEMMA OthersKeepRates ==
  ASSUME RatesInv, UNCHANGED interfaces, now' \in Nat, walk'.back \in {"idle", "answer"},
         job' = job \/ job' \notin {"read", "settle"}
  PROVE  RatesInv'
<1>1. InterfacesType'  BY DEF RatesInv, InterfacesType, interfaces
<1>2. (\A i \in Ifaces : Unshown(i))'  BY DEF RatesInv, Unshown, interfaces
<1>3. Reading'  BY DEF RatesInv, Reading, Due, RateBytes, I, interfaces
<1> QED  BY <1>1, <1>2, <1>3 DEF RatesInv

LEMMA StartPollKeeps ==
  ASSUME RatesInv, StartPoll, UNCHANGED walk
  PROVE  RatesInv'
<1>1. InterfacesType'
  <2>1. 1 \in 1..Len(IfaceSeq)  OBVIOUS
  <2> QED  BY <2>1 DEF RatesInv, StartPoll, InterfacesType
<1>2. (\A i \in Ifaces : Unshown(i))'  BY DEF RatesInv, StartPoll, Unshown
<1>3. Reading'  BY DEF StartPoll, Reading
<1> QED  BY <1>1, <1>2, <1>3 DEF RatesInv

LEMMA OpenKeeps ==
  ASSUME RatesInv, OpenCounter, UNCHANGED <<now, walk>>
  PROVE  RatesInv'
<1>1. I \in Ifaces  BY CurrentInterface DEF RatesInv
<1>2. I' = I  BY DEF RatesInv, OpenCounter, InterfacesType, I
<1>3. InterfacesType'  BY <1>1 DEF RatesInv, OpenCounter, InterfacesType
<1>4. (\A i \in Ifaces : Unshown(i))'  BY DEF RatesInv, OpenCounter, Unshown
<1>5. link[I].up => job' = "read" /\ poll'.made = link[I].made
  BY <1>1 DEF RatesInv, OpenCounter, InterfacesType
<1>6. ~link[I].up => job' = "settle" /\ ~poll'.ok
  BY <1>1 DEF RatesInv, OpenCounter, InterfacesType
<1>7. link[I].made \in Nat /\ link' = link  BY <1>1 DEF RatesInv, OpenCounter, InterfacesType
<1>8. Reading'
  <2>1. CASE link[I].up  BY <2>1, <1>2, <1>5, <1>7 DEF Reading
  <2>2. CASE ~link[I].up  BY <2>2, <1>6 DEF Reading
  <2> QED  BY <2>1, <2>2
<1> QED  BY <1>3, <1>4, <1>8 DEF RatesInv

\* What the invariant says of one interface, as numbers.
LEMMA InterfaceNumbers ==
  ASSUME InterfacesType, NEW i \in Ifaces
  PROVE  /\ link[i].bytes \in Nat /\ link[i].made \in Nat /\ link[i].up \in BOOLEAN
         /\ previous[i].bytes \in Nat /\ previous[i].valid \in BOOLEAN
         /\ moved[i] \in Nat /\ shown[i] \in Nat
         /\ poll.bytes \in Nat /\ poll.made \in Nat /\ poll.ok \in BOOLEAN
BY DEF InterfacesType

LEMMA ReadKeeps ==
  ASSUME RatesInv, ReadCounter, UNCHANGED <<now, walk>>
  PROVE  RatesInv'
<1> DEFINE same == link[I].up /\ link[I].made = poll.made
<1>1. I \in Ifaces /\ I' = I
  BY CurrentInterface DEF RatesInv, ReadCounter, InterfacesType, I
<1>2. /\ link[I].bytes \in Nat /\ previous[I].bytes \in Nat
      /\ moved[I] \in Nat /\ shown[I] \in Nat /\ poll.bytes \in Nat
  BY <1>1, InterfaceNumbers DEF RatesInv
<1>3. poll'.bytes = IF same THEN link[I].bytes ELSE 0
  BY DEF RatesInv, ReadCounter, InterfacesType
<1>4. InterfacesType'
  <2>1. (IF same THEN link[I].bytes ELSE 0) \in Nat  BY <1>2
  <2> HIDE DEF same
  <2> QED  BY <2>1 DEF RatesInv, ReadCounter, InterfacesType, same
<1>5. (\A i \in Ifaces : Unshown(i))'  BY DEF RatesInv, ReadCounter, Unshown
<1>6. Due' = IF previous[I].valid THEN Above(poll'.bytes, previous[I].bytes) ELSE 0
  BY <1>1 DEF Due, RateBytes, Above, ReadCounter
<1>7. shown[I] + Due' + Above(link[I].bytes, poll'.bytes) <= moved[I]
  <2>1. Unshown(I)  BY <1>1 DEF RatesInv
  <2>2. CASE same
    BY <2>1, <2>2, <1>2, <1>3, <1>6 DEF Unshown, Above
  <2>3. CASE ~same
    <3>1. shown[I] + link[I].bytes <= moved[I]
      BY <2>3 DEF RatesInv, Reading, ReadCounter
    <3> QED  BY <2>3, <3>1, <1>2, <1>3, <1>6 DEF Above
  <2> QED  BY <2>2, <2>3
<1>8. Reading'  BY <1>1, <1>7 DEF Reading, ReadCounter
<1> QED  BY <1>4, <1>5, <1>8 DEF RatesInv

LEMMA SettleKeeps ==
  ASSUME RatesInv, SettleInterface, UNCHANGED <<now, walk>>
  PROVE  RatesInv'
<1> DEFINE ok == poll.ok /\ link[I].up
           rated == ok /\ previous[I].valid /\ poll.ms > previous[I].ms
<1>1. I \in Ifaces  BY CurrentInterface DEF RatesInv
<1>2. /\ link[I].bytes \in Nat /\ previous[I].bytes \in Nat
      /\ moved[I] \in Nat /\ shown[I] \in Nat /\ poll.bytes \in Nat
  BY <1>1, InterfaceNumbers DEF RatesInv
<1>3. RateBytes(previous[I]) \in Nat  BY <1>2 DEF RateBytes
<1>4. /\ shown' = IF rated THEN [shown EXCEPT ![I] = @ + RateBytes(previous[I])] ELSE shown
      /\ previous' = IF ok THEN [previous EXCEPT ![I] = [valid |-> TRUE, bytes |-> poll.bytes, ms |-> poll.ms]]
                     ELSE previous
      /\ link' = link /\ moved' = moved
  BY DEF SettleInterface
<1>5. InterfacesType'
  <2>1. shown' \in [Ifaces -> Nat]
    <3>1. shown \in [Ifaces -> Nat]  BY DEF RatesInv, InterfacesType
    <3>2. shown[I] + RateBytes(previous[I]) \in Nat  BY <1>2, <1>3
    <3>3. [shown EXCEPT ![I] = @ + RateBytes(previous[I])] \in [Ifaces -> Nat]  BY <3>1, <3>2
    <3> QED  BY <3>1, <3>3, <1>4
  <2>2. previous' \in [Ifaces -> [valid : BOOLEAN, bytes : Nat, ms : Nat]]
    BY <1>1, <1>4 DEF RatesInv, InterfacesType
  <2>3. poll' \in [ms : Nat, at : 1..Len(IfaceSeq), ok : BOOLEAN, bytes : Nat, made : Nat]
    <3>1. CASE poll.at < Len(IfaceSeq)
      <4>1. poll.at \in 1..Len(IfaceSeq) /\ Len(IfaceSeq) \in Nat  BY DEF RatesInv, InterfacesType
      <4>2. poll.at + 1 \in 1..Len(IfaceSeq)  BY <3>1, <4>1
      <4> QED  BY <3>1, <4>2 DEF RatesInv, InterfacesType, SettleInterface
    <3>2. CASE ~(poll.at < Len(IfaceSeq))
      BY <3>2 DEF RatesInv, InterfacesType, SettleInterface
    <3> QED  BY <3>1, <3>2
  <2> QED  BY <2>1, <2>2, <2>3, <1>4 DEF RatesInv, InterfacesType
<1>6. ASSUME NEW i \in Ifaces PROVE Unshown(i)'
  <2>1. Unshown(i)  BY DEF RatesInv
  <2>2. CASE i # I
    <3>1. shown'[i] = shown[i] /\ previous'[i] = previous[i]
      BY <1>1, <1>4, <2>2 DEF RatesInv, InterfacesType
    <3> QED  BY <2>1, <3>1, <1>4 DEF Unshown
  <2>3. CASE i = I /\ ~ok
    BY <2>1, <2>3, <1>4 DEF Unshown
  <2>4. CASE i = I /\ ok
    <3>1. shown[I] + Due + Above(link[I].bytes, poll.bytes) <= moved[I]
      BY <2>4 DEF RatesInv, Reading, SettleInterface
    <3>2. shown'[I] <= shown[I] + Due /\ shown'[I] \in Nat
      <4>1. shown'[I] = IF rated THEN shown[I] + RateBytes(previous[I]) ELSE shown[I]
        BY <1>1, <1>4 DEF RatesInv, InterfacesType
      <4>2. CASE rated
        BY <4>1, <4>2, <1>2, <1>3 DEF Due
      <4>3. CASE ~rated
        <5>1. Due \in Nat  BY <1>3 DEF Due
        <5> HIDE DEF rated
        <5> QED  BY <4>1, <4>3, <5>1, <1>2
      <4> QED  BY <4>2, <4>3
    <3>3. previous'[I].valid /\ previous'[I].bytes = poll.bytes
      BY <2>4, <1>1, <1>4 DEF RatesInv, InterfacesType
    <3>4. Due \in Nat  BY <1>3 DEF Due
    <3>5. Above(link[I].bytes, poll.bytes) \in Nat  BY <1>2 DEF Above
    <3>6. shown'[I] + Above(link[I].bytes, poll.bytes) <= moved[I] /\ shown'[I] <= moved[I]
      BY <3>1, <3>2, <3>4, <3>5, <1>2
    <3> QED  BY <2>1, <2>4, <3>3, <3>6, <1>4 DEF Unshown
  <2> QED  BY <2>2, <2>3, <2>4
<1>7. Reading'  BY DEF Reading, SettleInterface
<1> QED  BY <1>5, <1>6, <1>7 DEF RatesInv

\* The same of the devices after a step.
LEMMA DeviceNumbers ==
  ASSUME NEW D, D \in [Ifaces -> [up : BOOLEAN, bytes : Nat, made : Nat]], NEW i \in Ifaces
  PROVE  D[i].bytes \in Nat /\ D[i].made \in Nat /\ D[i].up \in BOOLEAN
OBVIOUS

\* A device that counts on, or one without anything counted in its place.
LEMMA Onward ==
  ASSUME NEW s \in Nat, NEW c \in Nat, NEW b \in Nat, NEW b2 \in Nat, NEW m \in Nat, NEW m2 \in Nat,
         m2 >= m, b2 = 0 \/ b2 + m = b + m2, s + Above(b, c) <= m
  PROVE  s + Above(b2, c) <= m2
<1>1. CASE b2 = 0  BY <1>1 DEF Above
<1>2. CASE b2 + m = b + m2  BY <1>2 DEF Above
<1> QED  BY <1>1, <1>2

\* A step of device i: what it changes of the two invariants' terms.
LEMMA DeviceKeeps ==
  ASSUME RatesInv, NEW i \in Ifaces, UNCHANGED <<now, walk, job, previous, poll, shown>>,
         link' \in [Ifaces -> [up : BOOLEAN, bytes : Nat, made : Nat]],
         moved' \in [Ifaces -> Nat],
         \A k \in Ifaces \ {i} : link'[k] = link[k] /\ moved'[k] = moved[k],
         moved'[i] >= moved[i], link'[i].bytes < Width,
         link'[i].bytes = 0 \/ link'[i].bytes + moved[i] = link[i].bytes + moved'[i],
         link'[i].made >= link[i].made,
         ~link'[i].up => link'[i].bytes = 0,
         link'[i].made = link[i].made \/ link'[i].bytes = 0
  PROVE  RatesInv'
<1>1. InterfacesType'  BY DEF RatesInv, InterfacesType
<1>2. ASSUME NEW k \in Ifaces
      PROVE  /\ link'[k].bytes \in Nat /\ link'[k].made \in Nat /\ link'[k].up \in BOOLEAN
             /\ moved'[k] \in Nat
             /\ link[k].bytes \in Nat /\ link[k].made \in Nat /\ link[k].up \in BOOLEAN
             /\ previous[k].bytes \in Nat /\ moved[k] \in Nat /\ shown[k] \in Nat
             /\ poll.bytes \in Nat /\ poll.made \in Nat
  BY <1>2, DeviceNumbers, InterfaceNumbers DEF RatesInv
<1>3. ASSUME NEW k \in Ifaces
      PROVE  moved'[k] >= moved[k] /\ (link'[k].bytes = 0 \/ link'[k].bytes + moved[k] = link[k].bytes + moved'[k])
  <2>1. CASE k = i  BY <2>1
  <2>2. CASE k # i
    <3>1. link'[k] = link[k] /\ moved'[k] = moved[k]  BY <1>3, <2>2
    <3> QED  BY <1>2, <1>3, <3>1
  <2> QED  BY <2>1, <2>2
<1>4. ASSUME NEW k \in Ifaces PROVE Unshown(k)'
  <2>1. Unshown(k)  BY <1>4 DEF RatesInv
  <2> DEFINE s == shown[k]  m == moved[k]  m2 == moved'[k]
             b == link[k].bytes  b2 == link'[k].bytes  c == previous[k].bytes
  <2>n. s \in Nat /\ m \in Nat /\ m2 \in Nat /\ b \in Nat /\ b2 \in Nat /\ c \in Nat  BY <1>2, <1>4
  <2>m. m2 >= m /\ (b2 = 0 \/ b2 + m = b + m2)  BY <1>3, <1>4
  <2>2. shown'[k] <= moved'[k]
    <3>1. s <= m  BY <2>1 DEF Unshown
    <3>2. shown'[k] = s  OBVIOUS
    <3> HIDE DEF s, m, m2, b, b2
    <3>3. s <= m2  BY <2>n, <2>m, <3>1
    <3> QED  BY <3>2, <3>3 DEF m2
  <2>3. previous[k].valid => shown[k] + Above(link'[k].bytes, previous[k].bytes) <= moved'[k]
    <3>1. previous[k].valid => s + Above(b, c) <= m  BY <2>1 DEF Unshown
    <3> HIDE DEF s, m, m2, b, b2, c
    <3>2. s + Above(b, c) <= m => s + Above(b2, c) <= m2  BY <2>n, <2>m, Onward
    <3> QED  BY <3>1, <3>2 DEF s, b2, c, m2
  <2>4. link'[k].bytes < Width /\ (~link'[k].up => link'[k].bytes = 0)
    <3>1. CASE k = i  BY <3>1
    <3>2. CASE k # i
      <4>1. link'[k] = link[k]  BY <1>4, <3>2
      <4> QED  BY <2>1, <4>1 DEF Unshown
    <3> QED  BY <3>1, <3>2
  <2> QED  BY <2>2, <2>3, <2>4 DEF Unshown
<1>5. I' = I /\ I \in Ifaces /\ Due' = Due  BY CurrentInterface DEF RatesInv, I, Due, RateBytes
<1>6. ASSUME job = "read"
      PROVE  /\ poll.made <= link'[I].made
             /\ ~link'[I].up \/ link'[I].made # poll.made => shown[I] + link'[I].bytes <= moved'[I]
  <2>1. /\ poll.made <= link[I].made
        /\ ~link[I].up \/ link[I].made # poll.made => shown[I] + link[I].bytes <= moved[I]
    BY <1>6 DEF RatesInv, Reading
  <2>2. shown[I] <= moved[I]  BY <1>5 DEF RatesInv, Unshown
  <2>3. CASE I # i
    <3>1. link'[I] = link[I] /\ moved'[I] = moved[I]  BY <1>5, <2>3
    <3> QED  BY <2>1, <3>1
  <2>4. CASE I = i
    <3> DEFINE s == shown[I]  m == moved[I]  m2 == moved'[I]  b == link[I].bytes
               b2 == link'[I].bytes  g == link[I].made  g2 == link'[I].made  p == poll.made
    <3>n. /\ s \in Nat /\ m \in Nat /\ m2 \in Nat /\ b \in Nat /\ b2 \in Nat
          /\ g \in Nat /\ g2 \in Nat /\ p \in Nat
      BY <1>2, <1>5
    <3>1. g2 >= g /\ p <= g /\ s <= m  BY <2>1, <2>2, <2>4
    <3>2. ~link'[I].up => b2 = 0  BY <2>4
    <3>3. g2 = g \/ b2 = 0  BY <2>4
    <3>4. ~link[I].up \/ g # p => s + b <= m  BY <2>1
    <3>5. m2 >= m /\ (b2 = 0 \/ b2 + m = b + m2)  BY <1>3, <1>5
    <3> HIDE DEF s, m, m2, b, b2, g, g2, p
    <3>6. p <= g2  BY <3>n, <3>1
    <3>7. ASSUME ~link'[I].up \/ g2 # p PROVE s + b2 <= m2
      <4>1. CASE b2 = 0  BY <4>1, <3>n, <3>1, <3>5
      <4>2. CASE b2 # 0
        <5>1. g2 # p  BY <4>2, <3>2, <3>7
        <5>2. g # p  BY <4>2, <5>1, <3>3
        <5> QED  BY <4>2, <5>2, <3>n, <3>4, <3>5
      <4> QED  BY <4>1, <4>2
    <3> QED  BY <3>6, <3>7 DEF p, g2, s, b2, m2
  <2> QED  BY <2>3, <2>4
<1>7. ASSUME job = "settle", poll.ok
      PROVE  shown[I] + Due + Above(link'[I].bytes, poll.bytes) <= moved'[I]
  <2> DEFINE s == shown[I] + Due  m == moved[I]  m2 == moved'[I]
             b == link[I].bytes  b2 == link'[I].bytes  c == poll.bytes
  <2>1. Due \in Nat
    <3>1. poll.bytes \in Nat /\ previous[I].bytes \in Nat  BY <1>2, <1>5
    <3> DEFINE x == poll.bytes  y == previous[I].bytes
    <3>2. RateBytes(previous[I]) = IF x >= y THEN x - y ELSE 0  BY DEF RateBytes
    <3>3. x \in Nat /\ y \in Nat  BY <3>1
    <3> HIDE DEF x, y
    <3>4. RateBytes(previous[I]) \in Nat  BY <3>2, <3>3
    <3> QED  BY <3>4 DEF Due
  <2>2. s + Above(b, c) <= m  BY <1>7 DEF RatesInv, Reading
  <2>n. /\ m \in Nat /\ m2 \in Nat /\ b \in Nat /\ b2 \in Nat /\ c \in Nat
        /\ shown[I] \in Nat
    BY <1>2, <1>5
  <2>3. s \in Nat
    <3> DEFINE d == Due  x == shown[I]
    <3>1. d \in Nat /\ x \in Nat  BY <2>1, <2>n
    <3> HIDE DEF d, x
    <3>2. x + d \in Nat  BY <3>1
    <3> QED  BY <3>2 DEF d, x
  <2>4. m2 >= m /\ (b2 = 0 \/ b2 + m = b + m2)  BY <1>3, <1>5
  <2> HIDE DEF s, m, m2, b, b2, c
  <2>5. s + Above(b2, c) <= m2  BY <2>2, <2>n, <2>3, <2>4, Onward
  <2> QED  BY <2>5 DEF s, m2, b2, c
<1>8. Reading'  BY <1>5, <1>6, <1>7 DEF Reading
<1> QED  BY <1>1, <1>4, <1>8 DEF RatesInv

LEMMA TrafficKeeps ==
  ASSUME RatesInv, NEW i \in Ifaces, Traffic(i), UNCHANGED <<now, walk, job>>
  PROVE  RatesInv'
<1>1. link \in [Ifaces -> [up : BOOLEAN, bytes : Nat, made : Nat]] /\ moved \in [Ifaces -> Nat]
  BY DEF RatesInv, InterfacesType
<1> DEFINE b == link[i].bytes  next == (b + 1) % Width
<1>2. b \in 0..Width-1
  <2>1. b \in Nat /\ b < Width
    BY InterfaceNumbers DEF RatesInv, Unshown
  <2> HIDE DEF b
  <2> QED  BY <2>1
<1>3. next = (IF b + 1 = Width THEN 0 ELSE b + 1) /\ next \in Nat /\ next < Width
  <2> HIDE DEF b
  <2>1. (b + 1) % Width = IF b + 1 = Width THEN 0 ELSE b + 1
    BY <1>2, NextHead
  <2> QED  BY <1>2, <2>1
<1>4. /\ link[i].up /\ link' = [link EXCEPT ![i].bytes = next]
      /\ moved' = [moved EXCEPT ![i] = @ + 1]
      /\ UNCHANGED <<previous, poll, shown>>
  BY DEF Traffic
<1>5. moved[i] \in Nat /\ link[i].made \in Nat  BY InterfaceNumbers DEF RatesInv
<1> HIDE DEF next, b
<1>6. /\ link'[i].bytes = next /\ link'[i].up /\ link'[i].made = link[i].made
      /\ moved'[i] = moved[i] + 1
      /\ \A k \in Ifaces \ {i} : link'[k] = link[k] /\ moved'[k] = moved[k]
  BY <1>1, <1>4
<1>7. /\ link' \in [Ifaces -> [up : BOOLEAN, bytes : Nat, made : Nat]]
      /\ moved' \in [Ifaces -> Nat]
  <2>1. moved[i] + 1 \in Nat  BY <1>5
  <2>2. [link[i] EXCEPT !.bytes = next] \in [up : BOOLEAN, bytes : Nat, made : Nat]
    BY <1>1, <1>3
  <2>3. link' = [link EXCEPT ![i] = [link[i] EXCEPT !.bytes = next]]  BY <1>1, <1>4
  <2> QED  BY <1>1, <1>4, <2>1, <2>2, <2>3
<1>8. link'[i].bytes = 0 \/ link'[i].bytes + moved[i] = link[i].bytes + moved'[i]
  <2> DEFINE m == moved[i]
  <2>m. m \in Nat  BY <1>5
  <2>1. next = 0 \/ next + moved[i] = b + (moved[i] + 1)
    <3>1. next = 0 \/ (next = b + 1 /\ b \in Nat)  BY <1>2, <1>3
    <3> HIDE DEF m
    <3>2. next = 0 \/ next + m = b + (m + 1)  BY <3>1, <2>m
    <3> QED  BY <3>2 DEF m
  <2> QED  BY <2>1, <1>6 DEF b
<1>9. moved'[i] >= moved[i] /\ link'[i].made >= link[i].made  BY <1>5, <1>6
<1>10. link'[i].bytes < Width  BY <1>3, <1>6
<1> QED  BY <1>4, <1>6, <1>7, <1>8, <1>9, <1>10, DeviceKeeps

LEMMA LinkGoneKeeps ==
  ASSUME RatesInv, NEW i \in Ifaces, LinkGone(i), UNCHANGED <<now, walk, job>>
  PROVE  RatesInv'
<1>1. link \in [Ifaces -> [up : BOOLEAN, bytes : Nat, made : Nat]] /\ moved \in [Ifaces -> Nat]
  BY DEF RatesInv, InterfacesType
<1>2. /\ link' = [link EXCEPT ![i].up = FALSE, ![i].bytes = 0]
      /\ UNCHANGED <<previous, poll, moved, shown>>
  BY DEF LinkGone
<1>3. /\ link'[i].bytes = 0 /\ ~link'[i].up /\ link'[i].made = link[i].made
      /\ \A k \in Ifaces \ {i} : link'[k] = link[k] /\ moved'[k] = moved[k]
  BY <1>1, <1>2
<1>4. /\ link' \in [Ifaces -> [up : BOOLEAN, bytes : Nat, made : Nat]]
      /\ moved' \in [Ifaces -> Nat]
  BY <1>1, <1>2
<1>5. moved[i] \in Nat /\ link[i].made \in Nat  BY InterfaceNumbers DEF RatesInv
<1>6. moved'[i] >= moved[i] /\ link'[i].made >= link[i].made /\ link'[i].bytes < Width
  BY <1>2, <1>3, <1>5
<1> QED  BY <1>2, <1>3, <1>4, <1>6, DeviceKeeps

LEMMA LinkBackKeeps ==
  ASSUME RatesInv, NEW i \in Ifaces, LinkBack(i), UNCHANGED <<now, walk, job>>
  PROVE  RatesInv'
<1>1. link \in [Ifaces -> [up : BOOLEAN, bytes : Nat, made : Nat]] /\ moved \in [Ifaces -> Nat]
  BY DEF RatesInv, InterfacesType
<1>2. /\ ~link[i].up
      /\ link' = [link EXCEPT ![i].up = TRUE, ![i].made = @ + 1]
      /\ UNCHANGED <<previous, poll, moved, shown>>
  BY DEF LinkBack
<1>3. moved[i] \in Nat /\ link[i].made \in Nat /\ link[i].bytes = 0
  BY <1>1, <1>2 DEF RatesInv, Unshown
<1>4. /\ link'[i].bytes = 0 /\ link'[i].up /\ link'[i].made = link[i].made + 1
      /\ \A k \in Ifaces \ {i} : link'[k] = link[k] /\ moved'[k] = moved[k]
  BY <1>1, <1>2, <1>3
<1>5. /\ link' \in [Ifaces -> [up : BOOLEAN, bytes : Nat, made : Nat]]
      /\ moved' \in [Ifaces -> Nat]
  <2>1. link[i].made + 1 \in Nat  BY <1>3
  <2>2. [link[i] EXCEPT !.up = TRUE, !.made = @ + 1] \in [up : BOOLEAN, bytes : Nat, made : Nat]
    BY <1>1, <2>1
  <2>3. link' = [link EXCEPT ![i] = [link[i] EXCEPT !.up = TRUE, !.made = @ + 1]]
    BY <1>1, <1>2
  <2> QED  BY <1>1, <1>2, <2>2, <2>3
<1>6. moved'[i] >= moved[i] /\ link'[i].made >= link[i].made /\ link'[i].bytes < Width
  BY <1>2, <1>3, <1>4
<1> QED  BY <1>2, <1>4, <1>5, <1>6, DeviceKeeps

LEMMA RatesStep == RatesInv /\ [Next]_vars => RatesInv'
<1> SUFFICES ASSUME RatesInv, [Next]_vars PROVE RatesInv'
  OBVIOUS
<1>1. now \in Nat /\ walk.back \in {"idle", "answer"}  BY DEF RatesInv, InterfacesType
<1>2. CASE ClientsCall
  <2>1. UNCHANGED <<interfaces, now, walk>> /\ job' \notin {"read", "settle"}
    BY <1>2 DEF ClientsCall, RefreshNames, overview, snapshots
  <2> QED  BY <1>1, <2>1, OthersKeepRates
<1>3. CASE NamesStep
  <2>1. UNCHANGED <<interfaces, now, walk>> /\ job' \notin {"read", "settle"}
    BY <1>3 DEF NamesStep, HostnamesStep, ParseLeases, ParseHostsDir, ParseEtcHosts, overview, snapshots
  <2> QED  BY <1>1, <2>1, OthersKeepRates
<1>4. CASE ClientsAnswer
  <2>1. UNCHANGED <<interfaces, now, walk>> /\ job' \notin {"read", "settle"}
    BY <1>4 DEF ClientsAnswer, PushOverview, snapshots
  <2> QED  BY <1>1, <2>1, OthersKeepRates
<1>5. CASE InterfacesCall
  <2>1. UNCHANGED walk  BY <1>5 DEF InterfacesCall, overview, snapshots
  <2>2. CASE StartPoll  BY <2>1, <2>2, StartPollKeeps
  <2>3. CASE InterfacesStep /\ UNCHANGED now
    BY <2>1, <2>3, OpenKeeps, ReadKeeps, SettleKeeps DEF InterfacesStep
  <2> QED  BY <1>5, <2>2, <2>3 DEF InterfacesCall
<1>6. CASE Collect
  <2>1. CASE (TickCollects \/ SwitchCollects) /\ UNCHANGED interfaces
    <3>1. now' = now /\ job' = "walk" /\ walk'.back \in {"idle", "answer"}
      BY <2>1 DEF TickCollects, SwitchCollects, Walk
    <3> QED  BY <1>1, <2>1, <3>1, OthersKeepRates
  <2>2. CASE ReadEntry /\ UNCHANGED <<now, interfaces>>
    <3>1. job' = job /\ walk'.back \in {"idle", "answer"}
      BY <1>1, <2>2 DEF ReadEntry
    <3> QED  BY <1>1, <2>2, <3>1, OthersKeepRates
  <2>3. CASE Collected /\ UNCHANGED <<now, interfaces>>
    <3>1. job' = walk.back /\ walk' = walk  BY <2>3 DEF Collected
    <3> QED  BY <1>1, <2>3, <3>1, OthersKeepRates
  <2> QED  BY <1>6, <2>1, <2>2, <2>3 DEF Collect, OverviewStep
<1>7. CASE World
  <2>1. CASE Tick /\ UNCHANGED <<interfaces, overview>>
    <3>1. now' = now + 1 /\ job' = job /\ walk' = walk  BY <2>1 DEF Tick, overview, snapshots
    <3>2. now' \in Nat  BY <1>1, <3>1
    <3> QED  BY <1>1, <2>1, <3>1, <3>2, OthersKeepRates
  <2>2. CASE HostnamesWorld /\ UNCHANGED <<interfaces, overview>>
    <3>1. now' = now /\ job' = job /\ walk' = walk
      BY <2>2 DEF HostnamesWorld, EmptyLeases, FillLeases, WriteHosts, Write, overview, snapshots
    <3> QED  BY <1>1, <2>2, <3>1, OthersKeepRates
  <2>3. CASE InterfacesWorld /\ UNCHANGED <<now, job, overview>>
    <3>1. UNCHANGED <<now, walk, job>>  BY <2>3 DEF overview, snapshots
    <3>2. PICK i \in Ifaces : Traffic(i) \/ LinkGone(i) \/ LinkBack(i)
      BY <2>3 DEF InterfacesWorld
    <3> QED  BY <3>1, <3>2, TrafficKeeps, LinkGoneKeeps, LinkBackKeeps
  <2>4. CASE OverviewWorld /\ UNCHANGED interfaces
    <3>1. now' = now /\ job' = job /\ walk' = walk  BY <2>4 DEF OverviewWorld, Frame
    <3> QED  BY <1>1, <2>4, <3>1, OthersKeepRates
  <2> QED  BY <1>7, <2>1, <2>2, <2>3, <2>4 DEF World
<1>8. CASE UNCHANGED vars
  <2>1. UNCHANGED <<interfaces, now, job, walk>>  BY <1>8 DEF vars, daemon, overview, snapshots
  <2> QED  BY <1>1, <2>1, OthersKeepRates
<1> QED  BY <1>2, <1>3, <1>4, <1>5, <1>6, <1>7, <1>8 DEF Next

\* No byte is behind two rates of an interface, nor one that no device moved,
\* however many interfaces there are, however often they go and come back,
\* however wide their counters (interfaces_method).
THEOREM RatesShowOnlyMoved == Spec => []RatesAreMoved
<1>1. RatesInv => RatesAreMoved  BY DEF RatesInv, Unshown, RatesAreMoved
<1> QED  BY <1>1, RatesInit, RatesStep, PTL DEF Spec

----------------------------------------------------------------------------
(* The parsers of the hostname cache as chains, one link per line *)

\* What a cache can hold: functions on some of the clients or addresses.
Caches == [mac : Partial(Macs, Names), ip : Partial(Ips, Names)]

LEMMA OneLeaseType ==
  ASSUME NEW c \in Caches, NEW l \in LeaseLines
  PROVE  OneLease(c, l) \in Caches
<1>1. AddMac(c.mac, l.mac, l.name) \in Partial(Macs, Names)
  <2>1. c.mac \in Partial(Macs, Names)  BY DEF Caches
  <2>2. DOMAIN c.mac \subseteq Macs /\ \A x \in DOMAIN c.mac : c.mac[x] \in Names
    BY <2>1, PartialType
  <2> DEFINE g == [m \in DOMAIN c.mac \union {l.mac} |-> IF m = l.mac THEN l.name ELSE c.mac[m]]
  <2>3. g \in [DOMAIN c.mac \union {l.mac} -> Names] /\ DOMAIN c.mac \union {l.mac} \in SUBSET Macs
    BY <2>2 DEF LeaseLines
  <2>4. g \in Partial(Macs, Names)
    <3> HIDE DEF g
    <3> QED  BY <2>3 DEF Partial
  <2> QED  BY <2>1, <2>4 DEF AddMac
<1>2. AddIp(c.ip, l.ip, l.name) \in Partial(Ips, Names)
  <2>1. c.ip \in Partial(Ips, Names)  BY DEF Caches
  <2>2. DOMAIN c.ip \subseteq Ips /\ \A x \in DOMAIN c.ip : c.ip[x] \in Names
    BY <2>1, PartialType
  <2> DEFINE g == [a \in DOMAIN c.ip \union {l.ip} |-> IF a = l.ip THEN l.name ELSE c.ip[a]]
  <2>3. g \in [DOMAIN c.ip \union {l.ip} -> Names] /\ DOMAIN c.ip \union {l.ip} \in SUBSET Ips
    BY <2>2 DEF LeaseLines
  <2>4. g \in Partial(Ips, Names)
    <3> HIDE DEF g
    <3> QED  BY <2>3 DEF Partial
  <2> QED  BY <2>1, <2>4 DEF AddIp
<1> QED  BY <1>1, <1>2 DEF OneLease, Caches

LEMMA OneHostType ==
  ASSUME NEW c \in Caches, NEW l \in HostsLines
  PROVE  OneHost(c, l) \in Caches
<1>1. AddIp(c.ip, l.ip, l.name) \in Partial(Ips, Names)
  <2>1. c.ip \in Partial(Ips, Names)  BY DEF Caches
  <2>2. DOMAIN c.ip \subseteq Ips /\ \A x \in DOMAIN c.ip : c.ip[x] \in Names
    BY <2>1, PartialType
  <2> DEFINE g == [a \in DOMAIN c.ip \union {l.ip} |-> IF a = l.ip THEN l.name ELSE c.ip[a]]
  <2>3. g \in [DOMAIN c.ip \union {l.ip} -> Names] /\ DOMAIN c.ip \union {l.ip} \in SUBSET Ips
    BY <2>2 DEF HostsLines
  <2>4. g \in Partial(Ips, Names)
    <3> HIDE DEF g
    <3> QED  BY <2>3 DEF Partial
  <2> QED  BY <2>1, <2>4 DEF AddIp
<1> QED  BY <1>1 DEF OneHost, Caches

\* The functions behind the two parsers.
LeasesFold(h, cache, lines) ==
  h = [s \in SUBSET DOMAIN lines |->
         IF s = {} THEN cache ELSE OneLease(h[s \ {Max(s)}], lines[Max(s)])]
HostsFold(h, cache, lines) ==
  h = [s \in SUBSET DOMAIN lines |->
         IF s = {} THEN cache ELSE OneHost(h[s \ {Max(s)}], lines[Max(s)])]

LEMMA LeasesFoldExists ==
  ASSUME NEW cache \in Caches, NEW lines \in Seq(LeaseLines)
  PROVE  \E h : LeasesFold(h, cache, lines)
<1> DEFINE n == Len(lines)
           op == [p \in (1..n) \X Caches |-> OneLease(p[2], lines[p[1]])]
<1>1. n \in Nat /\ DOMAIN lines = 1..n /\ \A i \in 1..n : lines[i] \in LeaseLines  OBVIOUS
<1>2. \A i \in 1..n, v \in Caches : op[<<i, v>>] = OneLease(v, lines[i])  OBVIOUS
<1> HIDE DEF n, op
<1>3. \A i \in 1..n, v \in Caches : op[<<i, v>>] \in Caches  BY <1>1, <1>2, OneLeaseType
<1>4. PICK it : SeqFold(it, n, op, cache) /\ \A s \in SUBSET (1..n) : it[s] \in Caches
  BY <1>1, <1>3, SeqFoldExists
<1>5. \A s \in SUBSET (1..n) :
        it[s] = IF s = {} THEN cache ELSE OneLease(it[s \ {Max(s)}], lines[Max(s)])
  <2> SUFFICES ASSUME NEW s \in SUBSET (1..n)
               PROVE  it[s] = IF s = {} THEN cache ELSE OneLease(it[s \ {Max(s)}], lines[Max(s)])
    OBVIOUS
  <2>1. it[s] = IF s = {} THEN cache ELSE op[<<Max(s), it[s \ {Max(s)}]>>]  BY <1>4 DEF SeqFold
  <2>2. ASSUME s # {} PROVE Max(s) \in 1..n /\ it[s \ {Max(s)}] \in Caches
    <3>1. s \in SUBSET (0..n) /\ s \ {Max(s)} \in SUBSET (1..n)
      <4>1. \A x \in 1..n : x \in 0..n  BY <1>1
      <4> QED  BY <4>1
    <3>2. Max(s) \in s  BY <1>1, <2>2, <3>1, MaxIsElement
    <3> QED  BY <1>4, <3>1, <3>2
  <2> QED  BY <1>2, <2>1, <2>2
<1>6. it = [s \in SUBSET (1..n) |-> it[s]]  BY <1>4 DEF SeqFold
<1> QED  BY <1>1, <1>5, <1>6 DEF LeasesFold

LEMMA HostsFoldExists ==
  ASSUME NEW cache \in Caches, NEW lines \in Seq(HostsLines)
  PROVE  \E h : HostsFold(h, cache, lines)
<1> DEFINE n == Len(lines)
           op == [p \in (1..n) \X Caches |-> OneHost(p[2], lines[p[1]])]
<1>1. n \in Nat /\ DOMAIN lines = 1..n /\ \A i \in 1..n : lines[i] \in HostsLines  OBVIOUS
<1>2. \A i \in 1..n, v \in Caches : op[<<i, v>>] = OneHost(v, lines[i])  OBVIOUS
<1> HIDE DEF n, op
<1>3. \A i \in 1..n, v \in Caches : op[<<i, v>>] \in Caches  BY <1>1, <1>2, OneHostType
<1>4. PICK it : SeqFold(it, n, op, cache) /\ \A s \in SUBSET (1..n) : it[s] \in Caches
  BY <1>1, <1>3, SeqFoldExists
<1>5. \A s \in SUBSET (1..n) :
        it[s] = IF s = {} THEN cache ELSE OneHost(it[s \ {Max(s)}], lines[Max(s)])
  <2> SUFFICES ASSUME NEW s \in SUBSET (1..n)
               PROVE  it[s] = IF s = {} THEN cache ELSE OneHost(it[s \ {Max(s)}], lines[Max(s)])
    OBVIOUS
  <2>1. it[s] = IF s = {} THEN cache ELSE op[<<Max(s), it[s \ {Max(s)}]>>]  BY <1>4 DEF SeqFold
  <2>2. ASSUME s # {} PROVE Max(s) \in 1..n /\ it[s \ {Max(s)}] \in Caches
    <3>1. s \in SUBSET (0..n) /\ s \ {Max(s)} \in SUBSET (1..n)
      <4>1. \A x \in 1..n : x \in 0..n  BY <1>1
      <4> QED  BY <4>1
    <3>2. Max(s) \in s  BY <1>1, <2>2, <3>1, MaxIsElement
    <3> QED  BY <1>4, <3>1, <3>2
  <2> QED  BY <1>2, <2>1, <2>2
<1>6. it = [s \in SUBSET (1..n) |-> it[s]]  BY <1>4 DEF SeqFold
<1> QED  BY <1>1, <1>5, <1>6 DEF HostsFold

\* Parsing is a chain: each line leads from the cache before it to the next.
LeasesChain(c, cache, lines) ==
  /\ c[0] = cache /\ c[Len(lines)] = WithLeases(cache, lines)
  /\ \A k \in 1..Len(lines) : c[k] = OneLease(c[k-1], lines[k])
HostsChain(c, cache, lines) ==
  /\ c[0] = cache /\ c[Len(lines)] = WithHosts(cache, lines)
  /\ \A k \in 1..Len(lines) : c[k] = OneHost(c[k-1], lines[k])

LEMMA LeasesByLine ==
  ASSUME NEW cache \in Caches, NEW lines \in Seq(LeaseLines)
  PROVE  \E c : LeasesChain(c, cache, lines)
<1> DEFINE h == CHOOSE g : LeasesFold(g, cache, lines)
           n == Len(lines)
           c == [k \in 0..n |-> h[1..k]]
<1>1. LeasesFold(h, cache, lines)  BY LeasesFoldExists
<1>2. WithLeases(cache, lines) = h[DOMAIN lines]
  BY DEF WithLeases, FoldLeft, MapThenFoldSet, LeasesFold
<1>3. n \in Nat /\ DOMAIN lines = 1..n  OBVIOUS
<1> HIDE DEF h, n
<1>4. c[0] = cache
  <2>1. c[0] = h[1..0] /\ 1..0 = {}  BY <1>3
  <2> QED  BY <1>1, <2>1 DEF LeasesFold
<1>5. c[n] = WithLeases(cache, lines)  BY <1>2, <1>3
<1>6. ASSUME NEW k \in 1..n PROVE c[k] = OneLease(c[k-1], lines[k])
  <2>0. k \in Nat \ {0}  BY <1>3
  <2>1. Max(1..k) = k /\ (1..k) \ {k} = 1..k-1 /\ 1..k # {}  BY <2>0, MaxOfFirst
  <2>2. 1..k \in SUBSET DOMAIN lines  BY <1>3
  <2>3. h[1..k] = OneLease(h[(1..k) \ {Max(1..k)}], lines[Max(1..k)])
    BY <1>1, <2>1, <2>2 DEF LeasesFold
  <2>4. c[k] = h[1..k] /\ c[k-1] = h[1..k-1]  BY <1>3
  <2> QED  BY <2>1, <2>3, <2>4
<1> HIDE DEF c
<1> QED  BY <1>4, <1>5, <1>6 DEF LeasesChain, n

LEMMA HostsByLine ==
  ASSUME NEW cache \in Caches, NEW lines \in Seq(HostsLines)
  PROVE  \E c : HostsChain(c, cache, lines)
<1> DEFINE h == CHOOSE g : HostsFold(g, cache, lines)
           n == Len(lines)
           c == [k \in 0..n |-> h[1..k]]
<1>1. HostsFold(h, cache, lines)  BY HostsFoldExists
<1>2. WithHosts(cache, lines) = h[DOMAIN lines]
  BY DEF WithHosts, FoldLeft, MapThenFoldSet, HostsFold
<1>3. n \in Nat /\ DOMAIN lines = 1..n  OBVIOUS
<1> HIDE DEF h, n
<1>4. c[0] = cache
  <2>1. c[0] = h[1..0] /\ 1..0 = {}  BY <1>3
  <2> QED  BY <1>1, <2>1 DEF HostsFold
<1>5. c[n] = WithHosts(cache, lines)  BY <1>2, <1>3
<1>6. ASSUME NEW k \in 1..n PROVE c[k] = OneHost(c[k-1], lines[k])
  <2>0. k \in Nat \ {0}  BY <1>3
  <2>1. Max(1..k) = k /\ (1..k) \ {k} = 1..k-1 /\ 1..k # {}  BY <2>0, MaxOfFirst
  <2>2. 1..k \in SUBSET DOMAIN lines  BY <1>3
  <2>3. h[1..k] = OneHost(h[(1..k) \ {Max(1..k)}], lines[Max(1..k)])
    BY <1>1, <2>1, <2>2 DEF HostsFold
  <2>4. c[k] = h[1..k] /\ c[k-1] = h[1..k-1]  BY <1>3
  <2> QED  BY <2>1, <2>3, <2>4
<1> HIDE DEF c
<1> QED  BY <1>4, <1>5, <1>6 DEF HostsChain, n

----------------------------------------------------------------------------
(* What the parsers find in files that leave room in the cache *)

Leases == text["leases"]
HostsDir == text["hostsdir"]
EtcHosts == text["etchosts"]

TextType == Leases \in Seq(LeaseLines) /\ HostsDir \in Seq(HostsLines) /\ EtcHosts \in Seq(HostsLines)

\* Where the lines of each file are among all.
Layout ==
  /\ Len(Leases) \in Nat /\ Len(HostsDir) \in Nat /\ Len(EtcHosts) \in Nat /\ Len(Lines) \in Nat
  /\ Len(Lines) = Len(Leases) + Len(HostsDir) + Len(EtcHosts)
  /\ DOMAIN Leases = 1..Len(Leases) /\ DOMAIN HostsDir = 1..Len(HostsDir)
  /\ DOMAIN EtcHosts = 1..Len(EtcHosts)
  /\ \A n \in 1..Len(Leases) : Lines[n] = Leases[n] /\ Leases[n] \in LeaseLines
  /\ \A n \in 1..Len(HostsDir) : Lines[Len(Leases) + n] = HostsDir[n] /\ HostsDir[n] \in HostsLines
  /\ \A n \in 1..Len(EtcHosts) :
       Lines[Len(Leases) + Len(HostsDir) + n] = EtcHosts[n] /\ EtcHosts[n] \in HostsLines

LEMMA LinesLaidOut == TextType => Layout
<1> SUFFICES ASSUME TextType PROVE Layout
  OBVIOUS
<1> DEFINE U == LeaseLines \union HostsLines
           A == Leases \o HostsDir
<1>1. Leases \in Seq(U) /\ HostsDir \in Seq(U) /\ EtcHosts \in Seq(U)  BY DEF TextType
<1>2. Lines = A \o EtcHosts  BY DEF Lines, Leases, HostsDir, EtcHosts
<1>3. /\ Len(Leases) \in Nat /\ Len(HostsDir) \in Nat /\ Len(EtcHosts) \in Nat
      /\ DOMAIN Leases = 1..Len(Leases) /\ DOMAIN HostsDir = 1..Len(HostsDir)
      /\ DOMAIN EtcHosts = 1..Len(EtcHosts)
  BY <1>1
<1>4. /\ \A n \in 1..Len(Leases) : Leases[n] \in LeaseLines
      /\ \A n \in 1..Len(HostsDir) : HostsDir[n] \in HostsLines
      /\ \A n \in 1..Len(EtcHosts) : EtcHosts[n] \in HostsLines
  BY DEF TextType
<1> HIDE DEF U
<1>5. /\ A \in Seq(U) /\ Len(A) = Len(Leases) + Len(HostsDir)
      /\ \A n \in 1..Len(Leases) : A[n] = Leases[n]
      /\ \A n \in 1..Len(HostsDir) : A[Len(Leases) + n] = HostsDir[n]
  BY <1>1, Joined
<1> HIDE DEF A
<1>6. /\ Len(A \o EtcHosts) = Len(A) + Len(EtcHosts)
      /\ \A n \in 1..Len(A) : (A \o EtcHosts)[n] = A[n]
      /\ \A n \in 1..Len(EtcHosts) : (A \o EtcHosts)[Len(A) + n] = EtcHosts[n]
  <2> DEFINE B == EtcHosts
  <2>1. A \in Seq(U) /\ B \in Seq(U)  BY <1>1, <1>5
  <2> HIDE DEF B
  <2>2. /\ Len(A \o B) = Len(A) + Len(B)
        /\ \A n \in 1..Len(A) : (A \o B)[n] = A[n]
        /\ \A n \in 1..Len(B) : (A \o B)[Len(A) + n] = B[n]
    BY <2>1, Joined
  <2> QED  BY <2>2 DEF B
<1>7. \A n \in 1..Len(Leases) : Lines[n] = Leases[n]  BY <1>2, <1>3, <1>5, <1>6
<1>8. \A n \in 1..Len(HostsDir) : Lines[Len(Leases) + n] = HostsDir[n]
  <2> SUFFICES ASSUME NEW n \in 1..Len(HostsDir) PROVE Lines[Len(Leases) + n] = HostsDir[n]
    OBVIOUS
  <2>1. Len(Leases) + n \in 1..Len(A)  BY <1>3, <1>5
  <2> QED  BY <1>2, <1>5, <1>6, <2>1
<1>9. \A n \in 1..Len(EtcHosts) : Lines[Len(Leases) + Len(HostsDir) + n] = EtcHosts[n]
  BY <1>2, <1>5, <1>6
<1>10. Len(Lines) = Len(Leases) + Len(HostsDir) + Len(EtcHosts)  BY <1>2, <1>5, <1>6
<1> QED  BY <1>3, <1>4, <1>7, <1>8, <1>9, <1>10 DEF Layout

\* What a file contributes to all lines, told from the other side.
LEMMA LineIsOf ==
  ASSUME Layout, NEW n \in 1..Len(Lines)
  PROVE  \/ n \in 1..Len(Leases)
         \/ \E m \in 1..Len(HostsDir) : n = Len(Leases) + m
         \/ \E m \in 1..Len(EtcHosts) : n = Len(Leases) + Len(HostsDir) + m
<1> DEFINE a == Len(Leases)
           b == Len(HostsDir)
           c == Len(EtcHosts)
<1>1. a \in Nat /\ b \in Nat /\ c \in Nat /\ n \in 1..(a + b + c)  BY DEF Layout
<1> HIDE DEF a, b, c
<1>2. CASE n <= a  BY <1>1, <1>2 DEF a
<1>3. CASE n > a /\ n <= a + b
  <2>1. n - a \in 1..b /\ n = a + (n - a)  BY <1>1, <1>3
  <2> QED  BY <2>1 DEF a, b
<1>4. CASE n > a + b
  <2>1. n - (a + b) \in 1..c /\ n = a + b + (n - (a + b))  BY <1>1, <1>4
  <2> QED  BY <2>1 DEF a, b, c
<1> QED  BY <1>1, <1>2, <1>3, <1>4

\* The first k lines have been parsed into `ip`, the first k leases into `mac`.
IpRight(ip, k) ==
  /\ \A a : a \in DOMAIN ip <=> \E n \in 1..k : Speaks(n) /\ Lines[n].ip = a
  /\ \A a \in DOMAIN ip : \E n \in 1..k :
       /\ Speaks(n) /\ Lines[n].ip = a /\ ip[a] = Lines[n].name
       /\ \A m \in 1..k : Speaks(m) /\ Lines[m].ip = a => n <= m

MacRight(mac, k) ==
  /\ \A c : c \in DOMAIN mac <=> \E n \in 1..k : n \in Leased(c)
  /\ \A c \in DOMAIN mac : \E n \in 1..k :
       /\ n \in Leased(c) /\ mac[c] = Leases[n].name
       /\ \A m \in 1..k : m \in Leased(c) => m <= n

\* All addresses and clients the files name.
AllIps == {Lines[n].ip : n \in 1..Len(Lines)}
AllMacs == {Leases[n].mac : n \in DOMAIN Leases}

LEMMA RoomForAll ==
  ASSUME TextType, Fits
  PROVE  /\ IsFiniteSet(AllIps) /\ Cardinality(AllIps) <= CacheMax /\ Cardinality(AllIps) \in Nat
         /\ IsFiniteSet(AllMacs) /\ Cardinality(AllMacs) < CacheMax /\ Cardinality(AllMacs) \in Nat
<1>1. Layout  BY LinesLaidOut
<1>2. IsFiniteSet(AllIps)
  <2> DEFINE S == 1..Len(Lines)
             f == [n \in S |-> Lines[n].ip]
  <2>1. IsFiniteSet(S)  BY <1>1, FS_Interval DEF Layout
  <2>2. f \in Surjection(S, AllIps)  BY DEF Surjection, AllIps
  <2> HIDE DEF S, f
  <2> QED  BY <2>1, <2>2, FS_Surjection
<1>3. IsFiniteSet(AllMacs)
  <2> DEFINE S == DOMAIN Leases
             f == [n \in S |-> Leases[n].mac]
  <2>1. IsFiniteSet(S)  BY <1>1, FS_Interval DEF Layout
  <2>2. f \in Surjection(S, AllMacs)  BY DEF Surjection, AllMacs
  <2> HIDE DEF S, f
  <2> QED  BY <2>1, <2>2, FS_Surjection
<1>4. AllIps = {l.ip : l \in UNION {Range(text[s]) : s \in Sources}}
  <2> DEFINE R == UNION {Range(text[s]) : s \in Sources}
  <2>1. R = Range(Leases) \union Range(HostsDir) \union Range(EtcHosts)
    BY DEF Sources, Leases, HostsDir, EtcHosts
  <2>2. ASSUME NEW n \in 1..Len(Lines) PROVE Lines[n] \in R
    <3>1. CASE n \in 1..Len(Leases)
      <4>1. Lines[n] = Leases[n] /\ n \in DOMAIN Leases  BY <1>1, <3>1 DEF Layout
      <4> QED  BY <2>1, <4>1 DEF Range
    <3>2. ASSUME NEW m \in 1..Len(HostsDir), n = Len(Leases) + m PROVE Lines[n] \in R
      <4>1. Lines[n] = HostsDir[m] /\ m \in DOMAIN HostsDir  BY <1>1, <3>2 DEF Layout
      <4> QED  BY <2>1, <4>1 DEF Range
    <3>3. ASSUME NEW m \in 1..Len(EtcHosts), n = Len(Leases) + Len(HostsDir) + m PROVE Lines[n] \in R
      <4>1. Lines[n] = EtcHosts[m] /\ m \in DOMAIN EtcHosts  BY <1>1, <3>3 DEF Layout
      <4> QED  BY <2>1, <4>1 DEF Range
    <3> QED  BY <1>1, <3>1, <3>2, <3>3, LineIsOf
  <2>3. ASSUME NEW l \in R PROVE \E n \in 1..Len(Lines) : Lines[n] = l
    <3>1. CASE l \in Range(Leases)
      <4>1. PICK n \in 1..Len(Leases) : Leases[n] = l  BY <1>1, <3>1 DEF Range, Layout
      <4>2. n \in 1..Len(Lines) /\ Lines[n] = l  BY <1>1, <4>1 DEF Layout
      <4> QED  BY <4>2
    <3>2. CASE l \in Range(HostsDir)
      <4>1. PICK n \in 1..Len(HostsDir) : HostsDir[n] = l  BY <1>1, <3>2 DEF Range, Layout
      <4>2. Len(Leases) + n \in 1..Len(Lines) /\ Lines[Len(Leases) + n] = l  BY <1>1, <4>1 DEF Layout
      <4> QED  BY <4>2
    <3>3. CASE l \in Range(EtcHosts)
      <4>1. PICK n \in 1..Len(EtcHosts) : EtcHosts[n] = l  BY <1>1, <3>3 DEF Range, Layout
      <4> DEFINE k == Len(Leases) + Len(HostsDir) + n
      <4>2. k \in 1..Len(Lines) /\ Lines[k] = l  BY <1>1, <4>1 DEF Layout
      <4> HIDE DEF k
      <4> QED  BY <4>2
    <3> QED  BY <2>1, <3>1, <3>2, <3>3
  <2> HIDE DEF R
  <2>4. AllIps = {l.ip : l \in R}  BY <2>2, <2>3 DEF AllIps
  <2> QED  BY <2>4 DEF R
<1> QED  BY <1>2, <1>3, <1>4, FS_CardinalityType DEF Fits, AllMacs, Leases

\* A line that speaks enters its address unless an earlier one has.
LEMMA IpByLine ==
  ASSUME TextType, Fits, NEW p \in 1..Len(Lines), NEW ip \in Partial(Ips, Names), IpRight(ip, p-1)
  PROVE  /\ Speaks(p) => IpRight(AddIp(ip, Lines[p].ip, Lines[p].name), p)
         /\ ~Speaks(p) => IpRight(ip, p)
<1>1. Layout  BY LinesLaidOut
<1>2. p \in Nat \ {0} /\ p - 1 \in Nat  BY <1>1 DEF Layout
<1>3. \A n : n \in 1..p <=> n \in 1..p-1 \/ n = p  BY <1>2
<1>4. ASSUME ~Speaks(p) PROVE IpRight(ip, p)
  <2>1. \A a : (\E n \in 1..p : Speaks(n) /\ Lines[n].ip = a)
               <=> (\E n \in 1..p-1 : Speaks(n) /\ Lines[n].ip = a)
    BY <1>3, <1>4
  <2>2. ASSUME NEW a \in DOMAIN ip
        PROVE  \E n \in 1..p : /\ Speaks(n) /\ Lines[n].ip = a /\ ip[a] = Lines[n].name
                               /\ \A m \in 1..p : Speaks(m) /\ Lines[m].ip = a => n <= m
    <3>1. PICK n \in 1..p-1 : /\ Speaks(n) /\ Lines[n].ip = a /\ ip[a] = Lines[n].name
                              /\ \A m \in 1..p-1 : Speaks(m) /\ Lines[m].ip = a => n <= m
      BY DEF IpRight
    <3> QED  BY <1>3, <1>4, <3>1
  <2> QED  BY <2>1, <2>2 DEF IpRight
<1>5. ASSUME Speaks(p) PROVE IpRight(AddIp(ip, Lines[p].ip, Lines[p].name), p)
  <2> DEFINE a == Lines[p].ip
             next == AddIp(ip, a, Lines[p].name)
  <2>1. Lines[p].name # Nameless  BY <1>5 DEF Speaks
  <2>2. CASE a \in DOMAIN ip
    <3>1. next = ip  BY <2>2 DEF AddIp
    <3>2. \A b : (\E n \in 1..p : Speaks(n) /\ Lines[n].ip = b)
                 <=> (\E n \in 1..p-1 : Speaks(n) /\ Lines[n].ip = b)
      <4>1. \E n \in 1..p-1 : Speaks(n) /\ Lines[n].ip = a  BY <2>2 DEF IpRight
      <4> QED  BY <1>3, <4>1
    <3>3. ASSUME NEW b \in DOMAIN ip
          PROVE  \E n \in 1..p : /\ Speaks(n) /\ Lines[n].ip = b /\ ip[b] = Lines[n].name
                                 /\ \A m \in 1..p : Speaks(m) /\ Lines[m].ip = b => n <= m
      <4>1. PICK n \in 1..p-1 : /\ Speaks(n) /\ Lines[n].ip = b /\ ip[b] = Lines[n].name
                                /\ \A m \in 1..p-1 : Speaks(m) /\ Lines[m].ip = b => n <= m
        BY DEF IpRight
      <4>2. n \in 1..p /\ n <= p  BY <1>2
      <4> QED  BY <1>3, <4>1, <4>2
    <3> HIDE DEF next
    <3>4. IpRight(ip, p)  BY <3>2, <3>3 DEF IpRight
    <3> QED  BY <3>1, <3>4 DEF next
  <2>3. CASE a \notin DOMAIN ip
    <3>1. DOMAIN ip \subseteq AllIps \ {a} /\ a \in AllIps
      <4>1. ASSUME NEW b \in DOMAIN ip PROVE b \in AllIps
        <5>1. PICK n \in 1..p-1 : Lines[n].ip = b  BY DEF IpRight
        <5>2. n \in 1..Len(Lines)  BY <1>1, <1>2 DEF Layout
        <5> QED  BY <5>1, <5>2 DEF AllIps
      <4>2. a \in AllIps  BY DEF AllIps
      <4> QED  BY <2>3, <4>1, <4>2
    <3>2. ~(Cardinality(DOMAIN ip) >= CacheMax)
      <4>1. /\ IsFiniteSet(AllIps) /\ Cardinality(AllIps) <= CacheMax /\ Cardinality(AllIps) \in Nat
        BY RoomForAll
      <4>2. IsFiniteSet(AllIps \ {a}) /\ Cardinality(AllIps \ {a}) = Cardinality(AllIps) - 1
        BY <3>1, <4>1, FS_RemoveElement
      <4>3. IsFiniteSet(DOMAIN ip) /\ Cardinality(DOMAIN ip) <= Cardinality(AllIps \ {a})
        BY <3>1, <4>2, FS_Subset
      <4>4. Cardinality(DOMAIN ip) \in Nat  BY <4>3, FS_CardinalityType
      <4> QED  BY <4>1, <4>2, <4>3, <4>4, CacheAssumption
    <3>3. next = [b \in DOMAIN ip \union {a} |-> IF b = a THEN Lines[p].name ELSE ip[b]]
      BY <2>1, <2>3, <3>2 DEF AddIp
    <3> HIDE DEF next
    <3>4. DOMAIN next = DOMAIN ip \union {a} /\ next[a] = Lines[p].name
          /\ \A b \in DOMAIN ip : next[b] = ip[b]
      BY <2>3, <3>3
    <3>5. ASSUME NEW b PROVE b \in DOMAIN next <=> \E n \in 1..p : Speaks(n) /\ Lines[n].ip = b
      <4>1. b \in DOMAIN ip <=> \E n \in 1..p-1 : Speaks(n) /\ Lines[n].ip = b  BY DEF IpRight
      <4> QED  BY <1>3, <1>5, <3>4, <4>1
    <3>6. ASSUME NEW b \in DOMAIN next
          PROVE  \E n \in 1..p : /\ Speaks(n) /\ Lines[n].ip = b /\ next[b] = Lines[n].name
                                 /\ \A m \in 1..p : Speaks(m) /\ Lines[m].ip = b => n <= m
      <4>1. CASE b \in DOMAIN ip
        <5>1. PICK n \in 1..p-1 : /\ Speaks(n) /\ Lines[n].ip = b /\ ip[b] = Lines[n].name
                                  /\ \A m \in 1..p-1 : Speaks(m) /\ Lines[m].ip = b => n <= m
          BY <4>1 DEF IpRight
        <5>2. n \in 1..p /\ n <= p  BY <1>2
        <5> QED  BY <1>3, <3>4, <4>1, <5>1, <5>2
      <4>2. CASE b \notin DOMAIN ip
        <5>1. b = a  BY <3>4, <4>2
        <5>2. \A m \in 1..p-1 : ~(Speaks(m) /\ Lines[m].ip = b)  BY <4>2 DEF IpRight
        <5>3. p \in 1..p /\ p <= p  BY <1>2
        <5> QED  BY <1>3, <1>5, <3>4, <5>1, <5>2, <5>3
      <4> QED  BY <4>1, <4>2
    <3>7. IpRight(next, p)  BY <3>5, <3>6 DEF IpRight
    <3> QED  BY <3>7 DEF next
  <2> QED  BY <2>2, <2>3
<1> QED  BY <1>4, <1>5

\* A lease that names its client replaces the name of an earlier one.
LEMMA MacByLine ==
  ASSUME TextType, Fits, NEW p \in 1..Len(Leases), NEW mac \in Partial(Macs, Names),
         MacRight(mac, p-1)
  PROVE  MacRight(AddMac(mac, Leases[p].mac, Leases[p].name), p)
<1> DEFINE c == Leases[p].mac
           next == AddMac(mac, c, Leases[p].name)
<1>1. Layout  BY LinesLaidOut
<1>2. p \in Nat \ {0} /\ p - 1 \in Nat /\ p \in DOMAIN Leases  BY <1>1 DEF Layout
<1>3. \A n : n \in 1..p <=> n \in 1..p-1 \/ n = p  BY <1>2
<1>4. \A d : p \in Leased(d) <=> d = c /\ Leases[p].name # Nameless
  BY <1>1 DEF Leased, Leases, Layout
<1>5. CASE Leases[p].name = Nameless
  <2>1. next = mac  BY <1>5 DEF AddMac
  <2>2. \A d : p \notin Leased(d)  BY <1>4, <1>5
  <2>3. \A d : (\E n \in 1..p : n \in Leased(d)) <=> (\E n \in 1..p-1 : n \in Leased(d))
    BY <1>3, <2>2
  <2>4. ASSUME NEW d \in DOMAIN mac
        PROVE  \E n \in 1..p : /\ n \in Leased(d) /\ mac[d] = Leases[n].name
                               /\ \A m \in 1..p : m \in Leased(d) => m <= n
    <3>1. PICK n \in 1..p-1 : /\ n \in Leased(d) /\ mac[d] = Leases[n].name
                              /\ \A m \in 1..p-1 : m \in Leased(d) => m <= n
      BY DEF MacRight
    <3> QED  BY <1>3, <2>2, <3>1
  <2> HIDE DEF next
  <2>5. MacRight(mac, p)  BY <2>3, <2>4 DEF MacRight
  <2> QED  BY <2>1, <2>5 DEF next
<1>6. CASE Leases[p].name # Nameless
  <2>1. p \in Leased(c)  BY <1>4, <1>6
  <2>2. ~(Cardinality(DOMAIN mac) >= CacheMax)
    <3>1. IsFiniteSet(AllMacs) /\ Cardinality(AllMacs) < CacheMax /\ Cardinality(AllMacs) \in Nat
      BY RoomForAll
    <3>2. DOMAIN mac \subseteq AllMacs
      <4> SUFFICES ASSUME NEW d \in DOMAIN mac PROVE d \in AllMacs
        OBVIOUS
      <4>1. PICK n \in 1..p-1 : n \in Leased(d)  BY DEF MacRight
      <4>2. n \in 1..Len(Leases) /\ Leases[n].mac = d  BY <4>1 DEF Leased, Leases
      <4> QED  BY <1>1, <4>2 DEF AllMacs, Layout
    <3>3. IsFiniteSet(DOMAIN mac) /\ Cardinality(DOMAIN mac) <= Cardinality(AllMacs)
      BY <3>1, <3>2, FS_Subset
    <3>4. Cardinality(DOMAIN mac) \in Nat  BY <3>3, FS_CardinalityType
    <3> QED  BY <3>1, <3>3, <3>4, CacheAssumption
  <2>3. next = [m \in DOMAIN mac \union {c} |-> IF m = c THEN Leases[p].name ELSE mac[m]]
    BY <1>6, <2>2 DEF AddMac
  <2> HIDE DEF next
  <2>4. DOMAIN next = DOMAIN mac \union {c} /\ next[c] = Leases[p].name
        /\ \A d \in DOMAIN mac : d # c => next[d] = mac[d]
    BY <2>3
  <2>5. ASSUME NEW d PROVE d \in DOMAIN next <=> \E n \in 1..p : n \in Leased(d)
    <3>1. d \in DOMAIN mac <=> \E n \in 1..p-1 : n \in Leased(d)  BY DEF MacRight
    <3> QED  BY <1>3, <1>4, <1>6, <2>4, <3>1
  <2>6. ASSUME NEW d \in DOMAIN next
        PROVE  \E n \in 1..p : /\ n \in Leased(d) /\ next[d] = Leases[n].name
                               /\ \A m \in 1..p : m \in Leased(d) => m <= n
    <3>1. CASE d = c
      <4>1. \A m \in 1..p : m <= p  BY <1>2
      <4>2. p \in 1..p  BY <1>2
      <4> QED  BY <2>1, <2>4, <3>1, <4>1, <4>2
    <3>2. CASE d # c
      <4>1. d \in DOMAIN mac /\ p \notin Leased(d)  BY <1>4, <2>4, <3>2
      <4>2. PICK n \in 1..p-1 : /\ n \in Leased(d) /\ mac[d] = Leases[n].name
                                /\ \A m \in 1..p-1 : m \in Leased(d) => m <= n
        BY <4>1 DEF MacRight
      <4> QED  BY <1>3, <2>4, <3>2, <4>1, <4>2
    <3> QED  BY <3>1, <3>2
  <2>7. MacRight(next, p)  BY <2>5, <2>6 DEF MacRight
  <2> QED  BY <2>7 DEF next
<1> QED  BY <1>5, <1>6

\* A cache that is right for the first j leases and the first k lines.
RightUpTo(j, k) == {c \in Caches : MacRight(c.mac, j) /\ IpRight(c.ip, k)}

LEMMA LeaseKeepsRight ==
  ASSUME TextType, Fits, NEW p \in 1..Len(Leases), NEW c \in RightUpTo(p-1, p-1)
  PROVE  OneLease(c, Leases[p]) \in RightUpTo(p, p)
<1> DEFINE l == Leases[p]
           d == OneLease(c, l)
<1>1. Layout  BY LinesLaidOut
<1>2. l \in LeaseLines /\ Lines[p] = l /\ p \in 1..Len(Lines) /\ p <= Len(Leases)
      /\ Len(Leases) = Len(text["leases"])
  BY <1>1 DEF Layout, Leases
<1>3. /\ c \in Caches /\ MacRight(c.mac, p-1) /\ IpRight(c.ip, p-1)
      /\ c.mac \in Partial(Macs, Names) /\ c.ip \in Partial(Ips, Names)
  BY DEF RightUpTo, Caches
<1>4. d \in Caches  BY <1>2, <1>3, OneLeaseType
<1>5. d.mac = AddMac(c.mac, l.mac, l.name) /\ d.ip = AddIp(c.ip, l.ip, l.name)  BY DEF OneLease
<1> HIDE DEF d
<1>6. MacRight(d.mac, p)  BY <1>3, <1>5, MacByLine
<1>7. Speaks(p) <=> l.name # Nameless  BY <1>2 DEF Speaks
<1>8. IpRight(d.ip, p)
  <2>1. CASE Speaks(p)
    <3>1. IpRight(AddIp(c.ip, Lines[p].ip, Lines[p].name), p)  BY <1>2, <1>3, <2>1, IpByLine
    <3> QED  BY <1>2, <1>5, <3>1
  <2>2. CASE ~Speaks(p)
    <3>1. d.ip = c.ip  BY <1>5, <1>7, <2>2 DEF AddIp
    <3>2. IpRight(c.ip, p)  BY <1>2, <1>3, <2>2, IpByLine
    <3> QED  BY <3>1, <3>2
  <2> QED  BY <2>1, <2>2
<1>9. d \in RightUpTo(p, p)  BY <1>4, <1>6, <1>8 DEF RightUpTo
<1> QED  BY <1>9 DEF d

LEMMA HostKeepsRight ==
  ASSUME TextType, Fits, NEW j, NEW p \in 1..Len(Lines), p > Len(Leases), Lines[p] \in HostsLines,
         NEW c \in RightUpTo(j, p-1)
  PROVE  OneHost(c, Lines[p]) \in RightUpTo(j, p)
<1> DEFINE l == Lines[p]
           d == OneHost(c, l)
<1>1. Layout  BY LinesLaidOut
<1>2. /\ c \in Caches /\ MacRight(c.mac, j) /\ IpRight(c.ip, p-1)
      /\ c.mac \in Partial(Macs, Names) /\ c.ip \in Partial(Ips, Names)
  BY DEF RightUpTo, Caches
<1>3. d \in Caches  BY <1>2, OneHostType
<1>4. Speaks(p) <=> l.name # Nameless /\ l.ip \notin Loopback
  <2>1. ~(p <= Len(text["leases"]))  BY <1>1 DEF Layout, Leases
  <2> QED  BY <2>1 DEF Speaks
<1>5. d.mac = c.mac /\ d.ip = IF l.ip \in Loopback THEN c.ip ELSE AddIp(c.ip, l.ip, l.name)
  BY <1>2 DEF OneHost, Caches
<1> HIDE DEF d
<1>6. IpRight(d.ip, p)
  <2>1. CASE Speaks(p)
    <3>1. IpRight(AddIp(c.ip, Lines[p].ip, Lines[p].name), p)  BY <1>2, <2>1, IpByLine
    <3> QED  BY <1>4, <1>5, <2>1, <3>1
  <2>2. CASE ~Speaks(p)
    <3>1. d.ip = c.ip  BY <1>4, <1>5, <2>2 DEF AddIp
    <3>2. IpRight(c.ip, p)  BY <1>2, <2>2, IpByLine
    <3> QED  BY <3>1, <3>2
  <2> QED  BY <2>1, <2>2
<1>7. d \in RightUpTo(j, p)  BY <1>2, <1>3, <1>5, <1>6 DEF RightUpTo
<1> QED  BY <1>7 DEF d

\* The three parsers, one after the other, take in all lines.
LEMMA LeasesRight ==
  ASSUME TextType, Fits
  PROVE  WithLeases(NoNames, Leases) \in RightUpTo(Len(Leases), Len(Leases))
<1>1. Layout  BY LinesLaidOut
<1>2. NoNames \in Caches
  <2> DEFINE empty == [m \in {} |-> Nameless]
  <2>0. empty \in [{} -> Names] /\ {} \in SUBSET Macs /\ {} \in SUBSET Ips  OBVIOUS
  <2> HIDE DEF empty
  <2>1. empty \in Partial(Macs, Names)  BY <2>0 DEF Partial
  <2>2. empty \in Partial(Ips, Names)  BY <2>0 DEF Partial
  <2> QED  BY <2>1, <2>2 DEF NoNames, Caches, empty
<1>3. NoNames \in RightUpTo(0, 0)
  <2>1. 1..0 = {}  OBVIOUS
  <2>2. MacRight(NoNames.mac, 0)  BY <2>1 DEF MacRight, NoNames
  <2>3. IpRight(NoNames.ip, 0)  BY <2>1 DEF IpRight, NoNames
  <2> QED  BY <1>2, <2>2, <2>3 DEF RightUpTo
<1> DEFINE n == Len(Leases)
           V == [k \in 0..n |-> RightUpTo(k, k)]
<1>4. PICK c : LeasesChain(c, NoNames, Leases)  BY <1>2, LeasesByLine DEF TextType
<1>5. n \in Nat /\ \A k \in 1..n : k \in 0..n /\ k-1 \in 0..n  BY <1>1 DEF Layout
<1>6. \A k \in 0..n : V[k] = RightUpTo(k, k)  OBVIOUS
<1>7. ASSUME NEW k \in 1..n, c[k-1] \in V[k-1] PROVE c[k] \in V[k]
  <2>1. c[k-1] \in RightUpTo(k-1, k-1)  BY <1>5, <1>6, <1>7
  <2>2. OneLease(c[k-1], Leases[k]) \in RightUpTo(k, k)  BY <2>1, LeaseKeepsRight
  <2>3. c[k] = OneLease(c[k-1], Leases[k])  BY <1>4 DEF LeasesChain
  <2> QED  BY <1>5, <1>6, <2>2, <2>3
<1>8. c[0] \in V[0] /\ c[n] = WithLeases(NoNames, Leases) /\ n \in 0..n
  BY <1>3, <1>4, <1>5, <1>6 DEF LeasesChain
<1> HIDE DEF V, n
<1>9. \A k \in 0..n : c[k] \in V[k]  BY <1>5, <1>7, <1>8, ChainStays
<1>10. c[n] \in RightUpTo(n, n)  BY <1>6, <1>8, <1>9
<1> QED  BY <1>8, <1>10 DEF n

\* The lines of a hosts file, from position `from` on.
LEMMA HostsRight ==
  ASSUME TextType, Fits, NEW lines \in Seq(HostsLines), NEW from \in Nat, NEW j,
         from >= Len(Leases), from + Len(lines) <= Len(Lines),
         \A n \in 1..Len(lines) : Lines[from + n] = lines[n],
         NEW cache \in RightUpTo(j, from)
  PROVE  WithHosts(cache, lines) \in RightUpTo(j, from + Len(lines))
<1> DEFINE n == Len(lines)
           V == [k \in 0..n |-> RightUpTo(j, from + k)]
<1>1. Layout  BY LinesLaidOut
<1>2. cache \in Caches  BY DEF RightUpTo
<1>3. PICK c : HostsChain(c, cache, lines)  BY <1>2, HostsByLine
<1>4. n \in Nat /\ \A k \in 1..n : k \in 0..n /\ k-1 \in 0..n /\ lines[k] \in HostsLines
  OBVIOUS
<1>5. \A k \in 0..n : V[k] = RightUpTo(j, from + k)  OBVIOUS
<1>6. ASSUME NEW k \in 1..n, c[k-1] \in V[k-1] PROVE c[k] \in V[k]
  <2> DEFINE p == from + k
  <2>1. p \in 1..Len(Lines) /\ p > Len(Leases) /\ p - 1 = from + (k-1)
    BY <1>1, <1>4 DEF Layout
  <2>2. Lines[p] = lines[k] /\ Lines[p] \in HostsLines  BY <1>4
  <2>3. c[k-1] \in RightUpTo(j, p-1)  BY <1>4, <1>5, <1>6, <2>1
  <2>4. OneHost(c[k-1], lines[k]) \in RightUpTo(j, p)
    <3> HIDE DEF p
    <3>1. OneHost(c[k-1], Lines[p]) \in RightUpTo(j, p)  BY <2>1, <2>2, <2>3, HostKeepsRight
    <3> QED  BY <2>2, <3>1
  <2>5. c[k] = OneHost(c[k-1], lines[k])  BY <1>3 DEF HostsChain
  <2> QED  BY <1>4, <1>5, <2>4, <2>5
<1>7. c[0] \in V[0] /\ c[n] = WithHosts(cache, lines) /\ n \in 0..n
  <2>1. c[0] = cache /\ c[n] = WithHosts(cache, lines)  BY <1>3 DEF HostsChain
  <2>2. from + 0 = from /\ 0 \in 0..n  BY <1>4
  <2> QED  BY <1>4, <1>5, <2>1, <2>2
<1> HIDE DEF V, n
<1>8. \A k \in 0..n : c[k] \in V[k]  BY <1>4, <1>6, <1>7, ChainStays
<1>9. c[n] \in RightUpTo(j, from + n)  BY <1>5, <1>7, <1>8
<1> QED  BY <1>7, <1>9 DEF n

\* What the cache holds when the three files have been parsed.
AllParsed == WithHosts(WithHosts(WithLeases(NoNames, Leases), HostsDir), EtcHosts)

LEMMA ParsedAll ==
  ASSUME TextType, Fits
  PROVE  AllParsed \in RightUpTo(Len(Leases), Len(Lines))
<1> DEFINE a == Len(Leases)
           b == Len(HostsDir)
           e == Len(EtcHosts)
<1>1. Layout  BY LinesLaidOut
<1>2. a \in Nat /\ b \in Nat /\ e \in Nat /\ Len(Lines) = a + b + e  BY <1>1 DEF Layout
<1>3. /\ \A n \in 1..b : Lines[a + n] = HostsDir[n]
      /\ \A n \in 1..e : Lines[a + b + n] = EtcHosts[n]
  BY <1>1 DEF Layout
<1>4. HostsDir \in Seq(HostsLines) /\ EtcHosts \in Seq(HostsLines)  BY DEF TextType
<1> DEFINE c1 == WithLeases(NoNames, Leases)
           c2 == WithHosts(c1, HostsDir)
           c3 == WithHosts(c2, EtcHosts)
<1>5. c1 \in RightUpTo(a, a)  BY LeasesRight
<1> HIDE DEF c1
<1>6. c2 \in RightUpTo(a, a + b)
  <2>1. a >= Len(Leases) /\ a + Len(HostsDir) <= Len(Lines)  BY <1>2
  <2> QED  BY <1>2, <1>3, <1>4, <1>5, <2>1, HostsRight
<1> HIDE DEF c2
<1>7. c3 \in RightUpTo(a, a + b + e)
  <2>1. a + b >= Len(Leases) /\ a + b + Len(EtcHosts) <= Len(Lines) /\ a + b \in Nat  BY <1>2
  <2> QED  BY <1>2, <1>3, <1>4, <1>6, <2>1, HostsRight
<1> QED  BY <1>2, <1>7 DEF c1, c2, AllParsed

\* Names parsed from the files as they are: every client has the name it
\* should have.
LEMMA ParsedNamesRight == TextType /\ Fits /\ names = AllParsed => NamesRight
<1> SUFFICES ASSUME TextType, Fits, names = AllParsed, NEW mac \in Macs, NEW ips \in IpLists
             PROVE  Lookup(mac, ips) = Named(mac, ips)
  BY DEF NamesRight
<1>1. Layout  BY LinesLaidOut
<1>2. MacRight(names.mac, Len(Leases)) /\ IpRight(names.ip, Len(Lines))
  BY ParsedAll DEF RightUpTo
<1> DEFINE a == Len(Leases)
           b == Len(Lines)
<1>3. a \in Nat /\ b \in Nat  BY <1>1 DEF Layout
<1>4. Leased(mac) \subseteq 1..a /\ Leased(mac) \in SUBSET Nat
  BY <1>3 DEF Leased, Leases
<1>5. \A ip : About(ip) \in SUBSET Nat /\ \A n : n \in About(ip) <=> n \in 1..b /\ Speaks(n) /\ Lines[n].ip = ip
  BY <1>3 DEF About
<1>6. mac \in DOMAIN names.mac <=> Leased(mac) # {}
  BY <1>2, <1>4 DEF MacRight
<1>7. \A ip : ip \in DOMAIN names.ip <=> About(ip) # {}
  BY <1>2, <1>5 DEF IpRight
<1>8. ASSUME Leased(mac) # {} PROVE names.mac[mac] = text["leases"][Max(Leased(mac))].name
  <2>1. PICK n \in 1..a : /\ n \in Leased(mac) /\ names.mac[mac] = Leases[n].name
                          /\ \A m \in 1..a : m \in Leased(mac) => m <= n
    BY <1>2, <1>6, <1>8 DEF MacRight
  <2>2. \A m \in Leased(mac) : n >= m  BY <1>3, <1>4, <2>1
  <2>3. Max(Leased(mac)) = n
    <3> DEFINE S == Leased(mac)
    <3>1. S \in SUBSET Nat /\ n \in S /\ \A m \in S : n >= m  BY <1>4, <2>1, <2>2
    <3> HIDE DEF S
    <3>2. Max(S) = n  BY <3>1, MaxIs
    <3> QED  BY <3>2 DEF S
  <2> QED  BY <2>1, <2>3 DEF Leases
<1>9. ASSUME NEW ip, About(ip) # {} PROVE names.ip[ip] = Lines[Min(About(ip))].name
  <2>1. PICK n \in 1..b : /\ Speaks(n) /\ Lines[n].ip = ip /\ names.ip[ip] = Lines[n].name
                          /\ \A m \in 1..b : Speaks(m) /\ Lines[m].ip = ip => n <= m
    BY <1>2, <1>7, <1>9 DEF IpRight
  <2>2. n \in About(ip) /\ \A m \in About(ip) : n <= m  BY <1>5, <2>1
  <2>3. Min(About(ip)) = n
    <3> DEFINE S == About(ip)
    <3>1. S \in SUBSET Nat /\ n \in S /\ \A m \in S : n <= m  BY <1>5, <2>2
    <3> HIDE DEF S
    <3>2. Min(S) = n  BY <3>1, MinIs
    <3> QED  BY <3>2 DEF S
  <2> QED  BY <2>1, <2>3
<1> DEFINE known == {n \in 1..Len(ips) : ips[n] \in DOMAIN names.ip}
           named == {n \in 1..Len(ips) : About(ips[n]) # {}}
<1>10. known = named  BY <1>7
<1>11. known # {} => Min(known) \in named
  <2>1. known \in SUBSET Nat
    <3>1. Len(ips) \in Nat  BY FilesAssumption
    <3> QED  BY <3>1
  <2>2. \A n \in known : n \in named  BY <1>10
  <2> HIDE DEF known, named
  <2> QED  BY <2>1, <2>2, MinIsElement
<1>12. Lookup(mac, ips) = IF mac \in DOMAIN names.mac THEN names.mac[mac]
                          ELSE IF known = {} THEN Nameless ELSE names.ip[ips[Min(known)]]
  BY DEF Lookup
<1>13. Named(mac, ips) = IF Leased(mac) # {} THEN text["leases"][Max(Leased(mac))].name
                         ELSE IF named = {} THEN Nameless
                         ELSE Lines[Min(About(ips[Min(named)]))].name
  BY DEF Named
<1>14. known # {} => About(ips[Min(known)]) # {}  BY <1>11
<1> HIDE DEF known, named
<1>15. known # {} => names.ip[ips[Min(known)]] = Lines[Min(About(ips[Min(known)]))].name
  BY <1>9, <1>14
<1> QED  BY <1>6, <1>8, <1>10, <1>12, <1>13, <1>15

----------------------------------------------------------------------------
(* The names, wherever files are written *)

\* The names that come from the files as they were when each was read.
Parsed(used) ==
  WithHosts(WithHosts(WithLeases(NoNames, used["leases"]), used["hostsdir"]), used["etchosts"])

Parsing == {"leases", "hostsdir", "etchosts"}

\* The files read since the refresh began, at each step of the thread.
ReadBy(j) ==
  IF j = "leases" THEN {}
  ELSE IF j = "hostsdir" THEN {"leases"}
  ELSE IF j = "etchosts" THEN {"leases", "hostsdir"} ELSE Sources

\* When the refresh began that the names are from.
Start == IF job \in Parsing THEN refresh.at ELSE seen.at

\* A `clients` call that has its names waits to be answered.
Owed == job = "answer" \/ (job = "walk" /\ walk.back = "answer")

NamesFrom(used) ==
  /\ job = "leases" => names = NoNames
  /\ job = "hostsdir" => names = WithLeases(NoNames, used["leases"])
  /\ job = "etchosts" =>
       names = WithHosts(WithLeases(NoNames, used["leases"]), used["hostsdir"])
  /\ job \notin Parsing /\ seen.at # 0 => names = Parsed(used)
  /\ \A s \in ReadBy(job) : mtime[s] < Start => used[s] = text[s]

Clocks ==
  /\ now \in Nat /\ now >= 1 /\ mtime \in [Sources -> Nat] /\ \A s \in Sources : mtime[s] <= now
  /\ refresh.at \in Nat /\ refresh.at <= now
  /\ seen.at \in Nat /\ seen.at <= now
  /\ \A s \in Sources : refresh.mtime[s] \in Nat /\ refresh.mtime[s] <= refresh.at
  /\ \A s \in Sources : seen.mtime[s] \in Nat /\ seen.mtime[s] <= seen.at
  /\ asked \in Nat /\ asked <= now
  /\ job \in Parsing => refresh.at >= 1
  /\ Owed => seen.at # 0
  /\ walk.back \in {"idle", "answer"}

\* An answer from the cache is given within the interval, and about files that
\* had not been written since: only what is written in its second differs.
Kept ==
  asked # seen.at =>
    /\ seen.at <= asked /\ asked < seen.at + RefreshInterval
    /\ \A s \in Sources : mtime[s] < asked => mtime[s] = seen.mtime[s]

NamesInv ==
  /\ DOMAIN text = Sources /\ TextType /\ Clocks /\ Kept
  /\ \E used : DOMAIN used = Sources /\ NamesFrom(used)

LEMMA NamesInit == Init => NamesInv
<1> SUFFICES ASSUME Init PROVE NamesInv
  OBVIOUS
<1>1. /\ now = 1 /\ job = "idle" /\ text = [s \in Sources |-> <<>>]
      /\ mtime = [s \in Sources |-> 0] /\ names = NoNames
      /\ seen = [at |-> 0, mtime |-> mtime] /\ refresh = seen /\ asked = 0
      /\ walk.back = "idle"
  BY DEF Init, DaemonInit, HostnamesInit, OverviewInit
<1>2. DOMAIN text = Sources /\ TextType
  BY <1>1 DEF TextType, Leases, HostsDir, EtcHosts, Sources
<1>3. Clocks  BY <1>1 DEF Clocks, Owed, Parsing, Sources
<1>4. NamesFrom(text)  BY <1>1 DEF NamesFrom, Parsing
<1> QED  BY <1>1, <1>2, <1>3, <1>4 DEF NamesInv, Kept

\* Steps of the other services.
LEMMA OthersKeepNames ==
  ASSUME NamesInv, UNCHANGED hostnames, now' \in Nat, now' >= now,
         job' = job \/ (job \notin Parsing /\ job' \notin Parsing),
         Owed' => Owed, walk'.back \in {"idle", "answer"}
  PROVE  NamesInv'
<1>0. UNCHANGED <<text, mtime, names, seen, refresh, asked>>  BY DEF hostnames
<1>1. DOMAIN text' = Sources /\ TextType' /\ Kept'
  BY <1>0 DEF NamesInv, TextType, Leases, HostsDir, EtcHosts, Kept
<1>2. (job \in Parsing)' <=> job \in Parsing
  BY DEF Parsing
<1>3. Start' = Start  BY <1>0, <1>2 DEF Start
<1>4. ReadBy(job)' = ReadBy(job)  BY DEF ReadBy, Parsing
<1>5. Clocks'
  <2>1. now \in Nat /\ now' >= 1 /\ \A t \in Nat : t <= now => t <= now'
    BY DEF NamesInv, Clocks
  <2> QED  BY <1>0, <1>2, <2>1 DEF NamesInv, Clocks
<1>6. PICK used : DOMAIN used = Sources /\ NamesFrom(used)  BY DEF NamesInv
<1>7. NamesFrom(used)'
  <2>1. \A s \in ReadBy(job)' : mtime'[s] < Start' => used[s] = text'[s]
    BY <1>0, <1>3, <1>4, <1>6 DEF NamesFrom
  <2>2. job' = job \/ (job \notin Parsing /\ job' \notin Parsing)  OBVIOUS
  <2> QED  BY <1>0, <1>2, <1>6, <2>1, <2>2 DEF NamesFrom, Parsing
<1> QED  BY <1>1, <1>5, <1>6, <1>7 DEF NamesInv

LEMMA WriteKeepsNames ==
  ASSUME NamesInv, NEW s \in Sources, NEW lines, Write(s, lines), UNCHANGED walk,
         s = "leases" => lines \in Seq(LeaseLines), s # "leases" => lines \in Seq(HostsLines)
  PROVE  NamesInv'
<1>1. /\ text' = [text EXCEPT ![s] = lines] /\ mtime' = [mtime EXCEPT ![s] = now]
      /\ UNCHANGED <<now, job, names, seen, refresh, asked, walk>>
  BY DEF Write
<1>2. DOMAIN text = Sources /\ TextType /\ Clocks /\ Kept  BY DEF NamesInv
<1>3. mtime \in [Sources -> Nat] /\ now \in Nat  BY <1>2 DEF Clocks
<1>4. /\ DOMAIN text' = Sources /\ text'[s] = lines /\ mtime' \in [Sources -> Nat]
      /\ mtime'[s] = now
      /\ \A r \in Sources \ {s} : text'[r] = text[r] /\ mtime'[r] = mtime[r]
  BY <1>1, <1>2, <1>3
<1>5. TextType'  BY <1>2, <1>4 DEF TextType, Leases, HostsDir, EtcHosts, Sources
<1>6. Clocks'
  <2>1. \A r \in Sources : mtime'[r] <= now'  BY <1>1, <1>2, <1>3, <1>4 DEF Clocks
  <2> QED  BY <1>1, <1>2, <1>4, <2>1 DEF Clocks, Owed
<1>7. Kept'  BY <1>1, <1>2, <1>4 DEF Kept, Clocks
<1>8. PICK used : DOMAIN used = Sources /\ NamesFrom(used)  BY DEF NamesInv
<1>9. NamesFrom(used)'
  <2>1. Start' = Start /\ Start \in Nat /\ Start <= now  BY <1>1, <1>2 DEF Start, Clocks
  <2>2. ASSUME NEW r \in ReadBy(job), mtime'[r] < Start PROVE used[r] = text'[r]
    <3>1. r # s  BY <1>3, <1>4, <2>1, <2>2
    <3>2. r \in Sources  BY DEF ReadBy, Sources
    <3> QED  BY <1>4, <1>8, <2>2, <3>1, <3>2 DEF NamesFrom
  <2> QED  BY <1>1, <1>8, <2>1, <2>2 DEF NamesFrom
<1> QED  BY <1>4, <1>5, <1>6, <1>7, <1>8, <1>9 DEF NamesInv

LEMMA RefreshKeepsNames ==
  ASSUME NamesInv, job = "idle", RefreshNames, UNCHANGED <<now, walk>>
  PROVE  NamesInv'
<1>1. DOMAIN text = Sources /\ TextType /\ Clocks /\ Kept  BY DEF NamesInv
<1>2. PICK used : DOMAIN used = Sources /\ NamesFrom(used)  BY DEF NamesInv
<1>3. CASE KeepsNames
  <2>1. /\ job' = "answer" /\ asked' = now
        /\ UNCHANGED <<text, mtime, names, seen, refresh, now, walk>>
    BY <1>3 DEF RefreshNames, files
  <2>2. seen.at # 0 /\ mtime = seen.mtime /\ now - seen.at < RefreshInterval
    BY <1>3 DEF KeepsNames
  <2>3. Clocks'  BY <1>1, <2>1, <2>2 DEF Clocks, Parsing
  <2>4. Kept'
    <3>1. asked' = now /\ seen' = seen /\ mtime' = mtime  BY <2>1
    <3>2. seen.at <= now /\ now < seen.at + RefreshInterval
      BY <1>1, <2>2, CacheAssumption DEF Clocks
    <3> QED  BY <2>2, <3>1, <3>2 DEF Kept
  <2>5. NamesFrom(used)'
    <3>1. Start' = Start /\ ReadBy(job)' = ReadBy(job)  BY <2>1 DEF Start, Parsing, ReadBy
    <3> QED  BY <1>2, <2>1, <3>1 DEF NamesFrom, Parsing
  <2>6. DOMAIN text' = Sources /\ TextType'
    BY <1>1, <2>1 DEF TextType, Leases, HostsDir, EtcHosts
  <2> QED  BY <1>2, <2>3, <2>4, <2>5, <2>6 DEF NamesInv
<1>4. CASE ~KeepsNames
  <2>1. /\ job' = "leases" /\ names' = NoNames /\ refresh' = [at |-> now, mtime |-> mtime]
        /\ UNCHANGED <<text, mtime, seen, asked, now, walk>>
    BY <1>4 DEF RefreshNames, files
  <2>2. Clocks'  BY <1>1, <2>1 DEF Clocks, Owed
  <2>3. Kept'  BY <1>1, <2>1 DEF Kept
  <2>4. NamesFrom(used)'  BY <2>1 DEF NamesFrom, ReadBy, Parsing
  <2>5. DOMAIN text' = Sources /\ TextType'
    BY <1>1, <2>1 DEF TextType, Leases, HostsDir, EtcHosts
  <2> QED  BY <1>2, <2>2, <2>3, <2>4, <2>5 DEF NamesInv
<1> QED  BY <1>3, <1>4

LEMMA ParseKeepsNames ==
  ASSUME NamesInv, HostnamesStep, UNCHANGED <<now, walk>>
  PROVE  NamesInv'
<1>1. DOMAIN text = Sources /\ TextType /\ Clocks /\ Kept  BY DEF NamesInv
<1>2. PICK used : DOMAIN used = Sources /\ NamesFrom(used)  BY DEF NamesInv
<1>3. text' = text /\ mtime' = mtime /\ refresh' = refresh
  BY DEF HostnamesStep, ParseLeases, ParseHostsDir, ParseEtcHosts, files
<1>4. DOMAIN text' = Sources /\ TextType'
  BY <1>1, <1>3 DEF TextType, Leases, HostsDir, EtcHosts
<1> DEFINE With(s) == [r \in Sources |-> IF r = s THEN text[s] ELSE used[r]]
<1>5. CASE ParseLeases
  <2>1. /\ job = "leases" /\ job' = "hostsdir" /\ names' = WithLeases(names, text["leases"])
        /\ UNCHANGED <<seen, asked>>
    BY <1>5 DEF ParseLeases
  <2>2. Clocks'  BY <1>1, <1>3, <2>1 DEF Clocks, Owed, Parsing
  <2>3. Kept'  BY <1>1, <1>3, <2>1 DEF Kept
  <2>p. PICK u : u = With("leases")  OBVIOUS
  <2>4. DOMAIN u = Sources /\ u["leases"] = text["leases"]  BY <2>p DEF Sources
  <2>5. names' = WithLeases(NoNames, u["leases"])  BY <1>2, <2>1, <2>4 DEF NamesFrom
  <2>6. NamesFrom(u)'  BY <1>3, <2>1, <2>4, <2>5 DEF NamesFrom, Parsing, ReadBy
  <2> QED  BY <1>4, <2>2, <2>3, <2>4, <2>6 DEF NamesInv
<1>6. CASE ParseHostsDir
  <2>1. /\ job = "hostsdir" /\ job' = "etchosts" /\ names' = WithHosts(names, text["hostsdir"])
        /\ UNCHANGED <<seen, asked>>
    BY <1>6 DEF ParseHostsDir
  <2>2. Clocks'  BY <1>1, <1>3, <2>1 DEF Clocks, Owed, Parsing
  <2>3. Kept'  BY <1>1, <1>3, <2>1 DEF Kept
  <2>p. PICK u : u = With("hostsdir")  OBVIOUS
  <2>4. DOMAIN u = Sources /\ u["leases"] = used["leases"] /\ u["hostsdir"] = text["hostsdir"]
    BY <2>p DEF Sources
  <2>5. names' = WithHosts(WithLeases(NoNames, u["leases"]), u["hostsdir"])
    BY <1>2, <2>1, <2>4 DEF NamesFrom
  <2>6. Start' = Start /\ ReadBy(job') = {"leases", "hostsdir"} /\ ReadBy(job) = {"leases"}
    BY <1>3, <2>1 DEF Start, Parsing, ReadBy
  <2>7. \A s \in ReadBy(job') : mtime'[s] < Start' => u[s] = text'[s]
    BY <1>2, <1>3, <2>4, <2>6 DEF NamesFrom
  <2>8. NamesFrom(u)'  BY <2>1, <2>5, <2>7 DEF NamesFrom, Parsing
  <2> QED  BY <1>4, <2>2, <2>3, <2>4, <2>8 DEF NamesInv
<1>7. CASE ParseEtcHosts
  <2>1. /\ job = "etchosts" /\ job' = "answer" /\ names' = WithHosts(names, text["etchosts"])
        /\ seen' = refresh /\ asked' = refresh.at
    BY <1>7 DEF ParseEtcHosts
  <2>2. Clocks'  BY <1>1, <1>3, <2>1 DEF Clocks, Owed, Parsing
  <2>3. Kept'  BY <2>1 DEF Kept
  <2>p. PICK u : u = With("etchosts")  OBVIOUS
  <2>4. /\ DOMAIN u = Sources /\ u["leases"] = used["leases"] /\ u["hostsdir"] = used["hostsdir"]
        /\ u["etchosts"] = text["etchosts"]
    BY <2>p DEF Sources
  <2>5. names' = Parsed(u)  BY <1>2, <2>1, <2>4 DEF NamesFrom, Parsed
  <2>6. Start' = Start /\ ReadBy(job') = Sources /\ ReadBy(job) = {"leases", "hostsdir"}
    BY <1>3, <2>1 DEF Start, Parsing, ReadBy
  <2>7. \A s \in ReadBy(job') : mtime'[s] < Start' => u[s] = text'[s]
    BY <1>2, <1>3, <2>4, <2>6 DEF NamesFrom, Sources
  <2>8. NamesFrom(u)'  BY <2>1, <2>5, <2>7 DEF NamesFrom, Parsing
  <2> QED  BY <1>4, <2>2, <2>3, <2>4, <2>8 DEF NamesInv
<1> QED  BY <1>5, <1>6, <1>7 DEF HostnamesStep

LEMMA NamesStepKeeps == NamesInv /\ [Next]_vars => NamesInv'
<1> SUFFICES ASSUME NamesInv, [Next]_vars PROVE NamesInv'
  OBVIOUS
<1>1. now \in Nat /\ walk.back \in {"idle", "answer"}  BY DEF NamesInv, Clocks
<1>2. CASE ClientsCall
  <2>1. job = "idle" /\ RefreshNames /\ UNCHANGED <<now, walk>>
    BY <1>2 DEF ClientsCall, overview, snapshots
  <2> QED  BY <2>1, RefreshKeepsNames
<1>3. CASE NamesStep
  <2>1. HostnamesStep /\ UNCHANGED <<now, walk>>  BY <1>3 DEF NamesStep, overview, snapshots
  <2> QED  BY <2>1, ParseKeepsNames
<1>4. CASE ClientsAnswer
  <2>1. job = "answer" /\ job' = "idle" /\ UNCHANGED <<now, walk, hostnames>>
    BY <1>4 DEF ClientsAnswer, PushOverview, snapshots
  <2>2. now' \in Nat /\ now' >= now  BY <1>1, <2>1
  <2> QED  BY <1>1, <2>1, <2>2, OthersKeepNames DEF Owed, Parsing
<1>5. CASE InterfacesCall
  <2>1. UNCHANGED <<now, walk, hostnames>> /\ job \notin Parsing /\ job' \notin Parsing
        /\ job' # "answer" /\ job' # "walk"
    BY <1>5 DEF InterfacesCall, StartPoll, InterfacesStep, OpenCounter, ReadCounter,
                SettleInterface, overview, snapshots, Parsing
  <2>2. now' \in Nat /\ now' >= now  BY <1>1, <2>1
  <2> QED  BY <1>1, <2>1, <2>2, OthersKeepNames DEF Owed
<1>6. CASE Collect
  <2>1. UNCHANGED <<now, hostnames>>
    BY <1>6 DEF Collect, TickCollects, SwitchCollects, Walk
  <2>2. now' \in Nat /\ now' >= now  BY <1>1, <2>1
  <2>3. CASE TickCollects
    <3>1. job = "idle" /\ job' = "walk" /\ walk'.back = "idle"  BY <2>3 DEF TickCollects, Walk
    <3> QED  BY <2>1, <2>2, <3>1, OthersKeepNames DEF Owed, Parsing
  <2>4. CASE SwitchCollects
    <3>1. job = "answer" /\ job' = "walk" /\ walk'.back = "answer"  BY <2>4 DEF SwitchCollects, Walk
    <3> QED  BY <2>1, <2>2, <3>1, OthersKeepNames DEF Owed, Parsing
  <2>5. CASE ReadEntry
    <3>1. job' = job /\ walk'.back = walk.back  BY <1>1, <2>5 DEF ReadEntry
    <3> QED  BY <1>1, <2>1, <2>2, <3>1, OthersKeepNames DEF Owed, Parsing
  <2>6. CASE Collected
    <3>1. job = "walk" /\ job' = walk.back /\ walk' = walk  BY <2>6 DEF Collected
    <3> QED  BY <1>1, <2>1, <2>2, <3>1, OthersKeepNames DEF Owed, Parsing
  <2> QED  BY <1>6, <2>3, <2>4, <2>5, <2>6 DEF Collect, OverviewStep
<1>7. CASE World
  <2>1. CASE Tick /\ UNCHANGED <<hostnames, overview>>
    <3>1. now' = now + 1 /\ job' = job /\ walk' = walk  BY <2>1 DEF Tick, overview, snapshots
    <3>2. now' \in Nat /\ now' >= now  BY <1>1, <3>1
    <3> QED  BY <1>1, <2>1, <3>1, <3>2, OthersKeepNames DEF Owed
  <2>2. CASE HostnamesWorld /\ UNCHANGED overview
    <3>1. UNCHANGED walk  BY <2>2 DEF overview, snapshots
    <3>2. CASE EmptyLeases
      <4>1. Write("leases", <<>>) /\ "leases" \in Sources /\ <<>> \in Seq(LeaseLines)
        BY <3>2 DEF EmptyLeases, Sources
      <4> QED  BY <3>1, <4>1, WriteKeepsNames
    <3>3. CASE FillLeases
      <4>1. PICK lines \in LeaseFiles : Write("leases", lines)  BY <3>3 DEF FillLeases
      <4>2. "leases" \in Sources /\ lines \in Seq(LeaseLines)  BY FilesAssumption DEF Sources
      <4> QED  BY <3>1, <4>1, <4>2, WriteKeepsNames
    <3>4. CASE WriteHosts
      <4>1. PICK s \in {"hostsdir", "etchosts"}, lines \in HostsFiles : Write(s, lines)
        BY <3>4 DEF WriteHosts
      <4>2. s \in Sources /\ s # "leases" /\ lines \in Seq(HostsLines)
        BY FilesAssumption DEF Sources
      <4> QED  BY <3>1, <4>1, <4>2, WriteKeepsNames
    <3> QED  BY <2>2, <3>2, <3>3, <3>4 DEF HostnamesWorld
  <2>3. CASE UNCHANGED <<now, job, hostnames, walk>>
    <3>1. now' \in Nat /\ now' >= now  BY <1>1, <2>3
    <3> QED  BY <1>1, <2>3, <3>1, OthersKeepNames DEF Owed
  <2>4. (InterfacesWorld /\ UNCHANGED <<now, job, hostnames, overview>>)
          => UNCHANGED <<now, job, hostnames, walk>>
    BY DEF overview, snapshots
  <2>5. (OverviewWorld /\ UNCHANGED <<hostnames, interfaces>>)
          => UNCHANGED <<now, job, hostnames, walk>>
    BY DEF OverviewWorld, Frame
  <2> QED  BY <1>7, <2>1, <2>2, <2>3, <2>4, <2>5 DEF World
<1>8. CASE UNCHANGED vars
  <2>1. UNCHANGED <<now, job, hostnames, walk>>
    BY <1>8 DEF vars, daemon, overview, snapshots
  <2>2. now' \in Nat /\ now' >= now  BY <1>1, <2>1
  <2> QED  BY <1>1, <2>1, <2>2, OthersKeepNames DEF Owed
<1> QED  BY <1>2, <1>3, <1>4, <1>5, <1>6, <1>7, <1>8 DEF Next

\* Files that were last written before the refresh are what the names are from.
LEMMA OldFilesShow ==
  ASSUME NamesInv, job = "answer", Fits, \A s \in Sources : mtime[s] < seen.at
  PROVE  NamesRight
<1>1. PICK used : DOMAIN used = Sources /\ NamesFrom(used)  BY DEF NamesInv
<1>2. /\ TextType /\ names = Parsed(used) /\ ReadBy(job) = Sources /\ Start = seen.at
  BY <1>1 DEF NamesInv, Clocks, Owed, NamesFrom, Parsing, ReadBy, Start
<1>3. \A s \in Sources : used[s] = text[s]  BY <1>1, <1>2 DEF NamesFrom
<1>4. names = AllParsed
  BY <1>2, <1>3 DEF Parsed, AllParsed, Leases, HostsDir, EtcHosts, Sources
<1> QED  BY <1>2, <1>4, ParsedNamesRight

\* The names of an answer are those of the files once these have been left
\* alone for the interval, for any number and size of files that fit the cache
\* and wherever a writer empties or fills one while another is read
\* (hostname_cache_refresh).
THEOREM NamesCatchUp == Spec => []StaleNamesBounded
<1>1. NamesInv => StaleNamesBounded
  <2> SUFFICES ASSUME NamesInv, job = "answer", Fits,
                      \A s \in Sources : mtime[s] + RefreshInterval <= asked
               PROVE  NamesRight
    BY DEF StaleNamesBounded
  <2>1. ASSUME NEW s \in Sources PROVE mtime[s] < seen.at
    <3>1. /\ mtime[s] \in Nat /\ asked \in Nat /\ seen.at \in Nat
          /\ mtime[s] + RefreshInterval <= asked /\ RefreshInterval \in Nat \ {0}
          /\ asked = seen.at \/ asked < seen.at + RefreshInterval
      BY CacheAssumption DEF NamesInv, Clocks, Kept
    <3> QED  BY <3>1
  <2> QED  BY <2>1, OldFilesShow
<1> QED  BY <1>1, NamesInit, NamesStepKeeps, PTL DEF Spec

\* A change shows in the first call of a later second, unless the cache was
\* filled in the second of the change (the mtimes hostname_cache_refresh keeps).
THEOREM ChangesShow == Spec => []LaterChangeShown
<1>1. NamesInv => LaterChangeShown
  <2> SUFFICES ASSUME NamesInv, job = "answer", Fits,
                      \A s \in Sources : mtime[s] < asked /\ mtime[s] # seen.at
               PROVE  NamesRight
    BY DEF LaterChangeShown
  <2>1. ASSUME NEW s \in Sources PROVE mtime[s] < seen.at
    <3>1. /\ mtime[s] \in Nat /\ asked \in Nat /\ seen.at \in Nat
          /\ mtime[s] < asked /\ mtime[s] # seen.at /\ seen.mtime[s] <= seen.at
          /\ asked = seen.at \/ mtime[s] = seen.mtime[s]
      BY DEF NamesInv, Clocks, Kept
    <3> QED  BY <3>1
  <2> QED  BY <2>1, OldFilesShow
<1> QED  BY <1>1, NamesInit, NamesStepKeeps, PTL DEF Spec

----------------------------------------------------------------------------
(* The type invariant: the caches and the window stay within their bounds, *)
(* and no clock a service kept is ahead of the thread's.                   *)

\* A cache within its bound, of whatever the files hold.
InBound(f) == IsFiniteSet(DOMAIN f) /\ IsCache(f)
BoundedCaches == {c \in Caches : InBound(c.mac) /\ InBound(c.ip)}

\* One more element does not exceed a bound the set was below.
LEMMA OneMore ==
  ASSUME NEW D, IsFiniteSet(D), NEW x, NEW m \in Nat, ~(Cardinality(D) >= m)
  PROVE  IsFiniteSet(D \union {x}) /\ Cardinality(D \union {x}) <= m
<1>1. IsFiniteSet(D \union {x}) /\ Cardinality(D) \in Nat
      /\ (Cardinality(D \union {x}) = Cardinality(D) \/ Cardinality(D \union {x}) = Cardinality(D) + 1)
  BY FS_AddElement, FS_CardinalityType
<1> QED  BY <1>1

LEMMA AddMacBound ==
  ASSUME NEW f, InBound(f), NEW mac, NEW name
  PROVE  InBound(AddMac(f, mac, name))
<1>1. CASE name = Nameless \/ Cardinality(DOMAIN f) >= CacheMax  BY <1>1 DEF AddMac
<1>2. CASE ~(name = Nameless \/ Cardinality(DOMAIN f) >= CacheMax)
  <2>1. DOMAIN AddMac(f, mac, name) = DOMAIN f \union {mac}  BY <1>2 DEF AddMac
  <2> QED  BY <1>2, <2>1, OneMore, CacheAssumption DEF InBound, IsCache
<1> QED  BY <1>1, <1>2

LEMMA AddIpBound ==
  ASSUME NEW f, InBound(f), NEW ip, NEW name
  PROVE  InBound(AddIp(f, ip, name))
<1> DEFINE full == name = Nameless \/ Cardinality(DOMAIN f) >= CacheMax \/ ip \in DOMAIN f
<1>1. CASE full  BY <1>1 DEF AddIp
<1>2. CASE ~full
  <2>1. DOMAIN AddIp(f, ip, name) = DOMAIN f \union {ip}  BY <1>2 DEF AddIp
  <2> QED  BY <1>2, <2>1, OneMore, CacheAssumption DEF InBound, IsCache
<1> QED  BY <1>1, <1>2

LEMMA LeasesBound ==
  ASSUME NEW cache \in BoundedCaches, NEW lines \in Seq(LeaseLines)
  PROVE  WithLeases(cache, lines) \in BoundedCaches
<1> DEFINE n == Len(lines)  V == [k \in 0..n |-> BoundedCaches]
<1>1. PICK c : LeasesChain(c, cache, lines)  BY LeasesByLine DEF BoundedCaches
<1>2. n \in Nat /\ n \in 0..n /\ \A k \in 1..n : lines[k] \in LeaseLines  OBVIOUS
<1>3. \A k \in 1..n : k \in 0..n /\ k-1 \in 0..n  BY <1>2
<1>4. ASSUME NEW k \in 1..n, c[k-1] \in V[k-1] PROVE c[k] \in V[k]
  <2>1. c[k-1] \in BoundedCaches /\ lines[k] \in LeaseLines  BY <1>2, <1>3, <1>4
  <2> DEFINE b == c[k-1]  l == lines[k]
  <2>2. OneLease(b, l) \in Caches  BY <2>1, OneLeaseType DEF BoundedCaches
  <2>3. InBound(OneLease(b, l).mac) /\ InBound(OneLease(b, l).ip)
    <3>1. InBound(b.mac) /\ InBound(b.ip)  BY <2>1 DEF BoundedCaches
    <3> HIDE DEF b, l
    <3> QED  BY <3>1, AddMacBound, AddIpBound DEF OneLease
  <2>4. c[k] = OneLease(b, l)  BY <1>1 DEF LeasesChain
  <2> HIDE DEF b, l
  <2> QED  BY <1>3, <2>2, <2>3, <2>4 DEF BoundedCaches
<1>5. c[0] \in V[0] /\ c[n] = WithLeases(cache, lines)  BY <1>1, <1>2 DEF LeasesChain
<1> HIDE DEF V, n
<1>6. \A k \in 0..n : c[k] \in V[k]  BY <1>2, <1>4, <1>5, ChainStays
<1> QED  BY <1>2, <1>5, <1>6 DEF V

LEMMA HostsBound ==
  ASSUME NEW cache \in BoundedCaches, NEW lines \in Seq(HostsLines)
  PROVE  WithHosts(cache, lines) \in BoundedCaches
<1> DEFINE n == Len(lines)  V == [k \in 0..n |-> BoundedCaches]
<1>1. PICK c : HostsChain(c, cache, lines)  BY HostsByLine DEF BoundedCaches
<1>2. n \in Nat /\ n \in 0..n /\ \A k \in 1..n : lines[k] \in HostsLines  OBVIOUS
<1>3. \A k \in 1..n : k \in 0..n /\ k-1 \in 0..n  BY <1>2
<1>4. ASSUME NEW k \in 1..n, c[k-1] \in V[k-1] PROVE c[k] \in V[k]
  <2>1. c[k-1] \in BoundedCaches /\ lines[k] \in HostsLines  BY <1>2, <1>3, <1>4
  <2> DEFINE b == c[k-1]  l == lines[k]
  <2>2. OneHost(b, l) \in Caches  BY <2>1, OneHostType DEF BoundedCaches
  <2>3. InBound(OneHost(b, l).mac) /\ InBound(OneHost(b, l).ip)
    <3>1. InBound(b.mac) /\ InBound(b.ip) /\ b \in [mac : Partial(Macs, Names), ip : Partial(Ips, Names)]
      BY <2>1 DEF BoundedCaches, Caches
    <3> HIDE DEF b, l
    <3> QED  BY <3>1, AddIpBound DEF OneHost
  <2>4. c[k] = OneHost(b, l)  BY <1>1 DEF HostsChain
  <2> HIDE DEF b, l
  <2> QED  BY <1>3, <2>2, <2>3, <2>4 DEF BoundedCaches
<1>5. c[0] \in V[0] /\ c[n] = WithHosts(cache, lines)  BY <1>1, <1>2 DEF HostsChain
<1> HIDE DEF V, n
<1>6. \A k \in 0..n : c[k] \in V[k]  BY <1>2, <1>4, <1>5, ChainStays
<1> QED  BY <1>2, <1>5, <1>6 DEF V

LEMMA NoNamesBound == NoNames \in BoundedCaches
<1> DEFINE empty == [m \in {} |-> Nameless]
<1>1. empty \in [{} -> Names] /\ {} \in SUBSET Macs /\ {} \in SUBSET Ips /\ DOMAIN empty = {}  OBVIOUS
<1> HIDE DEF empty
<1>2. empty \in Partial(Macs, Names) /\ empty \in Partial(Ips, Names)  BY <1>1 DEF Partial
<1>3. InBound(empty)  BY <1>1, FS_EmptySet, CacheAssumption DEF InBound, IsCache
<1> QED  BY <1>2, <1>3 DEF NoNames, Caches, BoundedCaches, empty

\* What is remembered of clients: of some of them, from a time not later
\* than the next.
Snapshots ==
  /\ older.ms \in Nat /\ current.ms \in Nat /\ walk.ms \in Nat
  /\ older.ms <= current.ms /\ current.ms <= walk.ms /\ walk.ms <= now
  /\ DOMAIN older.got \subseteq People /\ DOMAIN current.got \subseteq People /\ DOMAIN walk.got \subseteq People
  /\ walk.at \in 1..Len(PeopleSeq) + 1

SamplesUntil(t) == [ms : 0..t, clients : SUBSET People, active : SUBSET People]

Polled == poll.ms <= now /\ \A i \in Ifaces : previous[i].ms <= now

TypeInv ==
  /\ job \in Jobs /\ left \in [Bounded -> Nat] /\ names \in BoundedCaches /\ seen.at <= refresh.at
  /\ Polled /\ Snapshots /\ ring \in Rings(Window, SamplesUntil(now))

LEMMA TypeInit == Init => TypeInv
<1> SUFFICES ASSUME Init PROVE TypeInv
  OBVIOUS
<1>1. job \in Jobs /\ left \in [Bounded -> Nat] /\ now = 1 /\ seen.at = 0 /\ refresh.at = 0
  BY BudgetsAssumption DEF Init, DaemonInit, HostnamesInit, Jobs
<1>2. names \in BoundedCaches  BY NoNamesBound DEF Init, HostnamesInit
<1>3. Polled  BY <1>1 DEF Init, InterfacesInit, Polled
<1>4. Snapshots
  <2>1. DOMAIN NoSnapshot.got = {} /\ NoSnapshot.ms = 0  BY DEF NoSnapshot
  <2>2. Len(PeopleSeq) \in Nat  BY PeopleAssumption
  <2>3. /\ walk.ms = 0 /\ walk.at = 1 /\ walk.got = NoSnapshot.got
        /\ current = NoSnapshot /\ older = NoSnapshot
    BY DEF Init, OverviewInit
  <2> QED  BY <1>1, <2>1, <2>2, <2>3 DEF Snapshots
<1>5. ring \in Rings(Window, SamplesUntil(now))
  <2>1. NoSample \in SamplesUntil(now)  BY <1>1 DEF NoSample, SamplesUntil
  <2>2. ring = EmptyRing(Window, NoSample)  BY DEF Init, OverviewInit
  <2> HIDE DEF NoSample, SamplesUntil
  <2>3. EmptyRing(Window, NoSample) \in Rings(Window, SamplesUntil(now))  BY <2>1, EmptyIsRing
  <2> QED  BY <2>2, <2>3
<1> QED  BY <1>1, <1>2, <1>3, <1>4, <1>5 DEF TypeInv

\* A ring of samples until now is one of samples until later.
LEMMA RingLater ==
  ASSUME NEW t \in Nat, NEW u \in Nat, t <= u, NEW r \in Rings(Window, SamplesUntil(t))
  PROVE  r \in Rings(Window, SamplesUntil(u))
<1>1. SamplesUntil(t) \subseteq SamplesUntil(u)  BY DEF SamplesUntil
<1> HIDE DEF SamplesUntil
<1> QED  BY <1>1 DEF Rings

LEMMA SpendKeeps ==
  ASSUME left \in [Bounded -> Nat], NEW b \in Bounded, Spend(b)
  PROVE  left' \in [Bounded -> Nat]
<1>1. left[b] \in Nat /\ left[b] > 0 /\ left' = [left EXCEPT ![b] = left[b] - 1]  BY DEF Spend
<1>2. left[b] - 1 \in Nat  BY <1>1
<1> QED  BY <1>1, <1>2

\* Steps of the other services, and time that passes.
LEMMA RestKeepsTypes ==
  ASSUME TypeInv, InterfacesType, UNCHANGED <<interfaces, snapshots, ring>>, now \in Nat, now' \in Nat, now <= now',
         job' \in Jobs, left' \in [Bounded -> Nat], names' \in BoundedCaches, seen'.at <= refresh'.at
  PROVE  TypeInv'
<1>1. Polled'
  <2>1. poll' = poll /\ previous' = previous  BY DEF interfaces
  <2>2. poll.ms \in Nat /\ \A i \in Ifaces : previous[i].ms \in Nat  BY DEF InterfacesType
  <2>3. poll.ms <= now /\ \A i \in Ifaces : previous[i].ms <= now  BY DEF TypeInv, Polled
  <2> QED  BY <2>1, <2>2, <2>3 DEF Polled
<1>2. Snapshots'
  <2>1. walk' = walk /\ current' = current /\ older' = older  BY DEF snapshots
  <2> QED  BY <2>1 DEF TypeInv, Snapshots
<1>3. (ring \in Rings(Window, SamplesUntil(now)))'
  <2>1. ring \in Rings(Window, SamplesUntil(now))  BY DEF TypeInv
  <2> QED  BY <2>1, RingLater
<1> QED  BY <1>1, <1>2, <1>3 DEF TypeInv

LEMMA TypeStep == TypeInv /\ RatesInv /\ NamesInv /\ [Next]_vars => TypeInv'
<1> SUFFICES ASSUME TypeInv, RatesInv, NamesInv, [Next]_vars PROVE TypeInv'
  OBVIOUS
<1>1. /\ now \in Nat /\ poll.ms \in Nat /\ InterfacesType /\ I \in Ifaces
      /\ walk.back \in {"idle", "answer"}
      /\ \A i \in Ifaces : previous[i].ms \in Nat
  BY CurrentInterface DEF RatesInv, InterfacesType
<1>2. /\ job \in Jobs /\ left \in [Bounded -> Nat] /\ names \in BoundedCaches /\ seen.at <= refresh.at
      /\ Polled /\ Snapshots /\ ring \in Rings(Window, SamplesUntil(now))
  BY DEF TypeInv
<1>3. TextType /\ seen.at \in Nat /\ seen.at <= now  BY DEF NamesInv, Clocks
<1>4. CASE ClientsCall
  <2>1. /\ Spend("calls") /\ RefreshNames
        /\ now' = now /\ UNCHANGED <<interfaces, snapshots, ring>>
    BY <1>4 DEF ClientsCall, overview
  <2>2. left' \in [Bounded -> Nat]  BY <1>2, <2>1, SpendKeeps DEF Bounded
  <2>3. job' \in Jobs /\ names' \in BoundedCaches
    BY <1>2, <2>1, NoNamesBound DEF RefreshNames, Jobs
  <2>4. seen'.at <= refresh'.at
    BY <1>2, <1>3, <2>1 DEF RefreshNames
  <2> QED  BY <1>1, <2>1, <2>2, <2>3, <2>4, RestKeepsTypes
<1>5. CASE NamesStep
  <2>1. HostnamesStep /\ now' = now /\ left' = left /\ UNCHANGED <<interfaces, snapshots, ring>>
    BY <1>5 DEF NamesStep, overview
  <2>2. job' \in Jobs /\ seen'.at <= refresh'.at
    <3>1. refresh'.at \in Nat  
      BY <2>1 DEF HostnamesStep, ParseLeases, ParseHostsDir, ParseEtcHosts, NamesInv, Clocks
    <3> QED  BY <1>2, <2>1, <3>1 DEF HostnamesStep, ParseLeases, ParseHostsDir, ParseEtcHosts, Jobs
  <2>3. names' \in BoundedCaches
    <3>1. CASE ParseLeases
      BY <1>2, <1>3, <3>1, LeasesBound DEF ParseLeases, TextType, Leases
    <3>2. CASE ParseHostsDir
      BY <1>2, <1>3, <3>2, HostsBound DEF ParseHostsDir, TextType, HostsDir
    <3>3. CASE ParseEtcHosts
      BY <1>2, <1>3, <3>3, HostsBound DEF ParseEtcHosts, TextType, EtcHosts
    <3> QED  BY <2>1, <3>1, <3>2, <3>3 DEF HostnamesStep
  <2>4. now' \in Nat /\ now <= now' /\ left' \in [Bounded -> Nat]  BY <1>1, <1>2, <2>1
  <2> QED  BY <1>1, <2>1, <2>2, <2>3, <2>4, RestKeepsTypes
<1>6. CASE ClientsAnswer
  <2>1. /\ ring' = Push(ring, Window, [ms |-> now, clients |-> Listed, active |-> Active])
        /\ job' = "idle" /\ UNCHANGED <<now, left, hostnames, interfaces, snapshots>>
    BY <1>6 DEF ClientsAnswer, PushOverview
  <2>2. [ms |-> now, clients |-> Listed, active |-> Active] \in SamplesUntil(now)
    <3>1. Listed \subseteq People  BY <1>2 DEF Listed, Snapshots
    <3>2. Active \subseteq Listed  BY DEF Active
    <3> QED  BY <1>1, <3>1, <3>2 DEF SamplesUntil
  <2>3. (ring \in Rings(Window, SamplesUntil(now)))'
    <3> DEFINE S == SamplesUntil(now)  s == [ms |-> now, clients |-> Listed, active |-> Active]
    <3>1. ring \in Rings(Window, S) /\ s \in S /\ ring' = Push(ring, Window, s) /\ now' = now
      BY <1>2, <2>1, <2>2
    <3> HIDE DEF s
    <3>2. ring' \in Rings(Window, S)
      <4> HIDE DEF S
      <4> QED  BY <3>1, PushIsRing
    <3> QED  BY <3>1, <3>2
  <2>4. Polled'  BY <1>2, <2>1 DEF Polled, interfaces
  <2>5. Snapshots'  BY <1>2, <2>1 DEF Snapshots, snapshots
  <2> QED  BY <1>2, <2>1, <2>3, <2>4, <2>5 DEF TypeInv, Jobs, hostnames
<1>7. CASE InterfacesCall
  <2>1. /\ now' = now /\ UNCHANGED <<hostnames, overview>>
    BY <1>7 DEF InterfacesCall, StartPoll
  <2>2. job' \in Jobs
    BY <1>7 DEF InterfacesCall, StartPoll, InterfacesStep, OpenCounter, ReadCounter, SettleInterface, Jobs
  <2>3. left' \in [Bounded -> Nat]
    BY <1>2, <1>7, SpendKeeps DEF InterfacesCall, StartPoll, Bounded
  <2>4. Polled'
    <3>1. CASE StartPoll  BY <1>1, <1>2, <3>1 DEF StartPoll, Polled, InterfacesType
    <3>2. CASE OpenCounter \/ ReadCounter
      BY <1>1, <1>2, <2>1, <3>2 DEF OpenCounter, ReadCounter, Polled, InterfacesType
    <3>3. CASE SettleInterface
      <4>1. poll'.ms = poll.ms  BY <1>1, <3>3 DEF SettleInterface, InterfacesType
      <4>2. \A i \in Ifaces : previous'[i].ms = previous[i].ms \/ previous'[i].ms = poll.ms
        BY <1>1, <3>3 DEF SettleInterface, InterfacesType
      <4> QED  BY <1>2, <2>1, <4>1, <4>2 DEF Polled
    <3> QED  BY <1>7, <3>1, <3>2, <3>3 DEF InterfacesCall, InterfacesStep
  <2>5. Snapshots'  BY <1>2, <2>1 DEF Snapshots, overview, snapshots
  <2>6. (ring \in Rings(Window, SamplesUntil(now)))'
    <3>1. ring' = ring /\ now' = now  BY <2>1 DEF overview
    <3> QED  BY <1>2, <3>1
  <2> QED  BY <1>2, <2>1, <2>2, <2>3, <2>4, <2>5, <2>6 DEF TypeInv, hostnames
<1>8. CASE Collect
  <2>1. now' = now /\ ring' = ring /\ UNCHANGED <<hostnames, interfaces>>
    BY <1>8 DEF Collect, TickCollects, SwitchCollects, Walk, OverviewStep, ReadEntry, Collected
  <2>2. job' \in Jobs
    BY <1>1, <1>8 DEF Collect, TickCollects, SwitchCollects, Walk, OverviewStep, ReadEntry, Collected, Jobs
  <2>3. left' \in [Bounded -> Nat]
    BY <1>2, <1>8, SpendKeeps DEF Collect, TickCollects, SwitchCollects, Walk, Bounded
  <2>4. Snapshots'
    <3> USE PeopleAssumption
    <3>0. Len(PeopleSeq) \in Nat  OBVIOUS
    <3>1. ASSUME NEW from, Walk(from), ResetRates \/ UNCHANGED <<current, older>> PROVE Snapshots'
      <4>1. /\ walk'.ms = now /\ walk'.at = 1 /\ DOMAIN walk'.got = {} /\ now' = now
        BY <3>1 DEF Walk, NoSnapshot
      <4>2. CASE UNCHANGED <<current, older>>
        BY <1>1, <1>2, <3>0, <4>1, <4>2 DEF Snapshots
      <4>3. CASE ResetRates
        BY <1>1, <1>2, <3>0, <4>1, <4>3 DEF Snapshots, ResetRates, NoSnapshot
      <4> QED  BY <3>1, <4>2, <4>3
    <3>2. CASE ReadEntry
      <4> DEFINE p == PeopleSeq[walk.at]
      <4>1. walk.at \in 1..Len(PeopleSeq) /\ p \in People  BY <1>2, <3>0, <3>2 DEF ReadEntry, Snapshots, People
      <4>2. /\ walk'.ms = walk.ms /\ walk'.at = walk.at + 1 
            /\ DOMAIN walk'.got \subseteq DOMAIN walk.got \union {p}
            /\ current' = current /\ older' = older
        BY <1>1, <3>2 DEF ReadEntry
      <4> QED  BY <1>2, <2>1, <3>0, <4>1, <4>2 DEF Snapshots
    <3>3. CASE Collected
      BY <1>2, <2>1, <3>3 DEF Collected, Snapshots
    <3> QED  BY <1>8, <3>1, <3>2, <3>3 DEF Collect, TickCollects, SwitchCollects, OverviewStep
  <2>5. Polled'  BY <1>2, <2>1 DEF Polled, interfaces
  <2>6. (ring \in Rings(Window, SamplesUntil(now)))'  BY <1>2, <2>1
  <2> QED  BY <1>2, <2>1, <2>2, <2>3, <2>4, <2>5, <2>6 DEF TypeInv, hostnames
<1>9. CASE World
  <2>1. CASE Tick /\ UNCHANGED <<hostnames, interfaces, overview>>
    <3>1. now' = now + 1 /\ job' = job /\ Spend("time") /\ UNCHANGED <<names, seen, refresh, snapshots, ring>>
      BY <2>1 DEF Tick, hostnames, overview
    <3>2. now' \in Nat /\ now <= now'  BY <1>1, <3>1
    <3>3. left' \in [Bounded -> Nat]  BY <1>2, <3>1, SpendKeeps DEF Bounded
    <3> QED  BY <1>1, <1>2, <2>1, <3>1, <3>2, <3>3, RestKeepsTypes
  <2>2. CASE HostnamesWorld /\ UNCHANGED <<interfaces, overview>>
    <3>1. /\ now' = now /\ job' = job /\ Spend("writes")
          /\ UNCHANGED <<names, seen, refresh, snapshots, ring>>
      BY <2>2 DEF HostnamesWorld, EmptyLeases, FillLeases, WriteHosts, Write, overview
    <3>2. left' \in [Bounded -> Nat]  BY <1>2, <3>1, SpendKeeps DEF Bounded
    <3> QED  BY <1>1, <1>2, <2>2, <3>1, <3>2, RestKeepsTypes
  <2>3. CASE InterfacesWorld /\ UNCHANGED <<now, job, hostnames, overview>>
    <3>1. PICK i \in Ifaces : Traffic(i) \/ LinkGone(i) \/ LinkBack(i)  BY <2>3 DEF InterfacesWorld
    <3>2. poll' = poll /\ previous' = previous /\ (Spend("moves") \/ left' = left)
      BY <3>1 DEF Traffic, LinkGone, LinkBack
    <3>3. left' \in [Bounded -> Nat]  BY <1>2, <3>2, SpendKeeps DEF Bounded
    <3>4. Polled'  BY <1>2, <2>3, <3>2 DEF Polled
    <3>5. Snapshots'  BY <1>2, <2>3 DEF Snapshots, overview, snapshots
    <3>6. (ring \in Rings(Window, SamplesUntil(now)))'
      <4>1. ring' = ring /\ now' = now  BY <2>3 DEF overview
      <4> QED  BY <1>2, <4>1
    <3> QED  BY <1>2, <2>3, <3>3, <3>4, <3>5, <3>6 DEF TypeInv, hostnames
  <2>4. CASE OverviewWorld /\ UNCHANGED <<hostnames, interfaces>>
    <3>1. /\ now' = now /\ job' = job /\ Spend("frames") /\ ring' = ring
          /\ UNCHANGED <<walk, current, older>>
      BY <2>4 DEF OverviewWorld, Frame
    <3>2. left' \in [Bounded -> Nat]  BY <1>2, <3>1, SpendKeeps DEF Bounded
    <3>3. Snapshots'  BY <1>2, <3>1 DEF Snapshots
    <3>4. Polled'  BY <1>2, <2>4, <3>1 DEF Polled, interfaces
    <3>5. (ring \in Rings(Window, SamplesUntil(now)))'  BY <1>2, <3>1
    <3> QED  BY <1>2, <2>4, <3>1, <3>2, <3>3, <3>4, <3>5 DEF TypeInv, hostnames
  <2> QED  BY <1>9, <2>1, <2>2, <2>3, <2>4 DEF World
<1>10. CASE UNCHANGED vars
  <2>1. /\ now' = now /\ job' = job /\ left' = left
        /\ UNCHANGED <<interfaces, names, seen, refresh, snapshots, ring>>
    BY <1>10 DEF vars, daemon, hostnames, overview
  <2> QED  BY <1>1, <1>2, <2>1, RestKeepsTypes
<1> QED  BY <1>4, <1>5, <1>6, <1>7, <1>8, <1>9, <1>10 DEF Next

\* The cache holds no more than its bound, the ring no more than its slots, and
\* no time kept of a file, a poll or a read is ahead of another that was taken
\* later, for every content of the files and every schedule of the services.
THEOREM TypesHold == Spec => []TypeOK
<1>1. TypeInv /\ RatesInv /\ NamesInv => TypeOK
  <2> SUFFICES ASSUME TypeInv, RatesInv, NamesInv PROVE TypeOK
    OBVIOUS
  <2>1. now \in Nat \ {0} /\ mtime \in [Sources -> 0..now] /\ refresh.at \in 0..now
    BY DEF NamesInv, Clocks
  <2>2. IsCache(names.mac) /\ DOMAIN names.mac \subseteq Macs /\ IsCache(names.ip)
    BY PartialType DEF TypeInv, BoundedCaches, InBound, Caches
  <2>3. /\ DOMAIN link = Ifaces /\ DOMAIN previous = Ifaces
        /\ poll.at \in 1..Len(IfaceSeq) /\ walk.back \in {"idle", "answer"}
    BY DEF RatesInv, InterfacesType
  <2>4. ring \in [slot : [0..Window-1 -> [ms : 0..now, clients : SUBSET People, active : SUBSET People]],
                  head : 0..Window-1, count : 0..Window]
    BY DEF TypeInv, Rings, SamplesUntil
  <2> QED  BY <2>1, <2>2, <2>3, <2>4 DEF TypeOK, TypeInv, Polled, Snapshots
<1> QED  BY <1>1, TypeInit, TypeStep, RatesInit, RatesStep, NamesInit, NamesStepKeeps, PTL DEF Spec

----------------------------------------------------------------------------
(* The clients counted as active *)

\* An entry is as old as the newest frame of its client.
Entries ==
  /\ DOMAIN entry = People /\ DOMAIN frames = People
  /\ \A p \in People :
       /\ entry[p].bytes \in Nat /\ entry[p].seen \in Nat
       /\ entry[p].seen # 0 => entry[p].seen \in frames[p]
       /\ frames[p] \subseteq 1..now
       /\ \A t \in frames[p] : t <= entry[p].seen

\* So is a copy, but for frames that arrived since the read it belongs to began.
Copied(s) ==
  \A p \in DOMAIN s.got :
    /\ s.got[p].bytes \in Nat /\ s.got[p].seen \in frames[p]
    /\ \A t \in frames[p] : t < s.ms => t <= s.got[p].seen

CountInv == Entries /\ Copied(walk) /\ Copied(current) /\ Copied(older)

LEMMA CountInit == Init => CountInv
<1> SUFFICES ASSUME Init PROVE CountInv
  OBVIOUS
<1>1. DOMAIN NoSnapshot.got = {}  BY DEF NoSnapshot
<1>2. walk.got = NoSnapshot.got /\ current = NoSnapshot /\ older = NoSnapshot
  BY DEF Init, OverviewInit
<1>3. Copied(walk) /\ Copied(current) /\ Copied(older)  BY <1>1, <1>2 DEF Copied
<1>4. entry = [p \in People |-> [bytes |-> 0, seen |-> 0]] /\ frames = [p \in People |-> {}]
  BY DEF Init, OverviewInit
<1> QED  BY <1>3, <1>4 DEF CountInv, Entries

LEMMA FrameCounts ==
  ASSUME CountInv, Snapshots, now \in Nat \ {0}, NEW p \in People, Frame(p)
  PROVE  CountInv'
<1>1. /\ entry' = [entry EXCEPT ![p] = [bytes |-> entry[p].bytes + 1, seen |-> now]]
      /\ frames' = [frames EXCEPT ![p] = frames[p] \union {now}]
      /\ now' = now /\ UNCHANGED <<walk, current, older>>
  BY DEF Frame
<1>2. Entries'
  <2> SUFFICES ASSUME NEW q \in People
               PROVE  (/\ entry[q].bytes \in Nat /\ entry[q].seen \in Nat
                       /\ entry[q].seen # 0 => entry[q].seen \in frames[q]
                       /\ frames[q] \subseteq 1..now
                       /\ \A t \in frames[q] : t <= entry[q].seen)'
    BY <1>1 DEF Entries, CountInv
  <2>1. CASE q = p
    <3>1. entry'[q] = [bytes |-> entry[p].bytes + 1, seen |-> now] /\ frames'[q] = frames[p] \union {now}
      BY <1>1, <2>1 DEF CountInv, Entries
    <3>2. entry[p].bytes \in Nat /\ frames[p] \subseteq 1..now  BY DEF CountInv, Entries
    <3> QED  BY <1>1, <3>1, <3>2
  <2>2. CASE q # p  BY <1>1, <2>2 DEF CountInv, Entries
  <2> QED  BY <2>1, <2>2
<1>3. ASSUME NEW s, Copied(s), s.ms \in Nat, s.ms <= now, DOMAIN s.got \subseteq People PROVE Copied(s)'
  <2> SUFFICES ASSUME NEW q \in DOMAIN s.got
               PROVE  /\ s.got[q].bytes \in Nat /\ s.got[q].seen \in frames'[q]
                      /\ \A t \in frames'[q] : t < s.ms => t <= s.got[q].seen
    BY DEF Copied
  <2>1. frames'[q] \subseteq frames[q] \union {now} /\ frames[q] \subseteq frames'[q]
    BY <1>1, <1>3 DEF CountInv, Entries
  <2> QED  BY <1>3, <2>1 DEF Copied
<1>4. PICK w, c, o : w = walk /\ c = current /\ o = older  OBVIOUS
<1>5. /\ w.ms \in Nat /\ w.ms <= now /\ c.ms \in Nat /\ c.ms <= now /\ o.ms \in Nat /\ o.ms <= now
      /\ DOMAIN w.got \subseteq People /\ DOMAIN c.got \subseteq People /\ DOMAIN o.got \subseteq People
  BY <1>4 DEF Snapshots
<1>6. Copied(w)' /\ Copied(c)' /\ Copied(o)'  BY <1>3, <1>4, <1>5 DEF CountInv
<1>7. walk' = w /\ current' = c /\ older' = o  BY <1>1, <1>4
<1> QED  BY <1>2, <1>6, <1>7 DEF CountInv, Copied

\* Steps that leave the entries alone and only copy.
LEMMA CopyCounts ==
  ASSUME CountInv, UNCHANGED <<entry, frames>>, now \in Nat, now' \in Nat, now <= now',
         Copied(walk)', Copied(current)', Copied(older)'
  PROVE  CountInv'
<1>1. Entries'
  <2> SUFFICES ASSUME NEW q \in People
               PROVE  frames[q] \subseteq 1..now'
    BY DEF CountInv, Entries
  <2>1. frames[q] \subseteq 1..now  BY DEF CountInv, Entries
  <2> QED  BY <2>1
<1> QED  BY <1>1 DEF CountInv

LEMMA ReadCounts ==
  ASSUME CountInv, Snapshots, now \in Nat, now' = now, ReadEntry
  PROVE  CountInv'
<1> USE PeopleAssumption
<1>1. PICK p : p = PeopleSeq[walk.at]  OBVIOUS
<1>2. p \in People
  <2>1. walk.at \in 1..Len(PeopleSeq)  BY DEF ReadEntry, Snapshots
  <2> QED  BY <1>1, <2>1 DEF People
<1>3. /\ UNCHANGED <<entry, frames, current, older>> /\ walk'.ms = walk.ms
      /\ walk'.got = IF entry[p].seen = 0 THEN walk.got
                     ELSE [q \in DOMAIN walk.got \union {p} |-> IF q = p THEN entry[p] ELSE walk.got[q]]
  BY <1>1 DEF ReadEntry, Snapshots
<1>4. Copied(walk)'
  <2> SUFFICES ASSUME NEW q \in DOMAIN walk'.got
               PROVE  /\ walk'.got[q].bytes \in Nat /\ walk'.got[q].seen \in frames[q]
                      /\ \A t \in frames[q] : t < walk.ms => t <= walk'.got[q].seen
    BY <1>3 DEF Copied
  <2>1. CASE q \in DOMAIN walk.got /\ walk'.got[q] = walk.got[q]
    BY <2>1 DEF CountInv, Copied
  <2>2. CASE q = p /\ walk'.got[q] = entry[p] /\ entry[p].seen # 0
    BY <1>2, <2>2 DEF CountInv, Entries
  <2> QED  BY <1>3, <2>1, <2>2
<1>5. Copied(current)' /\ Copied(older)'  BY <1>3 DEF CountInv, Copied
<1> QED  BY <1>3, <1>4, <1>5, CopyCounts

LEMMA WalkCounts ==
  ASSUME CountInv, now \in Nat, NEW from, Walk(from), ResetRates \/ UNCHANGED <<current, older>>
  PROVE  CountInv'
<1>1. UNCHANGED <<entry, frames, now>> /\ DOMAIN walk'.got = {}  BY DEF Walk, NoSnapshot
<1>2. Copied(walk)'  BY <1>1 DEF Copied
<1>3. Copied(current)' /\ Copied(older)'
  <2>1. CASE ResetRates
    <3>1. DOMAIN current'.got = {} /\ DOMAIN older'.got = {}  BY <2>1 DEF ResetRates, NoSnapshot
    <3> QED  BY <3>1 DEF Copied
  <2>2. CASE UNCHANGED <<current, older>>  BY <1>1, <2>2 DEF CountInv, Copied
  <2> QED  BY <2>1, <2>2
<1> QED  BY <1>1, <1>2, <1>3, CopyCounts

LEMMA CollectedCounts ==
  ASSUME CountInv, now \in Nat, now' = now, Collected
  PROVE  CountInv'
<1>1. /\ UNCHANGED <<entry, frames, walk>> /\ older' = current
      /\ current' = [ms |-> walk.ms, got |-> walk.got]
  BY DEF Collected
<1>2. current'.ms = walk.ms /\ current'.got = walk.got  BY <1>1
<1>3. Copied(walk)' /\ Copied(current)' /\ Copied(older)'  BY <1>1, <1>2 DEF CountInv, Copied
<1> QED  BY <1>1, <1>3, CopyCounts

LEMMA OthersCount ==
  ASSUME CountInv, UNCHANGED snapshots, now \in Nat, now' \in Nat, now <= now'
  PROVE  CountInv'
<1>1. UNCHANGED <<entry, frames, walk, current, older>>  BY DEF snapshots
<1>2. Copied(walk)' /\ Copied(current)' /\ Copied(older)'  BY <1>1 DEF CountInv, Copied
<1> QED  BY <1>1, <1>2, CopyCounts

LEMMA CountStep == CountInv /\ TypeInv /\ NamesInv /\ [Next]_vars => CountInv'
<1> SUFFICES ASSUME CountInv, TypeInv, NamesInv, [Next]_vars PROVE CountInv'
  OBVIOUS
<1>1. now \in Nat \ {0} /\ Snapshots  BY DEF NamesInv, Clocks, TypeInv
<1>2. CASE UNCHANGED snapshots /\ (now' = now \/ now' = now + 1)
  BY <1>1, <1>2, OthersCount
<1>3. CASE ClientsCall  BY <1>2, <1>3 DEF ClientsCall, overview
<1>4. CASE NamesStep  BY <1>2, <1>4 DEF NamesStep, overview
<1>5. CASE ClientsAnswer  BY <1>2, <1>5 DEF ClientsAnswer, PushOverview
<1>6. CASE InterfacesCall  BY <1>2, <1>6 DEF InterfacesCall, StartPoll, overview
<1>7. CASE Collect
  <2>1. CASE TickCollects \/ SwitchCollects
    BY <1>1, <2>1, WalkCounts DEF TickCollects, SwitchCollects
  <2>2. CASE OverviewStep /\ now' = now
    BY <1>1, <2>2, ReadCounts, CollectedCounts DEF OverviewStep
  <2> QED  BY <1>7, <2>1, <2>2 DEF Collect
<1>8. CASE World
  <2>1. CASE OverviewWorld  BY <1>1, <2>1, FrameCounts DEF OverviewWorld
  <2>2. CASE Tick /\ UNCHANGED overview  BY <1>2, <2>2 DEF Tick, overview
  <2>3. CASE HostnamesWorld /\ UNCHANGED overview
    BY <1>2, <2>3 DEF HostnamesWorld, EmptyLeases, FillLeases, WriteHosts, Write, overview
  <2>4. CASE InterfacesWorld /\ UNCHANGED <<now, overview>>  BY <1>2, <2>4 DEF overview
  <2> QED  BY <1>8, <2>1, <2>2, <2>3, <2>4 DEF World
<1>9. CASE UNCHANGED vars  BY <1>2, <1>9 DEF vars, daemon, overview
<1> QED  BY <1>3, <1>4, <1>5, <1>6, <1>7, <1>8, <1>9 DEF Next

\* What a sample must say of one client.
CountedRight(p) ==
  LET sent == /\ RatesReady /\ p \in DOMAIN current.got \intersect DOMAIN older.got
              /\ current.got[p].bytes > older.got[p].bytes
      ages == {current.ms - t : t \in frames[p]}
  IN /\ p \in Active => sent /\ ages \intersect 0..ActiveWindow # {}
     /\ sent /\ ages \intersect 1..ActiveWindow # {} => p \in Active \/ current.got[p].seen > current.ms

LEMMA ActiveIsRight ==
  ASSUME CountInv, Snapshots, NEW p \in People
  PROVE  CountedRight(p)
<1> DEFINE sent == /\ RatesReady /\ p \in DOMAIN current.got \intersect DOMAIN older.got
                   /\ current.got[p].bytes > older.got[p].bytes
           ages == {current.ms - t : t \in frames[p]}
           s == current.got[p].seen
<1>1. current.ms \in Nat /\ older.ms \in Nat /\ frames[p] \subseteq Nat \ {0}
  BY DEF CountInv, Entries, Snapshots
<1>2. ASSUME p \in DOMAIN current.got
      PROVE  /\ current.got[p].bytes \in Nat /\ s \in frames[p]
             /\ \A t \in frames[p] : t < current.ms => t <= s
  BY <1>2 DEF CountInv, Copied
<1>3. ASSUME p \in DOMAIN older.got PROVE older.got[p].bytes \in Nat
  BY <1>3 DEF CountInv, Copied
<1>4. ASSUME p \in Active PROVE sent /\ ages \intersect 0..ActiveWindow # {}
  <2>1. /\ RatesReady /\ p \in DOMAIN current.got /\ Rate(p) > 0
        /\ s <= current.ms /\ current.ms - s <= ActiveWindow
    BY <1>4 DEF Active, Listed, Recent
  <2>2. p \in DOMAIN older.got /\ current.got[p].bytes > older.got[p].bytes
    BY <1>2, <1>3, <2>1 DEF Rate
  <2>3. current.ms - s \in ages /\ current.ms - s \in 0..ActiveWindow
    BY <1>1, <1>2, <2>1
  <2> QED  BY <2>1, <2>2, <2>3
<1>5. ASSUME sent, ages \intersect 1..ActiveWindow # {}, ~(s > current.ms)
      PROVE  p \in Active
  <2>1. PICK t \in frames[p] : current.ms - t \in 1..ActiveWindow  BY <1>5
  <2>2. s \in Nat \ {0} /\ t <= s /\ s <= current.ms /\ t \in Nat
    BY <1>1, <1>2, <1>5, <2>1
  <2>3. Recent(current.ms, s)  BY <1>1, <1>5, <2>1, <2>2, OverviewAssumption DEF Recent, RatesReady
  <2>4. Rate(p) > 0  BY <1>2, <1>3, <1>5 DEF Rate
  <2> QED  BY <1>5, <2>3, <2>4 DEF Active, Listed
<1> QED  BY <1>4, <1>5 DEF CountedRight

ServicesInv == RingInv /\ RatesInv /\ NamesInv /\ TypeInv /\ CountInv

LEMMA ServicesHold == Spec => []ServicesInv
<1>1. Init => ServicesInv
  BY RingInit, RatesInit, NamesInit, TypeInit, CountInit DEF ServicesInv
<1>2. ServicesInv /\ [Next]_vars => ServicesInv'
  BY RingStep, RatesStep, NamesStepKeeps, TypeStep, CountStep DEF ServicesInv
<1> QED  BY <1>1, <1>2, PTL DEF Spec

\* A sample counts a client as active if it sent something between the two
\* reads and had a frame in the window, unless that frame came while the newer
\* read was under way (bpf_collect_samples, client_has_active_rate and
\* client_is_active_recent), for any clients and window.
THEOREM ActiveIsCounted == Spec => ActiveCounted
<1>1. ASSUME ServicesInv, [Next]_vars, pushed' # pushed, NEW p \in People
      PROVE  LET counted == p \in pushed'[Len(pushed')].active
                 sent == /\ RatesReady /\ p \in DOMAIN current.got \intersect DOMAIN older.got
                         /\ current.got[p].bytes > older.got[p].bytes
                 ages == {current.ms - t : t \in frames[p]}
             IN /\ counted => sent /\ ages \intersect 0..ActiveWindow # {}
                /\ sent /\ ages \intersect 1..ActiveWindow # {} =>
                     counted \/ current.got[p].seen > current.ms
  <2>1. ClientsAnswer
    BY <1>1 DEF Next, ClientsCall, NamesStep, InterfacesCall, StartPoll, Collect, TickCollects,
                SwitchCollects, Walk, OverviewStep, ReadEntry, Collected, World, OverviewWorld, Frame,
                overview, vars
  <2>2. pushed' = Append(pushed, [ms |-> now, clients |-> Listed, active |-> Active])
    BY <2>1 DEF ClientsAnswer, PushOverview
  <2>3. PICK S : pushed \in Seq(S)  BY <1>1 DEF ServicesInv, RingInv, Holds
  <2>4. pushed'[Len(pushed')] = [ms |-> now, clients |-> Listed, active |-> Active]
    BY <2>2, <2>3
  <2>5. pushed'[Len(pushed')].active = Active  BY <2>4
  <2>6. CountedRight(p)  BY <1>1, ActiveIsRight DEF ServicesInv, TypeInv
  <2> QED  BY <2>5, <2>6 DEF CountedRight
<1>2. ServicesInv /\ [Next]_vars =>
        [pushed' # pushed =>
           \A p \in People :
             LET counted == p \in pushed'[Len(pushed')].active
                 sent == /\ RatesReady /\ p \in DOMAIN current.got \intersect DOMAIN older.got
                         /\ current.got[p].bytes > older.got[p].bytes
                 ages == {current.ms - t : t \in frames[p]}
             IN /\ counted => sent /\ ages \intersect 0..ActiveWindow # {}
                /\ sent /\ ages \intersect 1..ActiveWindow # {} =>
                     counted \/ current.got[p].seen > current.ms]_overview
  BY <1>1
<1> QED  BY <1>2, ServicesHold, PTL DEF Spec, ActiveCounted
=============================================================================
