--------------------------- MODULE ClientMapProofs ---------------------------
(***************************************************************************)
(* The shared maps of the tc programs, for any number of CPUs, keys, map   *)
(* elements and connections: until the pool overflows every frame is       *)
(* accounted for, and the dedup map loses no connection and overcounts one *)
(* by fewer than there are CPUs.                                           *)
(***************************************************************************)
EXTENDS ClientMap, FiniteSetTheorems, TLAPS

USE KeysAssumption, SenderAssumption, SizeAssumption

----------------------------------------------------------------------------
(* Sets of CPUs *)

\* Two sets of CPUs that differ by one CPU at most.
LEMMA OneMoved ==
  ASSUME NEW A \in SUBSET Cpus, NEW B \in SUBSET Cpus, NEW c \in Cpus, A \ {c} = B \ {c}
  PROVE  /\ Cardinality(A) \in Nat /\ Cardinality(B) \in Nat
         /\ Cardinality(B) = IF c \in A <=> c \in B THEN Cardinality(A)
                             ELSE IF c \in B THEN Cardinality(A) + 1 ELSE Cardinality(A) - 1
<1>1. IsFiniteSet(A) /\ IsFiniteSet(B)  BY FS_Subset
<1>2. Cardinality(A) \in Nat /\ Cardinality(B) \in Nat  BY <1>1, FS_CardinalityType
<1>3. CASE c \in A <=> c \in B
  <2>1. A = B  BY <1>3
  <2> QED  BY <1>2, <1>3, <2>1
<1>4. CASE c \in B /\ c \notin A
  <2>1. B = A \union {c}  BY <1>4
  <2> QED  BY <1>1, <1>2, <1>4, <2>1, FS_AddElement
<1>5. CASE c \in A /\ c \notin B
  <2>1. B = A \ {c}  BY <1>5
  <2> QED  BY <1>1, <1>2, <1>5, <2>1, FS_RemoveElement
<1> QED  BY <1>3, <1>4, <1>5

\* A set of CPUs has no more members than there are, and fewer without one of them.
LEMMA CpusBound ==
  ASSUME NEW A \in SUBSET Cpus
  PROVE  /\ Cardinality(Cpus) \in Nat \ {0} /\ Cardinality(A) \in Nat
         /\ Cardinality(A) <= Cardinality(Cpus)
         /\ \A c \in Cpus : c \notin A => Cardinality(A) <= Cardinality(Cpus) - 1
<1>1. IsFiniteSet(A) /\ Cardinality(A) <= Cardinality(Cpus)  BY FS_Subset
<1>2. Cardinality(Cpus) \in Nat /\ Cardinality(A) \in Nat  BY <1>1, FS_CardinalityType
<1>3. Cardinality(Cpus) # 0  BY FS_EmptySet
<1>4. ASSUME NEW c \in Cpus, c \notin A PROVE Cardinality(A) <= Cardinality(Cpus) - 1
  <2>1. A \in SUBSET (Cpus \ {c})  BY <1>4
  <2>2. IsFiniteSet(Cpus \ {c}) /\ Cardinality(Cpus \ {c}) = Cardinality(Cpus) - 1
    BY FS_RemoveElement
  <2>3. Cardinality(A) <= Cardinality(Cpus \ {c})  BY <2>1, <2>2, FS_Subset
  <2> QED  BY <2>2, <2>3
<1> QED  BY <1>1, <1>2, <1>3, <1>4

----------------------------------------------------------------------------
(* Types *)

CpuStates == [step : Steps, key : Keys \union {None}, conn : Conns \union {None},
              elem : Elements \union {None}]

\* What each step finds in the frame it works on.
Prepared(w) ==
  /\ w.step # "idle" => w.key \in Keys
  /\ w.step \in {"add", "check", "mark", "bump"} => w.elem \in Elements
  /\ w.step \in {"check", "mark", "bump"} => w.conn \in Conns

TypeInv ==
  /\ TypeOK
  /\ IsFiniteSet(seen)
  /\ \A c \in Cpus : Prepared(cpu[c])

\* A step of CPU c, as the others see it.
Stepped(c, w) ==
  /\ cpu' = [cpu EXCEPT ![c] = w] /\ w \in CpuStates /\ Prepared(w)

LEMMA TypeInit == Init => TypeInv
<1> SUFFICES ASSUME Init PROVE TypeInv
  OBVIOUS
<1>1. Cardinality(seen) = 0 /\ IsFiniteSet(seen)  BY FS_EmptySet DEF Init
<1>2. entry \in [Elements -> [key : Keys \union {None}, frames : Nat, conns : Nat]]
  BY DEF Init, Empty
<1>3. cpu \in [Cpus -> CpuStates] /\ \A c \in Cpus : Prepared(cpu[c])
  BY DEF Init, Idle, Steps, CpuStates, Prepared
<1>4. traffic \in [Keys -> 0..MaxFrames] /\ dropped \in [Keys -> Nat] /\ counted \in [Conns -> Nat]
  BY DEF Init, SizeAssumption
<1>5. seen \subseteq Conns /\ Cardinality(seen) <= MaxConns
  BY <1>1 DEF Init, SizeAssumption
<1> QED  BY <1>1, <1>2, <1>3, <1>4, <1>5 DEF Init, TypeOK, TypeInv, CpuStates

LEMMA IdlePrepared == Idle \in CpuStates /\ Prepared(Idle)
BY DEF Idle, CpuStates, Steps, Prepared

\* The tail of account_frame goes on to the connection, or ends the frame.
LEMMA CountedSteps ==
  ASSUME TypeInv, NEW c \in Cpus, cpu[c].step # "idle", NEW e \in Elements, Counted(c, e)
  PROVE  \E w : /\ Stepped(c, w)
                /\ w = Idle \/ (w.step = "check" /\ w.key = cpu[c].key /\ w.conn = cpu[c].conn)
<1> DEFINE w == IF cpu[c].conn # None THEN [cpu[c] EXCEPT !.step = "check", !.elem = e] ELSE Idle
<1>1. cpu \in [Cpus -> CpuStates] /\ Prepared(cpu[c])  BY DEF TypeInv, TypeOK, CpuStates
<1>2. cpu' = [cpu EXCEPT ![c] = w]  BY <1>1 DEF Counted
<1>3. CASE cpu[c].conn # None
  <2>1. w = [step |-> "check", key |-> cpu[c].key, conn |-> cpu[c].conn, elem |-> e]
    BY <1>1, <1>3 DEF CpuStates
  <2>2. w \in CpuStates /\ Prepared(w)  BY <1>1, <1>3, <2>1 DEF CpuStates, Prepared, Steps
  <2> QED  BY <1>2, <2>1, <2>2 DEF Stepped
<1>4. CASE cpu[c].conn = None
  BY <1>2, <1>4, IdlePrepared DEF Stepped
<1> QED  BY <1>3, <1>4

\* A step that moves to another step of the same frame.
LEMMA GotoSteps ==
  ASSUME TypeInv, NEW c \in Cpus, NEW s \in Steps, Goto(c, s),
         Prepared([cpu[c] EXCEPT !.step = s])
  PROVE  Stepped(c, [cpu[c] EXCEPT !.step = s])
BY DEF TypeInv, TypeOK, CpuStates, Goto, Stepped

LEMMA DoneSteps ==
  ASSUME TypeInv, NEW c \in Cpus, Done(c)
  PROVE  Stepped(c, Idle)
BY IdlePrepared DEF Done, Stepped

LEMMA SteppedType ==
  ASSUME TypeInv, NEW c \in Cpus, NEW w, Stepped(c, w)
  PROVE  /\ cpu' \in [Cpus -> CpuStates] /\ \A d \in Cpus : Prepared(cpu'[d])
         /\ cpu'[c] = w /\ \A d \in Cpus \ {c} : cpu'[d] = cpu[d]
BY DEF TypeInv, TypeOK, CpuStates, Stepped

\* What each action does to the CPU that takes it.
LEMMA ArriveSteps ==
  ASSUME TypeInv, NEW c \in Cpus, NEW k \in Keys, NEW t \in Conns \union {None}, Arrive(c, k, t)
  PROVE  \E w : /\ Stepped(c, w) /\ w.key = k
                /\ \/ w.step = "add" /\ w.elem \in Holding(k)
                   \/ w.step = "insert" /\ Holding(k) = {}
<1> DEFINE W(s, e) == [step |-> s, key |-> k, conn |-> t, elem |-> e]
<1>1. CASE \E e \in Holding(k) : cpu' = [cpu EXCEPT ![c] = W("add", e)]
  <2>1. PICK e \in Holding(k) : cpu' = [cpu EXCEPT ![c] = W("add", e)]  BY <1>1
  <2>2. Stepped(c, W("add", e))
    BY <2>1 DEF Stepped, CpuStates, Prepared, Steps, Holding
  <2>3. W("add", e).key = k /\ W("add", e).step = "add" /\ W("add", e).elem \in Holding(k)
    OBVIOUS
  <2> QED  BY <2>2, <2>3
<1>2. CASE Holding(k) = {} /\ cpu' = [cpu EXCEPT ![c] = W("insert", None)]
  <2>1. Stepped(c, W("insert", None))
    BY <1>2 DEF Stepped, CpuStates, Prepared, Steps
  <2>2. W("insert", None).key = k /\ W("insert", None).step = "insert"  OBVIOUS
  <2> QED  BY <1>2, <2>1, <2>2
<1> QED  BY <1>1, <1>2 DEF Arrive

\* A frame that arrives is of some key, with a connection or without.
LEMMA FrameArrives ==
  ASSUME NEW c \in Cpus, Frame(c)
  PROVE  \E k \in Keys, t \in Conns \union {None} : Arrive(c, k, t)
<1>1. \A t \in Conns : Sender[t] \in Keys  BY DEF SenderAssumption, Keys
<1> QED  BY <1>1 DEF Frame

LEMMA AddSteps ==
  ASSUME TypeInv, NEW c \in Cpus, Add(c)
  PROVE  /\ cpu[c].elem \in Elements /\ cpu[c].key \in Keys
         /\ \E w : Stepped(c, w) /\ w.step \notin {"insert", "add", "mark", "bump"}
<1>1. cpu[c].elem \in Elements /\ cpu[c].key \in Keys /\ cpu[c].step = "add"
  BY DEF Add, TypeInv, Prepared
<1>2. \E w : Stepped(c, w) /\ (w = Idle \/ w.step = "check")
  BY <1>1, CountedSteps DEF Add
<1> QED  BY <1>1, <1>2 DEF Idle

LEMMA InsertSteps ==
  ASSUME TypeInv, NEW c \in Cpus, Insert(c)
  PROVE  /\ cpu[c].key \in Keys
         /\ \E w : Stepped(c, w) /\ w.step \notin {"insert", "add", "mark", "bump"}
<1>1. cpu[c].key \in Keys /\ cpu[c].step = "insert"  BY DEF Insert, TypeInv, Prepared
<1>2. CASE Done(c)
  BY <1>1, <1>2, DoneSteps DEF Idle
<1>3. CASE Goto(c, "relookup")
  <2>1. cpu[c] \in CpuStates  BY DEF TypeInv, TypeOK, CpuStates
  <2> DEFINE w == [cpu[c] EXCEPT !.step = "relookup"]
  <2>2. w.step = "relookup" /\ w.key = cpu[c].key  BY <2>1 DEF CpuStates
  <2>3. Prepared(w)  BY <1>1, <2>2 DEF Prepared
  <2>4. "relookup" \in Steps  BY DEF Steps
  <2>5. Stepped(c, w)  BY <1>3, <2>3, <2>4, GotoSteps
  <2> QED  BY <1>1, <2>2, <2>5
<1> QED  BY <1>2, <1>3 DEF Insert

LEMMA RelookupSteps ==
  ASSUME TypeInv, NEW c \in Cpus, Relookup(c)
  PROVE  \E w : Stepped(c, w) /\ w.step \notin {"insert", "add", "mark", "bump"}
<1>1. cpu[c].step # "idle"  BY DEF Relookup
<1>2. CASE Done(c)
  BY <1>2, DoneSteps DEF Idle
<1>3. ASSUME NEW e \in Elements, Counted(c, e)
      PROVE  \E w : Stepped(c, w) /\ w.step \notin {"insert", "add", "mark", "bump"}
  <2>1. \E w : Stepped(c, w) /\ (w = Idle \/ w.step = "check")  BY <1>1, <1>3, CountedSteps
  <2> QED  BY <2>1 DEF Idle
<1> QED  BY <1>2, <1>3 DEF Relookup, Holding

LEMMA CheckSteps ==
  ASSUME TypeInv, NEW c \in Cpus, Check(c)
  PROVE  /\ cpu[c].conn \in Conns
         /\ \/ Stepped(c, Idle)
            \/ \E w : /\ Stepped(c, w) /\ w.step = "mark" /\ w.conn = cpu[c].conn
                      /\ w.conn \notin seen
<1>1. cpu[c].conn \in Conns /\ cpu[c].step = "check" /\ Prepared(cpu[c])
  BY DEF Check, TypeInv, Prepared
<1>2. CASE Done(c)
  BY <1>1, <1>2, DoneSteps
<1>3. CASE cpu[c].conn \notin seen /\ Goto(c, "mark")
  <2>1. cpu[c] \in CpuStates  BY DEF TypeInv, TypeOK, CpuStates
  <2> DEFINE w == [cpu[c] EXCEPT !.step = "mark"]
  <2>2. /\ w.step = "mark" /\ w.conn = cpu[c].conn
        /\ w.key = cpu[c].key /\ w.elem = cpu[c].elem
    BY <2>1 DEF CpuStates
  <2>3. Prepared(w)  BY <1>1, <2>2 DEF Prepared
  <2>4. "mark" \in Steps  BY DEF Steps
  <2>5. Stepped(c, w)  BY <1>3, <2>3, <2>4, GotoSteps
  <2> QED  BY <1>1, <1>3, <2>2, <2>5
<1> QED  BY <1>2, <1>3 DEF Check

LEMMA MarkSteps ==
  ASSUME TypeInv, NEW c \in Cpus, Mark(c)
  PROVE  /\ cpu[c].conn \in Conns
         /\ \E w : Stepped(c, w) /\ w.step = "bump" /\ w.conn = cpu[c].conn
<1>1. cpu[c].conn \in Conns /\ cpu[c].step = "mark" /\ Prepared(cpu[c])
  BY DEF Mark, TypeInv, Prepared
<1>2. cpu[c] \in CpuStates  BY DEF TypeInv, TypeOK, CpuStates
<1> DEFINE w == [cpu[c] EXCEPT !.step = "bump"]
<1>3. /\ w.step = "bump" /\ w.conn = cpu[c].conn
      /\ w.key = cpu[c].key /\ w.elem = cpu[c].elem
  BY <1>2 DEF CpuStates
<1>4. Prepared(w)  BY <1>1, <1>3 DEF Prepared
<1>5. "bump" \in Steps  BY DEF Steps
<1>6. Stepped(c, w)  BY <1>4, <1>5, GotoSteps DEF Mark
<1> QED  BY <1>1, <1>3, <1>6

LEMMA BumpSteps ==
  ASSUME TypeInv, NEW c \in Cpus, Bump(c)
  PROVE  cpu[c].conn \in Conns /\ cpu[c].elem \in Elements /\ Stepped(c, Idle)
BY DoneSteps DEF Bump, TypeInv, Prepared

Entries == [key : Keys \union {None}, frames : Nat, conns : Nat]

\* The parts of the type invariant that are not about the CPUs.
MapsTyped ==
  /\ entry \in [Elements -> Entries]
  /\ seen \subseteq Conns /\ IsFiniteSet(seen) /\ Cardinality(seen) <= MaxConns
  /\ traffic \in [Keys -> 0..MaxFrames] /\ dropped \in [Keys -> Nat]
  /\ counted \in [Conns -> Nat]
  /\ recycled \in BOOLEAN /\ forgotten \in BOOLEAN

LEMMA TypeParts == TypeInv <=> /\ MapsTyped
                              /\ cpu \in [Cpus -> CpuStates] /\ \A c \in Cpus : Prepared(cpu[c])
BY DEF TypeInv, TypeOK, MapsTyped, CpuStates, Entries

LEMMA TypePartsNext ==
  TypeInv' <=> /\ MapsTyped'
               /\ cpu' \in [Cpus -> CpuStates] /\ \A c \in Cpus : Prepared(cpu'[c])
BY DEF TypeInv, TypeOK, MapsTyped, CpuStates, Entries

LEMMA FrameKeepsMaps ==
  ASSUME TypeInv, NEW c \in Cpus, Frame(c)
  PROVE  MapsTyped'
<1>1. PICK k \in Keys, t \in Conns \union {None} : Arrive(c, k, t)  BY FrameArrives
<1>2. MapsTyped  BY TypeParts
<1>3. traffic' \in [Keys -> 0..MaxFrames]
  <2>1. traffic[k] \in 0..MaxFrames /\ traffic[k] < MaxFrames  BY <1>1, <1>2 DEF Arrive, MapsTyped
  <2>2. traffic[k] + 1 \in 0..MaxFrames  BY <2>1 DEF SizeAssumption
  <2> QED  BY <1>1, <1>2, <2>2 DEF Arrive, MapsTyped
<1> QED  BY <1>1, <1>2, <1>3 DEF Arrive, MapsTyped

LEMMA InsertKeepsMaps ==
  ASSUME TypeInv, NEW c \in Cpus, Insert(c)
  PROVE  MapsTyped'
<1>1. MapsTyped  BY TypeParts
<1>2. cpu[c].key \in Keys  BY InsertSteps
<1>3. CASE Holding(cpu[c].key) # {}
  BY <1>1, <1>2, <1>3 DEF Insert, MapsTyped, history
<1>4. CASE Holding(cpu[c].key) = {}
  <2>1. [key |-> cpu[c].key, frames |-> 1, conns |-> 0] \in Entries
    BY <1>2 DEF Entries
  <2>2. entry' \in [Elements -> Entries]
    BY <1>1, <1>4, <2>1 DEF Insert, MapsTyped
  <2>3. recycled' \in BOOLEAN  BY <1>4 DEF Insert
  <2> QED  BY <1>1, <1>4, <2>2, <2>3 DEF Insert, MapsTyped
<1> QED  BY <1>3, <1>4

LEMMA MarkKeepsMaps ==
  ASSUME TypeInv, NEW c \in Cpus, Mark(c)
  PROVE  MapsTyped'
<1> DEFINE t == cpu[c].conn
<1>1. MapsTyped  BY TypeParts
<1>2. t \in Conns  BY MarkSteps
<1>3. IsFiniteSet(seen) /\ Cardinality(seen) \in Nat /\ Cardinality(seen) <= MaxConns
  BY <1>1, FS_CardinalityType DEF MapsTyped
<1>4. CASE /\ t \in seen \/ Cardinality(seen) < MaxConns
           /\ seen' = seen \union {t} /\ UNCHANGED forgotten
  <2>1. IsFiniteSet(seen') /\ Cardinality(seen') <= MaxConns
    <3>1. /\ IsFiniteSet(seen \union {t})
          /\ Cardinality(seen \union {t}) = IF t \in seen THEN Cardinality(seen) ELSE Cardinality(seen) + 1
      BY <1>3, FS_AddElement
    <3> QED  BY <1>3, <1>4, <3>1 DEF SizeAssumption
  <2> QED  BY <1>1, <1>2, <1>4, <2>1 DEF Mark, MapsTyped
<1>5. ASSUME NEW old \in seen, t \notin seen, seen' = (seen \ {old}) \union {t}, forgotten' = TRUE
      PROVE  MapsTyped'
  <2>1. IsFiniteSet(seen \ {old}) /\ Cardinality(seen \ {old}) = Cardinality(seen) - 1
    BY <1>3, FS_RemoveElement
  <2>2. IsFiniteSet(seen') /\ Cardinality(seen') = Cardinality(seen) - 1 + 1
    BY <1>5, <2>1, FS_AddElement
  <2>3. Cardinality(seen') <= MaxConns  BY <1>3, <2>2
  <2> QED  BY <1>1, <1>2, <1>5, <2>2, <2>3 DEF Mark, MapsTyped
<1> QED  BY <1>4, <1>5 DEF Mark

LEMMA TypeStep == TypeInv /\ [Next]_vars => TypeInv'
<1> SUFFICES ASSUME TypeInv, [Next]_vars PROVE TypeInv'
  OBVIOUS
<1>0. MapsTyped  BY TypeParts
<1>1. CASE UNCHANGED vars
  BY <1>1 DEF vars, TypeInv, TypeOK, Prepared
<1>2. ASSUME NEW c \in Cpus, NEW w, Stepped(c, w), MapsTyped'
      PROVE  TypeInv'
  BY <1>2, SteppedType, TypePartsNext
<1>3. ASSUME NEW c \in Cpus, Frame(c) PROVE TypeInv'
  <2>1. \E w : Stepped(c, w)  BY <1>3, FrameArrives, ArriveSteps
  <2> QED  BY <1>2, <1>3, <2>1, FrameKeepsMaps
<1>4. ASSUME NEW c \in Cpus, Add(c) PROVE TypeInv'
  <2>1. cpu[c].elem \in Elements /\ \E w : Stepped(c, w)  BY <1>4, AddSteps
  <2>2. entry[cpu[c].elem] \in Entries  BY <1>0, <2>1 DEF MapsTyped
  <2>3. [entry[cpu[c].elem] EXCEPT !.frames = @ + 1] \in Entries  BY <2>2 DEF Entries
  <2>4. entry' \in [Elements -> Entries]
    BY <1>0, <1>4, <2>1, <2>2, <2>3 DEF Add, MapsTyped
  <2>5. MapsTyped'  BY <1>0, <1>4, <2>4 DEF Add, MapsTyped, history
  <2> QED  BY <1>2, <2>1, <2>5
<1>5. ASSUME NEW c \in Cpus, Insert(c) PROVE TypeInv'
  BY <1>2, <1>5, InsertSteps, InsertKeepsMaps
<1>6. ASSUME NEW c \in Cpus, Relookup(c) PROVE TypeInv'
  <2>1. MapsTyped'  BY <1>0, <1>6 DEF Relookup, MapsTyped, history
  <2> QED  BY <1>2, <1>6, <2>1, RelookupSteps
<1>7. ASSUME NEW c \in Cpus, Check(c) PROVE TypeInv'
  <2>1. MapsTyped'  BY <1>0, <1>7 DEF Check, MapsTyped, history
  <2> QED  BY <1>2, <1>7, <2>1, CheckSteps
<1>8. ASSUME NEW c \in Cpus, Mark(c) PROVE TypeInv'
  BY <1>2, <1>8, MarkSteps, MarkKeepsMaps
<1>9. ASSUME NEW c \in Cpus, Bump(c) PROVE TypeInv'
  <2>1. cpu[c].elem \in Elements /\ cpu[c].conn \in Conns /\ Stepped(c, Idle)  BY <1>9, BumpSteps
  <2>2. entry[cpu[c].elem] \in Entries /\ counted[cpu[c].conn] + 1 \in Nat
    BY <1>0, <2>1 DEF MapsTyped
  <2>3. [entry[cpu[c].elem] EXCEPT !.conns = @ + 1] \in Entries  BY <2>2 DEF Entries
  <2>4. entry' \in [Elements -> Entries]
    BY <1>0, <1>9, <2>1, <2>2, <2>3 DEF Bump, MapsTyped
  <2>5. counted' \in [Conns -> Nat]  BY <1>0, <1>9, <2>1, <2>2 DEF Bump, MapsTyped
  <2>6. MapsTyped'  BY <1>0, <1>9, <2>4, <2>5 DEF Bump, MapsTyped
  <2> QED  BY <1>2, <2>1, <2>6
<1> QED  BY <1>1, <1>3, <1>4, <1>5, <1>6, <1>7, <1>8, <1>9 DEF Next

\* Every variable of ClientMap keeps its type, and the dedup map its size.
THEOREM TypesHold == Spec => []TypeOK
<1>1. TypeInv => TypeOK  BY DEF TypeInv
<1> QED  BY TypeInit, TypeStep, <1>1, PTL DEF Spec

----------------------------------------------------------------------------
(* Connections *)

\* CPUs that are past the check of t, and those of them past the mark.
Counting(t) == {d \in Cpus : cpu[d].conn = t /\ cpu[d].step \in {"mark", "bump"}}
Bumping(t) == {d \in Cpus : cpu[d].conn = t /\ cpu[d].step = "bump"}

\* A tuple not in lanspeed_seen_conns has never been counted; one that is
\* there leaves room for the CPUs that have yet to count it.
CountsBounded ==
  ~forgotten =>
    \A t \in Conns :
      IF t \in seen THEN counted[t] + Cardinality(Counting(t)) <= Cardinality(Cpus)
                    ELSE counted[t] = 0 /\ Bumping(t) = {}

ConnInv == TypeInv /\ SeenIsCounted /\ CountsBounded

LEMMA ConnInit == Init => ConnInv
<1> SUFFICES ASSUME Init PROVE SeenIsCounted /\ CountsBounded
  BY TypeInit DEF ConnInv
<1>1. \A t \in Conns : t \notin seen /\ counted[t] = 0 /\ Bumping(t) = {}
  BY DEF Init, Bumping, Idle
<1> QED  BY <1>1 DEF Init, SeenIsCounted, CountsBounded

\* A step that neither comes from the mark or the bump nor goes there.
LEMMA QuietStep ==
  ASSUME ConnInv, NEW c \in Cpus, NEW w, Stepped(c, w),
         cpu[c].step \notin {"mark", "bump"}, w.step \notin {"mark", "bump"},
         UNCHANGED <<seen, counted, forgotten>>
  PROVE  (SeenIsCounted /\ CountsBounded)'
<1>1. cpu'[c] = w /\ \A d \in Cpus \ {c} : cpu'[d] = cpu[d]  BY SteppedType DEF ConnInv
<1>2. \A t \in Conns : Counting(t)' = Counting(t) /\ Bumping(t)' = Bumping(t)
  BY <1>1 DEF Counting, Bumping
<1>3. SeenIsCounted'
  <2> SUFFICES ASSUME NEW t \in seen, ~(counted[t] > 0)
               PROVE  \E d \in Cpus : cpu'[d].conn = t /\ cpu'[d].step = "bump"
    BY DEF SeenIsCounted
  <2>1. PICK d \in Cpus : cpu[d].conn = t /\ cpu[d].step = "bump"
    BY DEF ConnInv, SeenIsCounted
  <2> QED  BY <1>1, <2>1
<1>4. CountsBounded'  BY <1>2 DEF ConnInv, CountsBounded
<1> QED  BY <1>3, <1>4

\* The check sends a CPU to the mark only where the tuple is not in the map.
LEMMA CheckKeeps ==
  ASSUME ConnInv, NEW c \in Cpus, NEW w, Stepped(c, w), cpu[c].step = "check",
         w.step = "mark", w.conn \notin seen, UNCHANGED <<seen, counted, forgotten>>
  PROVE  (SeenIsCounted /\ CountsBounded)'
<1>1. cpu'[c] = w /\ \A d \in Cpus \ {c} : cpu'[d] = cpu[d]  BY SteppedType DEF ConnInv
<1>2. \A t \in Conns : Bumping(t)' = Bumping(t)  BY <1>1 DEF Bumping
<1>3. \A t \in seen : Counting(t)' = Counting(t)  BY <1>1 DEF Counting
<1>4. SeenIsCounted'
  <2> SUFFICES ASSUME NEW t \in seen, ~(counted[t] > 0)
               PROVE  \E d \in Cpus : cpu'[d].conn = t /\ cpu'[d].step = "bump"
    BY DEF SeenIsCounted
  <2>1. PICK d \in Cpus : cpu[d].conn = t /\ cpu[d].step = "bump"
    BY DEF ConnInv, SeenIsCounted
  <2> QED  BY <1>1, <2>1
<1>5. CountsBounded'  BY <1>2, <1>3 DEF ConnInv, CountsBounded
<1> QED  BY <1>4, <1>5

LEMMA MarkKeeps ==
  ASSUME ConnInv, NEW c \in Cpus, Mark(c)
  PROVE  (SeenIsCounted /\ CountsBounded)'
<1>0. PICK t \in Conns : t = cpu[c].conn  BY MarkSteps DEF ConnInv
<1>1. PICK w : Stepped(c, w) /\ w.step = "bump" /\ w.conn = t  BY <1>0, MarkSteps DEF ConnInv
<1>2. cpu'[c] = w /\ \A d \in Cpus \ {c} : cpu'[d] = cpu[d]
  BY <1>1, SteppedType DEF ConnInv
<1>3. /\ cpu[c].conn = t /\ cpu[c].step = "mark" /\ counted' = counted
      /\ seen' \subseteq seen \union {t}
      /\ ~forgotten' => seen' = seen \union {t} /\ ~forgotten
  BY <1>0 DEF Mark
<1>4. SeenIsCounted'
  <2> SUFFICES ASSUME NEW u \in seen', ~(counted[u] > 0)
               PROVE  \E d \in Cpus : cpu'[d].conn = u /\ cpu'[d].step = "bump"
    BY <1>3 DEF SeenIsCounted
  <2>1. CASE u = t  BY <1>1, <1>2, <2>1
  <2>2. CASE u # t
    <3>1. u \in seen  BY <1>3, <2>2
    <3>2. PICK d \in Cpus : cpu[d].conn = u /\ cpu[d].step = "bump"
      BY <3>1 DEF ConnInv, SeenIsCounted
    <3>3. d # c  BY <1>3, <3>2
    <3> QED  BY <1>2, <3>2, <3>3
  <2> QED  BY <2>1, <2>2
<1>5. CountsBounded'
  <2> SUFFICES ASSUME ~forgotten'
               PROVE  \A u \in Conns :
                        IF u \in seen' THEN counted[u] + Cardinality(Counting(u)') <= Cardinality(Cpus)
                                       ELSE counted[u] = 0 /\ Bumping(u)' = {}
    BY <1>3 DEF CountsBounded
  <2>1. ~forgotten /\ seen' = seen \union {t}  BY <1>3
  <2>2. \A u \in Conns : Counting(u)' = Counting(u)  BY <1>1, <1>2, <1>3 DEF Counting
  <2>3. ASSUME NEW u \in Conns, u \in seen PROVE counted[u] + Cardinality(Counting(u)') <= Cardinality(Cpus)
    BY <2>1, <2>2, <2>3 DEF ConnInv, CountsBounded
  <2>4. ASSUME t \notin seen PROVE counted[t] + Cardinality(Counting(t)') <= Cardinality(Cpus)
    <3>1. counted[t] = 0  BY <1>3, <2>1, <2>4 DEF ConnInv, CountsBounded
    <3>2. Counting(t) \in SUBSET Cpus  BY DEF Counting
    <3>3. Cardinality(Counting(t)) <= Cardinality(Cpus) /\ Cardinality(Counting(t)) \in Nat
      BY <3>2, CpusBound
    <3> QED  BY <1>3, <2>2, <3>1, <3>3
  <2>5. ASSUME NEW u \in Conns, u \notin seen, u # t PROVE counted[u] = 0 /\ Bumping(u)' = {}
    <3>1. counted[u] = 0 /\ Bumping(u) = {}  BY <2>1, <2>5 DEF ConnInv, CountsBounded
    <3>2. Bumping(u)' = Bumping(u)  BY <1>1, <1>2, <1>3, <2>5 DEF Bumping
    <3> QED  BY <3>1, <3>2
  <2>6. ASSUME NEW u \in Conns
        PROVE  IF u \in seen' THEN counted[u] + Cardinality(Counting(u)') <= Cardinality(Cpus)
                              ELSE counted[u] = 0 /\ Bumping(u)' = {}
    <3>1. CASE u \in seen  BY <2>1, <2>3, <3>1
    <3>2. CASE u \notin seen /\ u # t
      <4>1. u \notin seen'  BY <2>1, <3>2
      <4> QED  BY <2>5, <3>2, <4>1
    <3>3. CASE u = t /\ t \notin seen
      <4>1. u \in seen'  BY <2>1, <3>3
      <4>2. counted[u] + Cardinality(Counting(u)') <= Cardinality(Cpus)  BY <2>4, <3>3
      <4> QED  BY <4>1, <4>2
    <3> QED  BY <3>1, <3>2, <3>3
  <2> QED  BY <2>6
<1> QED  BY <1>4, <1>5

LEMMA BumpKeeps ==
  ASSUME ConnInv, NEW c \in Cpus, Bump(c)
  PROVE  (SeenIsCounted /\ CountsBounded)'
<1>0. PICK t \in Conns : t = cpu[c].conn  BY BumpSteps DEF ConnInv
<1>1. t \in Conns /\ Stepped(c, Idle)  BY BumpSteps DEF ConnInv
<1>2. cpu'[c] = Idle /\ \A d \in Cpus \ {c} : cpu'[d] = cpu[d]
  BY <1>1, SteppedType DEF ConnInv
<1>3. /\ cpu[c].step = "bump" /\ cpu[c].conn = t /\ seen' = seen /\ forgotten' = forgotten
      /\ counted' = [counted EXCEPT ![t] = @ + 1]
  BY <1>0 DEF Bump
<1>4. counted \in [Conns -> Nat]  BY DEF ConnInv, TypeInv, TypeOK
<1>5. counted'[t] = counted[t] + 1 /\ \A u \in Conns \ {t} : counted'[u] = counted[u]
  BY <1>1, <1>3, <1>4
<1>6. seen \subseteq Conns  BY DEF ConnInv, TypeInv, TypeOK
<1>7. SeenIsCounted'
  <2> SUFFICES ASSUME NEW u \in seen, ~(counted'[u] > 0)
               PROVE  \E d \in Cpus : cpu'[d].conn = u /\ cpu'[d].step = "bump"
    BY <1>3 DEF SeenIsCounted
  <2>1. u # t /\ u \in Conns  BY <1>1, <1>4, <1>5, <1>6
  <2>2. ~(counted[u] > 0)  BY <1>5, <2>1
  <2>3. PICK d \in Cpus : cpu[d].conn = u /\ cpu[d].step = "bump"
    BY <2>2 DEF ConnInv, SeenIsCounted
  <2>4. d # c  BY <1>3, <2>1, <2>3
  <2> QED  BY <1>2, <2>3, <2>4
<1>8. CountsBounded'
  <2> SUFFICES ASSUME ~forgotten, NEW u \in Conns
               PROVE  IF u \in seen THEN counted'[u] + Cardinality(Counting(u)') <= Cardinality(Cpus)
                                    ELSE counted'[u] = 0 /\ Bumping(u)' = {}
    BY <1>3 DEF CountsBounded
  <2>1. CASE u = t
    <3>1. c \in Bumping(t) /\ c \in Counting(t)  BY <1>3 DEF Bumping, Counting
    <3>2. t \in seen  BY <1>1, <3>1 DEF ConnInv, CountsBounded
    <3>3. counted[t] + Cardinality(Counting(t)) <= Cardinality(Cpus)
      BY <1>1, <3>2 DEF ConnInv, CountsBounded
    <3> DEFINE A == Counting(t)
               B == Counting(t)'
    <3>4. A \in SUBSET Cpus /\ B \in SUBSET Cpus /\ A \ {c} = B \ {c} /\ c \notin B
      BY <1>2 DEF Counting, Idle
    <3>5. c \in A  BY <3>1
    <3> HIDE DEF A, B
    <3>6. Cardinality(A) \in Nat /\ Cardinality(B) = Cardinality(A) - 1
      BY <3>4, <3>5, OneMoved
    <3>7. counted'[t] + Cardinality(B) = counted[t] + Cardinality(A)
      BY <1>1, <1>4, <1>5, <3>6
    <3> QED  BY <2>1, <3>2, <3>3, <3>7 DEF A, B
  <2>2. CASE u # t
    <3>1. Counting(u)' = Counting(u) /\ Bumping(u)' = Bumping(u)
      BY <1>2, <1>3, <2>2 DEF Counting, Bumping, Idle
    <3>2. counted'[u] = counted[u]  BY <1>5, <2>2
    <3> QED  BY <3>1, <3>2 DEF ConnInv, CountsBounded
  <2> QED  BY <2>1, <2>2
<1> QED  BY <1>7, <1>8

LEMMA ConnStep == ConnInv /\ [Next]_vars => ConnInv'
<1> SUFFICES ASSUME ConnInv, [Next]_vars PROVE (SeenIsCounted /\ CountsBounded)'
  BY TypeStep DEF ConnInv
<1>0. TypeInv  BY DEF ConnInv
<1>1. CASE UNCHANGED vars
  BY <1>1 DEF vars, ConnInv, SeenIsCounted, CountsBounded, Counting, Bumping
<1>2. ASSUME NEW c \in Cpus, Frame(c) PROVE (SeenIsCounted /\ CountsBounded)'
  <2>1. PICK k \in Keys, t \in Conns \union {None} : Arrive(c, k, t)  BY <1>2, FrameArrives
  <2>2. PICK w : Stepped(c, w) /\ w.step \in {"add", "insert"}  BY <1>0, <2>1, ArriveSteps
  <2>3. cpu[c].step = "idle" /\ UNCHANGED <<seen, counted, forgotten>>  BY <2>1 DEF Arrive
  <2> QED  BY <2>2, <2>3, QuietStep
<1>3. ASSUME NEW c \in Cpus, Add(c) \/ Insert(c) \/ Relookup(c) PROVE (SeenIsCounted /\ CountsBounded)'
  <2>1. PICK w : Stepped(c, w) /\ w.step \notin {"mark", "bump"}
    BY <1>0, <1>3, AddSteps, InsertSteps, RelookupSteps
  <2>2. cpu[c].step \in {"add", "insert", "relookup"} /\ UNCHANGED <<seen, counted, forgotten>>
    BY <1>3 DEF Add, Insert, Relookup, history
  <2> QED  BY <2>1, <2>2, QuietStep
<1>4. ASSUME NEW c \in Cpus, Check(c) PROVE (SeenIsCounted /\ CountsBounded)'
  <2>1. cpu[c].step = "check" /\ UNCHANGED <<seen, counted, forgotten>>  BY <1>4 DEF Check, history
  <2>2. CASE Stepped(c, Idle)
    <3>1. Idle.step \notin {"mark", "bump"}  BY DEF Idle
    <3> QED  BY <2>1, <2>2, <3>1, QuietStep
  <2>3. CASE \E w : Stepped(c, w) /\ w.step = "mark" /\ w.conn \notin seen
    BY <2>1, <2>3, CheckKeeps
  <2> QED  BY <1>0, <1>4, <2>2, <2>3, CheckSteps
<1>5. ASSUME NEW c \in Cpus, Mark(c) PROVE (SeenIsCounted /\ CountsBounded)'
  BY <1>5, MarkKeeps
<1>6. ASSUME NEW c \in Cpus, Bump(c) PROVE (SeenIsCounted /\ CountsBounded)'
  BY <1>6, BumpKeeps
<1> QED  BY <1>1, <1>2, <1>3, <1>4, <1>5, <1>6 DEF Next

\* Marking a tuple before it is counted (try_count_connection) loses no
\* connection: a tuple in lanspeed_seen_conns was counted or is about to be.
THEOREM NoConnectionLost == Spec => []SeenIsCounted
<1>1. ConnInv => SeenIsCounted  BY DEF ConnInv
<1> QED  BY ConnInit, ConnStep, <1>1, PTL DEF Spec

\* A connection whose tuple stays is counted at most once per CPU.
THEOREM OvercountIsBounded == Spec => []OvercountBounded
<1>1. ConnInv => OvercountBounded
  <2> SUFFICES ASSUME ConnInv, ~forgotten, NEW t \in Conns PROVE counted[t] <= Cardinality(Cpus)
    BY DEF OvercountBounded
  <2>1. counted[t] \in Nat  BY DEF ConnInv, TypeInv, TypeOK
  <2>2. Counting(t) \in SUBSET Cpus  BY DEF Counting
  <2>3. Cardinality(Counting(t)) \in Nat /\ Cardinality(Cpus) \in Nat  BY <2>2, CpusBound
  <2> QED  BY <2>1, <2>3 DEF ConnInv, CountsBounded
<1> QED  BY ConnInit, ConnStep, <1>1, PTL DEF Spec

----------------------------------------------------------------------------
(* Frames *)

\* No key has two elements: what BPF_NOEXIST is for.
OneElement ==
  \A d, e \in Elements : entry[d].key = entry[e].key /\ entry[d].key \in Keys => d = e

\* A pointer that a lookup returned still is to the key's element.
PointersRight ==
  \A c \in Cpus : cpu[c].step = "add" => entry[cpu[c].elem].key = cpu[c].key

Pending(k) == dropped[k] + Cardinality(At(k, {"insert", "add"}))
Accounted(k) ==
  /\ Holding(k) = {} => traffic[k] = Pending(k)
  /\ \A e \in Holding(k) : traffic[k] = entry[e].frames + Pending(k)

\* Nothing is dropped before a key has its element; after that only the CPUs
\* that did not see it can be, and the one that made it is none of them.
DropsLeft(k) ==
  IF Holding(k) = {} THEN dropped[k] = 0
  ELSE dropped[k] + Cardinality(At(k, {"insert"})) <= Cardinality(Cpus) - 1

FramesInv ==
  /\ TypeInv /\ OneElement
  /\ ~recycled => PointersRight /\ \A k \in Keys : Accounted(k) /\ DropsLeft(k)

LEMMA FramesInit == Init => FramesInv
<1> SUFFICES ASSUME Init
             PROVE  OneElement /\ PointersRight /\ \A k \in Keys : Accounted(k) /\ DropsLeft(k)
  BY TypeInit DEF FramesInv
<1>1. /\ \A e \in Elements : entry[e].key = None
      /\ \A c \in Cpus : cpu[c].step = "idle"
  BY DEF Init, Empty, Idle
<1>2. OneElement /\ PointersRight  BY <1>1, KeysAssumption DEF OneElement, PointersRight
<1>3. ASSUME NEW k \in Keys PROVE Accounted(k) /\ DropsLeft(k)
  <2>1. Holding(k) = {}  BY <1>1, KeysAssumption DEF Holding
  <2>2. At(k, {"insert", "add"}) = {}  BY <1>1 DEF At
  <2>3. dropped[k] = 0 /\ traffic[k] = 0  BY DEF Init
  <2>4. Cardinality(At(k, {"insert", "add"})) = 0  BY <2>2, FS_EmptySet
  <2> QED  BY <2>1, <2>3, <2>4 DEF Accounted, DropsLeft, Pending
<1> QED  BY <1>2, <1>3

\* How a step of CPU c changes the number of CPUs at some steps with key k.
LEMMA AtMoves ==
  ASSUME TypeInv, NEW c \in Cpus, NEW w, Stepped(c, w), NEW k \in Keys, NEW S
  PROVE  /\ Cardinality(At(k, S)) \in Nat
         /\ Cardinality(At(k, S)') =
              Cardinality(At(k, S)) + (IF w.key = k /\ w.step \in S THEN 1 ELSE 0)
                                    - (IF cpu[c].key = k /\ cpu[c].step \in S THEN 1 ELSE 0)
<1> DEFINE A == At(k, S)
           B == At(k, S)'
<1>1. cpu'[c] = w /\ \A d \in Cpus \ {c} : cpu'[d] = cpu[d]  BY SteppedType
<1>2. /\ A \in SUBSET Cpus /\ B \in SUBSET Cpus /\ A \ {c} = B \ {c}
      /\ c \in A <=> cpu[c].key = k /\ cpu[c].step \in S
      /\ c \in B <=> w.key = k /\ w.step \in S
  BY <1>1 DEF At
<1> HIDE DEF A, B
<1>3. /\ Cardinality(A) \in Nat
      /\ Cardinality(B) = IF c \in A <=> c \in B THEN Cardinality(A)
                          ELSE IF c \in B THEN Cardinality(A) + 1 ELSE Cardinality(A) - 1
  BY <1>2, OneMoved
<1>4. Cardinality(B) = Cardinality(A) + (IF w.key = k /\ w.step \in S THEN 1 ELSE 0)
                                      - (IF cpu[c].key = k /\ cpu[c].step \in S THEN 1 ELSE 0)
  BY <1>2, <1>3
<1> QED  BY <1>3, <1>4 DEF A, B

\* A step that neither adds nor inserts, nor moves to there, changes nothing.
LEMMA FramesQuiet ==
  ASSUME FramesInv, NEW c \in Cpus, NEW w, Stepped(c, w),
         cpu[c].step \notin {"insert", "add"}, w.step \notin {"insert", "add"},
         \A e \in Elements : entry'[e].key = entry[e].key /\ entry'[e].frames = entry[e].frames,
         UNCHANGED <<traffic, dropped, recycled>>
  PROVE  OneElement' /\ (~recycled' => PointersRight' /\ \A k \in Keys : Accounted(k)' /\ DropsLeft(k)')
<1>1. cpu'[c] = w /\ \A d \in Cpus \ {c} : cpu'[d] = cpu[d]  BY SteppedType DEF FramesInv
<1>2. \A k : Holding(k)' = Holding(k)  BY DEF Holding
<1>3. \A k : At(k, {"insert", "add"})' = At(k, {"insert", "add"}) /\ At(k, {"insert"})' = At(k, {"insert"})
  BY <1>1 DEF At
<1>4. OneElement'  BY DEF FramesInv, OneElement
<1>5. ASSUME ~recycled' PROVE PointersRight'
  <2> SUFFICES ASSUME NEW d \in Cpus, cpu'[d].step = "add" PROVE entry'[cpu'[d].elem].key = cpu'[d].key
    BY DEF PointersRight
  <2>1. d # c  BY <1>1
  <2>2. cpu'[d] = cpu[d]  BY <1>1, <2>1
  <2>3. cpu[d].elem \in Elements  BY <2>2 DEF FramesInv, TypeInv, Prepared
  <2>4. entry[cpu[d].elem].key = cpu[d].key  BY <1>5, <2>2 DEF FramesInv, PointersRight
  <2> QED  BY <2>2, <2>3, <2>4
<1>6. ASSUME ~recycled', NEW k \in Keys PROVE Accounted(k)' /\ DropsLeft(k)'
  <2>1. Accounted(k) /\ DropsLeft(k)  BY <1>6 DEF FramesInv
  <2>2. Pending(k)' = Pending(k)  BY <1>3 DEF Pending
  <2>3. \A e \in Holding(k) : entry'[e].frames = entry[e].frames  BY DEF Holding
  <2>4. Accounted(k)'  BY <1>2, <2>1, <2>2, <2>3 DEF Accounted
  <2>5. DropsLeft(k)'  BY <1>2, <1>3, <2>1 DEF DropsLeft
  <2> QED  BY <2>4, <2>5
<1> QED  BY <1>4, <1>5, <1>6

\* A frame that arrives is pending, with the pointer of its key's element.
LEMMA ArriveAccounts ==
  ASSUME FramesInv, NEW c \in Cpus, NEW k \in Keys, NEW t \in Conns \union {None}, Arrive(c, k, t)
  PROVE  OneElement' /\ (~recycled' => PointersRight' /\ \A q \in Keys : Accounted(q)' /\ DropsLeft(q)')
<1>0. TypeInv  BY DEF FramesInv
<1>1. PICK w : /\ Stepped(c, w) /\ w.key = k
               /\ \/ w.step = "add" /\ w.elem \in Holding(k)
                  \/ w.step = "insert" /\ Holding(k) = {}
  BY <1>0, ArriveSteps
<1>2. cpu'[c] = w /\ \A d \in Cpus \ {c} : cpu'[d] = cpu[d]  BY <1>0, <1>1, SteppedType
<1>3. /\ cpu[c].step = "idle" /\ UNCHANGED <<entry, dropped, recycled>>
      /\ traffic' = [traffic EXCEPT ![k] = @ + 1]
  BY DEF Arrive
<1>4. OneElement'  BY <1>3 DEF FramesInv, OneElement
<1>5. ASSUME ~recycled' PROVE PointersRight'
  <2> SUFFICES ASSUME NEW d \in Cpus, cpu'[d].step = "add" PROVE entry[cpu'[d].elem].key = cpu'[d].key
    BY <1>3 DEF PointersRight
  <2>1. CASE d = c  BY <1>1, <1>2, <2>1 DEF Holding
  <2>2. CASE d # c  BY <1>2, <1>3, <1>5, <2>2 DEF FramesInv, PointersRight
  <2> QED  BY <2>1, <2>2
<1>6. ASSUME ~recycled', NEW q \in Keys PROVE Accounted(q)' /\ DropsLeft(q)'
  <2>1. Accounted(q) /\ DropsLeft(q)  BY <1>3, <1>6 DEF FramesInv
  <2>2. Holding(q)' = Holding(q)  BY <1>3 DEF Holding
  <2>3. traffic \in [Keys -> Nat] /\ dropped \in [Keys -> Nat]
    BY <1>0 DEF TypeInv, TypeOK
  <2>4. traffic'[q] = traffic[q] + (IF q = k THEN 1 ELSE 0)  BY <1>3, <2>3
  <2>5. /\ Cardinality(At(q, {"insert", "add"})) \in Nat
        /\ Cardinality(At(q, {"insert", "add"})') =
             Cardinality(At(q, {"insert", "add"})) + (IF q = k THEN 1 ELSE 0)
    BY <1>0, <1>1, <1>3, AtMoves
  <2>6. Pending(q) \in Nat /\ Pending(q)' = Pending(q) + (IF q = k THEN 1 ELSE 0)
    BY <1>3, <2>3, <2>5 DEF Pending
  <2>7. \A e \in Elements : entry[e].frames \in Nat  BY <1>0 DEF TypeInv, TypeOK
  <2>8. \A e \in Holding(q) : entry'[e].frames = entry[e].frames /\ entry[e].frames \in Nat
    BY <1>3, <2>7 DEF Holding
  <2>9. Accounted(q)'
    <3>1. ASSUME Holding(q) = {} PROVE traffic'[q] = Pending(q)'
      BY <2>1, <2>4, <2>6, <3>1 DEF Accounted
    <3>2. ASSUME NEW e \in Holding(q) PROVE traffic'[q] = entry'[e].frames + Pending(q)'
      <4>1. traffic[q] = entry[e].frames + Pending(q)  BY <2>1 DEF Accounted
      <4> QED  BY <2>4, <2>6, <2>8, <4>1
    <3> QED  BY <2>2, <3>1, <3>2 DEF Accounted
  <2>10. DropsLeft(q)'
    <3>1. CASE Holding(q) = {}  BY <1>3, <2>1, <2>2, <3>1 DEF DropsLeft
    <3>2. CASE Holding(q) # {}
      <4>1. w.key = q => w.step # "insert"  BY <1>1, <3>2
      <4>2. /\ Cardinality(At(q, {"insert"})) \in Nat
            /\ Cardinality(At(q, {"insert"})') =
                 Cardinality(At(q, {"insert"})) + (IF w.key = q /\ w.step \in {"insert"} THEN 1 ELSE 0)
                   - (IF cpu[c].key = q /\ cpu[c].step \in {"insert"} THEN 1 ELSE 0)
        BY <1>0, <1>1, AtMoves
      <4>3. Cardinality(At(q, {"insert"})') = Cardinality(At(q, {"insert"}))
        BY <1>3, <4>1, <4>2
      <4> QED  BY <1>3, <2>1, <2>2, <3>2, <4>3 DEF DropsLeft
    <3> QED  BY <3>1, <3>2
  <2> QED  BY <2>9, <2>10
<1> QED  BY <1>4, <1>5, <1>6

\* The frame that is added leaves the pending ones for its key's counter.
LEMMA AddAccounts ==
  ASSUME FramesInv, NEW c \in Cpus, Add(c)
  PROVE  OneElement' /\ (~recycled' => PointersRight' /\ \A k \in Keys : Accounted(k)' /\ DropsLeft(k)')
<1>0. TypeInv  BY DEF FramesInv
<1>1. PICK e \in Elements, k \in Keys : e = cpu[c].elem /\ k = cpu[c].key  BY <1>0, AddSteps
<1>2. PICK w : Stepped(c, w) /\ w.step \notin {"insert", "add"}  BY <1>0, AddSteps
<1>3. cpu'[c] = w /\ \A d \in Cpus \ {c} : cpu'[d] = cpu[d]  BY <1>0, <1>2, SteppedType
<1>4. /\ cpu[c].step = "add" /\ UNCHANGED <<traffic, dropped, recycled>>
      /\ entry' = [entry EXCEPT ![e].frames = @ + 1]
  BY <1>1 DEF Add, history
<1>5. entry \in [Elements -> Entries] /\ dropped \in [Keys -> Nat]
  BY <1>0 DEF TypeInv, TypeOK, Entries
<1>6. \A f \in Elements : /\ entry'[f].key = entry[f].key
                          /\ entry'[f].frames = IF f = e THEN entry[f].frames + 1 ELSE entry[f].frames
  BY <1>4, <1>5 DEF Entries
<1>7. OneElement'  BY <1>6 DEF FramesInv, OneElement
<1>8. \A q : Holding(q)' = Holding(q)  BY <1>6 DEF Holding
<1>9. ASSUME ~recycled' PROVE PointersRight'
  <2> SUFFICES ASSUME NEW d \in Cpus, cpu'[d].step = "add" PROVE entry'[cpu'[d].elem].key = cpu'[d].key
    BY DEF PointersRight
  <2>1. d # c /\ cpu'[d] = cpu[d]  BY <1>2, <1>3
  <2>2. cpu[d].elem \in Elements  BY <1>0, <2>1 DEF TypeInv, Prepared
  <2>3. entry[cpu[d].elem].key = cpu[d].key  BY <1>4, <1>9, <2>1 DEF FramesInv, PointersRight
  <2> QED  BY <1>6, <2>1, <2>2, <2>3
<1>10. ASSUME ~recycled', NEW q \in Keys PROVE Accounted(q)' /\ DropsLeft(q)'
  <2>1. Accounted(q) /\ DropsLeft(q)  BY <1>4, <1>10 DEF FramesInv
  <2>2. entry[e].key = k  BY <1>1, <1>4, <1>10 DEF FramesInv, PointersRight
  <2>3. /\ Cardinality(At(q, {"insert", "add"})) \in Nat
        /\ Cardinality(At(q, {"insert", "add"})') =
             Cardinality(At(q, {"insert", "add"})) - (IF q = k THEN 1 ELSE 0)
    BY <1>0, <1>1, <1>2, <1>4, AtMoves
  <2>4. Cardinality(At(q, {"insert"})') = Cardinality(At(q, {"insert"}))
    <3>1. /\ Cardinality(At(q, {"insert"})) \in Nat
          /\ Cardinality(At(q, {"insert"})') =
               Cardinality(At(q, {"insert"})) + (IF w.key = q /\ w.step \in {"insert"} THEN 1 ELSE 0)
                 - (IF cpu[c].key = q /\ cpu[c].step \in {"insert"} THEN 1 ELSE 0)
      BY <1>0, <1>2, AtMoves
    <3> QED  BY <1>2, <1>4, <3>1
  <2>5. Pending(q) \in Int /\ Pending(q)' = Pending(q) - (IF q = k THEN 1 ELSE 0)
    BY <1>4, <1>5, <2>3 DEF Pending
  <2>6. Holding(k) = {e}  BY <2>2, <1>5 DEF Holding, FramesInv, OneElement
  <2>7. ASSUME NEW f \in Holding(q) PROVE traffic'[q] = entry'[f].frames + Pending(q)'
    <3>1. f \in Elements /\ entry[f].key = q /\ entry[f].frames \in Nat
      BY <1>5 DEF Holding, Entries
    <3>2. f = e <=> q = k  BY <2>2, <2>6, <3>1
    <3>3. traffic[q] = entry[f].frames + Pending(q)  BY <2>1 DEF Accounted
    <3> QED  BY <1>4, <1>6, <2>5, <3>1, <3>2, <3>3
  <2>8. ASSUME Holding(q) = {} PROVE traffic'[q] = Pending(q)'
    <3>1. q # k  BY <2>6, <2>8
    <3> QED  BY <1>4, <2>1, <2>5, <2>8, <3>1 DEF Accounted
  <2>9. Accounted(q)'  BY <1>8, <2>7, <2>8 DEF Accounted
  <2>10. DropsLeft(q)'  BY <1>4, <1>8, <2>1, <2>4 DEF DropsLeft
  <2> QED  BY <2>9, <2>10
<1> QED  BY <1>7, <1>9, <1>10

\* A frame that finds its key's element there is dropped: it was one of the CPUs
\* that could still be.
LEMMA InsertDrops ==
  ASSUME FramesInv, NEW c \in Cpus, Insert(c), Holding(cpu[c].key) # {}
  PROVE  OneElement' /\ (~recycled' => PointersRight' /\ \A k \in Keys : Accounted(k)' /\ DropsLeft(k)')
<1>0. TypeInv  BY DEF FramesInv
<1>1. PICK k \in Keys : k = cpu[c].key  BY <1>0, InsertSteps
<1>2. PICK w : Stepped(c, w) /\ w.step \notin {"insert", "add"}  BY <1>0, InsertSteps
<1>3. cpu'[c] = w /\ \A d \in Cpus \ {c} : cpu'[d] = cpu[d]  BY <1>0, <1>2, SteppedType
<1>4. /\ cpu[c].step = "insert" /\ UNCHANGED <<entry, traffic, recycled>>
      /\ dropped' = [dropped EXCEPT ![k] = @ + 1]
  BY <1>1 DEF Insert
<1>5. dropped \in [Keys -> Nat]  BY <1>0 DEF TypeInv, TypeOK
<1>6. OneElement' /\ \A q : Holding(q)' = Holding(q)  BY <1>4 DEF FramesInv, OneElement, Holding
<1>7. ASSUME ~recycled' PROVE PointersRight'
  <2> SUFFICES ASSUME NEW d \in Cpus, cpu'[d].step = "add" PROVE entry[cpu'[d].elem].key = cpu'[d].key
    BY <1>4 DEF PointersRight
  <2>1. d # c /\ cpu'[d] = cpu[d]  BY <1>2, <1>3
  <2> QED  BY <1>4, <1>7, <2>1 DEF FramesInv, PointersRight
<1>8. ASSUME ~recycled', NEW q \in Keys PROVE Accounted(q)' /\ DropsLeft(q)'
  <2> DEFINE one == IF q = k THEN 1 ELSE 0
  <2>1. Accounted(q) /\ DropsLeft(q)  BY <1>4, <1>8 DEF FramesInv
  <2>2. dropped[q] \in Nat /\ dropped'[q] = dropped[q] + one  BY <1>4, <1>5
  <2>3. /\ Cardinality(At(q, {"insert", "add"})) \in Nat
        /\ Cardinality(At(q, {"insert", "add"})') = Cardinality(At(q, {"insert", "add"})) - one
    BY <1>0, <1>1, <1>2, <1>4, AtMoves
  <2>4. /\ Cardinality(At(q, {"insert"})) \in Nat
        /\ Cardinality(At(q, {"insert"})') = Cardinality(At(q, {"insert"})) - one
    BY <1>0, <1>1, <1>2, <1>4, AtMoves
  <2>5. Pending(q)' = Pending(q)  BY <2>2, <2>3 DEF Pending
  <2>6. Accounted(q)'  BY <1>4, <1>6, <2>1, <2>5 DEF Accounted
  <2>7. dropped'[q] + Cardinality(At(q, {"insert"})') = dropped[q] + Cardinality(At(q, {"insert"}))
    BY <2>2, <2>4
  <2>8. CASE Holding(q) = {}
    <3>1. q # k  BY <1>1, <2>8
    <3>2. dropped'[q] = 0  BY <2>1, <2>2, <2>8, <3>1 DEF DropsLeft
    <3> QED  BY <1>6, <2>6, <2>8, <3>2 DEF DropsLeft
  <2>9. CASE Holding(q) # {}
    BY <1>6, <2>1, <2>6, <2>7, <2>9 DEF DropsLeft
  <2> QED  BY <2>8, <2>9
<1> QED  BY <1>6, <1>7, <1>8

\* The first insertion makes the key's element out of a free one.
LEMMA InsertAccounts ==
  ASSUME FramesInv, NEW c \in Cpus, Insert(c), Holding(cpu[c].key) = {}
  PROVE  OneElement' /\ (~recycled' => PointersRight' /\ \A k \in Keys : Accounted(k)' /\ DropsLeft(k)')
<1>0. TypeInv  BY DEF FramesInv
<1>1. PICK k \in Keys : k = cpu[c].key  BY <1>0, InsertSteps
<1>2. PICK w : Stepped(c, w) /\ w.step \notin {"insert", "add"}  BY <1>0, InsertSteps
<1>3. cpu'[c] = w /\ \A d \in Cpus \ {c} : cpu'[d] = cpu[d]  BY <1>0, <1>2, SteppedType
<1>4. PICK e \in Elements : /\ entry' = [entry EXCEPT ![e] = [key |-> k, frames |-> 1, conns |-> 0]]
                            /\ Holding(None) # {} => e \in Holding(None)
  BY <1>1 DEF Insert, Holding
<1>5. /\ cpu[c].step = "insert" /\ UNCHANGED <<traffic, dropped>>
      /\ ~recycled' => ~recycled /\ Holding(None) # {}
  BY DEF Insert
<1>6. entry \in [Elements -> Entries] /\ dropped \in [Keys -> Nat]
  BY <1>0 DEF TypeInv, TypeOK, Entries
<1>7. /\ entry'[e].key = k /\ entry'[e].frames = 1
      /\ \A f \in Elements \ {e} : entry'[f] = entry[f]
  BY <1>4, <1>6
<1>8. \A f \in Elements : entry[f].key # k  BY <1>1 DEF Holding
<1>9. OneElement'  BY <1>7, <1>8 DEF FramesInv, OneElement
<1>10. ASSUME ~recycled' PROVE entry[e].key = None
  BY <1>4, <1>5, <1>10 DEF Holding
<1>11. ASSUME ~recycled' PROVE PointersRight'
  <2> SUFFICES ASSUME NEW d \in Cpus, cpu'[d].step = "add" PROVE entry'[cpu'[d].elem].key = cpu'[d].key
    BY DEF PointersRight
  <2>1. d # c /\ cpu'[d] = cpu[d]  BY <1>2, <1>3
  <2>2. cpu[d].elem \in Elements /\ cpu[d].key \in Keys  BY <1>0, <2>1 DEF TypeInv, Prepared
  <2>3. entry[cpu[d].elem].key = cpu[d].key  BY <1>5, <1>11, <2>1 DEF FramesInv, PointersRight
  <2>4. cpu[d].elem # e  BY <1>10, <1>11, <2>2, <2>3, KeysAssumption
  <2> QED  BY <1>7, <2>1, <2>2, <2>3, <2>4
<1>12. ASSUME ~recycled', NEW q \in Keys PROVE Accounted(q)' /\ DropsLeft(q)'
  <2>1. Accounted(q) /\ DropsLeft(q)  BY <1>5, <1>12 DEF FramesInv
  <2>2. entry[e].key # q  BY <1>10, <1>12, KeysAssumption
  <2>3. Holding(q)' = IF q = k THEN {e} ELSE Holding(q)
    BY <1>7, <1>8, <2>2 DEF Holding
  <2>4. /\ Cardinality(At(q, {"insert", "add"})) \in Nat
        /\ Cardinality(At(q, {"insert", "add"})') =
             Cardinality(At(q, {"insert", "add"})) - (IF q = k THEN 1 ELSE 0)
    BY <1>0, <1>1, <1>2, <1>5, AtMoves
  <2>5. Pending(q) \in Int /\ Pending(q)' = Pending(q) - (IF q = k THEN 1 ELSE 0)
    BY <1>5, <1>6, <2>4 DEF Pending
  <2>6. CASE q = k
    <3>1. Holding(k) = {} /\ traffic[k] = Pending(k) /\ dropped[k] = 0
      BY <1>1, <2>1, <2>6 DEF Accounted, DropsLeft
    <3>2. traffic'[k] = entry'[e].frames + Pending(k)'
      BY <1>5, <1>7, <2>5, <2>6, <3>1
    <3>3. At(k, {"insert"})' \in SUBSET Cpus /\ c \notin At(k, {"insert"})'
      BY <1>2, <1>3 DEF At
    <3> DEFINE B == At(k, {"insert"})'
    <3>4. Cardinality(B) <= Cardinality(Cpus) - 1 /\ Cardinality(B) \in Nat
      <4> HIDE DEF B
      <4> QED  BY <3>3, CpusBound DEF B
    <3>5. dropped'[k] + Cardinality(At(k, {"insert"})') <= Cardinality(Cpus) - 1
      BY <1>5, <3>1, <3>4
    <3>6. Holding(q)' = {e}  BY <2>3, <2>6
    <3>7. Accounted(q)'  BY <2>6, <3>2, <3>6 DEF Accounted
    <3>8. DropsLeft(q)'  BY <2>6, <3>5, <3>6 DEF DropsLeft
    <3> QED  BY <3>7, <3>8
  <2>7. CASE q # k
    <3>1. Holding(q)' = Holding(q) /\ Pending(q)' = Pending(q)  BY <2>3, <2>5, <2>7
    <3>2. \A f \in Holding(q) : entry'[f] = entry[f]  BY <1>7, <2>2 DEF Holding
    <3>3. Accounted(q)'  BY <1>5, <2>1, <3>1, <3>2 DEF Accounted
    <3>4. Cardinality(At(q, {"insert"})') = Cardinality(At(q, {"insert"}))
      BY <1>0, <1>1, <1>2, <1>5, <2>7, AtMoves
    <3>5. DropsLeft(q)'  BY <1>5, <2>1, <3>1, <3>4 DEF DropsLeft
    <3> QED  BY <3>3, <3>5
  <2> QED  BY <2>6, <2>7
<1> QED  BY <1>9, <1>11, <1>12

LEMMA FramesStep == FramesInv /\ [Next]_vars => FramesInv'
<1> SUFFICES ASSUME FramesInv, [Next]_vars
             PROVE  OneElement' /\ (~recycled' => PointersRight' /\ \A k \in Keys : Accounted(k)' /\ DropsLeft(k)')
  BY TypeStep DEF FramesInv
<1> DEFINE Goal == OneElement' /\ (~recycled' => PointersRight' /\ \A k \in Keys : Accounted(k)' /\ DropsLeft(k)')
<1>0. TypeInv  BY DEF FramesInv
<1>1. CASE UNCHANGED vars
  <2>1. OneElement' /\ (PointersRight' <=> PointersRight) /\ recycled' = recycled
    BY <1>1 DEF vars, FramesInv, OneElement, PointersRight
  <2>2. \A k : Accounted(k)' <=> Accounted(k)
    BY <1>1 DEF vars, Accounted, Pending, Holding, At
  <2>3. \A k : DropsLeft(k)' <=> DropsLeft(k)
    BY <1>1 DEF vars, DropsLeft, Holding, At
  <2> QED  BY <2>1, <2>2, <2>3 DEF FramesInv
<1>2. ASSUME NEW c \in Cpus, Frame(c) PROVE Goal
  BY <1>2, FrameArrives, ArriveAccounts
<1>3. ASSUME NEW c \in Cpus, Add(c) PROVE Goal
  BY <1>3, AddAccounts
<1>4. ASSUME NEW c \in Cpus, Insert(c) PROVE Goal
  BY <1>4, InsertDrops, InsertAccounts
<1>5. ASSUME NEW c \in Cpus, Relookup(c) \/ Check(c) \/ Mark(c) PROVE Goal
  <2>1. PICK w : Stepped(c, w) /\ w.step \notin {"insert", "add"}
    BY <1>0, <1>5, RelookupSteps, CheckSteps, MarkSteps DEF Idle
  <2>2. /\ cpu[c].step \notin {"insert", "add"}
        /\ UNCHANGED <<entry, traffic, dropped, recycled>>
    BY <1>5 DEF Relookup, Check, Mark, history
  <2> QED  BY <2>1, <2>2, FramesQuiet
<1>6. ASSUME NEW c \in Cpus, Bump(c) PROVE Goal
  <2>1. Stepped(c, Idle) /\ Idle.step \notin {"insert", "add"}  BY <1>0, <1>6, BumpSteps DEF Idle
  <2>2. cpu[c].step \notin {"insert", "add"} /\ UNCHANGED <<traffic, dropped, recycled>>
    BY <1>6 DEF Bump
  <2>3. entry \in [Elements -> Entries]  BY <1>0 DEF TypeInv, TypeOK, Entries
  <2>4. \A e \in Elements : entry'[e].key = entry[e].key /\ entry'[e].frames = entry[e].frames
    BY <1>6, <2>3 DEF Bump, Entries
  <2> QED  BY <2>1, <2>2, <2>4, FramesQuiet
<1> QED  BY <1>1, <1>2, <1>3, <1>4, <1>5, <1>6 DEF Next

\* Until the pool overflows, whichever CPUs meet in account_frame: a key's
\* counter, the frames turned away and those still in the program add up to
\* its traffic.
THEOREM NoFrameLost == Spec => []FramesAccounted
<1>1. FramesInv => FramesAccounted
  BY DEF FramesInv, FramesAccounted, Accounted, Pending
<1> QED  BY FramesInit, FramesStep, <1>1, PTL DEF Spec

\* Each key loses fewer frames than there are CPUs, however long it lives.
THEOREM DropsAreBounded == Spec => []DroppedOnlyAtFirst
<1>1. FramesInv => DroppedOnlyAtFirst
  <2> SUFFICES ASSUME FramesInv, ~recycled, NEW k \in Keys PROVE dropped[k] < Cardinality(Cpus)
    BY DEF DroppedOnlyAtFirst
  <2>1. At(k, {"insert"}) \in SUBSET Cpus  BY DEF At
  <2>2. Cardinality(At(k, {"insert"})) \in Nat /\ Cardinality(Cpus) \in Nat \ {0}
    BY <2>1, CpusBound
  <2>3. dropped[k] \in Nat  BY DEF FramesInv, TypeInv, TypeOK
  <2> QED  BY <2>2, <2>3 DEF FramesInv, DropsLeft
<1> QED  BY FramesInit, FramesStep, <1>1, PTL DEF Spec
=============================================================================
