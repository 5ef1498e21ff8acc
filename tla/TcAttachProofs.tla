--------------------------- MODULE TcAttachProofs ---------------------------
(***************************************************************************)
(* The safety invariants of TcAttach hold for every list of interfaces,    *)
(* every size of the tracking table and every number of external events.   *)
(***************************************************************************)
EXTENDS TcAttach, TLAPS

USE DEF Dirs, Modes, Owners, Ours, Jobs, Callers, Taints

LEMMA Position ==
  ASSUME TypeOK, Loops
  PROVE  I \in Ifaces /\ at + 1 \in 1..(Len(IfaceSeq) + 1)
BY IfaceSeqAssumption DEF TypeOK, CursorType, Loops, I, Ifaces

LEMMA TargetMode == TypeOK => Target \in Modes
BY DEF TypeOK, StateType, Target

LEMMA FirstPosition == 1 \in 1..(Len(IfaceSeq) + 1)
BY IfaceSeqAssumption

LEMMA EventSpent ==
  ASSUME TypeOK, events > 0, events' = events - 1
  PROVE  events' \in 0..MaxEvents
BY BoundAssumption DEF TypeOK, StateType

LEMMA TypeInit == Init => TypeOK
<1> SUFFICES ASSUME Init PROVE TypeOK
  OBVIOUS
<1>1. slot \in [Hooks -> Owners]
  BY DEF Init
<1>2. gen \in [Ifaces -> Nat]
  BY DEF Init
<1>3. at \in 1..(Len(IfaceSeq) + 1)
  BY IfaceSeqAssumption DEF Init
<1>4. events \in 0..MaxEvents
  BY BoundAssumption DEF Init
<1> QED BY <1>1, <1>2, <1>3, <1>4 DEF Init, TypeOK, KernelType, CursorType, StateType

\* What the loader's shared steps leave in the cursor and the tracking table.
LEMMA ReturnType ==
  ASSUME TypeOK, Loops, NEW good \in BOOLEAN, Return(good), caller' = caller
  PROVE  CursorType'
<1>1. at' \in 1..(Len(IfaceSeq) + 1) /\ job' \in Jobs
  BY Position, IfaceSeqAssumption DEF Return, TypeOK, CursorType
<1>2. ok' \in BOOLEAN
  BY Zenon DEF Return, TypeOK, CursorType
<1>3. attempted' \in BOOLEAN
  BY Zenon DEF Return, TypeOK, CursorType
<1> QED BY <1>1, <1>2, <1>3 DEF Return, TypeOK, CursorType

LEMMA PointDoneType ==
  ASSUME TypeOK, Loops, NEW restored \in BOOLEAN, PointDone(restored),
         caller' = caller, ifindex' \in Nat
  PROVE  CursorType'
<1>1. at' \in 1..(Len(IfaceSeq) + 1) /\ job' \in Jobs
  BY Position DEF PointDone, TypeOK, CursorType
<1>2. ok' \in BOOLEAN
  BY Zenon DEF PointDone, TypeOK, CursorType
<1>3. attempted' \in BOOLEAN
  BY Zenon DEF PointDone, TypeOK, CursorType
<1> QED BY <1>1, <1>2, <1>3 DEF PointDone, TypeOK, CursorType

LEMMA TrackType ==
  ASSUME TypeOK, Loops, Track(Tracked(I, point, Target))
  PROVE  attached' \subseteq (Ifaces \X Nat \X Dirs \X Modes) /\ overflow' \in BOOLEAN
<1>1. I \in Ifaces /\ point \in Dirs /\ Target \in Modes
  BY Position, TargetMode DEF TypeOK, CursorType
<1>2. Tracked(I, point, Target) \in Ifaces \X Nat \X Dirs \X Modes
  BY <1>1 DEF Tracked, TypeOK, KernelType
<1>3. CASE attached' = attached \union {Tracked(I, point, Target)} /\ UNCHANGED overflow
  BY <1>2, <1>3 DEF TypeOK, StateType
<1>4. CASE overflow' = TRUE /\ UNCHANGED attached
  BY <1>4 DEF TypeOK, StateType
<1> QED BY <1>3, <1>4, Zenon DEF Track

\* What a detach may do to the filters and to the bound on events.
LEMMA RemoveEffect ==
  ASSUME TypeOK, NEW hooks, hooks \subseteq Hooks, NEW label \in {"left", "stuck"},
         NEW spent \in Nat, Remove(hooks, label, spent)
  PROVE  /\ slot' \in [Hooks -> Owners] /\ events' \in 0..MaxEvents
         /\ \A h \in Hooks \ hooks : slot'[h] = slot[h]
         /\ \A h \in hooks : \/ slot'[h] = "none"
                             \/ slot[h] \in Ours /\ slot'[h] = label
                             \/ slot[h] \notin Ours /\ slot'[h] = slot[h] /\ slot[h] # "none"
<1>1. PICK refused \in SUBSET {h \in hooks : slot[h] # "none"} :
        LET cost == spent + IF refused = {} THEN 0 ELSE 1
        IN /\ events >= cost /\ events' = events - cost
           /\ slot' = [h \in Hooks |->
                        IF h \notin hooks THEN slot[h]
                        ELSE IF h \notin refused THEN "none"
                        ELSE IF slot[h] \in Ours THEN label ELSE slot[h]]
  BY DEF Remove
<1>2. events' \in 0..MaxEvents
  BY <1>1, BoundAssumption DEF TypeOK, StateType
<1>3. slot' \in [Hooks -> Owners]
  BY <1>1 DEF TypeOK, KernelType
<1>4. \A h \in Hooks \ hooks : slot'[h] = slot[h]
  BY <1>1
<1>5. ASSUME NEW h \in hooks
      PROVE  \/ slot'[h] = "none"
             \/ slot[h] \in Ours /\ slot'[h] = label
             \/ slot[h] \notin Ours /\ slot'[h] = slot[h] /\ slot[h] # "none"
  BY <1>1
<1> QED BY <1>2, <1>3, <1>4, <1>5, Zenon

\* One interface's detach, whatever the kernel refuses of it.
LEMMA DetachIfaceEffect ==
  ASSUME TypeOK, Loops, NEW m \in Modes, NEW label \in {"left", "stuck"},
         DetachIface(m, label)
  PROVE  /\ slot' \in [Hooks -> Owners] /\ events' \in 0..MaxEvents
         /\ attached' \subseteq attached
<1>1. CASE I \in up
  <2>1. {<<I, d, m>> : d \in Dirs} \subseteq Hooks
    BY Position DEF Hooks
  <2>2. /\ Remove({<<I, d, m>> : d \in Dirs}, label, 0)
        /\ attached' = attached \ {Tracked(I, d, m) : d \in Dirs}
    BY <1>1 DEF DetachIface
  <2> QED BY <2>1, <2>2, RemoveEffect
<1>2. CASE I \notin up
  BY <1>2 DEF DetachIface, TypeOK, KernelType, StateType
<1> QED BY <1>1, <1>2

\* The same at one hook: what is left there, and when its entry stays.
LEMMA DetachIfaceAt ==
  ASSUME TypeOK, Loops, NEW m \in Modes, NEW label \in {"left", "stuck"},
         DetachIface(m, label), NEW i \in Ifaces, NEW d \in Dirs, NEW x \in Modes
  PROVE  /\ slot'[<<i, d, x>>] \in Ours => slot[<<i, d, x>>] \in Ours
         /\ slot'[<<i, d, x>>] \in Ours \ {label} => slot'[<<i, d, x>>] = slot[<<i, d, x>>]
         /\ slot'[<<i, d, x>>] \in Ours \ {label} => ~(i = I /\ x = m /\ I \in up)
         /\ ~(i = I /\ x = m /\ I \in up) =>
              /\ slot'[<<i, d, x>>] = slot[<<i, d, x>>]
              /\ Tracked(i, d, x) \in attached => Tracked(i, d, x) \in attached'
<1> DEFINE hooks == {<<I, e, m>> : e \in Dirs}
           h == <<i, d, x>>
<1>1. h \in Hooks /\ hooks \subseteq Hooks
  BY Position DEF Hooks
<1>2. CASE I \in up
  <2>1. /\ Remove(hooks, label, 0)
        /\ attached' = attached \ {Tracked(I, e, m) : e \in Dirs}
    BY <1>2 DEF DetachIface
  <2>2. /\ \A g \in Hooks \ hooks : slot'[g] = slot[g]
        /\ \A g \in hooks : \/ slot'[g] = "none"
                            \/ slot[g] \in Ours /\ slot'[g] = label
                            \/ slot[g] \notin Ours /\ slot'[g] = slot[g] /\ slot[g] # "none"
    <3> HIDE DEF hooks
    <3> QED BY <1>1, <2>1, RemoveEffect
  <2>3. CASE i = I /\ x = m
    <3>1. h \in hooks
      BY <2>3
    <3> HIDE DEF hooks, h
    <3>2. \/ slot'[h] = "none"
          \/ slot[h] \in Ours /\ slot'[h] = label
          \/ slot[h] \notin Ours /\ slot'[h] = slot[h] /\ slot[h] # "none"
      BY <2>2, <3>1
    <3> QED BY <1>2, <2>3, <3>2 DEF h
  <2>4. CASE ~(i = I /\ x = m)
    <3>1. h \notin hooks
      BY <2>4
    <3>2. slot'[h] = slot[h]
      <4> HIDE DEF hooks, h
      <4> QED BY <1>1, <2>2, <3>1
    <3>3. Tracked(i, d, x) \in attached => Tracked(i, d, x) \in attached'
      BY <2>1, <2>4 DEF Tracked
    <3> QED BY <2>4, <3>2, <3>3
  <2> QED BY <2>3, <2>4
<1>3. CASE I \notin up
  BY <1>3 DEF DetachIface
<1> QED BY <1>2, <1>3

\* What the stop does at the hooks it knows of and at the others.
LEMMA DetachAllEffect ==
  ASSUME TypeOK, NEW spent \in Nat, DetachAll(spent)
  PROVE  /\ slot' \in [Hooks -> Owners] /\ events' \in 0..MaxEvents /\ attached' = {}
         /\ \A h \in Hooks \ TrackedHooks : slot'[h] = slot[h]
         /\ \A h \in TrackedHooks : \/ slot'[h] \in {"none", "stuck"}
                                    \/ slot[h] \notin Ours /\ slot'[h] = slot[h]
<1>1. TrackedHooks \subseteq Hooks
  BY DEF TrackedHooks
<1>2. Remove(TrackedHooks, "stuck", spent) /\ attached' = {}
  BY DEF DetachAll
<1> QED BY <1>1, <1>2, RemoveEffect

LEMMA TypeLoader ==
  ASSUME TypeOK, LoaderStep
  PROVE  TypeOK'
<1>1. CASE EnterPoint
  <2>1. Loops /\ I \in Ifaces
    BY <1>1, Position DEF EnterPoint
  <2>2. KernelType'
    BY <1>1, <2>1 DEF EnterPoint, Adopted, TypeOK, KernelType
  <2>3. CASE Return(FALSE) /\ UNCHANGED <<clsact, attached, overflow>>
    <3>1. CursorType'
      BY <1>1, <2>1, <2>3, ReturnType DEF EnterPoint
    <3> QED BY <1>1, <2>2, <2>3, <3>1 DEF EnterPoint, TypeOK, StateType, policy, rate
  <2>4. CASE Track(Tracked(I, point, Target)) /\ PointDone(FALSE) /\ ifindex' = gen[I]
    <3>1. CursorType'
      BY <1>1, <2>1, <2>4, PointDoneType DEF EnterPoint, TypeOK, KernelType
    <3>2. attached' \subseteq (Ifaces \X Nat \X Dirs \X Modes) /\ overflow' \in BOOLEAN
      BY <2>1, <2>4, TrackType
    <3> QED BY <1>1, <2>2, <3>1, <3>2 DEF EnterPoint, TypeOK, StateType, policy, rate
  <2>5. CASE /\ hook' = IF I \in clsact THEN "found" ELSE "created"
             /\ ifindex' = gen[I]
             /\ UNCHANGED <<job, at, point, ok, attempted, attached, overflow>>
    <3>1. CursorType'
      BY <1>1, <2>1, <2>5 DEF EnterPoint, TypeOK, KernelType, CursorType
    <3> QED BY <1>1, <2>2, <2>5, <3>1 DEF EnterPoint, TypeOK, StateType, policy, rate
  <2> QED BY <1>1, <2>3, <2>4, <2>5, Zenon DEF EnterPoint
<1>2. CASE AttachFilter
  <2>1. Loops /\ Track(Tracked(I, point, Target)) /\ PointDone(TRUE)
    BY <1>2 DEF AttachFilter
  <2>2. KernelType'
    BY <1>2 DEF AttachFilter, TypeOK, KernelType
  <2>3. CursorType'
    BY <1>2, <2>1, PointDoneType DEF AttachFilter, TypeOK, CursorType
  <2>4. StateType'
    BY <1>2, <2>1, TrackType DEF AttachFilter, TypeOK, StateType, policy
  <2> QED BY <2>2, <2>3, <2>4 DEF TypeOK
<1>3. CASE AttachFails
  <2>1. KernelType'
    BY <1>3 DEF AttachFails, Flush, TypeOK, KernelType
  <2>2. CursorType'
    BY <1>3, ReturnType DEF AttachFails
  <2>3. StateType'
    BY <1>3, BoundAssumption DEF AttachFails, TypeOK, StateType, policy, rate
  <2> QED BY <2>1, <2>2, <2>3 DEF TypeOK
<1>4. ASSUME NEW m \in Modes, NEW label \in {"left", "stuck"}, DetachIface(m, label),
             Loops, at' = at + 1,
             UNCHANGED <<dae, clsact, up, gen, job, caller, point, ifindex, hook, ok,
                         attempted, policy, exit, rate, overflow>>
      PROVE  TypeOK'
  <2>0. /\ slot' \in [Hooks -> Owners] /\ events' \in 0..MaxEvents
        /\ attached' \subseteq attached
    BY <1>4, DetachIfaceEffect
  <2>1. KernelType'
    BY <1>4, <2>0 DEF TypeOK, KernelType
  <2>2. CursorType'
    BY <1>4, Position DEF TypeOK, CursorType
  <2>3. StateType'
    BY <1>4, <2>0 DEF TypeOK, StateType, policy, rate
  <2> QED BY <2>1, <2>2, <2>3 DEF TypeOK
<1>5. CASE Retire
  BY <1>4, <1>5 DEF Retire, TypeOK, StateType
<1>6. CASE Rollback
  BY <1>4, <1>6 DEF Rollback, TypeOK, StateType
<1> QED BY <1>1, <1>2, <1>3, <1>5, <1>6 DEF LoaderStep

\* A handler leaves one of these in the cursor.
LEMMA LoopType ==
  ASSUME TypeOK, NEW j \in Jobs, NEW c \in Callers, StartLoop(j, c) \/ StartHeal(c)
  PROVE  CursorType'
BY FirstPosition DEF StartLoop, StartHeal, TypeOK, CursorType

LEMMA DetachAllType ==
  ASSUME TypeOK, NEW spent \in Nat, DetachAll(spent), UNCHANGED <<dae, clsact, up, gen>>
  PROVE  /\ KernelType' /\ events' \in 0..MaxEvents
         /\ attached' \subseteq (Ifaces \X Nat \X Dirs \X Modes)
BY DetachAllEffect DEF TypeOK, KernelType

LEMMA TypeHandler ==
  ASSUME TypeOK, HandlerStep \/ Tick \/ Request \/ Terminate
  PROVE  TypeOK'
<1> USE DEF TypeOK, policy, rate, kernel
<1>1. CASE BootFails
  BY <1>1, LoopType, DetachAllType DEF BootFails, StateType
<1>2. CASE BootSucceeds
  BY <1>2, LoopType DEF BootSucceeds, KernelType, StateType
<1>3. CASE SwitchAttached
  BY <1>3, LoopType DEF SwitchAttached, KernelType, CursorType, StateType
<1>4. CASE SwitchDone
  BY <1>4, LoopType DEF SwitchDone, ResetRates, KernelType, CursorType, StateType
<1>5. CASE RollbackDone
  <2>1. CursorType'
    BY <1>5, LoopType DEF RollbackDone, CursorType
  <2> QED BY <1>5, <2>1 DEF RollbackDone, KernelType, StateType
<1>6. CASE HealDone
  <2>1. CursorType'
    BY <1>6, LoopType DEF HealDone, CursorType
  <2>2. cur' \in BOOLEAN /\ prev' \in BOOLEAN /\ taint' \subseteq Taints
    BY <1>6 DEF HealDone, ResetRates, StateType
  <2> QED BY <1>6, <2>1, <2>2 DEF HealDone, KernelType, StateType
<1>7. CASE Sample
  <2>1. CursorType'
    BY <1>7, LoopType DEF Sample, CursorType
  <2> QED BY <1>7, <2>1 DEF Sample, KernelType, StateType
<1>8. CASE Tick
  <2>1. CursorType'
    BY <1>8, LoopType DEF Tick
  <2> QED BY <1>8, <2>1 DEF Tick, Policy, KernelType, StateType
<1>9. CASE Request
  <2>1. CursorType'
    BY <1>9, LoopType DEF Request
  <2> QED BY <1>9, <2>1 DEF Request, Policy, KernelType, StateType
<1>10. CASE Terminate
  <2>1. CursorType'
    BY <1>10, LoopType DEF Terminate
  <2> QED BY <1>10, <2>1, DetachAllType DEF Terminate, StateType
<1> QED
  BY <1>1, <1>2, <1>3, <1>4, <1>5, <1>6, <1>7, <1>8, <1>9, <1>10 DEF HandlerStep

LEMMA TypeProcess ==
  ASSUME TypeOK, Boot \/ BootWithoutObject \/ Crash
  PROVE  TypeOK'
<1> USE DEF TypeOK, policy, rate, kernel
<1>1. ASSUME NewProcess, job' \in Jobs, early' \in Modes, events' \in 0..MaxEvents
      PROVE  TypeOK'
  <2>1. KernelType'
    BY <1>1 DEF NewProcess, KernelType
  <2>2. CursorType'
    BY <1>1, FirstPosition DEF NewProcess, CursorType
  <2> QED BY <1>1, <2>1, <2>2 DEF NewProcess, StateType
<1>2. CASE Boot
  BY <1>1, <1>2 DEF Boot, Policy, StateType
<1>3. CASE BootWithoutObject
  BY <1>1, <1>3, EventSpent DEF BootWithoutObject, StateType
<1>4. CASE Crash
  <2>1. events' \in 0..MaxEvents
    BY <1>4, EventSpent DEF Crash
  <2>2. KernelType'
    BY <1>4 DEF Crash, KernelType
  <2>3. CursorType'
    BY <1>4 DEF Crash, CursorType
  <2> QED BY <1>4, <2>1, <2>2, <2>3 DEF Crash, StateType
<1> QED BY <1>2, <1>3, <1>4

LEMMA TypeOthers ==
  ASSUME TypeOK, Others
  PROVE  TypeOK'
<1> USE DEF TypeOK, cursor, policy, rate, kernel
<1>1. ASSUME Event, KernelType'
      PROVE  TypeOK'
  BY <1>1, EventSpent DEF Event, CursorType, StateType
<1>2. ASSUME NEW i \in Ifaces, DaeStarts(i) \/ DaeStops(i) \/ QdiscReset(i)
      PROVE  TypeOK'
  BY <1>1, <1>2 DEF DaeStarts, DaeStops, QdiscReset, KernelType
<1>3. ASSUME NEW i \in Ifaces, IfaceGone(i) \/ IfaceBack(i)
      PROVE  TypeOK'
  BY <1>1, <1>3 DEF IfaceGone, IfaceBack, KernelType
<1>4. ASSUME NEW i \in Ifaces, NEW d \in Dirs, DirectionFlush(i, d) \/ InitCleanup(i, d)
      PROVE  TypeOK'
  BY <1>1, <1>4 DEF DirectionFlush, InitCleanup, KernelType
<1>5. ASSUME NEW i \in Ifaces, NEW d \in Dirs, Frame(i, d)
      PROVE  TypeOK'
  BY <1>5 DEF Frame, KernelType, CursorType, StateType
<1>6. ASSUME NEW h \in Hooks, ForeignFilter(h)
      PROVE  TypeOK'
  BY <1>1, <1>6 DEF ForeignFilter, KernelType, Hooks
<1> QED BY <1>2, <1>3, <1>4, <1>5, <1>6 DEF Others

LEMMA TypeStep == TypeOK /\ [Next]_vars => TypeOK'
<1> SUFFICES ASSUME TypeOK, [Next]_vars PROVE TypeOK'
  OBVIOUS
<1>1. CASE Next
  BY <1>1, TypeLoader, TypeHandler, TypeProcess, TypeOthers DEF Next, Daemon
<1>2. CASE UNCHANGED vars
  BY <1>2 DEF vars, kernel, cursor, policy, rate, TypeOK, KernelType, CursorType,
     StateType
<1> QED BY <1>1, <1>2

\* Every state of every behaviour is typed, the loop index included.
THEOREM TypeCorrect == Spec => []TypeOK
BY TypeInit, TypeStep, PTL DEF Spec

----------------------------------------------------------------------------
(* Safety *)

\* The steps that neither install, take over nor retire a filter.
QuietStep ==
  \/ AttachFails \/ HandlerStep
  \/ Boot \/ BootWithoutObject \/ Tick \/ Request \/ Terminate \/ Crash \/ Others

\* A filter comes into use, if at all, at the point the loader is working on,
\* and is tracked there.
LEMMA InstallEffect ==
  ASSUME TypeOK, EnterPoint \/ AttachFilter
  PROVE  /\ job \in {"boot", "switch", "heal"} /\ Loops
         /\ UNCHANGED <<up, gen, want, early, exit>>
         /\ \/ /\ UNCHANGED <<slot, attached, overflow>>
               /\ Return(FALSE) \/ UNCHANGED <<job, at, point>>
            \/ /\ Track(Tracked(I, point, Target))
               /\ \E b \in BOOLEAN : PointDone(b)
               /\ slot'[<<I, point, Target>>] \notin {"left", "stuck"}
               /\ \A h \in Hooks : h # <<I, point, Target>> => slot'[h] = slot[h]
               /\ \A h \in Hooks : slot'[h] = "own" \/ slot'[h] = slot[h]
<1>1. I \in Ifaces /\ point \in Dirs /\ Target \in Modes
  BY Position, TargetMode DEF EnterPoint, AttachFilter, TypeOK, CursorType
<1>2. <<I, point, Target>> \in Hooks
  BY <1>1 DEF Hooks
<1>3. CASE AttachFilter
  BY <1>2, <1>3 DEF AttachFilter, TypeOK, KernelType, policy
<1>4. CASE EnterPoint
  <2>1. /\ job \in {"boot", "switch", "heal"} /\ Loops
        /\ UNCHANGED <<up, gen, want, early, exit>>
    BY <1>4 DEF EnterPoint, policy
  <2>2. CASE Return(FALSE) /\ UNCHANGED <<slot, clsact, attached, overflow>>
    BY <2>1, <2>2
  <2>3. CASE /\ Track(Tracked(I, point, Target)) /\ slot' = Adopted(<<I, point, Target>>)
             /\ PointDone(FALSE)
    <3>1. /\ slot'[<<I, point, Target>>] \notin {"left", "stuck"}
          /\ \A h \in Hooks : h # <<I, point, Target>> => slot'[h] = slot[h]
          /\ \A h \in Hooks : slot'[h] = "own" \/ slot'[h] = slot[h]
      BY <1>2, <2>3 DEF Adopted, TypeOK, KernelType
    <3> QED BY <2>1, <2>3, <3>1
  <2>4. CASE UNCHANGED <<slot, job, at, point, ok, attempted, attached, overflow>>
    BY <2>1, <2>4
  <2> QED BY <1>4, <2>2, <2>3, <2>4, Zenon DEF EnterPoint
<1> QED BY <1>3, <1>4

\* Where nothing becomes ours and no switch ends, the modes stay exclusive.
LEMMA NoneOwnedAnew ==
  ASSUME ModesExclusive, job \in {"boot", "switch", "heal", "sample"}, early' = early,
         job' = job \/ job' \in {"switch", "rollback"} \/ job # "switch",
         \A i \in Ifaces, d \in Dirs, m \in Modes :
           slot'[<<i, d, m>>] = "own" => slot[<<i, d, m>>] = "own"
  PROVE  ModesExclusive'
<1> SUFFICES ASSUME job' \notin {"down", "switch", "retire", "rollback"},
                    NEW i \in Ifaces, NEW d \in Dirs, NEW m \in Modes \ {early}
             PROVE  slot'[<<i, d, m>>] # "own"
  BY DEF ModesExclusive
<1>1. job \notin {"down", "switch", "retire", "rollback"}
  OBVIOUS
<1>2. slot[<<i, d, m>>] # "own"
  BY <1>1 DEF ModesExclusive
<1> QED BY <1>2

\* A quiet step only takes filters of ours away, or leaves one it could not.
LEMMA OursKept ==
  ASSUME TypeOK, GoneHooksEmpty, QuietStep, NEW h \in Hooks, slot'[h] \in Ours
  PROVE  /\ slot[h] \in Ours /\ gen'[h[1]] = gen[h[1]]
         /\ slot'[h] \in {"own", "left"} => slot'[h] = slot[h]
<1> USE DEF TypeOK, KernelType
<1>1. ASSUME NEW spent \in Nat, DetachAll(spent), gen' = gen
      PROVE  /\ slot[h] \in Ours /\ gen'[h[1]] = gen[h[1]]
             /\ slot'[h] \in {"own", "left"} => slot'[h] = slot[h]
  <2>1. \/ slot'[h] = slot[h]
        \/ slot'[h] = "stuck" /\ h \in TrackedHooks /\ slot[h] \in Ours
    <3>1. CASE h \in TrackedHooks
      <4>1. Remove(TrackedHooks, "stuck", spent) /\ TrackedHooks \subseteq Hooks
        BY <1>1 DEF DetachAll, TrackedHooks
      <4> QED BY <3>1, <4>1, RemoveEffect
    <3>2. CASE h \notin TrackedHooks
      BY <1>1, <3>2, DetachAllEffect
    <3> QED BY <3>1, <3>2
  <2> QED BY <1>1, <2>1
<1>2. CASE BootFails \/ Terminate
  BY <1>1, <1>2 DEF BootFails, Terminate
<1>3. CASE \/ BootSucceeds \/ SwitchAttached \/ SwitchDone \/ RollbackDone \/ HealDone
           \/ Sample \/ Tick \/ Request \/ Crash
  <2>1. slot' = slot /\ gen' = gen
    BY <1>3 DEF BootSucceeds, SwitchAttached, SwitchDone, RollbackDone, HealDone, Sample,
       Tick, Request, Crash, kernel
  <2> QED BY <2>1
<1>4. CASE AttachFails
  BY <1>4 DEF AttachFails, Flush
<1>5. CASE Boot \/ BootWithoutObject
  BY <1>5 DEF Boot, BootWithoutObject, NewProcess
<1>6. CASE Others
  <2>1. ASSUME NEW i \in Ifaces, DaeStarts(i) \/ DaeStops(i) \/ QdiscReset(i) \/ IfaceGone(i)
        PROVE  slot'[h] = slot[h] /\ gen' = gen
    BY <2>1 DEF DaeStarts, DaeStops, QdiscReset, IfaceGone
  <2>2. ASSUME NEW i \in Ifaces, NEW d \in Dirs,
               DirectionFlush(i, d) \/ InitCleanup(i, d) \/ Frame(i, d)
        PROVE  slot'[h] = slot[h] /\ gen' = gen
    BY <2>2 DEF DirectionFlush, InitCleanup, Frame, kernel
  <2>3. ASSUME NEW g \in Hooks, ForeignFilter(g)
        PROVE  slot'[h] = slot[h] /\ gen' = gen
    BY <2>3 DEF ForeignFilter
  <2>4. ASSUME NEW i \in Ifaces, IfaceBack(i)
        PROVE  slot'[h] = slot[h] /\ gen'[h[1]] = gen[h[1]]
    <3>1. slot'[h] = slot[h] /\ h[1] \in up /\ h[1] # i
      BY <2>4 DEF IfaceBack, GoneHooksEmpty
    <3> QED BY <2>4, <3>1 DEF IfaceBack, Hooks
  <2> QED BY <1>6, <2>1, <2>2, <2>3, <2>4 DEF Others
<1> QED BY <1>2, <1>3, <1>4, <1>5, <1>6 DEF QuietStep, HandlerStep

\* The other users leave the daemon's own variables alone; a frame is seen
\* by both modes only while both are installed.
LEMMA OthersLeaveDaemon ==
  ASSUME Others
  PROVE  /\ UNCHANGED <<cursor, policy, attached, exit, cur, prev, pairTaint, overflow>>
         /\ \/ taint' = taint
            \/ /\ job # "down" /\ taint' = taint \union {"twice"}
               /\ \E i \in Ifaces, d \in Dirs : \A m \in Modes : slot[<<i, d, m>>] = "own"
            \/ job # "down" /\ taint' = taint \union {"leftover"}
<1>1. CASE Event
  BY <1>1 DEF Event, rate
<1>2. ASSUME NEW i \in Ifaces, NEW d \in Dirs, Frame(i, d)
      PROVE  /\ UNCHANGED <<cursor, policy, attached, exit, cur, prev, pairTaint, overflow>>
             /\ job # "down"
             /\ \/ /\ taint' = taint \union {"twice"}
                   /\ \A m \in Modes : slot[<<i, d, m>>] = "own"
                \/ taint' = taint \union {"leftover"}
  BY <1>2, Zenon DEF Frame
<1> QED
  BY <1>1, <1>2 DEF Others, DaeStarts, DaeStops, QdiscReset, IfaceGone, IfaceBack,
     DirectionFlush, InitCleanup, ForeignFilter

LEMMA GoneStep ==
  ASSUME TypeOK, GoneHooksEmpty, Next
  PROVE  GoneHooksEmpty'
<1> SUFFICES ASSUME NEW h \in Hooks, h[1] \notin up' PROVE slot'[h] = "none"
  BY DEF GoneHooksEmpty
<1> USE DEF TypeOK, KernelType, GoneHooksEmpty, Hooks
<1>1. CASE EnterPoint
  <2>1. up' = up /\ (slot' = slot \/ slot' = Adopted(<<I, point, Target>>))
    BY <1>1 DEF EnterPoint
  <2> QED BY <2>1 DEF Adopted
<1>2. CASE AttachFilter
  BY <1>2 DEF AttachFilter, AttachFits
<1>3. CASE AttachFails
  BY <1>3 DEF AttachFails, Flush
<1>4. CASE Retire \/ Rollback
  <2>1. PICK m \in Modes, label \in {"left", "stuck"} : DetachIface(m, label)
    BY <1>4 DEF Retire, Rollback, StateType
  <2>2. slot[h] = "none" /\ h = <<h[1], h[2], h[3]>> /\ h[1] \notin up
    BY <1>4 DEF Retire, Rollback
  <2>3. Loops
    BY <1>4 DEF Retire, Rollback
  <2>4. h[1] \in Ifaces /\ h[2] \in Dirs /\ h[3] \in Modes
    BY DEF Hooks
  <2>5. slot'[<<h[1], h[2], h[3]>>] = slot[<<h[1], h[2], h[3]>>]
    <3> HIDE DEF TypeOK, KernelType, Hooks, Dirs, Modes, Owners, Ours
    <3> QED BY <2>1, <2>2, <2>3, <2>4, DetachIfaceAt
  <2> QED BY <2>2, <2>5
<1>5. CASE HandlerStep \/ Tick \/ Request \/ Terminate \/ Crash
  <2>1. up' = up /\ (slot' = slot \/ DetachAll(0) \/ DetachAll(1))
    BY <1>5 DEF HandlerStep, Tick, Request, Terminate, Crash, BootFails, BootSucceeds,
       SwitchAttached, SwitchDone, RollbackDone, HealDone, Sample, kernel
  <2>2. h \notin TrackedHooks
    BY <2>1 DEF TrackedHooks
  <2> QED BY <2>1, <2>2, DetachAllEffect
<1>6. CASE Boot \/ BootWithoutObject
  BY <1>6 DEF Boot, BootWithoutObject, NewProcess
<1>7. CASE Others
  <2>1. ASSUME NEW i \in Ifaces, \/ DaeStarts(i) \/ DaeStops(i) \/ QdiscReset(i)
                                 \/ IfaceGone(i) \/ IfaceBack(i)
        PROVE  slot'[h] = "none"
    BY <2>1 DEF DaeStarts, DaeStops, QdiscReset, IfaceGone, IfaceBack
  <2>2. ASSUME NEW i \in Ifaces, NEW d \in Dirs,
               DirectionFlush(i, d) \/ InitCleanup(i, d) \/ Frame(i, d)
        PROVE  slot'[h] = "none"
    BY <2>2 DEF DirectionFlush, InitCleanup, Frame, kernel
  <2>3. ASSUME NEW g \in Hooks, ForeignFilter(g)
        PROVE  slot'[h] = "none"
    BY <2>3 DEF ForeignFilter
  <2> QED BY <1>7, <2>1, <2>2, <2>3 DEF Others
<1> QED BY <1>1, <1>2, <1>3, <1>4, <1>5, <1>6, <1>7 DEF Next, Daemon, LoaderStep

\* Outside the loops of a switch the other mode's slots stay free of ours, and
\* each loop that detaches leaves nothing in use behind its index.
LEMMA SwitchStep ==
  ASSUME TypeOK, GoneHooksEmpty, SwitchProgress, ModesExclusive, Next
  PROVE  SwitchProgress' /\ ModesExclusive'
<1> USE DEF TypeOK, CursorType, StateType, Hooks
<1>0. \A i \in Ifaces, d \in Dirs, m \in Modes :
        QuietStep /\ slot'[<<i, d, m>>] = "own" => slot[<<i, d, m>>] = "own"
  <2> SUFFICES ASSUME NEW i \in Ifaces, NEW d \in Dirs, NEW m \in Modes, QuietStep,
                      slot'[<<i, d, m>>] = "own"
               PROVE  slot[<<i, d, m>>] = "own"
    OBVIOUS
  <2>1. <<i, d, m>> \in Hooks
    OBVIOUS
  <2> QED BY <2>1, OursKept
<1>1. \A k \in 1..Len(IfaceSeq) : IfaceSeq[k] \in Ifaces
  BY DEF Ifaces
<1>2. CASE EnterPoint \/ AttachFilter
  <2>1. CASE /\ UNCHANGED <<slot, attached, overflow>>
             /\ Return(FALSE) \/ UNCHANGED <<job, at, point>>
    <3>1. /\ want' = want /\ early' = early /\ slot' = slot
          /\ job \in {"boot", "switch", "heal"}
          /\ job' = job \/ (job = "switch" /\ job' = "rollback" /\ at' = 1)
      BY <1>2, <2>1, InstallEffect DEF Return
    <3>2. SwitchProgress'
      BY <3>1 DEF SwitchProgress
    <3>3. ModesExclusive'
      BY <3>1, NoneOwnedAnew
    <3> QED BY <3>2, <3>3
  <2>2. CASE /\ \E b \in BOOLEAN : PointDone(b)
             /\ \A h \in Hooks : h # <<I, point, Target>> => slot'[h] = slot[h]
    <3>1. I \in Ifaces /\ point \in Dirs /\ job \in {"boot", "switch", "heal"}
      BY <1>2, Position, InstallEffect
    <3>2. job' = job /\ early' = early /\ want' = want
      BY <1>2, <2>2, InstallEffect DEF PointDone
    <3>3. SwitchProgress'
      BY <3>1, <3>2 DEF SwitchProgress
    <3>4. ModesExclusive'
      <4>1. CASE job = "switch"
        BY <3>2, <4>1 DEF ModesExclusive
      <4>2. CASE job # "switch"
        <5>1. Target = early
          BY <4>2 DEF Target
        <5>2. ASSUME NEW i \in Ifaces, NEW d \in Dirs, NEW m \in Modes \ {early}
              PROVE  slot'[<<i, d, m>>] = slot[<<i, d, m>>]
          <6>1. <<i, d, m>> \in Hooks /\ <<i, d, m>> # <<I, point, Target>>
            BY <5>1
          <6> QED BY <2>2, <6>1
        <5> QED BY <3>1, <3>2, <4>2, <5>2 DEF ModesExclusive
      <4> QED BY <4>1, <4>2
    <3> QED BY <3>3, <3>4
  <2> QED BY <1>2, <2>1, <2>2, InstallEffect
<1>3. CASE AttachFails
  <2>1. /\ want' = want /\ early' = early
        /\ job' = job \/ (job = "switch" /\ job' = "rollback" /\ at' = 1)
        /\ job \in {"boot", "switch", "heal"}
    BY <1>3 DEF AttachFails, Return, policy
  <2>2. SwitchProgress'
    BY <2>1 DEF SwitchProgress
  <2>3. \A i \in Ifaces, d \in Dirs, m \in Modes :
          slot'[<<i, d, m>>] = "own" => slot[<<i, d, m>>] = "own"
    BY <1>0, <1>3 DEF QuietStep
  <2>4. ModesExclusive'
    BY <2>1, <2>3, NoneOwnedAnew
  <2> QED BY <2>2, <2>4
<1>4. CASE Retire \/ Rollback
  <2> DEFINE m == IF job = "retire" THEN early ELSE want
  <2>1. /\ Loops /\ (DetachIface(m, "left") \/ DetachIface(m, "stuck")) /\ at' = at + 1
        /\ UNCHANGED <<job, want, early>> /\ job \in {"retire", "rollback"}
    BY <1>4 DEF Retire, Rollback, policy
  <2>2. ASSUME NEW i \in Ifaces, NEW d \in Dirs, NEW x \in Modes, slot'[<<i, d, x>>] = "own"
        PROVE  slot[<<i, d, x>>] = "own" /\ ~(i = I /\ x = m)
    <3>1. PICK label \in {"left", "stuck"} : DetachIface(m, label)
      BY <2>1
    <3>2. I \in up \/ ~(i = I /\ slot[<<i, d, x>>] = "own")
      BY DEF GoneHooksEmpty
    <3>3. m \in Modes
      OBVIOUS
    <3> HIDE DEF TypeOK, CursorType, StateType, Hooks, Dirs, Modes, Owners, Jobs, Callers, Taints, m
    <3> QED BY <2>1, <2>2, <3>1, <3>2, <3>3, DetachIfaceAt
  <2>4. \A k \in 1..Len(IfaceSeq) : k < at + 1 => k < at \/ IfaceSeq[k] = I
    BY DEF I
  <2>5. \A k \in 1..Len(IfaceSeq), d \in Dirs :
          k < at' => slot'[<<IfaceSeq[k], d, m>>] # "own"
    <3> SUFFICES ASSUME NEW k \in 1..Len(IfaceSeq), NEW d \in Dirs, k < at + 1,
                        slot'[<<IfaceSeq[k], d, m>>] = "own"
                 PROVE  FALSE
      BY <2>1
    <3>1. m \in Modes
      OBVIOUS
    <3>2. slot[<<IfaceSeq[k], d, m>>] = "own" /\ IfaceSeq[k] # I
      BY <1>1, <2>2, <3>1
    <3> QED BY <2>1, <2>4, <3>2 DEF SwitchProgress
  <2> QED BY <2>1, <2>5 DEF SwitchProgress, ModesExclusive
<1>5. CASE SwitchDone
  <2>1. \A i \in Ifaces, d \in Dirs : slot[<<i, d, early>>] # "own"
    <3>1. \A k \in 1..Len(IfaceSeq) : k < at
      BY <1>5, IfaceSeqAssumption DEF SwitchDone, Loops
    <3> QED BY <1>5, <3>1 DEF SwitchDone, SwitchProgress, Ifaces
  <2>2. want # early
    BY <1>5 DEF SwitchDone, SwitchProgress
  <2> QED BY <1>5, <2>1, <2>2 DEF SwitchDone, StartHeal, SwitchProgress, ModesExclusive, kernel
<1>6. CASE RollbackDone
  <2>1. \A i \in Ifaces, d \in Dirs : slot[<<i, d, want>>] # "own"
    <3>1. \A k \in 1..Len(IfaceSeq) : k < at
      BY <1>6, IfaceSeqAssumption DEF RollbackDone, Loops
    <3> QED BY <1>6, <3>1 DEF RollbackDone, SwitchProgress, Ifaces
  <2>2. want # early
    BY <1>6 DEF RollbackDone, SwitchProgress
  <2> QED BY <1>6, <2>1, <2>2 DEF RollbackDone, StartHeal, StartLoop, SwitchProgress,
             ModesExclusive, kernel, policy
<1>7. CASE Tick \/ Request
  BY <1>7, FirstPosition DEF Tick, Request, StartHeal, StartLoop, Policy, SwitchProgress,
     ModesExclusive, kernel
<1>8. CASE SwitchAttached
  BY <1>8, FirstPosition DEF SwitchAttached, StartLoop, SwitchProgress, ModesExclusive,
     kernel, policy
<1>9. CASE BootFails \/ BootSucceeds \/ HealDone \/ Sample
  <2>1. /\ job \in {"boot", "heal", "sample"} /\ job' \in {"idle", "heal", "sample"}
        /\ early' = early
    BY <1>9 DEF BootFails, BootSucceeds, HealDone, Sample, StartHeal, StartLoop, policy
  <2>2. \A i \in Ifaces, d \in Dirs, m \in Modes :
          slot'[<<i, d, m>>] = "own" => slot[<<i, d, m>>] = "own"
    <3>1. QuietStep
      BY <1>9 DEF QuietStep, HandlerStep
    <3> QED BY <1>0, <3>1
  <2>3. ModesExclusive'
    BY <2>1, <2>2, NoneOwnedAnew
  <2> QED BY <2>1, <2>3 DEF SwitchProgress
<1>10. CASE Terminate \/ Crash
  BY <1>10 DEF Terminate, Crash, StartLoop, SwitchProgress, ModesExclusive
<1>11. CASE Boot \/ BootWithoutObject
  <2>1. job' \in {"boot", "idle"} /\ \A h \in Hooks : slot'[h] # "own"
    BY <1>11 DEF Boot, BootWithoutObject, NewProcess
  <2> QED BY <2>1 DEF SwitchProgress, ModesExclusive
<1>12. CASE Others
  <2>1. UNCHANGED <<job, at, want, early>>
    BY <1>12, OthersLeaveDaemon DEF cursor, policy
  <2>2. \A i \in Ifaces, d \in Dirs, m \in Modes :
          slot'[<<i, d, m>>] = "own" => slot[<<i, d, m>>] = "own"
    BY <1>0, <1>12 DEF QuietStep
  <2>3. SwitchProgress'
    BY <1>1, <2>1, <2>2 DEF SwitchProgress
  <2> QED BY <2>1, <2>2, <2>3 DEF ModesExclusive
<1> QED
  BY <1>2, <1>3, <1>4, <1>5, <1>6, <1>7, <1>8, <1>9, <1>10, <1>11, <1>12
     DEF Next, Daemon, LoaderStep, HandlerStep

\* A switch has tracked whatever of ours sits where it has been: it put it there,
\* or adopted it.
LEMMA SwitchTrackedStep ==
  ASSUME TypeOK, GoneHooksEmpty, SwitchProgress, SwitchTracked, Next
  PROVE  SwitchTracked'
<1> SUFFICES ASSUME ~overflow', NEW k \in 1..Len(IfaceSeq), NEW d \in Dirs, NEW m \in Modes,
                    Entered(k, d)', slot'[<<IfaceSeq[k], d, m>>] \in Ours
             PROVE  Tracked(IfaceSeq[k], d, want)' \in attached'
  BY DEF SwitchTracked
<1> USE DEF TypeOK, CursorType, StateType
<1>1. IfaceSeq[k] \in Ifaces
  BY DEF Ifaces
<1>2. <<IfaceSeq[k], d, m>> \in Hooks
  BY <1>1 DEF Hooks
<1>3. CASE EnterPoint \/ AttachFilter
  <2>1. job \in {"boot", "switch", "heal"} /\ UNCHANGED <<gen, want>>
    BY <1>3, InstallEffect
  <2>2. CASE /\ UNCHANGED <<slot, attached, overflow>>
             /\ Return(FALSE) \/ UNCHANGED <<job, at, point>>
    BY <2>1, <2>2 DEF Entered, Return, SwitchTracked, Tracked
  <2>3. CASE /\ Track(Tracked(I, point, Target)) /\ \E b \in BOOLEAN : PointDone(b)
             /\ \A h \in Hooks : h # <<I, point, Target>> => slot'[h] = slot[h]
    <3>1. job' = "switch" /\ job = "switch" /\ Target = want
      BY <2>1, <2>3 DEF PointDone, Entered, Target
    <3>2. Entered(k, d) \/ (k = at /\ d = point)
      <4>1. \/ at' = at /\ point = "ingress" /\ point' = "egress"
            \/ at' = at + 1 /\ point = "egress" /\ point' = "ingress"
        BY <2>3 DEF PointDone
      <4> QED BY <3>1, <4>1 DEF Entered
    <3>3. ~overflow /\ attached' = attached \union {Tracked(I, point, want)}
      BY <2>3, <3>1 DEF Track
    <3>4. CASE IfaceSeq[k] = I /\ d = point
      BY <2>1, <3>3, <3>4 DEF Tracked
    <3>5. CASE Entered(k, d) /\ ~(IfaceSeq[k] = I /\ d = point)
      <4>1. slot[<<IfaceSeq[k], d, m>>] \in Ours
        BY <1>2, <2>3, <3>5
      <4>2. Tracked(IfaceSeq[k], d, want) \in attached
        BY <3>3, <3>5, <4>1 DEF SwitchTracked
      <4> QED BY <2>1, <3>3, <4>2 DEF Tracked
    <3> QED BY <3>2, <3>4, <3>5 DEF I
  <2> QED BY <1>3, <2>2, <2>3, InstallEffect
<1>4. CASE Retire
  <2>1. /\ DetachIface(early, "left") /\ Loops /\ want # early /\ job = "retire"
        /\ UNCHANGED <<gen, want, overflow>>
    BY <1>4 DEF Retire, policy, SwitchProgress
  <2>2. slot[<<IfaceSeq[k], d, m>>] \in Ours
    <3>1. early \in Modes
      OBVIOUS
    <3> HIDE DEF TypeOK, CursorType, StateType, Dirs, Modes, Owners, Ours
    <3> QED BY <1>1, <2>1, <3>1, DetachIfaceAt
  <2>3. Tracked(IfaceSeq[k], d, want) \in attached
    BY <2>1, <2>2 DEF SwitchTracked, Entered
  <2>4. Tracked(IfaceSeq[k], d, want) \in attached'
    <3>1. early \in Modes /\ want \in Modes
      OBVIOUS
    <3> HIDE DEF TypeOK, CursorType, StateType, Dirs, Modes, Owners, Ours
    <3> QED BY <1>1, <2>1, <2>3, <3>1, DetachIfaceAt
  <2> QED BY <2>1, <2>4 DEF Tracked
<1>5. CASE Rollback
  BY <1>5 DEF Rollback, Entered
<1>6. CASE SwitchAttached
  <2>1. k < at /\ job = "switch" /\ UNCHANGED <<slot, gen, want, attached, overflow>>
    BY <1>6, IfaceSeqAssumption DEF SwitchAttached, Loops, kernel, policy
  <2> QED BY <2>1 DEF SwitchTracked, Entered, Tracked
<1>7. CASE Others
  <2>1. UNCHANGED <<job, at, point, want, attached, overflow>>
    BY <1>7, OthersLeaveDaemon DEF cursor, policy
  <2>2. /\ slot[<<IfaceSeq[k], d, m>>] \in Ours
        /\ gen'[<<IfaceSeq[k], d, m>>[1]] = gen[<<IfaceSeq[k], d, m>>[1]]
    BY <1>2, <1>7, OursKept DEF QuietStep
  <2> QED BY <2>1, <2>2 DEF SwitchTracked, Entered, Tracked
<1>8. CASE Tick \/ Request
  BY <1>8 DEF Tick, Request, StartHeal, StartLoop, Entered
<1>9. CASE AttachFails
  BY <1>9 DEF AttachFails, Return, Entered
<1>10. CASE \/ BootFails \/ BootSucceeds \/ SwitchDone \/ RollbackDone \/ HealDone \/ Sample
            \/ Terminate \/ Crash \/ Boot \/ BootWithoutObject
  <2>1. job' \notin {"switch", "retire"}
    BY <1>10 DEF BootFails, BootSucceeds, SwitchDone, RollbackDone, HealDone, Sample,
       Terminate, Crash, Boot, BootWithoutObject, StartHeal, StartLoop
  <2> QED BY <2>1 DEF Entered
<1> QED
  BY <1>3, <1>4, <1>5, <1>6, <1>7, <1>8, <1>9, <1>10
     DEF Next, Daemon, LoaderStep, HandlerStep

\* A filter that an earlier switch left at the mode wanted now is taken over or
\* in the way: no switch that completes leaves the mode in force with one.
LEMMA LeftStep ==
  ASSUME TypeOK, GoneHooksEmpty, SwitchProgress, LeftIsOld, Next
  PROVE  LeftIsOld'
<1> USE DEF TypeOK, CursorType, StateType
<1>1. \A k \in 1..Len(IfaceSeq) : IfaceSeq[k] \in Ifaces
  BY DEF Ifaces
<1>2. ASSUME QuietStep, NEW i \in Ifaces, NEW d \in Dirs, NEW m \in Modes,
             slot'[<<i, d, m>>] = "left"
      PROVE  slot[<<i, d, m>>] = "left"
  <2>1. <<i, d, m>> \in Hooks
    BY DEF Hooks
  <2> QED BY <1>2, <2>1, OursKept
<1>3. CASE EnterPoint \/ AttachFilter
  <2>1. job \in {"boot", "switch", "heal"} /\ UNCHANGED <<want, early>>
    BY <1>3, InstallEffect
  <2>2. CASE /\ UNCHANGED <<slot, attached, overflow>>
             /\ Return(FALSE) \/ UNCHANGED <<job, at, point>>
    BY <2>1, <2>2 DEF Entered, Return, LeftIsOld
  <2>3. CASE /\ \E b \in BOOLEAN : PointDone(b)
             /\ slot'[<<I, point, Target>>] \notin {"left", "stuck"}
             /\ \A h \in Hooks : slot'[h] = "own" \/ slot'[h] = slot[h]
    <3>1. ASSUME NEW i \in Ifaces, NEW d \in Dirs, slot'[<<i, d, early>>] = "left"
          PROVE  FALSE
      <4>1. <<i, d, early>> \in Hooks
        BY DEF Hooks
      <4> QED BY <2>1, <2>3, <3>1, <4>1 DEF LeftIsOld
    <3>2. ASSUME NEW k \in 1..Len(IfaceSeq), NEW d \in Dirs, Entered(k, d)',
                 slot'[<<IfaceSeq[k], d, want>>] = "left"
          PROVE  FALSE
      <4>1. job' = "switch" /\ job = "switch" /\ Target = want
        BY <2>1, <2>3, <3>2 DEF PointDone, Entered, Target
      <4>2. \/ at' = at /\ point = "ingress" /\ point' = "egress"
            \/ at' = at + 1 /\ point = "egress" /\ point' = "ingress"
        BY <2>3 DEF PointDone
      <4>3. Entered(k, d) \/ (k = at /\ d = point)
        BY <3>2, <4>1, <4>2 DEF Entered
      <4>4. <<IfaceSeq[k], d, want>> \in Hooks
        BY <1>1 DEF Hooks
      <4>5. slot[<<IfaceSeq[k], d, want>>] = "left"
        BY <2>3, <3>2, <4>4
      <4> QED BY <2>3, <3>2, <4>1, <4>3, <4>5 DEF LeftIsOld, I
    <3>3. job' = job
      BY <2>3 DEF PointDone
    <3> QED BY <2>1, <3>1, <3>2 DEF LeftIsOld
  <2> QED BY <1>3, <2>2, <2>3, InstallEffect
<1>4. CASE Retire \/ Rollback
  <2> DEFINE m == IF job = "retire" THEN early ELSE want
             x == IF job = "retire" THEN want ELSE early
  <2>1. /\ Loops /\ (DetachIface(m, "left") \/ DetachIface(m, "stuck"))
        /\ UNCHANGED <<job, want, early>> /\ job \in {"retire", "rollback"}
        /\ want # early
    BY <1>4 DEF Retire, Rollback, policy, SwitchProgress
  <2>2. ASSUME NEW i \in Ifaces, NEW d \in Dirs
        PROVE  slot'[<<i, d, x>>] = slot[<<i, d, x>>]
    <3>1. PICK label \in {"left", "stuck"} : DetachIface(m, label)
      BY <2>1
    <3>2. x # m /\ x \in Modes /\ m \in Modes
      BY <2>1
    <3> HIDE DEF m, x, TypeOK, CursorType, StateType, Dirs, Modes, Owners, Ours
    <3> QED BY <2>1, <3>1, <3>2, DetachIfaceAt
  <2>3. CASE job = "retire"
    BY <1>1, <2>1, <2>2, <2>3 DEF LeftIsOld, Entered
  <2>4. CASE job = "rollback"
    BY <2>1, <2>2, <2>4 DEF LeftIsOld, Entered
  <2> QED BY <2>1, <2>3, <2>4
<1>5. CASE SwitchAttached
  <2>1. /\ \A k \in 1..Len(IfaceSeq) : k < at
        /\ job = "switch" /\ job' = "retire" /\ UNCHANGED <<slot, want>>
    BY <1>5, IfaceSeqAssumption DEF SwitchAttached, StartLoop, Loops, kernel, policy
  <2> QED BY <2>1 DEF LeftIsOld, Entered
<1>6. CASE SwitchDone
  <2>1. job = "retire" /\ job' = "heal" /\ early' = want /\ slot' = slot
    BY <1>6 DEF SwitchDone, StartHeal, kernel
  <2> QED BY <2>1 DEF LeftIsOld, Entered, Ifaces
<1>7. CASE Others
  <2>1. UNCHANGED <<job, at, point, want, early>>
    BY <1>7, OthersLeaveDaemon DEF cursor, policy
  <2> QED BY <1>1, <1>2, <1>7, <2>1 DEF QuietStep, LeftIsOld, Entered
<1>8. CASE AttachFails \/ BootFails \/ BootSucceeds \/ RollbackDone \/ HealDone \/ Sample
           \/ Tick \/ Request
  <2>1. /\ job \notin {"down", "retire"} /\ job' # "retire" /\ early' = early
        /\ job' = "switch" => at' = 1 /\ point' = "ingress"
    BY <1>8 DEF AttachFails, BootFails, BootSucceeds, RollbackDone, HealDone, Sample, Tick,
       Request, Return, StartHeal, StartLoop, policy
  <2>2. \A k \in 1..Len(IfaceSeq), d \in Dirs : ~Entered(k, d)'
    BY <2>1 DEF Entered
  <2> QED BY <1>2, <1>8, <2>1, <2>2 DEF QuietStep, HandlerStep, LeftIsOld
<1>9. CASE Terminate \/ Crash
  BY <1>9 DEF Terminate, Crash, StartLoop, LeftIsOld, Entered
<1>10. CASE Boot \/ BootWithoutObject
  <2>1. job' \in {"boot", "idle"} /\ \A h \in Hooks : slot'[h] # "left"
    BY <1>10 DEF Boot, BootWithoutObject, NewProcess
  <2>2. early' \in Modes
    BY <1>10, TypeProcess
  <2> QED BY <2>1, <2>2 DEF LeftIsOld, Entered, Hooks
<1> QED
  BY <1>3, <1>4, <1>5, <1>6, <1>7, <1>8, <1>9, <1>10
     DEF Next, Daemon, LoaderStep, HandlerStep

\* The tracking table knows every filter in use, and a point beside every one
\* that a switch left, so detach_all reaches them all: a filter's interface
\* exists, or the filter would be gone.
LEMMA DetachAllClears ==
  ASSUME TypeOK, GoneHooksEmpty, OwnTracked, LeftCovered, job # "down", ~overflow,
         NEW spent \in Nat, DetachAll(spent)
  PROVE  \A h \in Hooks : slot'[h] \notin {"own", "left"}
<1> SUFFICES ASSUME NEW h \in Hooks, slot'[h] \in {"own", "left"} PROVE FALSE
  OBVIOUS
<1>1. h = <<h[1], h[2], h[3]>> /\ h[1] \in Ifaces /\ h[2] \in Dirs /\ h[3] \in Modes
  BY DEF Hooks
<1>2. slot[h] \in {"own", "left"} /\ h \notin TrackedHooks
  BY DetachAllEffect
<1>3. h[1] \in up
  BY <1>2 DEF GoneHooksEmpty
<1>4. slot[<<h[1], h[2], h[3]>>] \in {"own", "left"}
  BY <1>1, <1>2
<1>5. \E m \in Modes : Tracked(h[1], h[2], m) \in attached
  BY <1>1, <1>4 DEF OwnTracked, LeftCovered
<1> QED BY <1>2, <1>3, <1>5 DEF TrackedHooks

LEMMA OwnedStep ==
  ASSUME TypeOK, GoneHooksEmpty, SwitchProgress, OwnTracked, SwitchTracked, LeftIsOld,
         LeftCovered, CleanStop, Next
  PROVE  OwnTracked' /\ LeftCovered' /\ CleanStop'
<1> USE DEF TypeOK, StateType
<1>1. CASE EnterPoint \/ AttachFilter
  <2>1. job # "down" /\ job' # "down" /\ gen' = gen
    BY <1>1, InstallEffect DEF Return, PointDone
  <2>2. CASE UNCHANGED <<slot, attached, overflow>>
    BY <2>1, <2>2 DEF OwnTracked, LeftCovered, CleanStop, Tracked
  <2>3. CASE /\ Track(Tracked(I, point, Target))
             /\ slot'[<<I, point, Target>>] \notin {"left", "stuck"}
             /\ \A h \in Hooks : h # <<I, point, Target>> => slot'[h] = slot[h]
    <3>1. ~overflow' => ~overflow /\ attached' = attached \union {Tracked(I, point, Target)}
      BY <2>3 DEF Track
    <3>2. ASSUME ~overflow', NEW i \in Ifaces, NEW d \in Dirs, NEW m \in Modes,
                 slot'[<<i, d, m>>] = "own"
          PROVE  Tracked(i, d, m) \in attached'
      <4>1. CASE <<i, d, m>> = <<I, point, Target>>
        BY <3>1, <3>2, <4>1
      <4>2. CASE <<i, d, m>> # <<I, point, Target>>
        <5>1. slot[<<i, d, m>>] = "own"
          BY <2>3, <3>2, <4>2 DEF Hooks
        <5> QED BY <2>1, <3>1, <3>2, <5>1 DEF OwnTracked
      <4> QED BY <4>1, <4>2
    <3>3. ASSUME ~overflow', NEW i \in Ifaces, NEW d \in Dirs, NEW m \in Modes,
                 slot'[<<i, d, m>>] = "left"
          PROVE  \E x \in Modes : Tracked(i, d, x) \in attached'
      <4>1. slot[<<i, d, m>>] = "left"
        BY <2>3, <3>3 DEF Hooks
      <4> QED BY <2>1, <3>1, <3>3, <4>1 DEF LeftCovered
    <3> QED BY <2>1, <3>2, <3>3 DEF OwnTracked, LeftCovered, CleanStop, Tracked
  <2> QED BY <1>1, <2>2, <2>3, InstallEffect
<1>2. CASE Retire \/ Rollback
  <2> DEFINE m == IF job = "retire" THEN early ELSE want
  <2>1. /\ Loops /\ UNCHANGED <<gen, job, overflow>> /\ job \in {"retire", "rollback"}
        /\ \/ job = "retire" /\ DetachIface(m, "left")
           \/ job = "rollback" /\ DetachIface(m, "stuck")
        /\ m \in Modes /\ want # early
    BY <1>2 DEF Retire, Rollback, SwitchProgress
  <2>0. early \in Modes /\ want \in Modes
    OBVIOUS
  <2> HIDE DEF m
  <2>2. ASSUME ~overflow, NEW i \in Ifaces, NEW d \in Dirs, NEW x \in Modes,
               slot'[<<i, d, x>>] = "own"
        PROVE  Tracked(i, d, x) \in attached'
    <3>0. PICK label \in {"left", "stuck"} : DetachIface(m, label)
      BY <2>1
    <3>1. slot[<<i, d, x>>] = "own" /\ ~(i = I /\ x = m /\ I \in up)
      <4> HIDE DEF TypeOK, StateType, Dirs, Modes, Owners
      <4> QED BY <2>1, <2>2, <3>0, DetachIfaceAt
    <3>2. Tracked(i, d, x) \in attached
      BY <2>1, <2>2, <3>1 DEF OwnTracked
    <3> HIDE DEF TypeOK, StateType, Dirs, Modes, Owners
    <3> QED BY <2>1, <3>0, <3>1, <3>2, DetachIfaceAt
  <2>3. ASSUME ~overflow, NEW i \in Ifaces, NEW d \in Dirs, NEW x \in Modes,
               slot'[<<i, d, x>>] = "left"
        PROVE  \E y \in Modes : Tracked(i, d, y) \in attached'
    <3>1. CASE job = "retire"
      <4>1. DetachIface(early, "left")
        BY <2>1, <3>1 DEF m
      <4>2. slot[<<i, d, x>>] \in Ours
        <5> HIDE DEF TypeOK, StateType, Dirs, Modes, Owners
        <5> QED BY <2>1, <2>3, <2>0, <4>1, DetachIfaceAt
      <4>3. PICK k \in 1..Len(IfaceSeq) : IfaceSeq[k] = i
        BY DEF Ifaces
      <4>4. Tracked(i, d, want) \in attached
        BY <2>3, <3>1, <4>2, <4>3 DEF SwitchTracked, Entered
      <4>5. Tracked(i, d, want) \in attached'
        <5> HIDE DEF TypeOK, StateType, Dirs, Modes, Owners
        <5> QED BY <2>1, <2>0, <4>1, <4>4, DetachIfaceAt
      <4> QED BY <4>5
    <3>2. CASE job = "rollback"
      <4>1. DetachIface(want, "stuck")
        BY <2>1, <3>2 DEF m
      <4>2. slot[<<i, d, x>>] = "left" /\ ~(i = I /\ x = want /\ I \in up)
        <5> HIDE DEF TypeOK, StateType, Dirs, Modes, Owners
        <5> QED BY <2>1, <2>3, <2>0, <4>1, DetachIfaceAt
      <4>3. x # early
        BY <2>1, <3>2, <4>2 DEF LeftIsOld
      <4>4. i \in up
        BY <4>2 DEF GoneHooksEmpty, Hooks
      <4>5. i # I
        BY <2>1, <4>2, <4>3, <4>4
      <4>6. PICK y \in Modes : Tracked(i, d, y) \in attached
        BY <2>1, <2>3, <4>2 DEF LeftCovered
      <4>7. Tracked(i, d, y) \in attached'
        <5> HIDE DEF TypeOK, StateType, Dirs, Modes, Owners
        <5> QED BY <2>1, <2>0, <4>1, <4>5, <4>6, DetachIfaceAt
      <4> QED BY <4>7
    <3> QED BY <2>1, <3>1, <3>2
  <2> QED BY <2>1, <2>2, <2>3 DEF OwnTracked, LeftCovered, CleanStop, Tracked
<1>3. CASE BootFails \/ Terminate
  <2>1. (DetachAll(0) \/ DetachAll(1)) /\ job # "down" /\ overflow' = overflow
    BY <1>3 DEF BootFails, Terminate
  <2>2. ~overflow => \A h \in Hooks : slot'[h] \notin {"own", "left"}
    BY <2>1, DetachAllClears
  <2> QED BY <2>1, <2>2 DEF OwnTracked, LeftCovered, CleanStop, Hooks
<1>4. CASE \/ BootSucceeds \/ SwitchAttached \/ SwitchDone \/ RollbackDone \/ HealDone
           \/ Sample \/ Tick \/ Request
  <2>1. job # "down" /\ job' # "down" /\ UNCHANGED <<slot, gen, attached, overflow>>
    BY <1>4 DEF BootSucceeds, SwitchAttached, SwitchDone, RollbackDone, HealDone, Sample,
       Tick, Request, StartLoop, StartHeal, kernel
  <2> QED BY <2>1 DEF OwnTracked, LeftCovered, CleanStop, Tracked
<1>5. CASE Crash
  BY <1>5 DEF Crash, OwnTracked, LeftCovered, CleanStop
<1>6. CASE Boot \/ BootWithoutObject
  <2>1. job' # "down" /\ \A h \in Hooks : slot'[h] \notin {"own", "left"}
    BY <1>6 DEF Boot, BootWithoutObject, NewProcess
  <2> QED BY <2>1 DEF OwnTracked, LeftCovered, CleanStop, Hooks
<1>7. CASE AttachFails \/ Others
  <2>1. /\ UNCHANGED <<exit, attached, overflow>>
        /\ (job' = "down") <=> (job = "down")
    BY <1>7, OthersLeaveDaemon DEF AttachFails, Return, cursor
  <2>2. ASSUME NEW h \in Hooks, slot'[h] \in {"own", "left"}
        PROVE  slot'[h] = slot[h] /\ gen'[h[1]] = gen[h[1]]
    BY <1>7, <2>2, OursKept DEF QuietStep
  <2>3. CleanStop'
    BY <2>1, <2>2 DEF CleanStop
  <2>4. ASSUME NEW i \in Ifaces, NEW d \in Dirs, NEW m \in Modes,
               slot'[<<i, d, m>>] \in {"own", "left"}
        PROVE  slot'[<<i, d, m>>] = slot[<<i, d, m>>] /\ gen'[i] = gen[i]
    <3>1. <<i, d, m>> \in Hooks /\ <<i, d, m>>[1] = i
      BY DEF Hooks
    <3> QED BY <2>2, <2>4, <3>1
  <2>5. ASSUME NEW i \in Ifaces, NEW d \in Dirs, NEW m \in Modes,
               job' # "down", ~overflow', slot'[<<i, d, m>>] = "own"
        PROVE  <<i, gen'[i], d, m>> \in attached'
    <3>1. slot[<<i, d, m>>] = "own" /\ gen'[i] = gen[i]
      BY <2>4, <2>5
    <3>2. <<i, gen[i], d, m>> \in attached
      BY <2>1, <2>5, <3>1 DEF OwnTracked, Tracked
    <3> QED BY <2>1, <3>1, <3>2
  <2>6. ASSUME NEW i \in Ifaces, NEW d \in Dirs, NEW m \in Modes,
               job' # "down", ~overflow', slot'[<<i, d, m>>] = "left"
        PROVE  \E x \in Modes : <<i, gen'[i], d, x>> \in attached'
    <3>1. slot[<<i, d, m>>] = "left" /\ gen'[i] = gen[i]
      BY <2>4, <2>6
    <3>2. \E x \in Modes : <<i, gen[i], d, x>> \in attached
      BY <2>1, <2>6, <3>1 DEF LeftCovered, Tracked
    <3> QED BY <2>1, <3>1, <3>2
  <2> QED BY <2>3, <2>5, <2>6 DEF OwnTracked, LeftCovered, Tracked
<1> QED
  BY <1>1, <1>2, <1>3, <1>4, <1>5, <1>6, <1>7
     DEF Next, Daemon, LoaderStep, HandlerStep

\* A snapshot spoilt by an attach or a double count is reset before the next
\* one is taken, or the failure that kept it is on record.
LEMMA SnapshotStep ==
  ASSUME TypeOK, ModesExclusive, SnapshotGuarded, WindowIntact, Next
  PROVE  SnapshotGuarded' /\ WindowIntact'
<1> USE DEF SnapshotGuarded, WindowIntact
<1>1. CASE AttachFilter
  <2>1. /\ UNCHANGED <<job, cur, prev, pairTaint>> /\ job \in {"boot", "switch", "heal"}
        /\ attempted' = TRUE
    BY <1>1 DEF AttachFilter, PointDone
  <2> QED BY <1>1, <2>1 DEF AttachFilter
<1>2. CASE EnterPoint \/ AttachFails
  <2>1. /\ UNCHANGED <<cur, prev, taint, pairTaint>> /\ job \in {"boot", "switch", "heal"}
        /\ job' = job \/ (job = "switch" /\ job' = "rollback")
        /\ attempted => attempted'
    <3>1. UNCHANGED <<cur, prev, taint, pairTaint>> /\ job \in {"boot", "switch", "heal"}
      BY <1>2 DEF EnterPoint, AttachFails, rate
    <3>2. \/ \E b \in BOOLEAN : Return(b) \/ PointDone(b)
          \/ UNCHANGED <<job, attempted>>
      BY <1>2 DEF EnterPoint, AttachFails
    <3>3. job' = job \/ (job = "switch" /\ job' = "rollback")
      BY <3>2 DEF Return, PointDone
    <3>4. attempted => attempted'
      <4>1. ASSUME NEW b \in BOOLEAN, Return(b), attempted
            PROVE  attempted'
        BY <4>1, Zenon DEF Return
      <4>2. ASSUME NEW b \in BOOLEAN, PointDone(b), attempted
            PROVE  attempted'
        BY <4>2, Zenon DEF PointDone
      <4> QED BY <3>2, <4>1, <4>2
    <3> QED BY <3>1, <3>3, <3>4
  <2> QED BY <2>1
<1>3. CASE Retire \/ Rollback
  BY <1>3 DEF Retire, Rollback, rate
<1>4. CASE BootFails \/ BootSucceeds
  BY <1>4 DEF BootFails, BootSucceeds, StartLoop, StartHeal, rate
<1>5. CASE SwitchAttached
  BY <1>5 DEF SwitchAttached, StartLoop, rate
<1>6. CASE SwitchDone
  BY <1>6 DEF SwitchDone, ResetRates
<1>7. CASE RollbackDone
  <2>1. job' \in {"heal", "idle"} /\ "failure" \in taint' /\ UNCHANGED <<prev, pairTaint>>
    BY <1>7 DEF RollbackDone, StartLoop, StartHeal
  <2> QED BY <2>1
<1>8. CASE HealDone
  <2>1. job = "heal" /\ job' \in {"heal", "idle", "sample"} /\ pairTaint' = pairTaint
    BY <1>8 DEF HealDone, StartLoop, StartHeal
  <2>2. CASE ~ok
    BY <1>8, <2>1, <2>2 DEF HealDone
  <2>3. CASE ok /\ attempted
    BY <1>8, <2>1, <2>3 DEF HealDone, ResetRates
  <2>4. CASE ok /\ ~attempted
    BY <1>8, <2>1, <2>4 DEF HealDone
  <2> QED BY <2>2, <2>3, <2>4 DEF TypeOK, CursorType
<1>9. CASE Sample
  <2>1. job = "sample" /\ job' = "idle"
    BY <1>9 DEF Sample, StartLoop
  <2> QED BY <1>9, <2>1 DEF Sample, rate
<1>10. CASE Tick \/ Request
  <2>1. job = "idle" /\ job' \in {"switch", "heal"} /\ UNCHANGED rate
    BY <1>10 DEF Tick, Request, StartLoop, StartHeal
  <2> QED BY <2>1 DEF rate
<1>11. CASE Terminate \/ Crash
  BY <1>11 DEF Terminate, Crash, StartLoop, rate
<1>12. CASE Boot \/ BootWithoutObject
  BY <1>12 DEF Boot, BootWithoutObject, NewProcess
<1>13. CASE Others
  <2>1. UNCHANGED <<job, attempted, cur, prev, pairTaint>>
    BY <1>13, OthersLeaveDaemon DEF cursor
  <2>2. CASE taint' = taint
    BY <2>1, <2>2
  <2>3. CASE job # "down" /\ \E i \in Ifaces, d \in Dirs :
                               \A m \in Modes : slot[<<i, d, m>>] = "own"
    <3>1. job \in {"switch", "retire", "rollback"}
      BY <2>3 DEF ModesExclusive, TypeOK, StateType
    <3> QED BY <2>1, <3>1
  <2>4. CASE taint' = taint \union {"leftover"}
    <3>1. taint' \intersect {"attach", "twice", "failure"}
            = taint \intersect {"attach", "twice", "failure"}
      BY <2>4
    <3> QED BY <2>1, <3>1
  <2> QED BY <1>13, <2>2, <2>3, <2>4, OthersLeaveDaemon
<1> QED
  BY <1>1, <1>2, <1>3, <1>4, <1>5, <1>6, <1>7, <1>8, <1>9, <1>10, <1>11, <1>12, <1>13
     DEF Next, Daemon, LoaderStep, HandlerStep

LEMMA SafetyInit == Init => SafetyInv
<1> SUFFICES ASSUME Init PROVE SafetyInv
  OBVIOUS
<1>1. TypeOK
  BY TypeInit
<1>2. SwitchProgress /\ ModesExclusive /\ OwnTracked
  BY DEF Init, SwitchProgress, ModesExclusive, OwnTracked
<1>4. SwitchTracked /\ LeftIsOld /\ LeftCovered
  BY DEF Init, SwitchTracked, LeftIsOld, LeftCovered, Entered
<1>3. GoneHooksEmpty /\ CleanStop /\ SnapshotGuarded /\ WindowIntact
  BY DEF Init, GoneHooksEmpty, CleanStop, SnapshotGuarded, WindowIntact
<1> QED BY <1>1, <1>2, <1>3, <1>4 DEF SafetyInv

LEMMA SafetyStep == SafetyInv /\ [Next]_vars => SafetyInv'
<1> SUFFICES ASSUME SafetyInv, [Next]_vars PROVE SafetyInv'
  OBVIOUS
<1>1. CASE Next
  BY <1>1, TypeStep, GoneStep, SwitchStep, SwitchTrackedStep, LeftStep, OwnedStep,
     SnapshotStep DEF SafetyInv
<1>2. CASE UNCHANGED vars
  <2>1. TypeOK'
    BY <1>2, TypeStep DEF SafetyInv
  <2>2. UNCHANGED <<slot, up, gen, job, at, point, attempted, want, early, attached, exit, cur,
                    prev, taint, pairTaint, overflow>>
    BY <1>2 DEF vars, kernel, cursor, policy, rate
  <2> QED
    BY <2>1, <2>2 DEF SafetyInv, GoneHooksEmpty, SwitchProgress, ModesExclusive,
       OwnTracked, SwitchTracked, LeftIsOld, LeftCovered, Entered, CleanStop,
       SnapshotGuarded, WindowIntact, Tracked
<1> QED BY <1>1, <1>2

\* The inductive invariant: loop progress, tracking of the filters in use and of
\* those a switch had to leave, guarded snapshots, and what follows from them.
THEOREM Safe == Spec => []SafetyInv
BY SafetyInit, SafetyStep, PTL DEF Spec

\* After a policy switch, successful or rolled back, the only filters of ours at
\* the other mode's pref/handle are those the kernel refused to remove.
THEOREM ModesAreExclusive == Spec => []ModesExclusive
<1>1. SafetyInv => ModesExclusive
  BY DEF SafetyInv
<1> QED BY <1>1, Safe, PTL

\* No rate is computed across an attach, or across a frame counted by two filters
\* in use, unless a failed switch or heal is on record.
THEOREM WindowsAreIntact == Spec => []WindowIntact
<1>1. SafetyInv => WindowIntact
  BY DEF SafetyInv
<1> QED BY <1>1, Safe, PTL

\* While the tracking table had room, a clean exit removes every filter in use
\* and every one an earlier switch had to leave; what stays was refused to a
\* rollback or to this stop.
THEOREM StopsAreClean == Spec => []CleanStop
<1>1. SafetyInv => CleanStop
  BY DEF SafetyInv
<1> QED BY <1>1, Safe, PTL
=============================================================================
