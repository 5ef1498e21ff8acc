----------------------------- MODULE LuciProofs -----------------------------
(***************************************************************************)
(* The pages of LuCI, for any number of sessions, polls, clicks, saves and *)
(* failures: the live view (LuciPoll), whose timer has two properties that *)
(* are inductive only together and whose load is bounded since every       *)
(* answer takes one poll out of flight for the timeout it arms; and the    *)
(* configuration pages with rpcd, procd and the daemon behind them         *)
(* (Settings). A file's lists are loaded by folds, followed link by link;  *)
(* what a form saves is in rpcd's hands in one piece until it is in the    *)
(* file, whoever's commit takes it there. The two specifications share no  *)
(* variable.                                                               *)
(***************************************************************************)
EXTENDS Settings, LuciPoll, DataLemmas

----------------------------------------------------------------------------
(* The live view: the timer *)

TimerInv == NoOrphanTimer /\ PausedIsQuiet

\* stopTimer leaves nothing armed.
LEMMA StopTimerClears ==
  ASSUME NoOrphanTimer, StopTimer
  PROVE  armed' = {}
BY DEF NoOrphanTimer, StopTimer

\* schedule leaves nothing armed but the timeout it refers to, and nothing when
\* it is told of a pause.
LEMMA ScheduleArmsOne ==
  ASSUME NoOrphanTimer, NEW p \in BOOLEAN, Schedule(p)
  PROVE  armed' \subseteq {timer'} /\ (p => armed' = {})
<1>1. CASE p
  <2>1. StopTimer  BY <1>1 DEF Schedule
  <2> QED  BY <2>1, StopTimerClears
<1>2. CASE ~p
  <2>1. Arm(armed \ {timer})  BY <1>2 DEF Schedule
  <2>2. armed \ {timer} = {}  BY DEF NoOrphanTimer
  <2> QED  BY <1>2, <2>1, <2>2 DEF Arm
<1> QED  BY <1>1, <1>2

\* A step that schedules with the pause as it is, or as it becomes.
LEMMA ScheduleKeeps ==
  ASSUME TimerInv, paused' \in BOOLEAN, Schedule(paused')
  PROVE  TimerInv'
<1>1. NoOrphanTimer  BY DEF TimerInv
<1>2. armed' \subseteq {timer'} /\ (paused' => armed' = {})
  BY <1>1, ScheduleArmsOne
<1> QED  BY <1>2 DEF TimerInv, NoOrphanTimer, PausedIsQuiet

\* A step that stops the timer.
LEMMA StopKeeps ==
  ASSUME TimerInv, StopTimer
  PROVE  TimerInv'
<1>1. armed' = {}  BY StopTimerClears DEF TimerInv
<1> QED  BY <1>1 DEF TimerInv, NoOrphanTimer, PausedIsQuiet

\* A step that leaves the timer and the pause alone.
LEMMA OthersKeep ==
  ASSUME TimerInv, UNCHANGED <<armed, timer, paused>>
  PROVE  TimerInv'
BY DEF TimerInv, NoOrphanTimer, PausedIsQuiet

LEMMA PausedType == paused \in BOOLEAN /\ [PollNext]_pollVars => paused' \in BOOLEAN
BY DEF PollNext, Loop, User, Restart, Fire, Serve, Show, Refuse, Lose, RefreshButton, PauseButton,
       IntervalSelect, ReloadButton, DaemonStops, ReloadFails, ReloadDone, DaemonStarts, pollVars

PauseInv == TimerInv /\ paused \in BOOLEAN

LEMMA PauseInit == PollInit => PauseInv
BY DEF PollInit, PauseInv, TimerInv, NoOrphanTimer, PausedIsQuiet

LEMMA PauseStep == PauseInv /\ [PollNext]_pollVars => PauseInv'
<1> SUFFICES ASSUME TimerInv, paused \in BOOLEAN, [PollNext]_pollVars PROVE TimerInv'
  BY PausedType DEF PauseInv
<1>1. ASSUME NEW id \in TimerIds, Fire(id) PROVE TimerInv'
  BY <1>1 DEF Fire, TimerInv, NoOrphanTimer, PausedIsQuiet
<1>2. ASSUME NEW p \in Polls, Serve(p) PROVE TimerInv'
  BY <1>2, OthersKeep DEF Serve, timers
<1>3. ASSUME NEW p \in Polls, Show(p) PROVE TimerInv'
  BY <1>3, ScheduleKeeps DEF Show
<1>4. ASSUME NEW p \in Polls, Refuse(p) \/ Lose(p) PROVE TimerInv'
  BY <1>4, ScheduleKeeps DEF Refuse, Lose, Failed
<1>5. CASE RefreshButton \/ ReloadDone
  BY <1>5, StopKeeps DEF RefreshButton, ReloadDone, ForcePoll
<1>6. CASE PauseButton
  <2>1. paused' \in BOOLEAN  BY <1>6 DEF PauseButton
  <2>2. CASE paused'
    BY <1>6, <2>2, StopKeeps DEF PauseButton
  <2>3. CASE ~paused'
    BY <1>6, <2>1, <2>3, ScheduleKeeps DEF PauseButton
  <2> QED  BY <2>1, <2>2, <2>3
<1>7. CASE IntervalSelect
  BY <1>7, ScheduleKeeps DEF IntervalSelect
<1>8. CASE ReloadButton \/ DaemonStops \/ ReloadFails \/ DaemonStarts
  BY <1>8, OthersKeep DEF ReloadButton, DaemonStops, ReloadFails, DaemonStarts, timers
<1>9. CASE UNCHANGED pollVars
  BY <1>9, OthersKeep DEF pollVars
<1> QED  BY <1>1, <1>2, <1>3, <1>4, <1>5, <1>6, <1>7, <1>8, <1>9 DEF PollNext, Loop, User, Restart

\* No timeout escapes viewState.timer, whatever the order of answers, errors
\* and clicks (stopTimer, schedule and reload of index.js).
THEOREM NoTimerIsOrphaned == PollSpec => []NoOrphanTimer
<1>1. PauseInv => NoOrphanTimer  BY DEF PauseInv, TimerInv
<1> QED  BY PauseInit, PauseStep, <1>1, PTL DEF PollSpec

\* A paused page has no timeout armed until the pause is undone, also when the
\* answer to an older poll or the reload button's own arrives.
THEOREM PauseHolds == PollSpec => []PausedIsQuiet
<1>1. PauseInv => PausedIsQuiet  BY DEF PauseInv, TimerInv
<1> QED  BY PauseInit, PauseStep, <1>1, PTL DEF PollSpec

----------------------------------------------------------------------------
(* The live view: the load *)

\* A poll is on its way to the daemon or its answer is on its way back, never both.
CallsRight ==
  /\ IsFiniteSet(sent) /\ sent \subseteq Polls
  /\ answers \in Seq(Polls)
  /\ \A m, n \in DOMAIN answers : answers[m] = answers[n] => m = n
  /\ \A n \in DOMAIN answers : answers[n] \notin sent

LoadInv == clicks \in 0..MaxClicks /\ CallsRight /\ LoadBounded

\* What the user has asked for so far.
AskedFor == (MaxClicks - clicks) - (IF reloading = "no" THEN 0 ELSE 1)

LEMMA Removed ==
  ASSUME NEW S, NEW s \in Seq(S), NEW n \in DOMAIN s,
         \A i, j \in DOMAIN s : s[i] = s[j] => i = j
  PROVE  /\ RemoveAt(s, n) \in Seq(S)
         /\ \A i, j \in DOMAIN RemoveAt(s, n) : RemoveAt(s, n)[i] = RemoveAt(s, n)[j] => i = j
         /\ Range(RemoveAt(s, n)) = Range(s) \ {s[n]}
<1> DEFINE a == SubSeq(s, 1, n - 1)
           b == SubSeq(s, n + 1, Len(s))
           r == RemoveAt(s, n)
<1>1. n \in 1..Len(s) /\ DOMAIN s = 1..Len(s) /\ Len(s) \in Nat  OBVIOUS
<1>2. a \in Seq(S) /\ b \in Seq(S)  BY <1>1
<1>3. Len(a) = n - 1 /\ \A i \in 1..n-1 : a[i] = s[i]  BY <1>1
<1>4. Len(b) = Len(s) - n /\ \A i \in 1..Len(s)-n : b[i] = s[i + n]  BY <1>1
<1> HIDE DEF a, b
<1>5. /\ r \in Seq(S) /\ Len(r) = Len(s) - 1
      /\ \A i \in 1..Len(s)-1 : r[i] = IF i < n THEN a[i] ELSE b[i - (n - 1)]
  <2>1. r = a \o b  BY DEF RemoveAt, a, b
  <2> HIDE DEF r
  <2>2. /\ a \o b \in Seq(S) /\ Len(a \o b) = Len(a) + Len(b)
        /\ \A i \in 1..Len(a) + Len(b) : (a \o b)[i] = IF i <= Len(a) THEN a[i] ELSE b[i - Len(a)]
    BY <1>2
  <2>3. Len(a) + Len(b) = Len(s) - 1 /\ \A i \in 1..Len(s)-1 : i <= Len(a) <=> i < n
    BY <1>1, <1>3, <1>4
  <2> QED  BY <1>3, <2>1, <2>2, <2>3
<1> HIDE DEF r
<1>6. \A i \in 1..Len(s)-1 : r[i] = IF i < n THEN s[i] ELSE s[i + 1]
  <2> SUFFICES ASSUME NEW i \in 1..Len(s)-1 PROVE r[i] = IF i < n THEN s[i] ELSE s[i + 1]
    OBVIOUS
  <2>1. CASE i < n  BY <1>1, <1>3, <1>5, <2>1
  <2>2. CASE ~(i < n)
    <3>1. r[i] = b[i - (n - 1)]  BY <1>5, <2>2
    <3>2. i - (n - 1) \in 1..Len(s)-n /\ (i - (n - 1)) + n = i + 1  BY <1>1, <2>2
    <3> QED  BY <1>4, <2>2, <3>1, <3>2
  <2> QED  BY <2>1, <2>2
<1>7. DOMAIN r = 1..Len(s)-1  BY <1>1, <1>5
<1>8. \A i, j \in DOMAIN r : r[i] = r[j] => i = j
  <2> DEFINE at(i) == IF i < n THEN i ELSE i + 1
  <2>1. \A i \in DOMAIN r : at(i) \in DOMAIN s /\ r[i] = s[at(i)]  BY <1>1, <1>6, <1>7
  <2>2. \A i, j \in DOMAIN r : at(i) = at(j) => i = j  BY <1>1, <1>7
  <2> HIDE DEF at
  <2> QED  BY <2>1, <2>2
<1>9. Range(r) = Range(s) \ {s[n]}
  <2>1. ASSUME NEW x \in Range(r) PROVE x \in Range(s) \ {s[n]}
    <3>1. PICK i \in DOMAIN r : x = r[i]  BY DEF Range
    <3>2. CASE i < n
      <4>1. x = s[i] /\ i \in DOMAIN s /\ i # n  BY <1>1, <1>6, <1>7, <3>1, <3>2
      <4> QED  BY <4>1 DEF Range
    <3>3. CASE ~(i < n)
      <4>1. x = s[i + 1] /\ i + 1 \in DOMAIN s /\ i + 1 # n  BY <1>1, <1>6, <1>7, <3>1, <3>3
      <4> QED  BY <4>1 DEF Range
    <3> QED  BY <3>2, <3>3
  <2>2. ASSUME NEW x \in Range(s), x # s[n] PROVE x \in Range(r)
    <3>1. PICK i \in DOMAIN s : x = s[i]  BY DEF Range
    <3>2. CASE i < n
      <4>1. i \in DOMAIN r /\ r[i] = x  BY <1>1, <1>6, <1>7, <3>1, <3>2
      <4> QED  BY <4>1 DEF Range
    <3>3. CASE i > n
      <4>1. i - 1 \in DOMAIN r /\ r[i - 1] = x  BY <1>1, <1>6, <1>7, <3>1, <3>3
      <4> QED  BY <4>1 DEF Range
    <3>4. i # n  BY <2>2, <3>1
    <3> QED  BY <1>1, <3>2, <3>3, <3>4
  <2> QED  BY <2>1, <2>2
<1> QED  BY <1>5, <1>8, <1>9 DEF r

LEMMA InFlightType ==
  ASSUME CallsRight
  PROVE  /\ IsFiniteSet(InFlight) /\ InFlight \subseteq Polls
         /\ Cardinality(InFlight) \in Nat
<1>1. InFlight \subseteq Polls  BY DEF CallsRight, InFlight, Range
<1>2. IsFiniteSet(InFlight)  BY <1>1, PollsAssumption, FS_Subset
<1> QED  BY <1>1, <1>2, FS_CardinalityType

LEMMA ArmedType ==
  ASSUME NoOrphanTimer
  PROVE  Cardinality(armed) \in 0..1 /\ (armed = {} <=> Cardinality(armed) = 0)
<1>1. armed = {} \/ armed = {timer}  BY DEF NoOrphanTimer
<1>2. Cardinality({}) = 0 /\ Cardinality({timer}) = 1  BY FS_EmptySet, FS_Singleton
<1> QED  BY <1>1, <1>2

\* A poll takes a name of its own as long as there is one.
LEMMA IssueAddsOne ==
  ASSUME CallsRight, Cardinality(InFlight) <= MaxClicks, Issue
  PROVE  CallsRight' /\ Cardinality(InFlight') = Cardinality(InFlight) + 1
<1> DEFINE p == CHOOSE q \in Polls : q \notin InFlight
<1>1. p \in Polls /\ p \notin InFlight
  <2>1. InFlight # Polls
    BY InFlightType, PollsAssumption, BoundAssumption
  <2> QED  BY <2>1, InFlightType
<1> HIDE DEF p
<1>2. sent' = sent \union {p} /\ answers' = answers  BY DEF Issue, p
<1>3. InFlight' = InFlight \union {p}  BY <1>2 DEF InFlight
<1>4. Cardinality(InFlight') = Cardinality(InFlight) + 1
  BY <1>1, <1>3, InFlightType, FS_AddElement
<1>5. IsFiniteSet(sent')  BY <1>2, FS_AddElement DEF CallsRight
<1>6. \A n \in DOMAIN answers : answers[n] # p  BY <1>1 DEF InFlight, Range
<1> QED  BY <1>1, <1>2, <1>4, <1>5, <1>6 DEF CallsRight

\* A poll that is refused, lost or answered is out of flight.
LEMMA CallEnds ==
  ASSUME CallsRight, NEW p, p \in sent, sent' = sent \ {p}, answers' = answers
  PROVE  CallsRight' /\ Cardinality(InFlight') = Cardinality(InFlight) - 1
<1>1. InFlight' = InFlight \ {p} /\ p \in InFlight  BY DEF CallsRight, InFlight, Range
<1>2. IsFiniteSet(sent')  BY FS_Subset DEF CallsRight
<1> QED  BY <1>1, <1>2, InFlightType, FS_RemoveElement DEF CallsRight

LEMMA AnswerEnds ==
  ASSUME CallsRight, NEW n \in DOMAIN answers, answers' = RemoveAt(answers, n), sent' = sent
  PROVE  CallsRight' /\ Cardinality(InFlight') = Cardinality(InFlight) - 1
<1>1. /\ answers' \in Seq(Polls)
      /\ \A i, j \in DOMAIN answers' : answers'[i] = answers'[j] => i = j
      /\ Range(answers') = Range(answers) \ {answers[n]}
  BY Removed DEF CallsRight
<1>2. answers[n] \in Range(answers) /\ answers[n] \notin sent  BY DEF CallsRight, Range
<1>3. InFlight' = InFlight \ {answers[n]} /\ answers[n] \in InFlight  BY <1>1, <1>2 DEF InFlight
<1>4. \A i \in DOMAIN answers' : answers'[i] \notin sent'
  <2>1. \A x \in Range(answers) : x \notin sent  BY DEF CallsRight, Range
  <2>2. \A i \in DOMAIN answers' : answers'[i] \in Range(answers')  BY DEF Range
  <2> QED  BY <1>1, <2>1, <2>2
<1> QED  BY <1>1, <1>3, <1>4, InFlightType, FS_RemoveElement DEF CallsRight

LEMMA ServeMoves ==
  ASSUME CallsRight, NEW p \in Polls, Serve(p)
  PROVE  CallsRight' /\ InFlight' = InFlight
<1>1. p \in sent /\ sent' = sent \ {p} /\ answers' = Append(answers, p)  BY DEF Serve
<1>2. /\ answers' \in Seq(Polls) /\ Len(answers') = Len(answers) + 1
      /\ \A i \in 1..Len(answers) : answers'[i] = answers[i]
      /\ answers'[Len(answers) + 1] = p
  BY <1>1 DEF CallsRight
<1>3. DOMAIN answers' = DOMAIN answers \union {Len(answers) + 1} /\ DOMAIN answers = 1..Len(answers)
  BY <1>2 DEF CallsRight
<1>4. Range(answers') = Range(answers) \union {p}  BY <1>2, <1>3 DEF Range
<1>5. InFlight' = InFlight  BY <1>1, <1>4 DEF InFlight
<1>6. IsFiniteSet(sent')  BY <1>1, FS_Subset DEF CallsRight
<1>7. \A m, n \in DOMAIN answers' : answers'[m] = answers'[n] => m = n
  BY <1>1, <1>2, <1>3 DEF CallsRight
<1>8. \A n \in DOMAIN answers' : answers'[n] \notin sent'
  BY <1>1, <1>2, <1>3 DEF CallsRight
<1> QED  BY <1>1, <1>2, <1>5, <1>6, <1>7, <1>8 DEF CallsRight

LEMMA StopTimerLoad ==
  ASSUME NoOrphanTimer, StopTimer
  PROVE  Cardinality(armed') = 0
BY StopTimerClears, FS_EmptySet

LEMMA ScheduleLoad ==
  ASSUME NoOrphanTimer, NEW p \in BOOLEAN, Schedule(p)
  PROVE  Cardinality(armed') \in 0..1
<1>1. armed' = {} \/ armed' = {timer'}  BY ScheduleArmsOne
<1>2. Cardinality({}) = 0 /\ Cardinality({timer'}) = 1  BY FS_EmptySet, FS_Singleton
<1> QED  BY <1>1, <1>2

LEMMA LoadInit == PollInit => LoadInv
<1> SUFFICES ASSUME PollInit PROVE LoadInv
  OBVIOUS
<1>1. InFlight = {} /\ CallsRight  BY FS_EmptySet DEF PollInit, InFlight, Range, CallsRight
<1>2. Cardinality(InFlight) = 0  BY <1>1, FS_EmptySet
<1>3. Cardinality(armed) \in 0..1
  BY ArmedType, PauseInit DEF PauseInv, TimerInv
<1> QED  BY <1>1, <1>2, <1>3, BoundAssumption DEF PollInit, LoadInv, LoadBounded

\* What a step of the user's or the reload button's asks for pays for what it
\* puts in flight or arms; an answer pays for the timeout it arms.
LEMMA LoadStep == PauseInv /\ LoadInv /\ [PollNext]_pollVars => LoadInv'
<1> SUFFICES ASSUME PauseInv, LoadInv, [PollNext]_pollVars PROVE LoadInv'
  OBVIOUS
<1>1. /\ Cardinality(InFlight) \in Nat /\ Cardinality(armed) \in 0..1
      /\ clicks \in 0..MaxClicks /\ MaxClicks \in Nat /\ AskedFor \in Int
      /\ Cardinality(InFlight) + Cardinality(armed) <= 1 + AskedFor
      /\ NoOrphanTimer /\ CallsRight /\ paused \in BOOLEAN
  BY InFlightType, ArmedType, BoundAssumption
  DEF PauseInv, TimerInv, LoadInv, LoadBounded, AskedFor
<1>2. ASSUME clicks' \in 0..MaxClicks, CallsRight',
             Cardinality(InFlight') + Cardinality(armed') <= 1 + AskedFor'
      PROVE  LoadInv'
  BY <1>2 DEF LoadInv, LoadBounded, AskedFor
<1>3. ASSUME NEW id \in TimerIds, Fire(id) PROVE LoadInv'
  <2>1. Cardinality(armed) = 1 /\ Cardinality(armed') = 0
    <3>1. armed = {timer} /\ id = timer  BY <1>1, <1>3 DEF NoOrphanTimer, Fire
    <3>2. armed' = {}  BY <1>3, <3>1 DEF Fire
    <3> QED  BY <3>1, <3>2, FS_EmptySet, FS_Singleton
  <2>2. AskedFor <= MaxClicks /\ AskedFor' = AskedFor /\ clicks' = clicks
    BY <1>1, <1>3 DEF AskedFor, Fire, budgets
  <2>3. CallsRight' /\ Cardinality(InFlight') = Cardinality(InFlight) + 1
    BY <1>1, <1>3, <2>1, <2>2, IssueAddsOne DEF Fire
  <2> QED  BY <1>1, <1>2, <2>1, <2>2, <2>3
<1>4. ASSUME NEW p \in Polls, Serve(p) PROVE LoadInv'
  BY <1>1, <1>2, <1>4, ServeMoves DEF Serve, timers, budgets, AskedFor
<1>5. ASSUME CallsRight', Cardinality(InFlight') = Cardinality(InFlight) - 1, Schedule(paused),
             clicks' = clicks, reloading' = reloading
      PROVE  LoadInv'
  <2>1. Cardinality(armed') \in 0..1  BY <1>1, <1>5, ScheduleLoad
  <2>2. AskedFor' = AskedFor  BY <1>5 DEF AskedFor
  <2> QED  BY <1>1, <1>2, <1>5, <2>1, <2>2
<1>6. ASSUME NEW p \in Polls, Show(p) PROVE LoadInv'
  <2>1. CallsRight' /\ Cardinality(InFlight') = Cardinality(InFlight) - 1
    BY <1>1, <1>6, AnswerEnds DEF Show, Arrived
  <2> QED  BY <1>5, <1>6, <2>1 DEF Show, budgets
<1>7. ASSUME NEW p \in Polls, Refuse(p) PROVE LoadInv'
  <2>1. CallsRight' /\ Cardinality(InFlight') = Cardinality(InFlight) - 1
    BY <1>1, <1>7, CallEnds DEF Refuse
  <2> QED  BY <1>5, <1>7, <2>1 DEF Refuse, Failed, budgets
<1>8. ASSUME NEW p \in Polls, Lose(p) PROVE LoadInv'
  <2>1. CallsRight' /\ Cardinality(InFlight') = Cardinality(InFlight) - 1
    BY <1>1, <1>8, CallEnds, AnswerEnds DEF Lose, LoseCall, LoseAnswer
  <2> QED  BY <1>5, <1>8, <2>1 DEF Lose, Failed
<1>9. ASSUME ForcePoll, clicks' \in 0..MaxClicks, AskedFor' = AskedFor + 1, AskedFor' <= MaxClicks
      PROVE  LoadInv'
  <2>1. Cardinality(armed') = 0  BY <1>1, <1>9, StopTimerLoad DEF ForcePoll
  <2>2. CallsRight' /\ Cardinality(InFlight') = Cardinality(InFlight) + 1
    BY <1>1, <1>9, IssueAddsOne DEF ForcePoll
  <2> QED  BY <1>1, <1>2, <1>9, <2>1, <2>2
<1>10. CASE RefreshButton
  BY <1>1, <1>9, <1>10 DEF RefreshButton, Click, AskedFor
<1>11. CASE ReloadDone
  BY <1>1, <1>9, <1>11 DEF ReloadDone, AskedFor, budgets
<1>12. CASE PauseButton \/ IntervalSelect
  <2>1. Cardinality(armed') \in 0..1
    <3>1. paused' \in BOOLEAN  BY <1>1, <1>12 DEF PauseButton, IntervalSelect
    <3>2. StopTimer \/ Schedule(paused')  BY <1>12 DEF PauseButton, IntervalSelect
    <3> QED  BY <1>1, <3>1, <3>2, StopTimerLoad, ScheduleLoad
  <2>2. clicks' = clicks - 1 /\ clicks > 0 /\ AskedFor' = AskedFor + 1
    BY <1>1, <1>12 DEF PauseButton, IntervalSelect, Click, AskedFor
  <2>3. UNCHANGED <<sent, answers>>  BY <1>12 DEF PauseButton, IntervalSelect, calls
  <2>4. CallsRight' /\ InFlight' = InFlight  BY <1>1, <2>3 DEF CallsRight, InFlight
  <2> QED  BY <1>1, <1>2, <2>1, <2>2, <2>4
<1>13. CASE ReloadButton \/ DaemonStops \/ ReloadFails \/ DaemonStarts \/ UNCHANGED pollVars
  <2>1. UNCHANGED <<sent, answers, armed>>
    BY <1>13 DEF ReloadButton, DaemonStops, ReloadFails, DaemonStarts, pollVars, calls, timers
  <2>2. clicks' \in 0..MaxClicks /\ AskedFor' = AskedFor
    BY <1>1, <1>13 DEF ReloadButton, Click, DaemonStops, ReloadFails, DaemonStarts, pollVars, budgets, AskedFor
  <2>3. CallsRight' /\ InFlight' = InFlight  BY <1>1, <2>1 DEF CallsRight, InFlight
  <2> QED  BY <1>1, <1>2, <2>1, <2>2, <2>3
<1> QED  BY <1>3, <1>4, <1>6, <1>7, <1>8, <1>10, <1>11, <1>12, <1>13 DEF PollNext, Loop, User, Restart

\* However answers, errors and clicks fall, the polls in flight and the armed
\* timeout are at most one for the loop and one for each thing the user asked
\* for (schedule and reload of index.js, the buttons).
THEOREM LoadIsBounded == PollSpec => []LoadBounded
<1>1. LoadInv => LoadBounded  BY DEF LoadInv
<1> QED  BY PauseInit, PauseStep, LoadInit, LoadStep, <1>1, PTL DEF PollSpec

----------------------------------------------------------------------------
(* One option *)

LEMMA Widths ==
  /\ IntWidth \in Nat \ {0} /\ Word \in Nat \ {0} /\ Exact \in Nat \ {0}
  /\ Grain \in Nat \ {0} /\ ExponentFrom \in Nat \ {0}
  /\ Exact < Word /\ Word <= ExponentFrom
BY NumbersAssumption, OrderAssumption

LEMMA StrtoullType ==
  ASSUME NEW raw \in Numbers, raw # Absent
  PROVE  /\ Strtoull(raw) \in Nat
         /\ raw # Junk /\ raw \in 0..Word-1 => Strtoull(raw) = raw
<1>1. CASE raw = Junk  BY <1>1, Widths DEF Strtoull
<1>2. CASE raw # Junk
  <2>1. raw \in Int  BY <1>2 DEF Numbers
  <2> QED  BY <1>2, <2>1, Widths DEF Strtoull
<1> QED  BY <1>1, <1>2

LEMMA AtoiType ==
  ASSUME NEW raw \in Numbers, raw # Absent
  PROVE  Atoi(raw) \in Int
<1> DEFINE n == IF raw = Junk THEN 0 ELSE raw
           half == IntWidth \div 2
<1>1. n \in Int  BY DEF Numbers
<1>2. half \in Int  BY Widths
<1> HIDE DEF n, half
<1>3. (n + half) % IntWidth \in Int  BY <1>1, <1>2, Widths
<1>4. ((n + half) % IntWidth) - half \in Int  BY <1>2, <1>3
<1> QED  BY <1>4 DEF Atoi, n, half

\* The ranges the daemon relies on.
LEMMA OptionsInRange ==
  ASSUME NEW raw \in Numbers
  PROVE  /\ Refresh(raw) >= MinRefresh
         /\ ActiveWindow(raw) >= MinActiveWindow
         /\ ActiveMinBps(raw) >= MinActiveBps
         /\ OverviewSamples(raw) \in MinOverview..OverviewWindow
<1>1. CASE raw = Absent
  BY <1>1 DEF Refresh, ActiveWindow, ActiveMinBps, OverviewSamples, Defaults, MinRefresh,
              MinActiveWindow, MinActiveBps, MinOverview, OverviewWindow
<1>2. CASE raw # Absent
  <2>1. Strtoull(raw) \in Nat  BY <1>2, StrtoullType
  <2>2. Atoi(raw) \in Int  BY <1>2, AtoiType
  <2> QED  BY <1>2, <2>1, <2>2
           DEF Refresh, ActiveWindow, ActiveMinBps, OverviewSamples, Defaults, MinRefresh,
               MinActiveWindow, MinActiveBps, MinOverview, OverviewWindow
<1> QED  BY <1>1, <1>2

\* A form's parameters.
FormValues ==
  [rate : RateModes, conn : ConnModes, window : {n \in Int : n >= MinActiveWindow},
   minbps : {n \in Int : n >= MinActiveBps}]

LEMMA ParseIntType ==
  ASSUME NEW n \in Int
  PROVE  ParseInt(n) \in Int /\ (n <= Exact => ParseInt(n) = n)
<1> DEFINE raised == n + Grain \div 2
<1>1. raised \in Int  BY Widths
<1> HIDE DEF raised
<1>2. raised % Grain \in Int  BY <1>1, Widths
<1>3. raised - (raised % Grain) \in Int  BY <1>1, <1>2
<1>4. ParseInt(n) = IF n > Exact THEN raised - (raised % Grain) ELSE n  BY DEF ParseInt, raised
<1> QED  BY <1>3, <1>4, Widths

LEMMA IntValueType ==
  ASSUME NEW raw \in Numbers, NEW fallback \in Int, NEW min \in Int
  PROVE  IntValue(raw, fallback, min) \in Int /\ IntValue(raw, fallback, min) >= min
<1> DEFINE n == IF raw \in {Absent, Junk} THEN fallback ELSE ParseInt(raw)
<1>1. n \in Int  BY ParseIntType DEF Numbers
<1> HIDE DEF n
<1>2. IntValue(raw, fallback, min) = IF n < min THEN min ELSE n  BY DEF IntValue, n
<1> QED  BY <1>1, <1>2

\* What a daemon reads of a number the form has written, if it can hold it.
LEMMA TextsRead ==
  ASSUME NEW n \in Nat, NEW t \in Texts(n)
  PROVE  /\ t \in Numbers /\ t # Absent /\ t # Junk
         /\ n < Word => t = n /\ Strtoull(t) = n
<1>1. t \in Int /\ (n < Word => t = n)
  <2>1. CASE n >= ExponentFrom
    <3>1. ~(n < Word)  BY <2>1, Widths
    <3> QED  BY <2>1, <3>1 DEF Texts
  <2>2. CASE ~(n >= ExponentFrom)  BY <2>2 DEF Texts
  <2> QED  BY <2>1, <2>2
<1>2. t \in Numbers /\ t # Absent /\ t # Junk  BY <1>1, RawAssumption DEF Numbers
<1>3. ASSUME n < Word PROVE Strtoull(t) = n
  <2>1. t = n /\ n \in 0..Word-1  BY <1>1, <1>3, Widths
  <2> QED  BY <1>2, <2>1, StrtoullType
<1> QED  BY <1>1, <1>2, <1>3

LEMMA FormType ==
  ASSUME NEW e, {e.window, e.minbps} \subseteq Numbers
  PROVE  ReadForm(e) \in FormValues
<1>1. /\ IntValue(e.window, Defaults.window, MinActiveWindow) \in {n \in Int : n >= MinActiveWindow}
      /\ IntValue(e.minbps, Defaults.minbps, MinActiveBps) \in {n \in Int : n >= MinActiveBps}
  BY IntValueType DEF Defaults, MinActiveWindow, MinActiveBps
<1>2. RateModeValue(e.rate) \in RateModes /\ ConnModeValue(e.conn) \in ConnModes
  BY DEF RateModeValue, ConnModeValue, RateModes, ConnModes, Defaults
<1> QED  BY <1>1, <1>2 DEF ReadForm, FormValues

\* What a form saves is what a daemon makes of it, as far as it can hold it.
LEMMA SavedIsLoaded ==
  ASSUME NEW v \in FormValues, NEW f, f.rate = v.rate, f.conn = v.conn,
         f.window \in Texts(v.window), f.minbps \in Texts(v.minbps)
  PROVE  RunsWith(Loaded(f), v)
<1>1. RateMode(f) = v.rate /\ ConnMode(f) = v.conn  BY DEF RateMode, ConnMode, FormValues
<1>2. /\ v.window \in Int /\ v.window >= 1000 /\ v.minbps \in Int /\ v.minbps >= 1
  BY DEF FormValues, MinActiveWindow, MinActiveBps
<1>3. v.window < Word => ActiveWindow(f.window) = v.window
  <2>1. ASSUME v.window < Word PROVE f.window # Absent /\ Strtoull(f.window) = v.window
    BY <1>2, <2>1, TextsRead
  <2> QED  BY <1>2, <2>1 DEF ActiveWindow, MinActiveWindow
<1>4. v.minbps < Word => ActiveMinBps(f.minbps) = v.minbps
  <2>1. ASSUME v.minbps < Word PROVE f.minbps # Absent /\ Strtoull(f.minbps) = v.minbps
    BY <1>2, <2>1, TextsRead
  <2> QED  BY <1>2, <2>1 DEF ActiveMinBps, MinActiveBps
<1> QED  BY <1>1, <1>3, <1>4 DEF RunsWith, Loaded

\* What the form shows of a file is what a daemon makes of it.
LEMMA ShownIsLoaded ==
  ASSUME NEW f, {f.window, f.minbps} \subseteq Numbers, ~Misread(f)
  PROVE  Shown(f) = ParamsOf(Loaded(f))
<1> USE RawAssumption
<1>0. Absent \notin RateModes \union ConnModes  OBVIOUS
<1>1. ShownRate(f) = RateMode(f)
  <2>1. CASE f.rate \in RateModes  BY <1>0, <2>1 DEF ShownRate, RateModeValue, RateMode, RateModes, Defaults
  <2>2. CASE f.rate = Absent
    BY <1>0, <2>2 DEF ShownRate, RateModeValue, RateMode, RateModes, Defaults
  <2>3. CASE f.rate \notin RateModes \union {Absent}
    <3>1. f.legacy # "bpf"  BY <2>3 DEF Misread
    <3> QED  BY <2>3, <3>1 DEF ShownRate, RateModeValue, RateMode, RateModes, Defaults
  <2> QED  BY <2>1, <2>2, <2>3
<1>2. ShownConn(f) = ConnMode(f)
  <2>1. CASE f.conn \in ConnModes  BY <1>0, <2>1 DEF ShownConn, ConnModeValue, ConnMode, ConnModes, Defaults
  <2>2. CASE f.conn = Absent
    BY <1>0, <2>2 DEF ShownConn, ConnModeValue, ConnMode, ConnModes, Defaults
  <2>3. CASE f.conn \notin ConnModes \union {Absent}
    <3>1. f.legacy \notin ConnModes \ {"auto"}  BY <2>3 DEF Misread
    <3> QED  BY <2>3, <3>1 DEF ShownConn, ConnModeValue, ConnMode, ConnModes, Defaults
  <2> QED  BY <2>1, <2>2, <2>3
<1>3. IntValue(f.window, Defaults.window, MinActiveWindow) = ActiveWindow(f.window)
  <2>1. CASE f.window \in {Absent, Junk}
    BY <2>1, Widths DEF IntValue, ActiveWindow, Strtoull, Defaults, MinActiveWindow
  <2>2. CASE f.window \notin {Absent, Junk}
    <3>1. f.window \in 1..Exact  BY <2>2 DEF Misread
    <3>2. f.window \in Numbers /\ f.window \in 0..Word-1 /\ f.window <= Exact
      BY <3>1, Widths
    <3>3. Strtoull(f.window) = f.window /\ ParseInt(f.window) = f.window
      BY <2>2, <3>2, StrtoullType, ParseIntType
    <3> QED  BY <2>2, <3>1, <3>3, Widths DEF IntValue, ActiveWindow, MinActiveWindow
  <2> QED  BY <2>1, <2>2
<1>4. IntValue(f.minbps, Defaults.minbps, MinActiveBps) = ActiveMinBps(f.minbps)
  <2>1. CASE f.minbps \in {Absent, Junk}
    BY <2>1, Widths DEF IntValue, ActiveMinBps, Strtoull, Defaults, MinActiveBps
  <2>2. CASE f.minbps \notin {Absent, Junk}
    <3>1. f.minbps \in 0..Exact  BY <2>2 DEF Misread
    <3>2. f.minbps \in Numbers /\ f.minbps \in 0..Word-1 /\ f.minbps <= Exact
      BY <3>1, Widths
    <3>3. Strtoull(f.minbps) = f.minbps /\ ParseInt(f.minbps) = f.minbps
      BY <2>2, <3>2, StrtoullType, ParseIntType
    <3> QED  BY <2>2, <3>1, <3>3, Widths DEF IntValue, ActiveMinBps, MinActiveBps
  <2> QED  BY <2>1, <2>2
<1> QED  BY <1>1, <1>2, <1>3, <1>4 DEF Shown, ParamsOf, Loaded

----------------------------------------------------------------------------
(* The interface lists as chains, one link per name *)

AttachFold(h, names) ==
  h = [s \in SUBSET DOMAIN names |->
         IF s = {} THEN <<>> ELSE AddAttach(h[s \ {Max(s)}], names[Max(s)])]
ObserveAll(attach, names) == FoldLeft(LAMBDA list, name : AddObserve(attach, list, name), <<>>, names)
ObserveFold(h, attach, names) ==
  h = [s \in SUBSET DOMAIN names |->
         IF s = {} THEN <<>> ELSE AddObserve(attach, h[s \ {Max(s)}], names[Max(s)])]

LEMMA AddAttachType ==
  ASSUME NEW list \in Seq(Names), NEW name \in Names
  PROVE  AddAttach(list, name) \in Seq(Names)
BY DEF AddAttach

LEMMA AddObserveType ==
  ASSUME NEW attach, NEW list \in Seq(Names), NEW name \in Names
  PROVE  AddObserve(attach, list, name) \in Seq(Names)
BY DEF AddObserve

LEMMA AttachFoldExists ==
  ASSUME NEW names \in Seq(Names)
  PROVE  \E h : AttachFold(h, names)
<1> DEFINE n == Len(names)
           op == [p \in (1..n) \X Seq(Names) |-> AddAttach(p[2], names[p[1]])]
<1>1. n \in Nat /\ DOMAIN names = 1..n /\ \A i \in 1..n : names[i] \in Names  OBVIOUS
<1>2. \A i \in 1..n, v \in Seq(Names) : op[<<i, v>>] = AddAttach(v, names[i])  OBVIOUS
<1>b. <<>> \in Seq(Names)  OBVIOUS
<1> HIDE DEF n, op
<1>3. \A i \in 1..n, v \in Seq(Names) : op[<<i, v>>] \in Seq(Names)  BY <1>1, <1>2, AddAttachType
<1>4. PICK it : SeqFold(it, n, op, <<>>) /\ \A s \in SUBSET (1..n) : it[s] \in Seq(Names)
  BY <1>1, <1>3, <1>b, SeqFoldExists
<1>5. \A s \in SUBSET (1..n) :
        it[s] = IF s = {} THEN <<>> ELSE AddAttach(it[s \ {Max(s)}], names[Max(s)])
  <2> SUFFICES ASSUME NEW s \in SUBSET (1..n)
               PROVE  it[s] = IF s = {} THEN <<>> ELSE AddAttach(it[s \ {Max(s)}], names[Max(s)])
    OBVIOUS
  <2>1. it[s] = IF s = {} THEN <<>> ELSE op[<<Max(s), it[s \ {Max(s)}]>>]  BY <1>4 DEF SeqFold
  <2>2. ASSUME s # {} PROVE Max(s) \in 1..n /\ it[s \ {Max(s)}] \in Seq(Names)
    <3>1. s \in SUBSET (0..n) /\ s \ {Max(s)} \in SUBSET (1..n)
      <4>1. \A x \in 1..n : x \in 0..n  BY <1>1
      <4> QED  BY <4>1
    <3>2. Max(s) \in s  BY <1>1, <2>2, <3>1, MaxIsElement
    <3> QED  BY <1>4, <3>1, <3>2
  <2> QED  BY <1>2, <2>1, <2>2
<1>6. it = [s \in SUBSET (1..n) |-> it[s]]  BY <1>4 DEF SeqFold
<1> QED  BY <1>1, <1>5, <1>6 DEF AttachFold

LEMMA ObserveFoldExists ==
  ASSUME NEW attach, NEW names \in Seq(Names)
  PROVE  \E h : ObserveFold(h, attach, names)
<1> DEFINE n == Len(names)
           op == [p \in (1..n) \X Seq(Names) |-> AddObserve(attach, p[2], names[p[1]])]
<1>1. n \in Nat /\ DOMAIN names = 1..n /\ \A i \in 1..n : names[i] \in Names  OBVIOUS
<1>2. \A i \in 1..n, v \in Seq(Names) : op[<<i, v>>] = AddObserve(attach, v, names[i])  OBVIOUS
<1>b. <<>> \in Seq(Names)  OBVIOUS
<1> HIDE DEF n, op
<1>3. \A i \in 1..n, v \in Seq(Names) : op[<<i, v>>] \in Seq(Names)
  <2> SUFFICES ASSUME NEW i \in 1..n, NEW v \in Seq(Names) PROVE op[<<i, v>>] \in Seq(Names)
    OBVIOUS
  <2> QED  BY <1>1, <1>2, AddObserveType
<1>4. PICK it : SeqFold(it, n, op, <<>>) /\ \A s \in SUBSET (1..n) : it[s] \in Seq(Names)
  BY <1>1, <1>3, <1>b, SeqFoldExists
<1>5. \A s \in SUBSET (1..n) :
        it[s] = IF s = {} THEN <<>> ELSE AddObserve(attach, it[s \ {Max(s)}], names[Max(s)])
  <2> SUFFICES ASSUME NEW s \in SUBSET (1..n)
               PROVE  it[s] = IF s = {} THEN <<>> ELSE AddObserve(attach, it[s \ {Max(s)}], names[Max(s)])
    OBVIOUS
  <2>1. it[s] = IF s = {} THEN <<>> ELSE op[<<Max(s), it[s \ {Max(s)}]>>]  BY <1>4 DEF SeqFold
  <2>2. ASSUME s # {} PROVE Max(s) \in 1..n /\ it[s \ {Max(s)}] \in Seq(Names)
    <3>1. s \in SUBSET (0..n) /\ s \ {Max(s)} \in SUBSET (1..n)
      <4>1. \A x \in 1..n : x \in 0..n  BY <1>1
      <4> QED  BY <4>1
    <3>2. Max(s) \in s  BY <1>1, <2>2, <3>1, MaxIsElement
    <3> QED  BY <1>4, <3>1, <3>2
  <2> QED  BY <1>2, <2>1, <2>2
<1>6. it = [s \in SUBSET (1..n) |-> it[s]]  BY <1>4 DEF SeqFold
<1> QED  BY <1>1, <1>5, <1>6 DEF ObserveFold

AttachChain(c, names) ==
  /\ c[0] = <<>> /\ c[Len(names)] = FoldLeft(AddAttach, <<>>, names)
  /\ \A k \in 1..Len(names) : c[k] = AddAttach(c[k-1], names[k])
ObserveChain(c, attach, names) ==
  /\ c[0] = <<>> /\ c[Len(names)] = ObserveAll(attach, names)
  /\ \A k \in 1..Len(names) : c[k] = AddObserve(attach, c[k-1], names[k])

LEMMA AttachByName ==
  ASSUME NEW names \in Seq(Names)
  PROVE  \E c : AttachChain(c, names)
<1> DEFINE h == CHOOSE g : AttachFold(g, names)
           n == Len(names)
           c == [k \in 0..n |-> h[1..k]]
<1>1. AttachFold(h, names)  BY AttachFoldExists
<1>2. FoldLeft(AddAttach, <<>>, names) = h[DOMAIN names]
  BY DEF FoldLeft, MapThenFoldSet, AttachFold
<1>3. n \in Nat /\ DOMAIN names = 1..n  OBVIOUS
<1> HIDE DEF h, n
<1>4. c[0] = <<>>
  <2>1. c[0] = h[1..0] /\ 1..0 = {}  BY <1>3
  <2> QED  BY <1>1, <2>1 DEF AttachFold
<1>5. c[n] = FoldLeft(AddAttach, <<>>, names)  BY <1>2, <1>3
<1>6. ASSUME NEW k \in 1..n PROVE c[k] = AddAttach(c[k-1], names[k])
  <2>0. k \in Nat \ {0}  BY <1>3
  <2>1. Max(1..k) = k /\ (1..k) \ {k} = 1..k-1 /\ 1..k # {}  BY <2>0, MaxOfFirst
  <2>2. 1..k \in SUBSET DOMAIN names  BY <1>3
  <2>3. h[1..k] = AddAttach(h[(1..k) \ {Max(1..k)}], names[Max(1..k)])
    BY <1>1, <2>1, <2>2 DEF AttachFold
  <2>4. c[k] = h[1..k] /\ c[k-1] = h[1..k-1]  BY <1>3
  <2> QED  BY <2>1, <2>3, <2>4
<1> HIDE DEF c
<1> QED  BY <1>4, <1>5, <1>6 DEF AttachChain, n

LEMMA ObserveByName ==
  ASSUME NEW attach, NEW names \in Seq(Names)
  PROVE  \E c : ObserveChain(c, attach, names)
<1> DEFINE h == CHOOSE g : ObserveFold(g, attach, names)
           n == Len(names)
           c == [k \in 0..n |-> h[1..k]]
<1>1. ObserveFold(h, attach, names)  BY ObserveFoldExists
<1>2. ObserveAll(attach, names) = h[DOMAIN names]
  BY DEF ObserveAll, FoldLeft, MapThenFoldSet, ObserveFold
<1>3. n \in Nat /\ DOMAIN names = 1..n  OBVIOUS
<1> HIDE DEF h, n
<1>4. c[0] = <<>>
  <2>1. c[0] = h[1..0] /\ 1..0 = {}  BY <1>3
  <2> QED  BY <1>1, <2>1 DEF ObserveFold
<1>5. c[n] = ObserveAll(attach, names)  BY <1>2, <1>3
<1>6. ASSUME NEW k \in 1..n PROVE c[k] = AddObserve(attach, c[k-1], names[k])
  <2>0. k \in Nat \ {0}  BY <1>3
  <2>1. Max(1..k) = k /\ (1..k) \ {k} = 1..k-1 /\ 1..k # {}  BY <2>0, MaxOfFirst
  <2>2. 1..k \in SUBSET DOMAIN names  BY <1>3
  <2>3. h[1..k] = AddObserve(attach, h[(1..k) \ {Max(1..k)}], names[Max(1..k)])
    BY <1>1, <2>1, <2>2 DEF ObserveFold
  <2>4. c[k] = h[1..k] /\ c[k-1] = h[1..k-1]  BY <1>3
  <2> QED  BY <2>1, <2>3, <2>4
<1> HIDE DEF c
<1> QED  BY <1>4, <1>5, <1>6 DEF ObserveChain, n

----------------------------------------------------------------------------
(* What a file's lists become *)

\* Lists with room for all they hold, without a name twice.
ListOf(S) == {l \in Seq(S) : Len(l) <= Cap /\ IsInjective(l)}

LEMMA AttachKeepsList ==
  ASSUME NEW list \in ListOf(Recommended), NEW name
  PROVE  AddAttach(list, name) \in ListOf(Recommended)
<1> DEFINE adds == name \in Recommended /\ Len(list) < Cap /\ ~Contains(list, name)
<1>1. CASE ~adds  BY <1>1 DEF AddAttach
<1>2. CASE adds
  <2>1. AddAttach(list, name) = Append(list, name)  BY <1>2 DEF AddAttach
  <2>2. list \in Seq(Recommended) /\ Len(list) \in Nat /\ IsInjective(list)  BY DEF ListOf
  <2>3. \A i \in 1..Len(list) : list[i] # name  BY <1>2 DEF Contains
  <2>4. Append(list, name) \in Seq(Recommended) /\ Len(Append(list, name)) = Len(list) + 1
    BY <1>2, <2>2
  <2>5. IsInjective(Append(list, name))  BY <2>2, <2>3 DEF IsInjective
  <2>6. Len(list) + 1 <= Cap  BY <1>2, <2>2, CapAssumption
  <2> QED  BY <2>1, <2>4, <2>5, <2>6 DEF ListOf
<1> QED  BY <1>1, <1>2

LEMMA ObserveKeepsList ==
  ASSUME NEW attach, NEW list \in ListOf(Names), NEW name \in Names,
         \A i \in DOMAIN list : ~Contains(attach, list[i])
  PROVE  /\ AddObserve(attach, list, name) \in ListOf(Names)
         /\ \A i \in DOMAIN AddObserve(attach, list, name) :
              ~Contains(attach, AddObserve(attach, list, name)[i])
<1> DEFINE adds == Len(list) < Cap /\ ~Contains(attach, name) /\ ~Contains(list, name)
<1>1. CASE ~adds
  <2>1. AddObserve(attach, list, name) = list  BY <1>1 DEF AddObserve
  <2> QED  BY <2>1
<1>2. CASE adds
  <2>1. AddObserve(attach, list, name) = Append(list, name)  BY <1>2 DEF AddObserve
  <2>2. list \in Seq(Names) /\ Len(list) \in Nat /\ IsInjective(list)  BY DEF ListOf
  <2>3. \A i \in 1..Len(list) : list[i] # name  BY <1>2 DEF Contains
  <2>4. Append(list, name) \in Seq(Names) /\ Len(Append(list, name)) = Len(list) + 1
    BY <1>2, <2>2
  <2>5. IsInjective(Append(list, name))  BY <2>2, <2>3 DEF IsInjective
  <2>6. Len(list) + 1 <= Cap  BY <1>2, <2>2, CapAssumption
  <2>7. \A i \in DOMAIN Append(list, name) : ~Contains(attach, Append(list, name)[i])
    BY <1>2, <2>2
  <2> QED  BY <2>1, <2>4, <2>5, <2>6, <2>7 DEF ListOf
<1> QED  BY <1>1, <1>2

LEMMA AttachIsList ==
  ASSUME NEW names \in Seq(Names)
  PROVE  FoldLeft(AddAttach, <<>>, names) \in ListOf(Recommended)
<1> DEFINE n == Len(names)  V == [k \in 0..n |-> ListOf(Recommended)]
<1>1. PICK c : AttachChain(c, names)  BY AttachByName
<1>2. n \in Nat /\ n \in 0..n /\ \A k \in 1..n : k \in 0..n /\ k-1 \in 0..n  OBVIOUS
<1>3. <<>> \in ListOf(Recommended)  BY CapAssumption DEF ListOf, IsInjective
<1>4. ASSUME NEW k \in 1..n, c[k-1] \in V[k-1] PROVE c[k] \in V[k]
  <2>1. c[k-1] \in ListOf(Recommended)  BY <1>2, <1>4
  <2>2. c[k] = AddAttach(c[k-1], names[k])  BY <1>1 DEF AttachChain
  <2> QED  BY <1>2, <2>1, <2>2, AttachKeepsList
<1>5. c[0] \in V[0] /\ c[n] = FoldLeft(AddAttach, <<>>, names)  BY <1>1, <1>2, <1>3 DEF AttachChain
<1> HIDE DEF V, n
<1>6. \A k \in 0..n : c[k] \in V[k]  BY <1>2, <1>4, <1>5, ChainStays
<1> QED  BY <1>2, <1>5, <1>6 DEF V

LEMMA ObserveIsList ==
  ASSUME NEW attach, NEW names \in Seq(Names)
  PROVE  /\ ObserveAll(attach, names) \in ListOf(Names)
         /\ \A i \in DOMAIN ObserveAll(attach, names) : ~Contains(attach, ObserveAll(attach, names)[i])
<1> DEFINE n == Len(names)
           Apart == {l \in ListOf(Names) : \A i \in DOMAIN l : ~Contains(attach, l[i])}
           V == [k \in 0..n |-> Apart]
<1>1. PICK c : ObserveChain(c, attach, names)  BY ObserveByName
<1>2. n \in Nat /\ n \in 0..n /\ \A k \in 1..n : k \in 0..n /\ k-1 \in 0..n /\ names[k] \in Names
  OBVIOUS
<1>3. <<>> \in Apart  BY CapAssumption DEF ListOf, IsInjective
<1>4. ASSUME NEW k \in 1..n, c[k-1] \in V[k-1] PROVE c[k] \in V[k]
  <2>1. c[k-1] \in ListOf(Names) /\ \A i \in DOMAIN c[k-1] : ~Contains(attach, c[k-1][i])
    BY <1>2, <1>4
  <2>2. c[k] = AddObserve(attach, c[k-1], names[k])  BY <1>1 DEF ObserveChain
  <2>3. PICK l : l = c[k-1]  OBVIOUS
  <2>4. names[k] \in Names  BY <1>2
  <2>5. AddObserve(attach, l, names[k]) \in Apart  BY <2>1, <2>3, <2>4, ObserveKeepsList
  <2> QED  BY <1>2, <2>2, <2>3, <2>5
<1>5. c[0] \in V[0] /\ c[n] = ObserveAll(attach, names)  BY <1>1, <1>2, <1>3 DEF ObserveChain
<1> HIDE DEF V, n
<1>6. \A k \in 0..n : c[k] \in V[k]  BY <1>2, <1>4, <1>5, ChainStays
<1> QED  BY <1>2, <1>5, <1>6 DEF V

\* A configuration within the ranges the daemon's rings and divisions rely on.
SoundConfig(c) ==
  /\ c.refresh >= MinRefresh /\ c.window >= MinActiveWindow /\ c.minbps >= MinActiveBps
  /\ c.overview \in MinOverview..OverviewWindow
  /\ Len(c.attach) <= Cap /\ Len(c.observe) <= Cap
  /\ IsInjective(c.attach \o c.observe)
  /\ Range(c.attach) \subseteq Recommended

LEMMA ObserveListIs ==
  ASSUME NEW f
  PROVE  ObserveList(f) = ObserveAll(AttachList(f), f.observe)
BY DEF ObserveList, ObserveAll

LEMMA LoadedIsSound ==
  ASSUME NEW f, IsFile(f)
  PROVE  SoundConfig(Loaded(f))
<1> DEFINE a == AttachList(f)  o == ObserveList(f)
<1>1. /\ {f.window, f.minbps, f.refresh, f.overview} \subseteq Numbers
      /\ {f.ifname, f.include, f.observe} \subseteq Seq(Names)
  BY DEF IsFile
<1>2. /\ Loaded(f).refresh >= MinRefresh /\ Loaded(f).window >= MinActiveWindow
      /\ Loaded(f).minbps >= MinActiveBps /\ Loaded(f).overview \in MinOverview..OverviewWindow
  BY <1>1, OptionsInRange DEF Loaded
<1>3. a \in ListOf(Recommended)
  <2>1. f.ifname \o f.include \in Seq(Names)  BY <1>1
  <2> QED  BY <2>1, AttachIsList DEF AttachList
<1>4. o \in ListOf(Names) /\ \A i \in DOMAIN o : ~Contains(a, o[i])
  <2>1. f.observe \in Seq(Names)  BY <1>1
  <2> HIDE DEF a
  <2> QED  BY <2>1, ObserveIsList, ObserveListIs DEF a
<1>5. Loaded(f).attach = a /\ Loaded(f).observe = o  BY DEF Loaded
<1> HIDE DEF a, o
<1>6. /\ a \in Seq(Recommended) /\ o \in Seq(Names) /\ Len(a) \in Nat /\ Len(o) \in Nat
      /\ Len(a) <= Cap /\ Len(o) <= Cap
      /\ IsInjective(a) /\ IsInjective(o) /\ a \in Seq(Names)
  BY <1>3, <1>4, NamesAssumption DEF ListOf
<1>7. IsInjective(a \o o)
  <2> SUFFICES ASSUME NEW i \in DOMAIN (a \o o), NEW j \in DOMAIN (a \o o), (a \o o)[i] = (a \o o)[j]
               PROVE  i = j
    BY DEF IsInjective
  <2>1. /\ i \in 1..Len(a) + Len(o) /\ j \in 1..Len(a) + Len(o)
        /\ \A k \in 1..Len(a) + Len(o) :
             (a \o o)[k] = IF k <= Len(a) THEN a[k] ELSE o[k - Len(a)]
    BY <1>6
  <2>2. \A m \in 1..Len(a), k \in 1..Len(o) : a[m] # o[k]
    BY <1>4, <1>6 DEF Contains
  <2>3. CASE i <= Len(a) /\ j <= Len(a)  BY <1>6, <2>1, <2>3 DEF IsInjective
  <2>4. CASE i > Len(a) /\ j > Len(a)
    <3>1. i - Len(a) \in DOMAIN o /\ j - Len(a) \in DOMAIN o  BY <1>6, <2>1, <2>4
    <3>2. o[i - Len(a)] = o[j - Len(a)]  BY <1>6, <2>1, <2>4
    <3>3. i - Len(a) = j - Len(a)  BY <1>6, <3>1, <3>2 DEF IsInjective
    <3> QED  BY <1>6, <2>1, <3>3
  <2>5. CASE i <= Len(a) /\ j > Len(a)
    <3>1. i \in 1..Len(a) /\ j - Len(a) \in 1..Len(o)  BY <1>6, <2>1, <2>5
    <3> QED  BY <1>6, <2>1, <2>2, <2>5, <3>1
  <2>6. CASE i > Len(a) /\ j <= Len(a)
    <3>1. j \in 1..Len(a) /\ i - Len(a) \in 1..Len(o)  BY <1>6, <2>1, <2>6
    <3> QED  BY <1>6, <2>1, <2>2, <2>6, <3>1
  <2> QED  BY <1>6, <2>1, <2>3, <2>4, <2>5, <2>6
<1>8. Range(a) \subseteq Recommended  BY <1>6 DEF Range
<1> QED  BY <1>2, <1>5, <1>6, <1>7, <1>8 DEF SoundConfig

----------------------------------------------------------------------------
(* What the interface form selects comes back *)

LEMMA SetInASequence ==
  ASSUME NEW S, IsFiniteSet(S)
  PROVE  SetToSeq(S) \in Seq(S) /\ IsInjective(SetToSeq(S))
<1>1. ExistsBijection(1..Cardinality(S), S) /\ Cardinality(S) \in Nat
  BY FS_CardinalityType
<1>2. \E f \in [1..Cardinality(S) -> S] : IsInjective(f)
  BY <1>1 DEF ExistsBijection, Bijection, Injection, Surjection, IsInjective
<1>3. SetToSeq(S) \in [1..Cardinality(S) -> S] /\ IsInjective(SetToSeq(S))
  BY <1>2 DEF SetToSeq
<1> QED  BY <1>1, <1>3

\* The lists a form makes of a selection.
FormLists ==
  {l \in [ifname : Seq(Recommended), include : Seq(Recommended), observe : Seq(Names)] :
     /\ l.include = l.ifname /\ IsInjective(l.ifname) /\ IsInjective(l.observe)
     /\ \A i \in DOMAIN l.observe : ~Contains(l.ifname, l.observe[i])}

LEMMA FormListsType ==
  ASSUME NEW sel, IsFiniteSet(DOMAIN sel), DOMAIN sel \subseteq Names
  PROVE  ListsOf(sel) \in FormLists
<1> DEFINE C == {d \in DOMAIN sel \intersect Recommended : sel[d] = "collect"}
           O == {d \in DOMAIN sel : sel[d] = "observe"}
           c == SetToSeq(C)  o == SetToSeq(O)
<1>1. C \subseteq DOMAIN sel /\ O \subseteq DOMAIN sel /\ C \subseteq Recommended /\ O \subseteq Names
      /\ \A x \in C, y \in O : x # y
  OBVIOUS
<1>2. ListsOf(sel) = [ifname |-> c, include |-> c, observe |-> o]  BY DEF ListsOf
<1> HIDE DEF C, O
<1>3. IsFiniteSet(C) /\ IsFiniteSet(O)  BY <1>1, FS_Subset
<1>4. c \in Seq(C) /\ IsInjective(c) /\ o \in Seq(O) /\ IsInjective(o)  BY <1>3, SetInASequence
<1> HIDE DEF c, o
<1>5. c \in Seq(Recommended) /\ o \in Seq(Names)  BY <1>1, <1>4
<1>6. \A i \in DOMAIN o : ~Contains(c, o[i])  BY <1>1, <1>4 DEF Contains
<1> QED  BY <1>2, <1>4, <1>5, <1>6 DEF FormLists

LEMMA FirstOfSequence ==
  ASSUME NEW S, NEW s \in Seq(S), NEW k \in 1..Len(s)
  PROVE  Append(SubSeq(s, 1, k-1), s[k]) = SubSeq(s, 1, k)
<1> DEFINE a == SubSeq(s, 1, k-1)  b == SubSeq(s, 1, k)
<1>1. k \in Nat \ {0} /\ k <= Len(s) /\ Len(s) \in Nat /\ \A j \in 1..Len(s) : s[j] \in S  OBVIOUS
<1>2. a \in Seq(S) /\ Len(a) = k-1 /\ \A j \in 1..k-1 : a[j] = s[j]  BY <1>1
<1>3. b \in Seq(S) /\ Len(b) = k /\ \A j \in 1..k : b[j] = s[j]  BY <1>1
<1> HIDE DEF a, b
<1>4. Append(a, s[k]) \in Seq(S) /\ Len(Append(a, s[k])) = k  BY <1>1, <1>2
<1>5. \A j \in 1..k : Append(a, s[k])[j] = b[j]  BY <1>1, <1>2, <1>3
<1>6. Append(a, s[k]) = b  BY <1>1, <1>3, <1>4, <1>5
<1> QED  BY <1>6 DEF a, b

LEMMA AttachOfItself ==
  ASSUME NEW l \in ListOf(Recommended)
  PROVE  FoldLeft(AddAttach, <<>>, l \o l) = l
<1> DEFINE n == Len(l)  names == l \o l
           First(k) == IF k < n THEN SubSeq(l, 1, k) ELSE l
           V == [k \in 0..n+n |-> {First(k)}]
<1>1. /\ l \in Seq(Recommended) /\ l \in Seq(Names) /\ n \in Nat /\ n <= Cap /\ IsInjective(l)
      /\ \A k \in 1..n : l[k] \in Recommended
  BY NamesAssumption DEF ListOf
<1>2. /\ names \in Seq(Names) /\ Len(names) = n + n
      /\ \A k \in 1..n+n : names[k] = IF k <= n THEN l[k] ELSE l[k-n]
  BY <1>1
<1>3. PICK c : AttachChain(c, names)  BY <1>2, AttachByName
<1>4. SubSeq(l, 1, 0) = <<>> /\ SubSeq(l, 1, n) = l  BY <1>1
<1>5. ASSUME NEW k \in 1..n+n, c[k-1] = First(k-1) PROVE c[k] = First(k)
  <2>1. c[k] = AddAttach(First(k-1), names[k])  BY <1>2, <1>3, <1>5 DEF AttachChain
  <2>2. CASE k <= n
    <3>1. names[k] = l[k] /\ First(k-1) = SubSeq(l, 1, k-1) /\ First(k) = SubSeq(l, 1, k) /\ k \in 1..n
      BY <1>1, <1>2, <1>4, <2>2
    <3> DEFINE a == SubSeq(l, 1, k-1)
    <3>2. Len(a) = k-1 /\ \A j \in 1..k-1 : a[j] = l[j]  BY <1>1, <3>1
    <3>3. Append(a, l[k]) = SubSeq(l, 1, k)  BY <1>1, <3>1, FirstOfSequence
    <3> HIDE DEF a, n, First
    <3>4. ~Contains(a, l[k])  BY <1>1, <3>1, <3>2 DEF Contains, IsInjective, n
    <3>5. l[k] \in Recommended /\ Len(a) < Cap  BY <1>1, <3>1, <3>2, CapAssumption
    <3>6. AddAttach(a, l[k]) = Append(a, l[k])  BY <3>4, <3>5 DEF AddAttach
    <3> QED  BY <2>1, <3>1, <3>3, <3>6 DEF a
  <2>3. CASE k > n
    <3>1. names[k] = l[k-n] /\ First(k) = l /\ k-n \in 1..n /\ k-1 >= n  BY <1>1, <1>2, <2>3
    <3>2. First(k-1) = l  BY <1>1, <3>1
    <3>3. Contains(l, l[k-n])  BY <3>1 DEF Contains
    <3>4. AddAttach(l, l[k-n]) = l  BY <3>3 DEF AddAttach
    <3> HIDE DEF First
    <3> QED  BY <2>1, <3>1, <3>2, <3>4
  <2> QED  BY <1>1, <2>2, <2>3
<1>6. c[0] = First(0) /\ c[n+n] = FoldLeft(AddAttach, <<>>, names) /\ First(n+n) = l
  <2>1. c[0] = <<>> /\ c[Len(names)] = FoldLeft(AddAttach, <<>>, names)  BY <1>3 DEF AttachChain
  <2>2. First(0) = <<>>
    <3>1. CASE n = 0  BY <1>4, <3>1
    <3>2. CASE n # 0  BY <1>1, <1>4, <3>2
    <3> QED  BY <3>1, <3>2
  <2>3. First(n+n) = l  BY <1>1
  <2> HIDE DEF First, n, names
  <2> QED  BY <1>2, <2>1, <2>2, <2>3
<1>7. n+n \in Nat /\ 0 \in 0..n+n /\ n+n \in 0..n+n /\ \A k \in 1..n+n : k \in 0..n+n /\ k-1 \in 0..n+n
  BY <1>1
<1> HIDE DEF First, n
<1>8. \A k \in 0..n+n : V[k] = {First(k)}  OBVIOUS
<1> HIDE DEF V
<1>9. \A k \in 1..n+n : c[k-1] \in V[k-1] => c[k] \in V[k]  BY <1>5, <1>7, <1>8
<1>10. c[0] \in V[0]  BY <1>6, <1>7, <1>8
<1>11. \A k \in 0..n+n : c[k] \in V[k]  BY <1>7, <1>9, <1>10, ChainStays
<1>12. c[n+n] \in V[n+n]  BY <1>7, <1>11
<1> QED  BY <1>6, <1>7, <1>8, <1>12

LEMMA ObserveOfItself ==
  ASSUME NEW attach, NEW l \in ListOf(Names), \A i \in DOMAIN l : ~Contains(attach, l[i])
  PROVE  ObserveAll(attach, l) = l
<1> DEFINE n == Len(l)
           First(k) == SubSeq(l, 1, k)
           V == [k \in 0..n |-> {First(k)}]
<1>1. l \in Seq(Names) /\ n \in Nat /\ n <= Cap /\ IsInjective(l)  BY DEF ListOf
<1>2. PICK c : ObserveChain(c, attach, l)  BY <1>1, ObserveByName
<1>3. First(0) = <<>> /\ First(n) = l  BY <1>1
<1>4. ASSUME NEW k \in 1..n, c[k-1] = First(k-1) PROVE c[k] = First(k)
  <2>1. c[k] = AddObserve(attach, First(k-1), l[k])  BY <1>2, <1>4 DEF ObserveChain
  <2> DEFINE a == First(k-1)
  <2>2. Len(a) = k-1 /\ \A j \in 1..k-1 : a[j] = l[j]  BY <1>1
  <2>3. Append(a, l[k]) = First(k)  BY <1>1, FirstOfSequence
  <2> HIDE DEF a, First
  <2>4. ~Contains(a, l[k])  BY <1>1, <2>2 DEF Contains, IsInjective
  <2>5. Len(a) < Cap /\ ~Contains(attach, l[k])  BY <1>1, <2>2, CapAssumption
  <2>6. AddObserve(attach, a, l[k]) = Append(a, l[k])  BY <2>4, <2>5 DEF AddObserve
  <2> QED  BY <2>1, <2>3, <2>6 DEF a
<1>5. c[0] = First(0) /\ c[n] = ObserveAll(attach, l)  BY <1>2, <1>3 DEF ObserveChain
<1>6. 0 \in 0..n /\ n \in 0..n /\ \A k \in 1..n : k \in 0..n /\ k-1 \in 0..n  BY <1>1
<1> HIDE DEF First, n
<1>7. \A k \in 0..n : V[k] = {First(k)}  OBVIOUS
<1> HIDE DEF V
<1>8. \A k \in 1..n : c[k-1] \in V[k-1] => c[k] \in V[k]  BY <1>4, <1>6, <1>7
<1>9. c[0] \in V[0]  BY <1>5, <1>6, <1>7
<1>10. \A k \in 0..n : c[k] \in V[k]  BY <1>1, <1>8, <1>9, ChainStays
<1>11. c[n] \in V[n]  BY <1>6, <1>10
<1> QED  BY <1>3, <1>5, <1>6, <1>7, <1>11

\* A daemon started on the lists of a form collects on and observes just these.
LEMMA FormListsLoaded ==
  ASSUME NEW l \in FormLists, Len(l.ifname) <= Cap, Len(l.observe) <= Cap,
         NEW f, f.ifname = l.ifname, f.include = l.include, f.observe = l.observe
  PROVE  Loaded(f).attach = l.ifname /\ Loaded(f).observe = l.observe
<1> DEFINE a == l.ifname  o == l.observe
<1>1. /\ a \in ListOf(Recommended) /\ o \in ListOf(Names) /\ f.ifname = a /\ f.include = a /\ f.observe = o
      /\ \A i \in DOMAIN o : ~Contains(a, o[i])
  BY DEF FormLists, ListOf
<1> HIDE DEF a, o
<1>2. AttachList(f) = a  BY <1>1, AttachOfItself DEF AttachList
<1>3. ObserveList(f) = o  BY <1>1, <1>2, ObserveOfItself, ObserveListIs
<1> QED  BY <1>2, <1>3 DEF Loaded, a, o

----------------------------------------------------------------------------
(* Changes: those of a form are staged, and committed, together *)

\* Options that say v, or l; and changes that leave such options alone.
Carries(c, v) ==
  /\ ParamOptions \subseteq DOMAIN c
  /\ c.rate = v.rate /\ c.conn = v.conn
  /\ c.window \in Texts(v.window) /\ c.minbps \in Texts(v.minbps)
CarriesLists(c, l) ==
  /\ ListOptions \subseteq DOMAIN c
  /\ c.ifname = l.ifname /\ c.include = l.include /\ c.observe = l.observe
SparesParams(c) == ParamOptions \intersect DOMAIN c = {}
SparesLists(c) == ListOptions \intersect DOMAIN c = {}

\* What rpcd may hold for a session, with L for the lists.
IsChange(c, L) ==
  /\ DOMAIN c \subseteq ParamOptions \union ListOptions
  /\ SparesParams(c) \/ \E v \in FormValues : Carries(c, v)
  /\ SparesLists(c) \/ \E l \in L : CarriesLists(c, l)

LEMMA OverlayParams ==
  ASSUME NEW c, NEW f, NEW v
  PROVE  /\ Carries(c, v) => Carries(Overlay(c, f), v)
         /\ SparesParams(c) /\ Carries(f, v) => Carries(Overlay(c, f), v)
         /\ SparesParams(c) /\ SparesParams(f) => SparesParams(Overlay(c, f))
BY DEF Carries, SparesParams, ParamOptions, Overlay

LEMMA OverlayLists ==
  ASSUME NEW c, NEW f, NEW l
  PROVE  /\ CarriesLists(c, l) => CarriesLists(Overlay(c, f), l)
         /\ SparesLists(c) /\ CarriesLists(f, l) => CarriesLists(Overlay(c, f), l)
         /\ SparesLists(c) /\ SparesLists(f) => SparesLists(Overlay(c, f))
BY DEF CarriesLists, SparesLists, ListOptions, Overlay

LEMMA OverlayIsChange ==
  ASSUME NEW L, NEW c, IsChange(c, L), NEW d, IsChange(d, L)
  PROVE  IsChange(Overlay(c, d), L)
<1>1. DOMAIN Overlay(c, d) \subseteq ParamOptions \union ListOptions  BY DEF IsChange, Overlay
<1>2. SparesParams(Overlay(c, d)) \/ \E v \in FormValues : Carries(Overlay(c, d), v)
  <2>1. CASE \E v \in FormValues : Carries(c, v)  BY <2>1, OverlayParams
  <2>2. CASE SparesParams(c) /\ \E v \in FormValues : Carries(d, v)  BY <2>2, OverlayParams
  <2>3. CASE SparesParams(c) /\ SparesParams(d)  BY <2>3, OverlayParams
  <2> QED  BY <2>1, <2>2, <2>3 DEF IsChange
<1>3. SparesLists(Overlay(c, d)) \/ \E l \in L : CarriesLists(Overlay(c, d), l)
  <2>1. CASE \E l \in L : CarriesLists(c, l)  BY <2>1, OverlayLists
  <2>2. CASE SparesLists(c) /\ \E l \in L : CarriesLists(d, l)  BY <2>2, OverlayLists
  <2>3. CASE SparesLists(c) /\ SparesLists(d)  BY <2>3, OverlayLists
  <2> QED  BY <2>1, <2>2, <2>3 DEF IsChange
<1> QED  BY <1>1, <1>2, <1>3 DEF IsChange

LEMMA NoChangeIs ==
  ASSUME NEW L
  PROVE  IsChange(NoChange, L) /\ SparesParams(NoChange) /\ SparesLists(NoChange)
<1>1. DOMAIN NoChange = {}  BY DEF NoChange
<1> QED  BY <1>1 DEF IsChange, SparesParams, SparesLists

LEMMA SavedIsChange ==
  ASSUME NEW L, NEW v \in FormValues, NEW c \in SavedOptions(v)
  PROVE  IsChange(c, L) /\ Carries(c, v) /\ SparesLists(c)
<1>1. DOMAIN c = ParamOptions  BY DEF SavedOptions, ParamOptions
<1>2. Carries(c, v)  BY <1>1 DEF Carries, SavedOptions
<1>3. SparesLists(c)  BY <1>1 DEF SparesLists, ParamOptions, ListOptions
<1> QED  BY <1>1, <1>2, <1>3 DEF IsChange

LEMMA ListsAreChange ==
  ASSUME NEW L, NEW l \in L, L \subseteq FormLists
  PROVE  IsChange(l, L) /\ CarriesLists(l, l) /\ SparesParams(l)
<1>1. DOMAIN l = ListOptions  BY DEF FormLists, ListOptions
<1>2. CarriesLists(l, l)  BY <1>1 DEF CarriesLists
<1>3. SparesParams(l)  BY <1>1 DEF SparesParams, ParamOptions, ListOptions
<1> QED  BY <1>1, <1>2, <1>3 DEF IsChange

LEMMA NoListsAreOfForm == NoLists \in FormLists
BY DEF NoLists, FormLists, IsInjective

LEMMA OverlayIsFile ==
  ASSUME NEW L, L \subseteq FormLists, NEW f, IsFile(f), NEW c, IsChange(c, L)
  PROVE  IsFile(Overlay(c, f))
<1> DEFINE g == Overlay(c, f)
           All == ParamOptions \union ListOptions \union {"refresh", "overview"}
<1>1. All \subseteq DOMAIN f /\ DOMAIN g = DOMAIN f \union DOMAIN c  BY DEF IsFile, Overlay
<1>2. g.refresh = f.refresh /\ g.overview = f.overview
  BY DEF IsChange, ParamOptions, ListOptions, Overlay, IsFile
<1>3. {g.window, g.minbps} \subseteq Numbers
  <2>1. CASE SparesParams(c)
    <3>1. g.window = f.window /\ g.minbps = f.minbps
      BY <2>1 DEF SparesParams, ParamOptions, Overlay, IsFile
    <3> QED  BY <3>1 DEF IsFile
  <2>2. CASE \E v \in FormValues : Carries(c, v)
    <3>1. PICK v \in FormValues : Carries(c, v)  BY <2>2
    <3>2. Carries(g, v)  BY <3>1, OverlayParams
    <3>3. v.window \in Nat /\ v.minbps \in Nat  BY DEF FormValues, MinActiveWindow, MinActiveBps
    <3> QED  BY <3>2, <3>3, TextsRead DEF Carries
  <2> QED  BY <2>1, <2>2 DEF IsChange
<1>4. {g.ifname, g.include, g.observe} \subseteq Seq(Names)
  <2>1. CASE SparesLists(c)
    <3>1. g.ifname = f.ifname /\ g.include = f.include /\ g.observe = f.observe
      BY <2>1 DEF SparesLists, ListOptions, Overlay, IsFile
    <3> QED  BY <3>1 DEF IsFile
  <2>2. CASE \E l \in L : CarriesLists(c, l)
    <3>1. PICK l \in L : CarriesLists(c, l)  BY <2>2
    <3>2. CarriesLists(g, l)  BY <3>1, OverlayLists
    <3>3. l.ifname \in Seq(Names) /\ l.include \in Seq(Names) /\ l.observe \in Seq(Names)
      <4>1. l.ifname \in Seq(Recommended) /\ l.include \in Seq(Recommended) /\ l.observe \in Seq(Names)
        BY DEF FormLists
      <4> QED  BY <4>1, NamesAssumption
    <3> QED  BY <3>2, <3>3 DEF CarriesLists
  <2> QED  BY <2>1, <2>2 DEF IsChange
<1> QED  BY <1>1, <1>2, <1>3, <1>4 DEF IsFile

----------------------------------------------------------------------------
(* The inductive invariant: what is staged, and the daemon *)

Results == {"none", "saving", "failed", "applied"}
ParamsForms == [pc : {"idle", "set", "commit", "reload"}, values : FormValues, result : Results]
IfacesForms ==
  [pc : {"idle", "delete", "set", "commit", "reload", "wait"}, lists : FormLists, result : Results]
Chosen == chosen \union {NoLists}

TypeInv ==
  /\ DOMAIN staged = Sessions /\ \A s \in Sessions : IsChange(staged[s], Chosen)
  /\ params \in [Sessions -> ParamsForms] /\ ifaces \in [Sessions -> IfacesForms]
  /\ chosen \subseteq FormLists \ {NoLists}
  /\ \A s \in Sessions : ifaces[s].pc # "idle" \/ ifaces[s].result = "applied" => ifaces[s].lists \in chosen

\* The daemon is what the file made of it, unless procd has yet to reload it.
DaemonInv ==
  /\ IsFile(file) /\ SoundConfig(conf)
  /\ up /\ ~trigger => conf = Loaded(file)

LEMMA TypeInit == Init => TypeInv /\ DaemonInv
<1> SUFFICES ASSUME Init PROVE TypeInv /\ DaemonInv
  OBVIOUS
<1>1. IsFile(file)  BY FilesAssumption DEF Init
<1>2. DaemonInv  BY <1>1, LoadedIsSound DEF Init, DaemonInv
<1>3. Shown(file) \in FormValues
  <2>1. {file.window, file.minbps} \subseteq Numbers  BY <1>1 DEF IsFile
  <2>2. /\ IntValue(file.window, Defaults.window, MinActiveWindow) \in {n \in Int : n >= MinActiveWindow}
        /\ IntValue(file.minbps, Defaults.minbps, MinActiveBps) \in {n \in Int : n >= MinActiveBps}
    BY <2>1, IntValueType DEF Defaults, MinActiveWindow, MinActiveBps
  <2>3. ShownRate(file) \in RateModes /\ ShownConn(file) \in ConnModes
    BY DEF ShownRate, ShownConn, RateModeValue, ConnModeValue, RateModes, ConnModes, Defaults
  <2> QED  BY <2>2, <2>3 DEF Shown, FormValues
<1>4. params \in [Sessions -> ParamsForms]  BY <1>3 DEF Init, ParamsForms, Results
<1>5. ifaces \in [Sessions -> IfacesForms] /\ \A s \in Sessions : ifaces[s].pc = "idle" /\ ifaces[s].result = "none"
  BY NoListsAreOfForm DEF Init, IfacesForms, Results
<1>6. DOMAIN staged = Sessions /\ \A s \in Sessions : IsChange(staged[s], Chosen)
  BY NoChangeIs DEF Init
<1> QED  BY <1>2, <1>4, <1>5, <1>6 DEF TypeInv, Init

\* A change that a session stages.
LEMMA SetKeepsType ==
  ASSUME TypeInv, NEW s \in Sessions, NEW c, IsChange(c, Chosen), UciSet(s, c), chosen' = chosen
  PROVE  DOMAIN staged' = Sessions /\ \A t \in Sessions : IsChange(staged'[t], Chosen')
<1>1. staged' = [staged EXCEPT ![s] = Overlay(c, staged[s])] /\ Chosen' = Chosen
  BY DEF UciSet, Chosen
<1>2. IsChange(staged[s], Chosen)  BY DEF TypeInv
<1>3. PICK L : L = Chosen  OBVIOUS
<1>4. PICK d : d = staged[s]  OBVIOUS
<1>5. IsChange(Overlay(c, d), L)  BY <1>2, <1>3, <1>4, OverlayIsChange
<1> QED  BY <1>1, <1>3, <1>4, <1>5 DEF TypeInv

LEMMA CommitKeepsType ==
  ASSUME TypeInv, NEW s \in Sessions, UciCommit(s), chosen' = chosen
  PROVE  DOMAIN staged' = Sessions /\ \A t \in Sessions : IsChange(staged'[t], Chosen')
<1>1. staged' = [staged EXCEPT ![s] = NoChange] /\ Chosen' = Chosen
  BY DEF UciCommit, Chosen
<1>2. PICK L : L = Chosen  OBVIOUS
<1>3. IsChange(NoChange, L)  BY NoChangeIs
<1> QED  BY <1>1, <1>2, <1>3 DEF TypeInv

\* What a step does to rpcd: nothing, or a set or a commit of session s.
RpcdKept == UNCHANGED <<file, staged, writer>>
RpcdSetParams(s) == \E c \in SavedOptions(params[s].values) : UciSet(s, c)
RpcdSetLists(s, l) == l \in Chosen /\ UciSet(s, l)

LEMMA RpcdKeepsType ==
  ASSUME TypeInv, chosen' = chosen,
         RpcdKept \/ \E s \in Sessions : UciCommit(s) \/ RpcdSetParams(s) \/ \E l : RpcdSetLists(s, l)
  PROVE  DOMAIN staged' = Sessions /\ \A t \in Sessions : IsChange(staged'[t], Chosen')
<1>1. CASE RpcdKept  BY <1>1 DEF RpcdKept, TypeInv, Chosen
<1>2. ASSUME NEW s \in Sessions, UciCommit(s)
      PROVE  DOMAIN staged' = Sessions /\ \A t \in Sessions : IsChange(staged'[t], Chosen')
  BY <1>2, CommitKeepsType
<1>3. ASSUME NEW s \in Sessions, RpcdSetParams(s)
      PROVE  DOMAIN staged' = Sessions /\ \A t \in Sessions : IsChange(staged'[t], Chosen')
  <2>1. PICK v \in FormValues : v = params[s].values  BY DEF TypeInv, ParamsForms
  <2>2. PICK L : L = Chosen  OBVIOUS
  <2>3. PICK c \in SavedOptions(v) : UciSet(s, c)  BY <1>3, <2>1 DEF RpcdSetParams
  <2>4. IsChange(c, L)  BY SavedIsChange
  <2> QED  BY <2>2, <2>3, <2>4, SetKeepsType
<1>4. ASSUME NEW s \in Sessions, NEW l, RpcdSetLists(s, l)
      PROVE  DOMAIN staged' = Sessions /\ \A t \in Sessions : IsChange(staged'[t], Chosen')
  <2>1. PICK L : L = Chosen  OBVIOUS
  <2>2. L \subseteq FormLists  BY <2>1, NoListsAreOfForm DEF TypeInv, Chosen
  <2>3. IsChange(l, L)  BY <1>4, <2>1, <2>2, ListsAreChange DEF RpcdSetLists
  <2> QED  BY <1>4, <2>1, <2>3, SetKeepsType DEF RpcdSetLists
<1> QED  BY <1>1, <1>2, <1>3, <1>4

\* What it does to the daemon.
DaemonStep ==
  \/ UNCHANGED daemon /\ (trigger' = trigger \/ trigger')
  \/ Reload
  \/ DaemonStart

LEMMA RpcdKeepsFile ==
  ASSUME TypeInv, DaemonInv,
         RpcdKept \/ \E s \in Sessions : UciCommit(s) \/ RpcdSetParams(s) \/ \E l : RpcdSetLists(s, l)
  PROVE  IsFile(file') /\ (file' = file \/ trigger')
<1>1. CASE file' = file  BY <1>1 DEF DaemonInv
<1>2. ASSUME NEW s \in Sessions, UciCommit(s) PROVE IsFile(file') /\ trigger'
  <2>1. PICK L : L = Chosen  OBVIOUS
  <2>2. L \subseteq FormLists  BY <2>1, NoListsAreOfForm DEF TypeInv, Chosen
  <2>3. IsChange(staged[s], L) /\ IsFile(file)  BY <2>1 DEF TypeInv, DaemonInv
  <2>4. IsFile(Overlay(staged[s], file))  BY <2>2, <2>3, OverlayIsFile
  <2> QED  BY <1>2, <2>4 DEF UciCommit, ReloadOnChange
<1> QED  BY <1>1, <1>2 DEF RpcdKept, RpcdSetParams, RpcdSetLists, UciSet

Effect == RpcdKept \/ \E s \in Sessions : UciCommit(s) \/ RpcdSetParams(s) \/ \E l : RpcdSetLists(s, l)

\* The steps of the two forms, and all others.
Others ==
  /\ UNCHANGED <<params, ifaces, chosen>> /\ RpcdKept
  /\ DaemonStep

LEMMA OtherSteps ==
  ASSUME TriggerReload \/ DaemonStart \/ UNCHANGED vars \/ \E s \in Sessions : Scan(s)
  PROVE  Others
<1>1. CASE TriggerReload  BY <1>1 DEF TriggerReload, Others, RpcdKept, DaemonStep
<1>2. CASE DaemonStart  BY <1>2 DEF DaemonStart, Others, RpcdKept, DaemonStep, rpcd
<1>3. CASE UNCHANGED vars  BY <1>3 DEF vars, Others, RpcdKept, DaemonStep, daemon
<1>4. CASE \E s \in Sessions : Scan(s)
  BY <1>4 DEF Scan, Others, RpcdKept, DaemonStep, rpcd
<1> QED  BY <1>1, <1>2, <1>3, <1>4

LEMMA CommitTriggers ==
  ASSUME NEW s, UciCommit(s)
  PROVE  trigger'
BY DEF UciCommit, ReloadOnChange

LEMMA ParamsEffect ==
  ASSUME TypeInv, NEW s \in Sessions, ParamsStep(s)
  PROVE  /\ RpcdKept \/ RpcdSetParams(s) \/ UciCommit(s)
         /\ UNCHANGED <<ifaces, chosen>> /\ DaemonStep
         /\ params' \in [Sessions -> ParamsForms]
         /\ \A t \in Sessions : t # s => params'[t] = params[t]
<1>1. CASE ParamsSet(s)
  <2>1. RpcdKept \/ RpcdSetParams(s)
    BY <1>1 DEF ParamsSet, RpcdKept, RpcdSetParams, rpcd
  <2>2. UNCHANGED <<ifaces, chosen, daemon, trigger>>
    BY <1>1 DEF ParamsSet, ParamsGo, ParamsEnd, UciSet, rpcd
  <2>3. params' = [params EXCEPT ![s].pc = "commit"]
        \/ params' = [params EXCEPT ![s].pc = "idle", ![s].result = "failed"]
    BY <1>1 DEF ParamsSet, ParamsGo, ParamsEnd
  <2>4. params' \in [Sessions -> ParamsForms] /\ \A t \in Sessions : t # s => params'[t] = params[t]
    BY <2>3 DEF TypeInv, ParamsForms, Results
  <2> QED  BY <2>1, <2>2, <2>4 DEF DaemonStep
<1>2. CASE ParamsCommit(s)
  <2>1. RpcdKept \/ UciCommit(s)
    BY <1>2 DEF ParamsCommit, RpcdKept, rpcd
  <2>2. UNCHANGED <<ifaces, chosen, daemon>> /\ (trigger' = trigger \/ trigger')
    BY <1>2, CommitTriggers DEF ParamsCommit, ParamsGo, ParamsEnd, rpcd
  <2>3. params' = [params EXCEPT ![s].pc = "reload"]
        \/ params' = [params EXCEPT ![s].pc = "idle", ![s].result = "failed"]
    BY <1>2 DEF ParamsCommit, ParamsGo, ParamsEnd
  <2>4. params' \in [Sessions -> ParamsForms] /\ \A t \in Sessions : t # s => params'[t] = params[t]
    BY <2>3 DEF TypeInv, ParamsForms, Results
  <2> QED  BY <2>1, <2>2, <2>4 DEF DaemonStep
<1>3. CASE ParamsReload(s)
  <2>1. RpcdKept /\ UNCHANGED <<ifaces, chosen>> /\ DaemonStep
    BY <1>3 DEF ParamsReload, ParamsEnd, RpcdKept, DaemonStep, rpcd
  <2>2. \/ params' = [params EXCEPT ![s].pc = "idle", ![s].result = "applied"]
        \/ params' = [params EXCEPT ![s].pc = "idle", ![s].result = "failed"]
    BY <1>3 DEF ParamsReload, ParamsEnd
  <2>3. params' \in [Sessions -> ParamsForms] /\ \A t \in Sessions : t # s => params'[t] = params[t]
    BY <2>2 DEF TypeInv, ParamsForms, Results
  <2> QED  BY <2>1, <2>3
<1> QED  BY <1>1, <1>2, <1>3 DEF ParamsStep

IfacesSets(s) == \E l \in {NoLists, ifaces[s].lists} : RpcdSetLists(s, l)

LEMMA IfacesEffect ==
  ASSUME TypeInv, NEW s \in Sessions, IfacesStep(s)
  PROVE  /\ RpcdKept \/ IfacesSets(s) \/ UciCommit(s)
         /\ UNCHANGED <<params, chosen>> /\ DaemonStep
         /\ ifaces' \in [Sessions -> IfacesForms] /\ \A t \in Sessions : ifaces'[t].lists = ifaces[t].lists
         /\ \A t \in Sessions : t # s => ifaces'[t] = ifaces[t]
         /\ ifaces[s].pc # "idle"
<1> USE DEF TypeInv, IfacesForms, Results
<1>0. NoLists \in Chosen /\ (ifaces[s].pc # "idle" => ifaces[s].lists \in Chosen)  BY DEF Chosen
<1>1. CASE IfacesDelete(s)
  <2>1. RpcdKept \/ UciSet(s, NoLists)
    BY <1>1 DEF IfacesDelete, RpcdKept, rpcd
  <2>2. UNCHANGED <<params, chosen, daemon, trigger>>
    BY <1>1 DEF IfacesDelete, IfacesGo, UciSet, rpcd
  <2>3. ifaces' = [ifaces EXCEPT ![s].pc = "set"] /\ ifaces[s].pc # "idle"
    BY <1>1 DEF IfacesDelete, IfacesGo, IfacesAt
  <2> QED  BY <1>0, <2>1, <2>2, <2>3 DEF DaemonStep, IfacesSets, RpcdSetLists
<1>2. CASE IfacesSet(s)
  <2>1. RpcdKept \/ UciSet(s, ifaces[s].lists)
    BY <1>2 DEF IfacesSet, RpcdKept, rpcd
  <2>2. UNCHANGED <<params, chosen, daemon, trigger>>
    BY <1>2 DEF IfacesSet, IfacesGo, IfacesEnd, UciSet, rpcd
  <2>3. (\/ ifaces' = [ifaces EXCEPT ![s].pc = "commit"]
         \/ ifaces' = [ifaces EXCEPT ![s].pc = "idle", ![s].result = "failed"]) /\ ifaces[s].pc # "idle"
    BY <1>2 DEF IfacesSet, IfacesGo, IfacesEnd, IfacesAt
  <2>4. ifaces[s].lists \in Chosen  BY <1>0, <2>3
  <2> QED  BY <2>1, <2>2, <2>3, <2>4 DEF DaemonStep, IfacesSets, RpcdSetLists
<1>3. CASE IfacesCommit(s)
  <2>1. RpcdKept \/ UciCommit(s)
    BY <1>3 DEF IfacesCommit, RpcdKept, rpcd
  <2>2. UNCHANGED <<params, chosen, daemon>> /\ (trigger' = trigger \/ trigger')
    BY <1>3, CommitTriggers DEF IfacesCommit, IfacesGo, IfacesEnd, rpcd
  <2>3. (\/ ifaces' = [ifaces EXCEPT ![s].pc = "reload"]
         \/ ifaces' = [ifaces EXCEPT ![s].pc = "idle", ![s].result = "failed"]) /\ ifaces[s].pc # "idle"
    BY <1>3 DEF IfacesCommit, IfacesGo, IfacesEnd, IfacesAt
  <2> QED  BY <2>1, <2>2, <2>3 DEF DaemonStep
<1>4. CASE IfacesReload(s)
  <2>1. RpcdKept /\ UNCHANGED <<params, chosen>> /\ DaemonStep
    BY <1>4 DEF IfacesReload, IfacesGo, RpcdKept, DaemonStep, rpcd
  <2>2. ifaces' = [ifaces EXCEPT ![s].pc = "wait"] /\ ifaces[s].pc # "idle"
    BY <1>4 DEF IfacesReload, IfacesGo, IfacesAt
  <2> QED  BY <2>1, <2>2
<1>5. CASE IfacesDone(s)
  <2>1. RpcdKept /\ UNCHANGED <<params, chosen>> /\ DaemonStep
    BY <1>5 DEF IfacesDone, IfacesEnd, RpcdKept, DaemonStep, rpcd
  <2>2. ifaces' = [ifaces EXCEPT ![s].pc = "idle", ![s].result = "applied"] /\ ifaces[s].pc # "idle"
    BY <1>5 DEF IfacesDone, IfacesEnd, IfacesAt
  <2> QED  BY <2>1, <2>2
<1> QED  BY <1>1, <1>2, <1>3, <1>4, <1>5 DEF IfacesStep

LEMMA SaveParamsEffect ==
  ASSUME TypeInv, NEW s \in Sessions, NEW e \in Entries, SaveParams(s, e)
  PROVE  /\ RpcdKept /\ UNCHANGED <<ifaces, chosen>> /\ DaemonStep
         /\ params' \in [Sessions -> ParamsForms]
         /\ \A t \in Sessions : t # s => params'[t] = params[t]
         /\ params'[s].pc = "set" /\ params'[s].result = "saving"
<1>1. RpcdKept /\ UNCHANGED <<ifaces, chosen>> /\ DaemonStep
  BY DEF SaveParams, RpcdKept, DaemonStep, rpcd
<1>2. ReadForm(e) \in FormValues  BY FormType, EntriesAssumption
<1>3. params' = [params EXCEPT ![s] = [pc |-> "set", values |-> ReadForm(e), result |-> "saving"]]
  BY DEF SaveParams
<1> QED  BY <1>1, <1>2, <1>3 DEF TypeInv, ParamsForms, Results

LEMMA SaveIfacesEffect ==
  ASSUME TypeInv, NEW s \in Sessions, NEW sel \in Selections, SaveIfaces(s, sel)
  PROVE  /\ RpcdKept /\ UNCHANGED params /\ DaemonStep
         /\ ifaces' \in [Sessions -> IfacesForms]
         /\ \A t \in Sessions : t # s => ifaces'[t] = ifaces[t]
         /\ ifaces'[s].pc = "delete" /\ ifaces'[s].result = "saving"
         /\ chosen \subseteq chosen' /\ chosen' \subseteq FormLists \ {NoLists} /\ ifaces'[s].lists \in chosen'
<1>1. RpcdKept /\ UNCHANGED params /\ DaemonStep
  BY DEF SaveIfaces, RpcdKept, DaemonStep, rpcd
<1>2. PICK l : /\ l = IF seen[s] THEN ListsOf(sel) ELSE NoLists
               /\ MaySave(l) /\ chosen' = chosen \union {l}
               /\ ifaces' = [ifaces EXCEPT ![s] = [pc |-> "delete", lists |-> l, result |-> "saving"]]
  BY DEF SaveIfaces
<1>3. l \in FormLists /\ l # NoLists
  BY <1>2, FormListsType, NoListsAreOfForm, SelectionsAssumption DEF MaySave
<1> QED  BY <1>1, <1>2, <1>3 DEF TypeInv, IfacesForms, Results

LEMMA DaemonKeeps ==
  ASSUME TypeInv, DaemonInv, Effect, DaemonStep
  PROVE  DaemonInv'
<1>1. IsFile(file') /\ (file' = file \/ trigger')  BY RpcdKeepsFile DEF Effect
<1>2. CASE UNCHANGED daemon /\ (trigger' = trigger \/ trigger')
  BY <1>1, <1>2 DEF DaemonInv, daemon
<1>3. CASE Reload  BY <1>1, <1>3 DEF DaemonInv, Reload
<1>4. CASE DaemonStart
  <2>1. conf' = Loaded(file') /\ IsFile(file')  BY <1>1, <1>4 DEF DaemonStart, rpcd
  <2>2. SoundConfig(conf')
    <3>1. PICK f : f = file'  OBVIOUS
    <3> QED  BY <2>1, <3>1, LoadedIsSound
  <2> QED  BY <2>1, <2>2 DEF DaemonInv
<1> QED  BY <1>2, <1>3, <1>4 DEF DaemonStep

LEMMA TypeStep == TypeInv /\ DaemonInv /\ [Next]_vars => TypeInv' /\ DaemonInv'
<1> SUFFICES ASSUME TypeInv, DaemonInv, [Next]_vars PROVE TypeInv' /\ DaemonInv'
  OBVIOUS
<1>1. ASSUME NEW s \in Sessions, NEW e \in Entries, SaveParams(s, e) PROVE TypeInv' /\ DaemonInv'
  <2>1. /\ RpcdKept /\ UNCHANGED <<ifaces, chosen>> /\ DaemonStep
        /\ params' \in [Sessions -> ParamsForms]
    BY <1>1, SaveParamsEffect
  <2>2. DOMAIN staged' = Sessions /\ \A t \in Sessions : IsChange(staged'[t], Chosen')
    BY <2>1, RpcdKeepsType
  <2> QED  BY <2>1, <2>2, DaemonKeeps DEF TypeInv, Effect
<1>2. ASSUME NEW s \in Sessions, NEW sel \in Selections, SaveIfaces(s, sel) PROVE TypeInv' /\ DaemonInv'
  <2>1. /\ RpcdKept /\ UNCHANGED params /\ DaemonStep
        /\ ifaces' \in [Sessions -> IfacesForms]
        /\ \A t \in Sessions : t # s => ifaces'[t] = ifaces[t]
        /\ chosen \subseteq chosen' /\ chosen' \subseteq FormLists \ {NoLists} /\ ifaces'[s].lists \in chosen'
    BY <1>2, SaveIfacesEffect
  <2>2. DOMAIN staged' = Sessions /\ \A t \in Sessions : IsChange(staged'[t], Chosen')
    <3>1. staged' = staged /\ Chosen \subseteq Chosen'  BY <2>1 DEF RpcdKept, Chosen
    <3> QED  BY <3>1 DEF TypeInv, IsChange
  <2>3. \A t \in Sessions : ifaces'[t].pc # "idle" \/ ifaces'[t].result = "applied" => ifaces'[t].lists \in chosen'
    BY <2>1 DEF TypeInv
  <2> QED  BY <2>1, <2>2, <2>3, DaemonKeeps DEF TypeInv, Effect
<1>3. ASSUME NEW s \in Sessions, ParamsStep(s) PROVE TypeInv' /\ DaemonInv'
  <2>1. /\ RpcdKept \/ RpcdSetParams(s) \/ UciCommit(s)
        /\ UNCHANGED <<ifaces, chosen>> /\ DaemonStep
        /\ params' \in [Sessions -> ParamsForms]
    BY <1>3, ParamsEffect
  <2>2. DOMAIN staged' = Sessions /\ \A t \in Sessions : IsChange(staged'[t], Chosen')
    BY <2>1, RpcdKeepsType
  <2> QED  BY <2>1, <2>2, DaemonKeeps DEF TypeInv, Effect
<1>4. ASSUME NEW s \in Sessions, IfacesStep(s) PROVE TypeInv' /\ DaemonInv'
  <2>1. /\ RpcdKept \/ IfacesSets(s) \/ UciCommit(s)
        /\ UNCHANGED <<params, chosen>> /\ DaemonStep
        /\ ifaces' \in [Sessions -> IfacesForms] /\ \A t \in Sessions : ifaces'[t].lists = ifaces[t].lists
        /\ \A t \in Sessions : t # s => ifaces'[t] = ifaces[t]
        /\ ifaces[s].pc # "idle"
    BY <1>4, IfacesEffect
  <2>2. DOMAIN staged' = Sessions /\ \A t \in Sessions : IsChange(staged'[t], Chosen')
    BY <2>1, RpcdKeepsType DEF IfacesSets
  <2>3. \A t \in Sessions : ifaces'[t].pc # "idle" \/ ifaces'[t].result = "applied" => ifaces'[t].lists \in chosen'
    BY <2>1 DEF TypeInv
  <2>4. Effect  BY <2>1 DEF Effect, IfacesSets
  <2> QED  BY <2>1, <2>2, <2>3, <2>4, DaemonKeeps DEF TypeInv
<1>5. CASE Others
  <2>1. RpcdKept /\ UNCHANGED <<params, ifaces, chosen>> /\ DaemonStep  BY <1>5 DEF Others
  <2>2. DOMAIN staged' = Sessions /\ \A t \in Sessions : IsChange(staged'[t], Chosen')
    BY <2>1, RpcdKeepsType
  <2> QED  BY <2>1, <2>2, DaemonKeeps DEF TypeInv, Effect
<1> QED  BY <1>1, <1>2, <1>3, <1>4, <1>5, OtherSteps DEF Next, Working

\* Whatever a file holds, the daemon runs within the ranges its rings and
\* divisions rely on and with no interface twice (load_config,
\* add_bpf_attach_ifname and add_observe_ifname of lanspeedd.c).
THEOREM ConfigIsSound == Spec => []ConfigSound
<1>1. DaemonInv => ConfigSound  BY DEF DaemonInv, SoundConfig, ConfigSound
<1> QED  BY <1>1, TypeInit, TypeStep, PTL DEF Spec

\* What the parameter form shows of a file, whoever wrote it, is what a daemon
\* started on it runs with, but for the numbers and modes the two read
\* differently (load of config.js against load_config).
THEOREM FormShowsWhatRuns == Spec => []FormShowsDaemon
<1>1. DaemonInv => FormShowsDaemon
  <2> SUFFICES ASSUME DaemonInv, ~Misread(file) PROVE Shown(file) = ParamsOf(Loaded(file))
    BY DEF FormShowsDaemon
  <2>1. PICK f : f = file  OBVIOUS
  <2>2. {f.window, f.minbps} \subseteq Numbers  BY <2>1 DEF DaemonInv, IsFile
  <2> QED  BY <2>1, <2>2, ShownIsLoaded
<1> QED  BY <1>1, TypeInit, TypeStep, PTL DEF Spec
----------------------------------------------------------------------------
(* The parameter form: its values are staged, or in the file and nothing staged *)

\* Of session t, with v for the values of its form.
InFile(t, v) == writer.params = t => Carries(file, v)
Held(t, v) == SparesParams(staged[t]) /\ InFile(t, v)
Pending(t, v) == Carries(staged[t], v) \/ Held(t, v)

LEMMA OwnCommit ==
  ASSUME DOMAIN staged = Sessions, NEW t \in Sessions, NEW v, Pending(t, v), UciCommit(t)
  PROVE  Held(t, v)' /\ (Held(t, v) => writer'.params = writer.params)
<1>1. /\ file' = Overlay(staged[t], file) /\ staged'[t] = NoChange
      /\ writer'.params = IF SparesParams(staged[t]) THEN writer.params ELSE t
  BY DEF UciCommit, SparesParams
<1>2. PICK c, f : c = staged[t] /\ f = file  OBVIOUS
<1>3. SparesParams(staged'[t])  BY <1>1, NoChangeIs
<1>4. InFile(t, v)'
  <2>1. CASE Carries(c, v)
    <3>1. Carries(Overlay(c, f), v)  BY <2>1, OverlayParams
    <3> QED  BY <1>1, <1>2, <3>1 DEF InFile
  <2>2. CASE SparesParams(c) /\ writer.params = t /\ Carries(f, v)
    <3>1. Carries(Overlay(c, f), v)  BY <2>2, OverlayParams
    <3> QED  BY <1>1, <1>2, <3>1 DEF InFile
  <2>3. CASE SparesParams(c) /\ writer.params # t
    BY <1>1, <1>2, <2>3 DEF InFile
  <2> QED  BY <1>2, <2>1, <2>2, <2>3 DEF Pending, Held, InFile
<1>5. Held(t, v) => writer'.params = writer.params  BY <1>1 DEF Held
<1> QED  BY <1>3, <1>4, <1>5 DEF Held

\* What others do to rpcd, and the session's own interface form.
OtherEffect(t) ==
  \/ RpcdKept
  \/ \E s \in Sessions : s # t /\ (UciCommit(s) \/ RpcdSetParams(s))
  \/ \E s \in Sessions : \E l : RpcdSetLists(s, l)

LEMMA OthersSpareParams ==
  ASSUME TypeInv, NEW t \in Sessions, NEW v, OtherEffect(t)
  PROVE  /\ Held(t, v) => Held(t, v)'
         /\ Pending(t, v) => Pending(t, v)'
         /\ writer'.params = t => writer.params = t
<1> USE DEF TypeInv
<1>1. CASE RpcdKept
  BY <1>1 DEF RpcdKept, Held, Pending, InFile
<1>2. ASSUME NEW s \in Sessions, s # t, UciCommit(s)
      PROVE  /\ staged'[t] = staged[t]
             /\ writer'.params = t => writer.params = t
             /\ InFile(t, v) => InFile(t, v)'
  <2>1. /\ file' = Overlay(staged[s], file) /\ staged'[t] = staged[t]
        /\ writer'.params = IF SparesParams(staged[s]) THEN writer.params ELSE s
    BY <1>2 DEF UciCommit, SparesParams
  <2>2. PICK c, f : c = staged[s] /\ f = file  OBVIOUS
  <2>3. SparesParams(c) /\ Carries(f, v) => Carries(Overlay(c, f), v)  BY OverlayParams
  <2> QED  BY <1>2, <2>1, <2>2, <2>3 DEF InFile
<1>3. ASSUME NEW s \in Sessions, s # t, RpcdSetParams(s)
      PROVE  staged'[t] = staged[t] /\ UNCHANGED <<file, writer>>
  BY <1>3 DEF RpcdSetParams, UciSet
<1>4. ASSUME NEW s \in Sessions, NEW l, RpcdSetLists(s, l)
      PROVE  /\ UNCHANGED <<file, writer>>
             /\ SparesParams(staged[t]) => SparesParams(staged'[t])
             /\ Carries(staged[t], v) => Carries(staged'[t], v)
  <2>1. UNCHANGED <<file, writer>> /\ staged'[t] = IF s = t THEN Overlay(l, staged[t]) ELSE staged[t]
    BY <1>4 DEF RpcdSetLists, UciSet
  <2>2. SparesParams(l)
    <3>1. PICK L : L = Chosen  OBVIOUS
    <3>2. L \subseteq FormLists /\ l \in L
      BY <1>4, <3>1, NoListsAreOfForm DEF Chosen, RpcdSetLists
    <3> QED  BY <3>2, ListsAreChange
  <2>3. PICK d : d = staged[t]  OBVIOUS
  <2>4. /\ SparesParams(d) => SparesParams(Overlay(l, d))
        /\ Carries(d, v) => Carries(Overlay(l, d), v)
    BY <2>2, OverlayParams
  <2> QED  BY <2>1, <2>3, <2>4
<1>5. CASE \E s \in Sessions : s # t /\ UciCommit(s)
  BY <1>2, <1>5 DEF Held, Pending
<1>6. CASE \E s \in Sessions : s # t /\ RpcdSetParams(s)
  BY <1>3, <1>6 DEF Held, Pending, InFile
<1>7. CASE \E s \in Sessions : \E l : RpcdSetLists(s, l)
  BY <1>4, <1>7 DEF Held, Pending, InFile
<1> QED  BY <1>1, <1>5, <1>6, <1>7 DEF OtherEffect

ParamsRun(t) ==
  params[t].result = "applied" /\ writer.params = t /\ up => RunsWith(conf, params[t].values)

ParamsKnown(t) ==
  /\ params[t].pc = "commit" => Pending(t, params[t].values)
  /\ params[t].pc = "reload" \/ params[t].result = "applied" => Held(t, params[t].values)
  /\ params[t].result = "applied" => params[t].pc = "idle"

ParamsInv == \A t \in Sessions : ParamsKnown(t) /\ ParamsRun(t)

LEMMA ParamsInit == Init => ParamsInv
BY DEF Init, ParamsInv, ParamsKnown, ParamsRun

\* A form of session t that a step leaves alone.
LEMMA ParamsLeft ==
  ASSUME TypeInv, NEW t \in Sessions, ParamsKnown(t), ParamsRun(t),
         params'[t] = params[t], OtherEffect(t) \/ UciCommit(t), DaemonStep
  PROVE  ParamsKnown(t)' /\ ParamsRun(t)'
<1>1. PICK v \in FormValues : v = params[t].values  BY DEF TypeInv, ParamsForms
<1>2. /\ Held(t, v) => Held(t, v)' /\ (writer'.params = t => writer.params = t)
      /\ Pending(t, v) => Pending(t, v)'
  <2>1. CASE OtherEffect(t)  BY <2>1, OthersSpareParams
  <2>2. CASE UciCommit(t)
    <3>1. DOMAIN staged = Sessions  BY DEF TypeInv
    <3> QED  BY <2>2, <3>1, OwnCommit DEF Pending
  <2> QED  BY <2>1, <2>2
<1>3. ParamsKnown(t)'  BY <1>1, <1>2 DEF ParamsKnown
<1>4. ASSUME params[t].result = "applied", writer'.params = t, up'
      PROVE  RunsWith(conf', v)
  <2>1. Held(t, v) /\ Held(t, v)'  BY <1>1, <1>2, <1>4 DEF ParamsKnown
  <2>2. writer.params = t  BY <1>2, <1>4, <2>1
  <2>3. CASE UNCHANGED daemon
    BY <1>1, <1>4, <2>2, <2>3 DEF ParamsRun, daemon
  <2>4. CASE Reload  BY <1>4, <2>4 DEF Reload
  <2>5. CASE DaemonStart
    <3>1. PICK f : f = file'  OBVIOUS
    <3>2. Carries(f, v)  BY <1>4, <2>1, <3>1 DEF Held, InFile
    <3>3. conf' = Loaded(f)  BY <2>5, <3>1 DEF DaemonStart, rpcd
    <3> QED  BY <3>2, <3>3, SavedIsLoaded DEF Carries
  <2> QED  BY <2>3, <2>4, <2>5 DEF DaemonStep
<1>5. ParamsRun(t)'  BY <1>1, <1>4 DEF ParamsRun
<1> QED  BY <1>3, <1>5

\* Its own steps.
LEMMA ParamsOwn ==
  ASSUME TypeInv, ParamsInv, NEW s \in Sessions, ParamsStep(s)
  PROVE  ParamsKnown(s)' /\ ParamsRun(s)'
<1> USE DEF TypeInv, ParamsForms, Results
<1>0. PICK v \in FormValues : v = params[s].values  OBVIOUS
<1>1. ASSUME params'[s].pc = "idle", params'[s].result = "failed"
      PROVE  ParamsKnown(s)' /\ ParamsRun(s)'
  BY <1>1 DEF ParamsKnown, ParamsRun
<1>2. CASE ParamsSet(s)
  <2>1. ASSUME NEW c \in SavedOptions(v), UciSet(s, c), params' = [params EXCEPT ![s].pc = "commit"]
        PROVE  ParamsKnown(s)' /\ ParamsRun(s)'
    <3>1. PICK d : d = staged[s]  OBVIOUS
    <3>2. staged'[s] = Overlay(c, d)  BY <2>1, <3>1 DEF UciSet
    <3>3. Carries(c, v)  BY SavedIsChange
    <3>4. Carries(Overlay(c, d), v)  BY <3>3, OverlayParams
    <3>5. Pending(s, v)'  BY <3>2, <3>4 DEF Pending
    <3>6. params'[s].pc = "commit" /\ params'[s].values = v /\ params'[s].result = params[s].result
      BY <1>0, <2>1
    <3>7. params[s].result # "applied"
      BY <1>2 DEF ParamsSet, ParamsAt, ParamsInv, ParamsKnown
    <3> QED  BY <3>5, <3>6, <3>7 DEF ParamsKnown, ParamsRun
  <2>2. CASE ParamsEnd(s, "failed")  BY <1>1, <2>2 DEF ParamsEnd
  <2> QED  BY <1>0, <1>2, <2>1, <2>2 DEF ParamsSet, ParamsGo
<1>3. CASE ParamsCommit(s)
  <2>1. CASE UciCommit(s) /\ params' = [params EXCEPT ![s].pc = "reload"]
    <3>1. Pending(s, v) /\ params[s].result # "applied"
      BY <1>0, <1>3 DEF ParamsCommit, ParamsAt, ParamsInv, ParamsKnown
    <3>2. Held(s, v)'  BY <2>1, <3>1, OwnCommit
    <3>3. params'[s].pc = "reload" /\ params'[s].values = v /\ params'[s].result = params[s].result
      BY <1>0, <2>1
    <3> QED  BY <3>1, <3>2, <3>3 DEF ParamsKnown, ParamsRun
  <2>2. CASE ParamsEnd(s, "failed")  BY <1>1, <2>2 DEF ParamsEnd
  <2> QED  BY <1>3, <2>1, <2>2 DEF ParamsCommit, ParamsGo
<1>4. CASE ParamsReload(s)
  <2>1. CASE Reload /\ ParamsEnd(s, "applied")
    <3>1. Held(s, v)  BY <1>0, <1>4 DEF ParamsReload, ParamsAt, ParamsInv, ParamsKnown
    <3>2. Held(s, v)'  BY <1>4, <3>1 DEF ParamsReload, rpcd, Held, InFile
    <3>3. params'[s].pc = "idle" /\ params'[s].values = v  BY <1>0, <2>1 DEF ParamsEnd
    <3> QED  BY <2>1, <3>2, <3>3 DEF ParamsKnown, ParamsRun, Reload
  <2>2. CASE ParamsEnd(s, "failed")  BY <1>1, <2>2 DEF ParamsEnd
  <2> QED  BY <1>4, <2>1, <2>2 DEF ParamsReload
<1> QED  BY <1>2, <1>3, <1>4 DEF ParamsStep

LEMMA ParamsInvStep == TypeInv /\ ParamsInv /\ [Next]_vars => ParamsInv'
<1> SUFFICES ASSUME TypeInv, ParamsInv, [Next]_vars, NEW t \in Sessions
             PROVE  ParamsKnown(t)' /\ ParamsRun(t)'
  BY DEF ParamsInv
<1>0. ParamsKnown(t) /\ ParamsRun(t)  BY DEF ParamsInv
<1>1. ASSUME NEW s \in Sessions, NEW e \in Entries, SaveParams(s, e)
      PROVE  ParamsKnown(t)' /\ ParamsRun(t)'
  <2>1. /\ RpcdKept /\ DaemonStep
        /\ \A u \in Sessions : u # s => params'[u] = params[u]
        /\ params'[s].pc = "set" /\ params'[s].result = "saving"
    BY <1>1, SaveParamsEffect
  <2>2. CASE t = s  BY <2>1, <2>2 DEF ParamsKnown, ParamsRun
  <2>3. CASE t # s  BY <1>0, <2>1, <2>3, ParamsLeft DEF OtherEffect
  <2> QED  BY <2>2, <2>3
<1>2. ASSUME NEW s \in Sessions, NEW sel \in Selections, SaveIfaces(s, sel)
      PROVE  ParamsKnown(t)' /\ ParamsRun(t)'
  <2>1. RpcdKept /\ DaemonStep /\ UNCHANGED params  BY <1>2, SaveIfacesEffect
  <2> QED  BY <1>0, <2>1, ParamsLeft DEF OtherEffect
<1>3. ASSUME NEW s \in Sessions, ParamsStep(s) PROVE ParamsKnown(t)' /\ ParamsRun(t)'
  <2>1. CASE t = s  BY <1>3, <2>1, ParamsOwn
  <2>2. CASE t # s
    <3>1. (RpcdKept \/ RpcdSetParams(s) \/ UciCommit(s)) /\ DaemonStep /\ params'[t] = params[t]
      BY <1>3, <2>2, ParamsEffect
    <3> QED  BY <1>0, <2>2, <3>1, ParamsLeft DEF OtherEffect
  <2> QED  BY <2>1, <2>2
<1>4. ASSUME NEW s \in Sessions, IfacesStep(s) PROVE ParamsKnown(t)' /\ ParamsRun(t)'
  <2>1. (RpcdKept \/ IfacesSets(s) \/ UciCommit(s)) /\ DaemonStep /\ UNCHANGED params
    BY <1>4, IfacesEffect
  <2>2. OtherEffect(t) \/ UciCommit(t)  BY <2>1 DEF OtherEffect, IfacesSets
  <2> QED  BY <1>0, <2>1, <2>2, ParamsLeft
<1>5. CASE Others
  BY <1>0, <1>5, ParamsLeft DEF Others, OtherEffect
<1> QED  BY <1>1, <1>2, <1>3, <1>4, <1>5, OtherSteps DEF Next, Working
----------------------------------------------------------------------------
(* The interface form: likewise, and empty lists are staged only before a set *)

InFileLists(t, l) == writer.lists = t => CarriesLists(file, l)
HeldLists(t, l) == SparesLists(staged[t]) /\ InFileLists(t, l)
PendingLists(t, l) == CarriesLists(staged[t], l) \/ HeldLists(t, l)

\* A change that spares the lists leaves them as they were.
LEMMA OverlaySpares ==
  ASSUME NEW c, SparesLists(c), NEW f, NEW l, CarriesLists(Overlay(c, f), l)
  PROVE  CarriesLists(f, l)
BY DEF CarriesLists, SparesLists, ListOptions, Overlay

LEMMA NoChangeCarriesNone == ASSUME NEW l PROVE ~CarriesLists(NoChange, l)
<1>1. DOMAIN NoChange = {}  BY DEF NoChange
<1> QED  BY <1>1 DEF CarriesLists, ListOptions

LEMMA CarriesOne ==
  ASSUME NEW c, NEW l \in FormLists, NEW m \in FormLists, CarriesLists(c, l), CarriesLists(c, m)
  PROVE  l = m
<1>1. \A k \in {l, m} : k = [ifname |-> k.ifname, include |-> k.include, observe |-> k.observe]
  BY DEF FormLists
<1>2. l.ifname = m.ifname /\ l.include = m.include /\ l.observe = m.observe  BY DEF CarriesLists
<1> QED  BY <1>1, <1>2

LEMMA OwnCommitLists ==
  ASSUME DOMAIN staged = Sessions, NEW t \in Sessions, NEW l, PendingLists(t, l), UciCommit(t)
  PROVE  HeldLists(t, l)'
<1>1. /\ file' = Overlay(staged[t], file) /\ staged'[t] = NoChange
      /\ writer'.lists = IF SparesLists(staged[t]) THEN writer.lists ELSE t
  BY DEF UciCommit, SparesLists
<1>2. PICK c, f : c = staged[t] /\ f = file  OBVIOUS
<1>3. SparesLists(staged'[t])  BY <1>1, NoChangeIs
<1>4. InFileLists(t, l)'
  <2>1. CASE CarriesLists(c, l)
    <3>1. CarriesLists(Overlay(c, f), l)  BY <2>1, OverlayLists
    <3> QED  BY <1>1, <1>2, <3>1 DEF InFileLists
  <2>2. CASE SparesLists(c) /\ writer.lists = t /\ CarriesLists(f, l)
    <3>1. CarriesLists(Overlay(c, f), l)  BY <2>2, OverlayLists
    <3> QED  BY <1>1, <1>2, <3>1 DEF InFileLists
  <2>3. CASE SparesLists(c) /\ writer.lists # t
    BY <1>1, <1>2, <2>3 DEF InFileLists
  <2> QED  BY <1>2, <2>1, <2>2, <2>3 DEF PendingLists, HeldLists, InFileLists
<1> QED  BY <1>3, <1>4 DEF HeldLists

OtherListEffect(t) ==
  \/ RpcdKept
  \/ \E s \in Sessions : s # t /\ (UciCommit(s) \/ \E l : RpcdSetLists(s, l))
  \/ \E s \in Sessions : RpcdSetParams(s)

LEMMA OthersSpareLists ==
  ASSUME TypeInv, NEW t \in Sessions, NEW l, OtherListEffect(t)
  PROVE  /\ HeldLists(t, l) => HeldLists(t, l)'
         /\ PendingLists(t, l) => PendingLists(t, l)'
         /\ CarriesLists(staged'[t], NoLists) => CarriesLists(staged[t], NoLists)
<1> USE DEF TypeInv
<1>1. CASE RpcdKept
  BY <1>1 DEF RpcdKept, HeldLists, PendingLists, InFileLists
<1>2. ASSUME NEW s \in Sessions, s # t, UciCommit(s)
      PROVE  staged'[t] = staged[t] /\ (InFileLists(t, l) => InFileLists(t, l)')
  <2>1. /\ file' = Overlay(staged[s], file) /\ staged'[t] = staged[t]
        /\ writer'.lists = IF SparesLists(staged[s]) THEN writer.lists ELSE s
    BY <1>2 DEF UciCommit, SparesLists
  <2>2. PICK c, f : c = staged[s] /\ f = file  OBVIOUS
  <2>3. SparesLists(c) /\ CarriesLists(f, l) => CarriesLists(Overlay(c, f), l)  BY OverlayLists
  <2> QED  BY <1>2, <2>1, <2>2, <2>3 DEF InFileLists
<1>3. ASSUME NEW s \in Sessions, s # t, NEW m, RpcdSetLists(s, m)
      PROVE  staged'[t] = staged[t] /\ UNCHANGED <<file, writer>>
  BY <1>3 DEF RpcdSetLists, UciSet
<1>4. ASSUME NEW s \in Sessions, RpcdSetParams(s)
      PROVE  /\ UNCHANGED <<file, writer>>
             /\ SparesLists(staged[t]) => SparesLists(staged'[t])
             /\ CarriesLists(staged[t], l) => CarriesLists(staged'[t], l)
             /\ CarriesLists(staged'[t], NoLists) => CarriesLists(staged[t], NoLists)
  <2>1. PICK v \in FormValues : v = params[s].values  BY DEF ParamsForms
  <2>2. PICK c \in SavedOptions(v) :
           /\ UNCHANGED <<file, writer>>
           /\ staged'[t] = IF s = t THEN Overlay(c, staged[t]) ELSE staged[t]
    BY <1>4, <2>1 DEF RpcdSetParams, UciSet
  <2>3. SparesLists(c)  BY SavedIsChange
  <2>4. PICK d : d = staged[t]  OBVIOUS
  <2>5. /\ SparesLists(d) => SparesLists(Overlay(c, d))
        /\ CarriesLists(d, l) => CarriesLists(Overlay(c, d), l)
        /\ CarriesLists(Overlay(c, d), NoLists) => CarriesLists(d, NoLists)
    BY <2>3, <2>4, OverlayLists, OverlaySpares
  <2> QED  BY <2>2, <2>4, <2>5
<1>5. CASE \E s \in Sessions : s # t /\ UciCommit(s)
  BY <1>2, <1>5 DEF HeldLists, PendingLists
<1>6. CASE \E s \in Sessions : s # t /\ \E m : RpcdSetLists(s, m)
  BY <1>3, <1>6 DEF HeldLists, PendingLists, InFileLists
<1>7. CASE \E s \in Sessions : RpcdSetParams(s)
  BY <1>4, <1>7 DEF HeldLists, PendingLists, InFileLists
<1> QED  BY <1>1, <1>5, <1>6, <1>7 DEF OtherListEffect

IfacesKnown(t) ==
  /\ ifaces[t].pc = "commit" => PendingLists(t, ifaces[t].lists)
  /\ ifaces[t].pc \in {"reload", "wait"} \/ ifaces[t].result = "applied" => HeldLists(t, ifaces[t].lists)
  /\ ifaces[t].result = "applied" => ifaces[t].pc = "idle"
  /\ CarriesLists(staged[t], NoLists) => ifaces[t].pc \in {"delete", "set"} \/ ifaces[t].result = "failed"

IfacesInv == \A t \in Sessions : IfacesKnown(t)

LEMMA IfacesInit == Init => IfacesInv
BY NoChangeCarriesNone DEF Init, IfacesInv, IfacesKnown

LEMMA IfacesLeft ==
  ASSUME TypeInv, NEW t \in Sessions, IfacesKnown(t), ifaces'[t] = ifaces[t],
         OtherListEffect(t) \/ UciCommit(t)
  PROVE  IfacesKnown(t)'
<1>1. PICK l : l = ifaces[t].lists  OBVIOUS
<1>2. CASE OtherListEffect(t)
  <2>1. /\ HeldLists(t, l) => HeldLists(t, l)'
        /\ PendingLists(t, l) => PendingLists(t, l)'
        /\ CarriesLists(staged'[t], NoLists) => CarriesLists(staged[t], NoLists)
    BY <1>2, OthersSpareLists
  <2> QED  BY <1>1, <2>1 DEF IfacesKnown
<1>3. CASE UciCommit(t)
  <2>1. DOMAIN staged = Sessions  BY DEF TypeInv
  <2>2. PendingLists(t, l) => HeldLists(t, l)'  BY <1>3, <2>1, OwnCommitLists
  <2>3. ~CarriesLists(staged'[t], NoLists)  BY <1>3, <2>1, NoChangeCarriesNone DEF UciCommit
  <2> QED  BY <1>1, <2>2, <2>3 DEF IfacesKnown, PendingLists
<1> QED  BY <1>2, <1>3

\* Its own steps.
LEMMA IfacesOwn ==
  ASSUME TypeInv, IfacesInv, NEW s \in Sessions, IfacesStep(s)
  PROVE  IfacesKnown(s)'
<1> USE DEF TypeInv, IfacesForms, Results
<1>0. PICK l \in FormLists : l = ifaces[s].lists  OBVIOUS
<1>1. ASSUME params' = params, IfacesEnd(s, "failed") PROVE IfacesKnown(s)'
  BY <1>1 DEF IfacesKnown, IfacesEnd
<1>2. CASE IfacesDelete(s)
  <2>1. ifaces' = [ifaces EXCEPT ![s].pc = "set"] /\ ifaces[s].result # "applied"
    BY <1>2 DEF IfacesDelete, IfacesGo, IfacesAt, IfacesInv, IfacesKnown
  <2>2. ifaces'[s].pc = "set" /\ ifaces'[s].result # "applied"  BY <2>1
  <2> QED  BY <2>2 DEF IfacesKnown
<1>3. CASE IfacesSet(s)
  <2>1. CASE UciSet(s, l) /\ ifaces' = [ifaces EXCEPT ![s].pc = "commit"]
    <3>1. PICK d : d = staged[s]  OBVIOUS
    <3>2. staged'[s] = Overlay(l, d)  BY <2>1, <3>1 DEF UciSet
    <3>3. CarriesLists(l, l)  BY ListsAreChange
    <3>4. CarriesLists(staged'[s], l)  BY <3>2, <3>3, OverlayLists
    <3>5. PendingLists(s, l)'  BY <3>4 DEF PendingLists
    <3>6. ifaces'[s].pc = "commit" /\ ifaces'[s].lists = l /\ ifaces'[s].result = ifaces[s].result
      BY <1>0, <2>1
    <3>7. ifaces[s].pc = "set" /\ ifaces[s].result # "applied"
      BY <1>3 DEF IfacesSet, IfacesAt, IfacesInv, IfacesKnown
    <3>8. ~CarriesLists(staged'[s], NoLists)
      <4>1. l # NoLists  BY <1>0, <3>7
      <4>2. PICK c : c = staged'[s]  OBVIOUS
      <4> QED  BY <3>4, <4>1, <4>2, CarriesOne, NoListsAreOfForm
    <3> QED  BY <3>5, <3>6, <3>7, <3>8 DEF IfacesKnown
  <2>2. CASE IfacesEnd(s, "failed")  BY <1>1, <2>2 DEF IfacesEnd
  <2> QED  BY <1>0, <1>3, <2>1, <2>2 DEF IfacesSet, IfacesGo
<1>4. CASE IfacesCommit(s)
  <2>1. CASE UciCommit(s) /\ ifaces' = [ifaces EXCEPT ![s].pc = "reload"]
    <3>1. PendingLists(s, l) /\ ifaces[s].result # "applied"
      BY <1>0, <1>4 DEF IfacesCommit, IfacesAt, IfacesInv, IfacesKnown
    <3>2. HeldLists(s, l)' /\ ~CarriesLists(staged'[s], NoLists)
      BY <2>1, <3>1, OwnCommitLists, NoChangeCarriesNone DEF UciCommit
    <3>3. ifaces'[s].pc = "reload" /\ ifaces'[s].lists = l /\ ifaces'[s].result = ifaces[s].result
      BY <1>0, <2>1
    <3> QED  BY <3>1, <3>2, <3>3 DEF IfacesKnown
  <2>2. CASE IfacesEnd(s, "failed")  BY <1>1, <2>2 DEF IfacesEnd
  <2> QED  BY <1>4, <2>1, <2>2 DEF IfacesCommit, IfacesGo
<1>5. CASE IfacesReload(s)
  <2>1. HeldLists(s, l) /\ ifaces[s].result # "applied" /\ ifaces[s].pc = "reload"
    BY <1>0, <1>5 DEF IfacesReload, IfacesAt, IfacesInv, IfacesKnown
  <2>2. HeldLists(s, l)' /\ staged' = staged  BY <1>5, <2>1 DEF IfacesReload, rpcd, HeldLists, InFileLists
  <2>3. ifaces'[s].pc = "wait" /\ ifaces'[s].lists = l /\ ifaces'[s].result = ifaces[s].result
    BY <1>0, <1>5 DEF IfacesReload, IfacesGo
  <2> QED  BY <2>1, <2>2, <2>3 DEF IfacesKnown, IfacesInv
<1>6. CASE IfacesDone(s)
  <2>1. HeldLists(s, l) /\ ifaces[s].result # "applied" /\ ifaces[s].pc = "wait"
    BY <1>0, <1>6 DEF IfacesDone, IfacesAt, IfacesInv, IfacesKnown
  <2>2. HeldLists(s, l)' /\ staged' = staged  BY <1>6, <2>1 DEF IfacesDone, rpcd, HeldLists, InFileLists
  <2>3. ifaces'[s].pc = "idle" /\ ifaces'[s].lists = l /\ ifaces'[s].result = "applied"
    BY <1>0, <1>6 DEF IfacesDone, IfacesEnd
  <2>4. SparesLists(staged'[s])  BY <2>2 DEF HeldLists
  <2>5. ~CarriesLists(staged'[s], NoLists)  BY <2>4 DEF SparesLists, CarriesLists, ListOptions
  <2> QED  BY <2>2, <2>3, <2>5 DEF IfacesKnown
<1> QED  BY <1>2, <1>3, <1>4, <1>5, <1>6 DEF IfacesStep

LEMMA IfacesInvStep == TypeInv /\ IfacesInv /\ [Next]_vars => IfacesInv'
<1> SUFFICES ASSUME TypeInv, IfacesInv, [Next]_vars, NEW t \in Sessions PROVE IfacesKnown(t)'
  BY DEF IfacesInv
<1>0. IfacesKnown(t)  BY DEF IfacesInv
<1>1. ASSUME NEW s \in Sessions, NEW e \in Entries, SaveParams(s, e) PROVE IfacesKnown(t)'
  <2>1. RpcdKept /\ UNCHANGED ifaces  BY <1>1, SaveParamsEffect
  <2> QED  BY <1>0, <2>1, IfacesLeft DEF OtherListEffect
<1>2. ASSUME NEW s \in Sessions, NEW sel \in Selections, SaveIfaces(s, sel) PROVE IfacesKnown(t)'
  <2>1. /\ RpcdKept
        /\ \A u \in Sessions : u # s => ifaces'[u] = ifaces[u]
        /\ ifaces'[s].pc = "delete" /\ ifaces'[s].result = "saving"
    BY <1>2, SaveIfacesEffect
  <2>2. CASE t = s  BY <2>1, <2>2 DEF IfacesKnown
  <2>3. CASE t # s  BY <1>0, <2>1, <2>3, IfacesLeft DEF OtherListEffect
  <2> QED  BY <2>2, <2>3
<1>3. ASSUME NEW s \in Sessions, ParamsStep(s) PROVE IfacesKnown(t)'
  <2>1. (RpcdKept \/ RpcdSetParams(s) \/ UciCommit(s)) /\ UNCHANGED ifaces
    BY <1>3, ParamsEffect
  <2>2. OtherListEffect(t) \/ UciCommit(t)  BY <2>1 DEF OtherListEffect
  <2> QED  BY <1>0, <2>1, <2>2, IfacesLeft
<1>4. ASSUME NEW s \in Sessions, IfacesStep(s) PROVE IfacesKnown(t)'
  <2>1. CASE t = s  BY <1>4, <2>1, IfacesOwn
  <2>2. CASE t # s
    <3>1. (RpcdKept \/ IfacesSets(s) \/ UciCommit(s)) /\ ifaces'[t] = ifaces[t]
      BY <1>4, <2>2, IfacesEffect
    <3>2. OtherListEffect(t)  BY <2>2, <3>1 DEF OtherListEffect, IfacesSets
    <3> QED  BY <1>0, <3>1, <3>2, IfacesLeft
  <2> QED  BY <2>1, <2>2
<1>5. CASE Others
  BY <1>0, <1>5, IfacesLeft DEF Others, OtherListEffect
<1> QED  BY <1>1, <1>2, <1>3, <1>4, <1>5, OtherSteps DEF Next, Working

----------------------------------------------------------------------------
(* What follows *)

LEMMA ListsRun ==
  ASSUME TypeInv, DaemonInv, IfacesInv, NEW s \in Sessions,
         ifaces[s].result = "applied", writer.lists = s, up, ~trigger,
         Len(ifaces[s].lists.ifname) <= Cap, Len(ifaces[s].lists.observe) <= Cap
  PROVE  conf.attach = ifaces[s].lists.ifname /\ conf.observe = ifaces[s].lists.observe
<1>1. PICK l \in FormLists : l = ifaces[s].lists  BY DEF TypeInv, IfacesForms
<1>2. PICK f : f = file  OBVIOUS
<1>3. CarriesLists(f, l)  BY <1>1, <1>2 DEF IfacesInv, IfacesKnown, HeldLists, InFileLists
<1>4. conf = Loaded(f)  BY <1>2 DEF DaemonInv
<1>5. Loaded(f).attach = l.ifname /\ Loaded(f).observe = l.observe
  BY <1>1, <1>3, FormListsLoaded DEF CarriesLists
<1> QED  BY <1>1, <1>4, <1>5

SettingsInv == TypeInv /\ DaemonInv /\ ParamsInv /\ IfacesInv

LEMMA SettingsHold == Spec => []SettingsInv
<1>1. Init => SettingsInv  BY TypeInit, ParamsInit, IfacesInit DEF SettingsInv
<1>2. SettingsInv /\ [Next]_vars => SettingsInv'
  BY TypeStep, ParamsInvStep, IfacesInvStep DEF SettingsInv
<1> QED  BY <1>1, <1>2, PTL DEF Spec

\* A form that says "applied" tells the truth until somebody else writes: the
\* daemon runs with the parameters it saved, and, once procd has nothing left
\* to do, on the interfaces it selected (saveDaemonSettings of config.js and
\* saveIfaceConfig of ifaceConfig.js).
THEOREM AppliedIsTrue == Spec => []AppliedRuns
<1>1. SettingsInv => AppliedRuns
  <2> SUFFICES ASSUME SettingsInv, NEW s \in Sessions
               PROVE  /\ ParamsRun(s)
                      /\ /\ ifaces[s].result = "applied" /\ writer.lists = s /\ up /\ ~trigger
                         /\ Len(ifaces[s].lists.ifname) <= Cap /\ Len(ifaces[s].lists.observe) <= Cap
                         => conf.attach = ifaces[s].lists.ifname /\ conf.observe = ifaces[s].lists.observe
    BY DEF AppliedRuns, ParamsRun
  <2>1. ParamsRun(s)  BY DEF SettingsInv, ParamsInv
  <2> QED  BY <2>1, ListsRun DEF SettingsInv
<1> QED  BY <1>1, SettingsHold, PTL

LEMMA NextEffect ==
  ASSUME TypeInv, Next
  PROVE  Effect
<1>1. ASSUME NEW s \in Sessions, NEW e \in Entries, SaveParams(s, e) PROVE Effect
  BY <1>1, SaveParamsEffect DEF Effect
<1>2. ASSUME NEW s \in Sessions, NEW sel \in Selections, SaveIfaces(s, sel) PROVE Effect
  BY <1>2, SaveIfacesEffect DEF Effect
<1>3. ASSUME NEW s \in Sessions, ParamsStep(s) PROVE Effect
  BY <1>3, ParamsEffect DEF Effect
<1>4. ASSUME NEW s \in Sessions, IfacesStep(s) PROVE Effect
  BY <1>4, IfacesEffect DEF Effect, IfacesSets
<1>5. Others => Effect  BY DEF Others, Effect
<1> QED  BY <1>1, <1>2, <1>3, <1>4, <1>5, OtherSteps DEF Next, Working

\* However the forms' calls interleave within a session and between sessions,
\* the three lists of the file go together from one whole selection to another,
\* or to none where an interface form deleted them and did not get to set its own.
THEOREM ListsAreWhole == Spec => ListsChangeWhole
<1>1. ASSUME SettingsInv, Next, Lists(file') # Lists(file)
      PROVE  \/ Lists(file') \in chosen \ {NoLists}
             \/ /\ Lists(file') = NoLists
                /\ \E s \in Sessions : /\ DOMAIN staged[s] # {}
                                     /\ \/ ifaces[s].pc \in {"delete", "set"}
                                        \/ ifaces[s].result = "failed"
  <2> USE DEF SettingsInv
  <2>1. Effect  BY <1>1, NextEffect
  <2>2. PICK s \in Sessions : UciCommit(s)
    BY <1>1, <2>1 DEF Effect, RpcdKept, RpcdSetParams, RpcdSetLists, UciSet
  <2>3. PICK c, f, L : c = staged[s] /\ f = file /\ L = Chosen  OBVIOUS
  <2>4. file' = Overlay(c, f) /\ IsChange(c, L) /\ IsFile(f) /\ L \subseteq FormLists
    BY <1>1, <2>2, <2>3, NoListsAreOfForm DEF UciCommit, TypeInv, DaemonInv, Chosen
  <2>5. ~SparesLists(c)
    <3>1. SparesLists(c) => Lists(Overlay(c, f)) = Lists(f)
      BY <2>4 DEF SparesLists, ListOptions, Overlay, Lists, IsFile
    <3> QED  BY <1>1, <2>3, <2>4, <3>1
  <2>6. PICK l \in L : CarriesLists(c, l)  BY <2>4, <2>5 DEF IsChange
  <2>7. Lists(Overlay(c, f)) = l
    <3>1. CarriesLists(Overlay(c, f), l)  BY <2>6, OverlayLists
    <3>2. l = [ifname |-> l.ifname, include |-> l.include, observe |-> l.observe]
      BY <2>4, <2>6 DEF FormLists
    <3> QED  BY <3>1, <3>2 DEF CarriesLists, Lists
  <2>8. CASE l # NoLists  BY <2>3, <2>4, <2>7, <2>8 DEF Chosen
  <2>9. CASE l = NoLists
    <3>1. DOMAIN staged[s] # {}  BY <2>3, <2>6 DEF CarriesLists, ListOptions
    <3>2. ifaces[s].pc \in {"delete", "set"} \/ ifaces[s].result = "failed"
      BY <1>1, <2>3, <2>6, <2>9 DEF IfacesInv, IfacesKnown
    <3> QED  BY <2>4, <2>7, <2>9, <3>1, <3>2
  <2> QED  BY <2>8, <2>9
<1>2. SettingsInv /\ [Next]_vars =>
        [Lists(file') # Lists(file) =>
           \/ Lists(file') \in chosen \ {NoLists}
           \/ /\ Lists(file') = NoLists
              /\ \E s \in Sessions : /\ DOMAIN staged[s] # {}
                                   /\ \/ ifaces[s].pc \in {"delete", "set"}
                                      \/ ifaces[s].result = "failed"]_vars
  BY <1>1
<1> QED  BY <1>2, SettingsHold, PTL DEF Spec, ListsChangeWhole
=============================================================================
