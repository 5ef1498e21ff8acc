------------------------------ MODULE LuciPoll ------------------------------
(***************************************************************************)
(* The polling loop of the live view (view/lanspeed/index.js): a poll asks *)
(* the daemon for status, clients and interfaces, its answer redraws the   *)
(* page and arms the one timer that issues the next. Buttons and the       *)
(* interval selector act at any moment, answers travel in any order, calls *)
(* fail, and the daemon may be down for a while. The three calls of a poll *)
(* travel in one request and count as one.                                 *)
(***************************************************************************)
EXTENDS Integers, Sequences, FiniteSets, SequencesExt

CONSTANTS
  TimerIds,    \* ids window.setTimeout can return
  NoTimer,     \* null
  Polls,       \* names for the polls in flight
  MaxClicks,   \* bound: what the user does
  MaxLosses    \* bound: calls lost while the daemon is up

ASSUME TimerAssumption == NoTimer \notin TimerIds
ASSUME BoundAssumption == {MaxClicks, MaxLosses} \subseteq Nat
ASSUME PollsAssumption == IsFiniteSet(Polls) /\ Cardinality(Polls) >= MaxClicks + 1

VARIABLES
  armed,     \* the timeouts the browser still has to fire
  timer,     \* viewState.timer
  paused,    \* viewState.prefs.paused
  error,     \* viewState.error is set
  sent,      \* polls the daemon has yet to answer
  answers,   \* polls whose answer is on its way back, in the order they were given
  reloading, \* the reload button: "no", "calling" rc init, "waiting" 4 s
  registered, \* the daemon's ubus object exists
  clicks,    \* user actions left
  losses,    \* lost calls left
  \* history
  late,      \* those of answers that a newer one, shown already, has overtaken
  stale      \* the page has shown a newer answer than the one it shows

pollVars == <<armed, timer, paused, error, sent, answers, reloading, registered, clicks, losses, late, stale>>
timers == <<armed, timer>>
calls == <<sent, answers, late>>
page == <<error, stale>>
budgets == <<clicks, losses>>

InFlight == sent \union Range(answers)

----------------------------------------------------------------------------
\* viewState.stopTimer
StopTimer == armed' = armed \ {timer} /\ timer' = NoTimer

\* window.setTimeout: an id never used before.
Arm(left) ==
  \E id \in TimerIds \ (armed \union {timer}) : armed' = left \union {id} /\ timer' = id

\* Mutant of Schedule: the running timeout is left alone.
ScheduleBeside(isPaused) == IF isPaused THEN StopTimer ELSE Arm(armed)

\* Mutant of Schedule: the pause is not looked at.
ScheduleAlways(isPaused) == Arm(armed \ {timer})

\* viewState.schedule: stopTimer, and a new timeout unless paused.
Schedule(isPaused) == IF isPaused THEN StopTimer ELSE Arm(armed \ {timer})

\* view.load answered or failed; render schedules the first poll.
PollInit ==
  /\ paused \in BOOLEAN /\ error \in BOOLEAN
  /\ \E id \in TimerIds : IF paused THEN armed = {} /\ timer = NoTimer
                                    ELSE armed = {id} /\ timer = id
  /\ sent = {} /\ answers = <<>> /\ late = {}
  /\ reloading = "no" /\ registered \in BOOLEAN
  /\ clicks = MaxClicks /\ losses = MaxLosses
  /\ stale = FALSE

----------------------------------------------------------------------------
\* The loop.

\* viewState.reload issues a poll.
Issue == sent' = sent \union {CHOOSE p \in Polls : p \notin InFlight} /\ UNCHANGED <<answers, late>>

\* Mutant of Fire: the timer repeats by itself.
FireRepeating(id) ==
  /\ id \in armed /\ Issue
  /\ UNCHANGED <<timers, paused, page, reloading, registered, budgets>>

\* A timeout calls reload(false); the reference to it stays.
Fire(id) ==
  /\ id \in armed /\ armed' = armed \ {id}
  /\ Issue
  /\ UNCHANGED <<timer, paused, page, reloading, registered, budgets>>

\* The daemon answers a poll; polls may overtake one another on the way.
Serve(p) ==
  /\ p \in sent /\ registered
  /\ sent' = sent \ {p} /\ answers' = Append(answers, p)
  /\ UNCHANGED <<timers, late, paused, page, reloading, registered, budgets>>

\* The answer of p arrives; those given before it are late from now on.
Arrived(p) ==
  \E n \in DOMAIN answers :
    /\ answers[n] = p
    /\ answers' = RemoveAt(answers, n)
    /\ late' = (late \union {answers[m] : m \in 1..n}) \ {p}

\* Mutant of Show: an old error stays.
ShowKeepingError(p) ==
  /\ Arrived(p)
  /\ error' = error /\ stale' = (p \in late)
  /\ Schedule(paused)
  /\ UNCHANGED <<sent, paused, reloading, registered, budgets>>

\* reload's then: the answer is shown and the next poll scheduled.
Show(p) ==
  /\ Arrived(p)
  /\ error' = FALSE /\ stale' = (p \in late)
  /\ Schedule(paused)
  /\ UNCHANGED <<sent, paused, reloading, registered, budgets>>

\* Mutant of Failed: an error does not schedule the next poll.
FailedForGood == error' = TRUE /\ UNCHANGED <<timers, stale>>

\* reload's catch: what was shown stays, beside the error.
Failed == error' = TRUE /\ stale' = stale /\ Schedule(paused)

\* No ubus object: the call is refused.
Refuse(p) ==
  /\ p \in sent /\ ~registered
  /\ sent' = sent \ {p} /\ Failed
  /\ UNCHANGED <<answers, late, paused, reloading, registered, budgets>>

\* A call or its answer is lost: the RPC times out.
LoseCall(p) == p \in sent /\ sent' = sent \ {p} /\ UNCHANGED <<answers, late>>
LoseAnswer(p) ==
  /\ \E n \in DOMAIN answers : answers[n] = p /\ answers' = RemoveAt(answers, n)
  /\ late' = late \ {p} /\ UNCHANGED sent
Lose(p) ==
  /\ losses > 0 /\ losses' = losses - 1
  /\ LoseCall(p) \/ LoseAnswer(p)
  /\ Failed
  /\ UNCHANGED <<paused, reloading, registered, clicks>>

----------------------------------------------------------------------------
\* The user.

Click == clicks > 0 /\ clicks' = clicks - 1 /\ losses' = losses

\* reload(true): the timer stops, a poll is issued.
ForcePoll == StopTimer /\ Issue

RefreshButton ==
  /\ Click /\ ForcePoll
  /\ UNCHANGED <<paused, page, reloading, registered>>

PauseButton ==
  /\ Click
  /\ paused' = ~paused
  /\ IF paused' THEN StopTimer ELSE Schedule(paused')
  /\ UNCHANGED <<calls, page, reloading, registered>>

IntervalSelect ==
  /\ Click /\ Schedule(paused)
  /\ UNCHANGED <<calls, paused, page, reloading, registered>>

\* rc init reload stops the daemon and has it started again.
ReloadButton ==
  /\ Click /\ reloading = "no" /\ reloading' = "calling"
  /\ UNCHANGED <<timers, calls, paused, page, registered>>

DaemonStops ==
  /\ reloading = "calling" /\ registered /\ registered' = FALSE /\ reloading' = "waiting"
  /\ UNCHANGED <<timers, calls, paused, page, budgets>>

\* The rc call fails before it does anything; the page waits all the same.
ReloadFails ==
  /\ reloading = "calling" /\ reloading' = "waiting"
  /\ UNCHANGED <<timers, calls, paused, page, registered, budgets>>

\* The 4000 ms timeout of the reload button.
ReloadDone ==
  /\ reloading = "waiting" /\ reloading' = "no"
  /\ ForcePoll
  /\ UNCHANGED <<paused, page, registered, budgets>>

\* procd has started the daemon and its ubus object is there.
DaemonStarts ==
  /\ ~registered /\ registered' = TRUE
  /\ UNCHANGED <<timers, calls, paused, page, reloading, budgets>>

----------------------------------------------------------------------------
Loop == \/ \E id \in TimerIds : Fire(id)
        \/ \E p \in Polls : Serve(p) \/ Show(p) \/ Refuse(p) \/ Lose(p)
User == RefreshButton \/ PauseButton \/ IntervalSelect \/ ReloadButton
Restart == DaemonStops \/ ReloadFails \/ ReloadDone \/ DaemonStarts

PollNext == Loop \/ User \/ Restart

PollSpec == PollInit /\ [][PollNext]_pollVars

\* Timeouts fire, every call is answered or refused in the end, its answer
\* arrives, and the daemon that was restarted comes up. The user and the
\* network owe nothing.
PollFairSpec ==
  /\ PollSpec
  /\ \A id \in TimerIds : WF_pollVars(Fire(id))
  /\ \A p \in Polls : WF_pollVars(Serve(p) \/ Refuse(p)) /\ WF_pollVars(Show(p))
  /\ WF_pollVars(DaemonStops \/ ReloadFails) /\ WF_pollVars(ReloadDone) /\ WF_pollVars(DaemonStarts)

----------------------------------------------------------------------------
(* Safety *)

\* A timeout the page no longer holds a reference to could never be stopped:
\* whatever the order of answers, errors and clicks, only the timeout
\* viewState.timer refers to is armed.
NoOrphanTimer == armed \subseteq {timer}

\* While the page is paused no timeout is armed, also after an answer, an error
\* or the reload button's own poll arrives: the pause holds until it is undone.
PausedIsQuiet == paused => armed = {}

\* Every poll in flight or timed beyond the loop's own was asked for: clicks,
\* the selector and the reload button add one each, and the loop none.
LoadBounded ==
  LET asked == (MaxClicks - clicks) - (IF reloading = "no" THEN 0 ELSE 1)
  IN Cardinality(InFlight) + Cardinality(armed) <= 1 + asked

(* Liveness *)

\* Neither an error nor a daemon that was away ends anything for good: the page
\* polls again and again unless it is paused, and the reload button is always
\* enabled again.
KeepsGoing == []<>(sent # {} \/ paused) /\ []<>(reloading = "no")

\* Polls that clicks, the selector and the reload button started beside the
\* loop's own merge with it whenever none is left in flight. The premise is
\* needed: where answers take longer than the interval, the timer one answer
\* arms fires before the next arrives and every extra loop goes on for good.
OneLoopRemains ==
  []<>(InFlight = {}) => <>[](Cardinality(InFlight) + Cardinality(armed) <= 1)

\* An older answer may overwrite a newer one, and an error may stay on the
\* page, but the page does not remain so: it comes back to the newest answer
\* given unless it is paused.
CatchesUp == []<>(paused \/ ~(stale \/ error))
=============================================================================
