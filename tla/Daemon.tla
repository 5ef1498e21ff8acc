------------------------------- MODULE Daemon -------------------------------
(***************************************************************************)
(* What the services of lanspeedd share: one thread, busy with one handler *)
(* at a time, and the clock. The world outside moves on while it works.    *)
(***************************************************************************)
EXTENDS Integers

CONSTANT
  Budgets  \* bounds: how often each thing may happen, one choice per behaviour

Bounded == {"time", "calls", "polls", "collects", "writes", "frames", "moves"}

ASSUME BudgetsAssumption == Budgets \subseteq [Bounded -> Nat]

VARIABLES
  now,   \* monotonic_time_ms, and the seconds of a file's mtime
  job,   \* the step the thread is at
  left   \* what is left of the budget

Jobs == {"idle", "leases", "hostsdir", "etchosts", "answer", "walk", "open", "read", "settle"}

DaemonInit == now = 1 /\ job = "idle" /\ left \in Budgets

Spend(b) == left[b] > 0 /\ left' = [left EXCEPT ![b] = @ - 1]

Tick == Spend("time") /\ now' = now + 1 /\ job' = job
=============================================================================
