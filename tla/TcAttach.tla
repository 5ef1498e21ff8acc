------------------------------ MODULE TcAttach ------------------------------
(***************************************************************************)
(* The tc attach life cycle of lanspeedd: the libbpf loader                *)
(* (lanspeed_bpf.c) and the daemon's policy around it (lanspeedd.c), from  *)
(* boot through policy switches and self-healing to a clean stop or a      *)
(* crash, with the other users of the same clsact hooks (dae, a qdisc      *)
(* reset, an interface that is recreated, init.d's safety net).            *)
(*                                                                         *)
(* The daemon is one uloop thread, but each tc operation is a system call  *)
(* of its own: an action is one step of attaching (hook, then filter) or   *)
(* one interface's detach, and the other users run in between.             *)
(***************************************************************************)
EXTENDS Naturals, Sequences, FiniteSets

CONSTANTS
  IfaceSeq,      \* bpf_attach_ifnames, in configuration order
  MaxAttached,   \* LANSPEED_BPF_MAX_ATTACHED, the size of the tracking table
  ListingShowsObject, \* `tc filter show` names the object file (init.d greps for it)
  MaxEvents      \* bound of the model: external events, failures, stops, crashes

Ifaces == {IfaceSeq[k] : k \in 1..Len(IfaceSeq)}

ASSUME IfaceSeqAssumption ==
  /\ IfaceSeq \in Seq(Ifaces)
  /\ Len(IfaceSeq) > 0
ASSUME BoundAssumption == MaxAttached \in Nat /\ MaxEvents \in Nat
ASSUME ListingAssumption == ListingShowsObject \in BOOLEAN

Dirs == {"ingress", "egress"}
Modes == {"normal", "early"}     \* pref/handle 49152/0x1eed and 1/0x1eee
Hooks == Ifaces \X Dirs \X Modes
\* Who holds a (dir, pref, handle): this process, an earlier process of ours
\* (its program still writes to its own, now unreadable, map), or a stranger.
\* A filter of this process that the kernel refused to remove is "left" when
\* the switch to the other mode wanted it gone, "stuck" when a rollback or the
\* stop did; it counts frames like any other.
Owners == {"none", "own", "left", "stuck", "orphan", "foreign"}
Ours == {"own", "left", "stuck"}

VARIABLES
  \* kernel
  slot,       \* [Hooks -> Owners]
  dae,        \* interfaces whose ingress carries a dae filter below pref 49152
  clsact,     \* interfaces that have a clsact qdisc
  up,         \* interfaces that exist
  gen,        \* the ifindex of each interface, renewed when it is recreated
  \* daemon
  job,        \* the handler (loop) in progress
  caller,     \* who asked for it; decides what follows
  at,         \* the loop's index into bpf_attach_ifnames
  point,      \* the direction the current loader call works on
  ifindex,    \* the ifindex that call resolved
  hook,       \* bpf_tc_hook_create's outcome in attach_point, "none" before it
  ok,         \* attached_ok > 0 in boot, `ok` in the recover loop
  attempted,  \* `attempted` in the recover loop
  want,       \* want_early of the switch in progress
  early,      \* bpf_runtime_early_passthrough, as a mode
  enabled,    \* bpf_runtime_enabled
  attached,   \* g_state.attached
  exit,       \* how the last process ended
  \* rate state
  cur,        \* bpf_current_snapshot_ms > 0
  prev,       \* bpf_previous_snapshot_valid
  \* history: what happened since the last snapshot, and between the last two
  taint, pairTaint,
  overflow,   \* this process attached or adopted a hook it had no room to track
  events      \* external events left

kernel == <<slot, dae, clsact, up, gen>>
cursor == <<job, caller, at, point, ifindex, hook, ok, attempted>>
policy == <<want, early, enabled>>
rate == <<cur, prev, taint, pairTaint>>
vars == <<kernel, cursor, policy, attached, exit, rate, overflow, events>>

Jobs == {"down", "boot", "idle", "switch", "retire", "rollback", "heal", "sample"}
Callers == {"boot", "tick", "check", "status", "clients"}
Taints == {"attach", "twice", "leftover", "failure"}

Tracked(i, d, m) == <<i, gen[i], d, m>>

Init ==
  /\ slot = [h \in Hooks |-> "none"]
  /\ dae = {} /\ clsact = {} /\ up = Ifaces /\ gen = [i \in Ifaces |-> 1]
  /\ job = "down" /\ caller = "boot" /\ at = 1 /\ point = "ingress"
  /\ ifindex = 0 /\ hook = "none" /\ ok = FALSE /\ attempted = FALSE
  /\ want = "normal" /\ early = "normal" /\ enabled = FALSE
  /\ attached = {} /\ exit = "clean"
  /\ cur = FALSE /\ prev = FALSE /\ taint = {} /\ pairTaint = {}
  /\ overflow = FALSE /\ events = MaxEvents

----------------------------------------------------------------------------
(* Loader primitives *)

Loops == at <= Len(IfaceSeq)
I == IfaceSeq[at]
Target == IF job = "switch" THEN want ELSE early

\* The name resolves; later in the call, the ifindex it gave is still alive.
Resolves ==
  /\ I \in up
  /\ point = "egress" => gen[I] = ifindex

Track(h) ==
  IF h \in attached \/ Cardinality(attached) < MaxAttached
    THEN attached' = attached \union {h} /\ UNCHANGED overflow
    ELSE overflow' = TRUE /\ UNCHANGED attached

\* Mutant of Policy: no default mode when no dae filter is listed.
PolicyWithoutDefault == IF dae # {} THEN "early" ELSE "none"

\* The policy dae_tc_preempts_bpf_ingress reads off the probe's filter listing.
Policy == IF dae # {} THEN "early" ELSE "normal"

ResetRates == cur' = FALSE /\ prev' = FALSE

\* Mutant of Return: the rollback starts at the interface that failed.
ReturnKeepingCursor(good) ==
  /\ point' = "ingress" /\ hook' = "none" /\ UNCHANGED ifindex
  /\ IF job = "switch" /\ ~good
       THEN job' = "rollback" /\ at' = at
       ELSE job' = job /\ at' = at + 1
  /\ ok' = IF job = "boot" THEN ok \/ good ELSE ok /\ good
  /\ attempted' = (attempted \/ ~good)

\* A loader call returns to its loop: boot and heal go on to the next
\* interface whatever it returned, a switch stops at the first error.
Return(good) ==
  /\ point' = "ingress" /\ hook' = "none" /\ UNCHANGED ifindex
  /\ IF job = "switch" /\ ~good
       THEN job' = "rollback" /\ at' = 1
       ELSE job' = job /\ at' = at + 1
  /\ ok' = IF job = "boot" THEN ok \/ good ELSE ok /\ good
  /\ attempted' = (attempted \/ ~good)

\* One direction done: egress follows ingress, the call returns after egress.
PointDone(restored) ==
  IF point = "ingress"
    THEN /\ point' = "egress" /\ hook' = "none"
         /\ attempted' = (attempted \/ restored)
         /\ UNCHANGED <<job, at, ok>>
    ELSE /\ point' = "ingress" /\ hook' = "none"
         /\ attempted' = (attempted \/ restored)
         /\ job' = job /\ at' = at + 1 /\ ok' = IF job = "boot" THEN TRUE ELSE ok

\* A filter found in place is tracked again; if it is ours it is in use again.
Adopted(h) == [slot EXCEPT ![h] = IF @ \in Ours THEN "own" ELSE @]

\* hook_create on the current direction. lanspeed_bpf_attach_iface_mode asks
\* whether the egress filter exists, lanspeed_bpf_ensure_attached asks for
\* both: a filter found at pref/handle is adopted whoever put it there.
EnterPoint ==
  /\ job \in {"boot", "switch", "heal"} /\ Loops /\ hook = "none"
  /\ LET present == slot[<<I, point, Target>>] # "none"
         queried == point = "egress" \/ job = "heal"
     IN \/ /\ ~Resolves
           /\ Return(FALSE)
           /\ UNCHANGED <<slot, clsact, attached, overflow>>
        \/ /\ Resolves /\ queried /\ present
           /\ Track(Tracked(I, point, Target))
           /\ slot' = Adopted(<<I, point, Target>>)
           /\ PointDone(FALSE)
           /\ ifindex' = gen[I]
           /\ UNCHANGED clsact
        \/ /\ Resolves /\ ~(queried /\ present)
           /\ hook' = IF I \in clsact THEN "found" ELSE "created"
           /\ clsact' = clsact \union {I}
           /\ ifindex' = gen[I]
           /\ UNCHANGED <<slot, job, at, point, ok, attempted, attached, overflow>>
  /\ UNCHANGED <<dae, up, gen, caller, policy, exit, rate, events>>

\* bpf_tc_attach without BPF_TC_F_REPLACE: exclusive create.
AttachFits ==
  /\ I \in up /\ gen[I] = ifindex /\ I \in clsact
  /\ slot[<<I, point, Target>>] = "none"

AttachFilter ==
  /\ job \in {"boot", "switch", "heal"} /\ Loops /\ hook # "none"
  /\ AttachFits
  /\ slot' = [slot EXCEPT ![<<I, point, Target>>] = "own"]
  /\ Track(Tracked(I, point, Target))
  /\ PointDone(TRUE)
  /\ taint' = taint \union {"attach"}
  /\ UNCHANGED <<dae, clsact, up, gen, caller, ifindex, policy, exit,
                 cur, prev, pairTaint, events>>

\* bpf_tc_hook_destroy on one attach point flushes that direction's filters.
Flush(created) ==
  IF created /\ I \in up /\ gen[I] = ifindex
    THEN /\ slot' = [h \in Hooks |->
                      IF h[1] = I /\ h[2] = point THEN "none" ELSE slot[h]]
         /\ dae' = IF point = "ingress" THEN dae \ {I} ELSE dae
    ELSE UNCHANGED <<slot, dae>>

\* The attach fails: the slot is taken, the device or its qdisc is gone, or
\* the kernel refuses (an external event). A hook made by this call goes.
AttachFails ==
  /\ job \in {"boot", "switch", "heal"} /\ Loops /\ hook # "none"
  /\ \/ ~AttachFits /\ UNCHANGED events
     \/ AttachFits /\ events > 0 /\ events' = events - 1
  /\ Flush(hook = "created")
  /\ Return(FALSE)
  /\ UNCHANGED <<clsact, up, gen, caller, policy, attached, exit, rate, overflow>>

\* detach_point on each of `hooks`: the kernel may refuse any of them (an
\* external event) and the loader ignores the error.
Remove(hooks, label, spent) ==
  \E refused \in SUBSET {h \in hooks : slot[h] # "none"} :
    LET cost == spent + IF refused = {} THEN 0 ELSE 1
    IN /\ events >= cost /\ events' = events - cost
       /\ slot' = [h \in Hooks |->
                    IF h \notin hooks THEN slot[h]
                    ELSE IF h \notin refused THEN "none"
                    ELSE IF slot[h] \in Ours THEN label ELSE slot[h]]

\* lanspeed_bpf_detach_iface_mode: whatever sits at the mode's pref/handle
\* goes, unless refused; both points are untracked all the same.
DetachIface(m, label) ==
  IF I \in up
    THEN /\ Remove({<<I, d, m>> : d \in Dirs}, label, 0)
         /\ attached' = attached \ {Tracked(I, d, m) : d \in Dirs}
    ELSE UNCHANGED <<slot, attached, events>>

\* Where some point of this ifindex is tracked, whichever the mode.
TrackedHooks == {h \in Hooks : h[1] \in up /\ \E m \in Modes : Tracked(h[1], h[2], m) \in attached}

\* Mutant of DetachAll: only the early pref/handle of a tracked point goes.
DetachAllEarly(spent) ==
  /\ Remove({h \in TrackedHooks : h[3] = "early"}, "stuck", spent)
  /\ attached' = {}

\* lanspeed_bpf_detach_all: both modes' pref/handle at every tracked point,
\* unless refused; the table is emptied all the same.
DetachAll(spent) ==
  /\ Remove(TrackedHooks, "stuck", spent)
  /\ attached' = {}

----------------------------------------------------------------------------
(* Daemon handlers *)

\* A new process: every static variable is zero. procd respawns the program
\* itself, so nothing has removed what the last process left behind.
NewProcess ==
  /\ job = "down"
  /\ slot' = [h \in Hooks |-> IF slot[h] \in Ours THEN "orphan" ELSE slot[h]]
  /\ want' = "normal" /\ enabled' = FALSE
  /\ caller' = "boot" /\ at' = 1 /\ point' = "ingress"
  /\ ifindex' = 0 /\ hook' = "none" /\ ok' = FALSE /\ attempted' = FALSE
  /\ attached' = {} /\ overflow' = FALSE
  /\ cur' = FALSE /\ prev' = FALSE /\ taint' = {} /\ pairTaint' = {}
  /\ UNCHANGED <<dae, clsact, up, gen, exit>>

\* start_bpf_runtime up to the attach loop.
Boot ==
  /\ NewProcess
  /\ job' = "boot" /\ early' = Policy
  /\ UNCHANGED events

\* lanspeed_bpf_init fails: the object is missing or refused by the kernel.
BootWithoutObject ==
  /\ NewProcess
  /\ events > 0 /\ events' = events - 1
  /\ job' = "idle" /\ early' = "normal"

StartHeal(c) ==
  /\ job' = "heal" /\ caller' = c /\ at' = 1 /\ ok' = TRUE /\ attempted' = FALSE
  /\ point' = "ingress" /\ UNCHANGED <<ifindex, hook>>

StartLoop(j, c) ==
  /\ job' = j /\ caller' = c /\ at' = 1
  /\ point' = "ingress" /\ UNCHANGED <<ifindex, hook, ok, attempted>>

\* Nothing attached: the loader is shut down and, with no timer armed, the
\* process never tries again.
BootFails ==
  /\ job = "boot" /\ ~Loops /\ ~ok
  /\ DetachAll(0)
  /\ StartLoop("idle", "boot")
  /\ UNCHANGED <<dae, clsact, up, gen, policy, exit, rate, overflow>>

BootSucceeds ==
  /\ job = "boot" /\ ~Loops /\ ok
  /\ enabled' = TRUE
  /\ StartHeal("boot")
  /\ UNCHANGED <<kernel, want, early, attached, exit, rate, overflow, events>>

\* Mutant of Tick: the periodic check of the filters is missing.
TickWithoutCheck ==
  /\ job = "idle" /\ enabled
  /\ IF Policy # early
       THEN want' = Policy /\ StartLoop("switch", "tick")
       ELSE UNCHANGED want /\ StartLoop("sample", "check")
  /\ UNCHANGED <<kernel, early, enabled, attached, exit, rate, overflow, events>>

\* bpf_collect_tick: probe, follow the policy, then verify and sample.
Tick ==
  /\ job = "idle" /\ enabled
  /\ IF Policy # early
       THEN want' = Policy /\ StartLoop("switch", "tick")
       ELSE UNCHANGED want /\ StartHeal("check")
  /\ UNCHANGED <<kernel, early, enabled, attached, exit, rate, overflow, events>>

\* status_method / clients_method when their probe asks for the other mode.
Request ==
  /\ job = "idle" /\ enabled /\ Policy # early
  /\ want' = Policy
  /\ \E c \in {"status", "clients"} : StartLoop("switch", c)
  /\ UNCHANGED <<kernel, early, enabled, attached, exit, rate, overflow, events>>

SwitchAttached ==
  /\ job = "switch" /\ ~Loops
  /\ StartLoop("retire", caller)
  /\ UNCHANGED <<kernel, policy, attached, exit, rate, overflow, events>>

Retire ==
  /\ job = "retire" /\ Loops
  /\ DetachIface(early, "left")
  /\ at' = at + 1
  /\ UNCHANGED <<dae, clsact, up, gen, job, caller, point, ifindex, hook, ok,
                 attempted, policy, exit, rate, overflow>>

\* Mutant of SwitchDone: the mode in force is not recorded.
SwitchForgotten ==
  /\ job = "retire" /\ ~Loops
  /\ ResetRates
  /\ StartHeal(caller)
  /\ UNCHANGED <<kernel, want, early, enabled, attached, exit, taint, pairTaint,
                 overflow, events>>

SwitchDone ==
  /\ job = "retire" /\ ~Loops
  /\ early' = want
  /\ ResetRates
  /\ StartHeal(caller)
  /\ UNCHANGED <<kernel, want, enabled, attached, exit, taint, pairTaint,
                 overflow, events>>

Rollback ==
  /\ job = "rollback" /\ Loops
  /\ DetachIface(want, "stuck")
  /\ at' = at + 1
  /\ UNCHANGED <<dae, clsact, up, gen, job, caller, point, ifindex, hook, ok,
                 attempted, policy, exit, rate, overflow>>

\* The switch is abandoned; the rate state is kept. A tick still verifies.
RollbackDone ==
  /\ job = "rollback" /\ ~Loops
  /\ taint' = taint \union {"failure"}
  /\ IF caller = "tick" THEN StartHeal("check") ELSE StartLoop("idle", caller)
  /\ UNCHANGED <<kernel, policy, attached, exit, cur, prev, pairTaint,
                 overflow, events>>

\* Mutant of HealDone: snapshots survive a restored filter.
HealKeepingSnapshots ==
  /\ job = "heal" /\ ~Loops
  /\ UNCHANGED <<cur, prev>>
  /\ taint' = IF ok THEN taint ELSE taint \union {"failure"}
  /\ \/ caller \in {"boot", "status"} /\ StartLoop("idle", caller)
     \/ caller = "tick" /\ StartHeal("check")
     \/ caller \in {"check", "clients"} /\ StartLoop("sample", caller)
  /\ UNCHANGED <<kernel, policy, attached, exit, pairTaint, overflow, events>>

\* The end of bpf_runtime_recover_if_needed, and what its caller does next.
HealDone ==
  /\ job = "heal" /\ ~Loops
  /\ IF ok /\ attempted THEN ResetRates ELSE UNCHANGED <<cur, prev>>
  /\ taint' = IF ok THEN taint ELSE taint \union {"failure"}
  /\ \/ caller \in {"boot", "status"} /\ StartLoop("idle", caller)
     \/ caller = "tick" /\ StartHeal("check")
     \/ caller \in {"check", "clients"} /\ StartLoop("sample", caller)
  /\ UNCHANGED <<kernel, policy, attached, exit, pairTaint, overflow, events>>

\* bpf_collect_samples: the current snapshot becomes the previous one.
Sample ==
  /\ job = "sample"
  /\ \/ /\ prev' = cur /\ cur' = TRUE
        /\ pairTaint' = taint /\ taint' = {}
     \/ UNCHANGED rate                  \* the map could not be read
  /\ StartLoop("idle", caller)
  /\ UNCHANGED <<kernel, policy, attached, exit, overflow, events>>

\* SIGTERM ends uloop after the handler in progress: stop_bpf_runtime.
Terminate ==
  /\ job = "idle"
  /\ DetachAll(1)
  /\ enabled' = FALSE /\ early' = "normal" /\ exit' = "clean"
  /\ StartLoop("down", "boot")
  /\ UNCHANGED <<dae, clsact, up, gen, want, rate, overflow>>

\* SIGKILL, OOM or abort at any instruction; the kernel keeps the filters.
Crash ==
  /\ job # "down" /\ events > 0
  /\ events' = events - 1
  /\ job' = "down" /\ exit' = "crash" /\ enabled' = FALSE
  /\ UNCHANGED <<kernel, caller, at, point, ifindex, hook, ok, attempted,
                 want, early, attached, rate, overflow>>

----------------------------------------------------------------------------
(* The other users of the hooks *)

Event ==
  /\ events > 0 /\ events' = events - 1
  /\ UNCHANGED <<cursor, policy, attached, exit, rate, overflow>>

DaeStarts(i) ==
  /\ Event
  /\ i \in up \ dae
  /\ dae' = dae \union {i} /\ clsact' = clsact \union {i}
  /\ UNCHANGED <<slot, up, gen>>

DaeStops(i) ==
  /\ Event
  /\ i \in dae
  /\ dae' = dae \ {i}
  /\ UNCHANGED <<slot, clsact, up, gen>>

\* Another component deletes or rebuilds the qdisc: every filter is gone.
QdiscReset(i) ==
  /\ Event
  /\ i \in clsact
  /\ slot' = [h \in Hooks |-> IF h[1] = i THEN "none" ELSE slot[h]]
  /\ clsact' = clsact \ {i} /\ dae' = dae \ {i}
  /\ UNCHANGED <<up, gen>>

\* Another component flushes one direction of the qdisc and leaves the rest.
DirectionFlush(i, d) ==
  /\ Event
  /\ i \in clsact
  /\ slot' = [h \in Hooks |-> IF h[1] = i /\ h[2] = d THEN "none" ELSE slot[h]]
  /\ dae' = IF d = "ingress" THEN dae \ {i} ELSE dae
  /\ UNCHANGED <<clsact, up, gen>>

\* A stranger's filter at lanspeed's own pref/handle (tc_filter_conflict).
ForeignFilter(h) ==
  /\ Event
  /\ h[1] \in up /\ slot[h] = "none"
  /\ slot' = [slot EXCEPT ![h] = "foreign"]
  /\ clsact' = clsact \union {h[1]}
  /\ UNCHANGED <<dae, up, gen>>

IfaceGone(i) ==
  /\ Event
  /\ i \in up
  /\ up' = up \ {i}
  /\ slot' = [h \in Hooks |-> IF h[1] = i THEN "none" ELSE slot[h]]
  /\ clsact' = clsact \ {i} /\ dae' = dae \ {i}
  /\ UNCHANGED gen

IfaceBack(i) ==
  /\ Event
  /\ i \notin up
  /\ up' = up \union {i}
  /\ gen' = [gen EXCEPT ![i] = @ + 1]
  /\ UNCHANGED <<slot, dae, clsact>>

\* init.d cleanup_lanspeed_tc_filters_on_dev, one direction: it runs on stop
\* and reload, while the daemon is still running.
InitCleanup(i, d) ==
  /\ Event
  /\ ListingShowsObject
  /\ \E m \in Modes : slot[<<i, d, m>>] \in Ours \union {"orphan"}
  /\ slot' = [h \in Hooks |->
               IF h[1] = i /\ h[2] = d /\ slot[h] \in Ours \union {"orphan"}
                 THEN "none" ELSE slot[h]]
  /\ UNCHANGED <<dae, clsact, up, gen>>

\* A frame passes a direction that carries both of our programs: the early
\* one returns TC_ACT_UNSPEC, so the normal one counts the frame again.
Frame(i, d) ==
  /\ \A m \in Modes : slot[<<i, d, m>>] \in Ours
  /\ job # "down"
  /\ taint' = taint \union
       {IF \A m \in Modes : slot[<<i, d, m>>] = "own" THEN "twice" ELSE "leftover"}
  /\ UNCHANGED <<kernel, cursor, policy, attached, exit, cur, prev, pairTaint,
                 overflow, events>>

LoaderStep == EnterPoint \/ AttachFilter \/ AttachFails \/ Retire \/ Rollback

HandlerStep ==
  \/ BootFails \/ BootSucceeds
  \/ SwitchAttached \/ SwitchDone \/ RollbackDone \/ HealDone \/ Sample

Daemon ==
  LoaderStep \/ HandlerStep \/ Boot \/ BootWithoutObject \/ Tick \/ Request
  \/ Terminate

Others ==
  \/ \E i \in Ifaces :
       \/ DaeStarts(i) \/ DaeStops(i) \/ QdiscReset(i)
       \/ IfaceGone(i) \/ IfaceBack(i)
       \/ \E d \in Dirs : DirectionFlush(i, d) \/ InitCleanup(i, d) \/ Frame(i, d)
  \/ \E h \in Hooks : ForeignFilter(h)

Next == Daemon \/ Crash \/ Others

Spec == Init /\ [][Next]_vars

\* The kernel schedules the process, procd respawns it, and uloop runs an
\* expired timer before it serves the next request.
FairSpec ==
  /\ Spec
  /\ WF_vars(LoaderStep \/ HandlerStep)
  /\ WF_vars(Boot)
  /\ SF_vars(Tick)

----------------------------------------------------------------------------
(* Properties *)

KernelType ==
  /\ slot \in [Hooks -> Owners]
  /\ dae \subseteq Ifaces /\ clsact \subseteq Ifaces /\ up \subseteq Ifaces
  /\ gen \in [Ifaces -> Nat]

CursorType ==
  /\ job \in Jobs /\ caller \in Callers
  /\ at \in 1..(Len(IfaceSeq) + 1)
  /\ point \in Dirs /\ ifindex \in Nat /\ hook \in {"none", "found", "created"}
  /\ ok \in BOOLEAN /\ attempted \in BOOLEAN

StateType ==
  /\ want \in Modes /\ early \in Modes /\ enabled \in BOOLEAN
  /\ attached \subseteq (Ifaces \X Nat \X Dirs \X Modes)
  /\ exit \in {"clean", "crash"}
  /\ cur \in BOOLEAN /\ prev \in BOOLEAN
  /\ taint \subseteq Taints /\ pairTaint \subseteq Taints
  /\ overflow \in BOOLEAN /\ events \in 0..MaxEvents

\* Every variable keeps its type; the loop index never runs past the end.
TypeOK == KernelType /\ CursorType /\ StateType

\* A policy switch is all or nothing, up to what the kernel refuses to remove:
\* once the handler is over, whether it succeeded or was rolled back half way,
\* a filter of this process at the other mode's pref/handle, where it would
\* count every frame a second time, is one whose detach was refused
\* (bpf_runtime_refresh_attach_policy's two detach loops).
ModesExclusive ==
  job \notin {"down", "switch", "retire", "rollback"} =>
    \A i \in Ifaces, d \in Dirs, m \in Modes \ {early} : slot[<<i, d, m>>] # "own"

\* Two snapshots are only subtracted when no filter was installed between
\* them and no frame was counted by both modes' filters in use, unless a switch
\* or a heal failed in between (which keeps the old snapshots): the resets in
\* bpf_runtime_recover_if_needed and bpf_runtime_refresh_attach_policy. A
\* frame that a refused filter counts too taints as "leftover".
WindowIntact ==
  prev /\ pairTaint \intersect {"attach", "twice"} # {} => "failure" \in pairTaint

\* After a clean exit no filter keeps calling into the dead process's map,
\* whatever switches, heals and interface changes came before, as long as
\* the tracking table had room (lanspeed_bpf_detach_all). What a switch had to
\* leave goes too, though nothing tracks it: the detach tries both modes
\* wherever one is tracked. Only a refusal by a rollback or by this very stop
\* leaves one.
CleanStop ==
  job = "down" /\ exit = "clean" /\ ~overflow =>
    \A h \in Hooks : slot[h] \notin {"own", "left"}

\* The inductive invariant behind the three: an interface that is gone has no
\* filters; each loop has cleared the interfaces it passed; this process's
\* filters are tracked, and those a switch left lie beside one that is; a
\* snapshot spoilt since it was taken will be reset, or its failure recorded,
\* before the next one is taken.
GoneHooksEmpty == \A h \in Hooks : h[1] \notin up => slot[h] = "none"

SwitchProgress ==
  /\ job \in {"switch", "retire", "rollback"} => want # early
  /\ \A k \in 1..Len(IfaceSeq), d \in Dirs : k < at =>
       /\ job = "retire" => slot[<<IfaceSeq[k], d, early>>] # "own"
       /\ job = "rollback" => slot[<<IfaceSeq[k], d, want>>] # "own"

OwnTracked ==
  job # "down" /\ ~overflow =>
    \A i \in Ifaces, d \in Dirs, m \in Modes :
      slot[<<i, d, m>>] = "own" => Tracked(i, d, m) \in attached

\* A switch on its way to completion has been through (IfaceSeq[k], d).
Entered(k, d) ==
  \/ job = "retire"
  \/ job = "switch" /\ (k < at \/ (k = at /\ d = "ingress" /\ point = "egress"))

SwitchTracked ==
  ~overflow => \A k \in 1..Len(IfaceSeq), d \in Dirs, m \in Modes :
    Entered(k, d) /\ slot[<<IfaceSeq[k], d, m>>] \in Ours =>
      Tracked(IfaceSeq[k], d, want) \in attached

\* Only the retire loop leaves a filter at the mode in force, and by then the
\* switch has taken over any that an earlier switch left at the other.
LeftIsOld ==
  /\ job \notin {"down", "retire"} =>
       \A i \in Ifaces, d \in Dirs : slot[<<i, d, early>>] # "left"
  /\ \A k \in 1..Len(IfaceSeq), d \in Dirs :
       Entered(k, d) => slot[<<IfaceSeq[k], d, want>>] # "left"

LeftCovered ==
  job # "down" /\ ~overflow =>
    \A i \in Ifaces, d \in Dirs, m \in Modes :
      slot[<<i, d, m>>] = "left" => \E x \in Modes : Tracked(i, d, x) \in attached

SnapshotGuarded ==
  /\ job = "boot" => ~cur
  /\ cur /\ taint \intersect {"attach", "twice"} # {} =>
       \/ "failure" \in taint
       \/ job \in {"down", "switch", "retire", "rollback"}
       \/ job = "heal" /\ attempted

SafetyInv ==
  /\ TypeOK /\ GoneHooksEmpty
  /\ SwitchProgress /\ ModesExclusive
  /\ OwnTracked /\ SwitchTracked /\ LeftIsOld /\ LeftCovered /\ CleanStop
  /\ SnapshotGuarded /\ WindowIntact

\* Whatever removed the filters, a live collector ends up with both of them
\* on every interface that exists (bpf_collect_tick's self-healing).
HooksRestored ==
  <>[](enabled => \A i \in up, d \in Dirs : slot[<<i, d, early>>] # "none")

\* dae comes or goes, switches fail and are retried by the next tick: the
\* attach mode ends up the one dae's presence asks for, provided every
\* configured interface exists (one that does not fails each switch).
PolicyConverges ==
  <>[](enabled /\ up = Ifaces => (early = "early" <=> dae # {}))

\* lanspeed_bpf.h:89 of lanspeed_bpf_attach_iface: "Returns 0 on success (both
\* directions attached or already present)". Yet a process respawned after a
\* crash finds both filters of every interface (they were there all along,
\* being an earlier process's), counts no success and turns the collector off.
AlreadyPresentIsSuccess ==
  job = "boot" /\ ~Loops
    /\ (\A i \in Ifaces, d \in Dirs : slot[<<i, d, early>>] = "orphan") => ok

\* lanspeed_bpf.h:103-105 of lanspeed_bpf_detach_iface_mode: "Foreign filters and
\* the shared clsact qdisc are left untouched", and lanspeed_bpf.c:498-500: leaving
\* those of dae, SQM and qosify on the shared hook untouched "is a hard
\* requirement of this project". No step of the daemon removes a filter that some
\* other program installed.
OthersUntouched ==
  [][Daemon => /\ dae \subseteq dae'
               /\ \A h \in Hooks : slot[h] = "foreign" => slot'[h] = "foreign"]_vars
=============================================================================
