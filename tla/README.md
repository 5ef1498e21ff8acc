# A TLA+ model of lanspeed

lanspeed shows, per LAN client, the live upload and download rate on an OpenWrt
router. This directory models the program's own logic in TLA+: the attach life
cycle of its tc filters, the accounting in the kernel, the way from counters to
rates, the choice between the sources of rates, the coverage figure of `status`,
the daemon's other services (names, interface rates, overview), and the two LuCI
pages with the configuration between them and the daemon. TLC checks the modules
on small instances. TLAPS proves every safety property that a passing run checks,
invariants and action properties alike, and the refinement of the coverage window,
for all values of the constants; liveness stays with TLC.

Paths below are relative to `src/net/lanspeedd/src/` unless they say otherwise.

## The system

| Component | State it keeps | Operations | Modelled in |
|---|---|---|---|
| tc loader (`lanspeed_bpf.c`) | loaded object, tracking table of 16 attached hooks, status | attach, ensure attached, detach, detach all, read the map | `TcAttach`, reader in `RateWindow` |
| attach life cycle (`lanspeedd.c`) | `bpf_runtime_enabled`, `bpf_runtime_early_passthrough`, snapshots, timer | boot, periodic tick, policy switch, recovery, stop | `TcAttach` |
| init.d, procd, hotplug | none | cleanup of owned filters on stop and reload; respawn | `TcAttach` (partly) |
| eBPF programs (`lanspeed_tc.bpf.c`) | `lanspeed_clients`, `lanspeed_seen_conns` (LRU maps) | `account_frame`, `try_count_connection`, on every CPU | `ClientMap` |
| sample collection, rates | current and previous snapshot | read, fold, subtract | `RateWindow` |
| coverage window | ring of 16 samples | push and judge on each `status` call | `Coverage`, `CoverageWindow`, `Ring` |
| overview ring | ring of 240 samples | push on each `clients` call, reply | `Overview`, `Ring` |
| hostname cache | two caches, the mtimes and the time of the last refresh | refresh and lookup on each `clients` call | `Hostnames` |
| interface rates | previous counters of each interface | two reads per interface on each `interfaces` call | `Interfaces` |
| collector policy | capabilities probed per call | choice of NSS ECM direct, conntrack sync or BPF | `Collectors` |
| conntrack and NSS collectors | previous snapshots | read, fold, subtract on each `clients` call | `Collectors` (without connection counts) |
| configuration | UCI options | load, clamp | `DaemonConfig` (partly) |
| LuCI live view (`view/lanspeed/index.js`) | timer, pause, last answers | poll, buttons, reload | `LuciPoll` |
| LuCI configuration pages (`config.js`, `ifaceConfig.js`) | uncommitted changes per session | load, save, commit, reload | `Settings`, `DaemonConfig` |
| probe, evidence, ARP and identity, formatting, packaging | none of their own | parsing and formatting | not modelled |

The daemon is one uloop thread. A timer runs `bpf_collect_tick`; ubus requests
run `status_method`, `clients_method` and others; SIGTERM ends the loop. The
handlers share all daemon state, so they never interleave with each other. What
they do interleave with is outside: the tc hooks are shared with dae, SQM and
whoever else uses clsact, each tc operation is a system call of its own, the
eBPF programs count frames on all CPUs while the daemon walks the map, and the
kernel keeps filters and maps when the process dies. LuCI polls `status`,
`clients` and `interfaces`; each call moves the state on (a policy switch, a
coverage sample, a conntrack snapshot, an overview sample, the previous counters
of an interface), and it does so for every open page: the pages share it all.

What is hard about it, and what the properties are aimed at:

* **Partial work.** A policy switch attaches up to 32 filters and removes 32
  others; any of these calls may fail, the interface may vanish, the process may
  die. No frame may be counted by two programs, and no rate may be computed over
  a period in which one was.
* **Healing.** Another component resets the qdisc, an interface comes back with a
  new ifindex. The next tick must restore the filters, and what was measured
  before must not be compared with what is measured after.
* **Races in the kernel.** Two CPUs see the first frame of a client or of a
  connection; an entry is evicted between a lookup and its use, or under the
  cursor of the walk.
* **Shared snapshots.** Every `clients` call reads the source it finds best and
  makes that read the previous snapshot of the next caller, whoever that is. In
  between flows close, addresses change hands, and the best source may be another.
* **Windows.** Rings that wrap, that are cleared without being wiped, counters
  that fall inside a window.
* **Reading while others write.** The lease file is emptied and filled while the
  daemon parses it, an interface is recreated between the two reads of its
  counters, frames arrive while the map is walked.
* **Pages.** Answers overtake one another, calls fail after they did their work,
  a click acts while an answer is under way, the daemon is away for seconds, two
  forms share one session.

## The modules

### TcAttach, TcAttachProofs, MCTcAttach

State: the filters of each `<<interface, direction, mode>>` (`slot`: nobody, this
process, an earlier process, a stranger), dae's filters, clsact qdiscs, existing
interfaces and their ifindex; in the daemon the handler in progress with its
loop index and the phase of the loader call (`job`, `caller`, `at`, `point`,
`ifindex`, `hook`), the mode in force, `bpf_runtime_enabled`, the tracking
table, and whether snapshots are valid.

One action is one step of the code between two system calls that can interleave
with others: `EnterPoint` (resolve the interface, query, create the hook),
`AttachFilter` / `AttachFails` (the exclusive `bpf_tc_attach`, with the flush of
a hook this call created), `Retire` / `Rollback` (detach one interface),
`HealDone`, `SwitchDone`, `RollbackDone`, `Sample`, `Terminate`. The kernel may
refuse to remove any filter (`Remove`, an external event): the loader ignores the
error (`lanspeed_bpf.c:277`, `:492`) and drops the filter from its table all the
same. Such a filter goes on counting. Its label says who had to leave it: `left`
by the loop of a switch that removes the old mode, `stuck` by a rollback or a
stop. Where a later call finds it at the place it wants to fill, the filter is
adopted (`Adopted`) and in use again. `Boot` is a fresh process: everything an earlier one left in the kernel becomes an
`orphan`. The environment is `DaeStarts`, `DaeStops`, `QdiscReset`,
`DirectionFlush`, `ForeignFilter`, `IfaceGone`, `IfaceBack`, `InitCleanup` and
`Crash`; `Frame` is a frame that passes a direction carrying both programs.

The model assumes `enable_bpf` and a rate collector mode that allows BPF
(without them the code never attaches anything). A handler's probe is atomic
with the decision it leads to.

Properties: `ModesExclusive`, `WindowIntact`, `CleanStop` (safety);
`HooksRestored`, `PolicyConverges` (liveness). `taint` and `pairTaint` are
history variables: what spoilt the interval since the last snapshot, and the one
between the two snapshots.

A refused removal is the one thing that the code does not notice, so it is the
one exception of the safety properties, and each says how far it reaches.
`ModesExclusive`: after a switch, done or rolled back, a filter of this process at
the other mode's place is one whose removal was refused. `WindowIntact`: a window
counts frames twice only if it contains a failed switch or heal, which leaves the
rate state as it is, or where one of the two filters is a refused one (`taint` has
`leftover`, not `twice`). `CleanStop`: what a switch had to leave goes with a later
stop, though nothing tracks it, because the stop tries both modes wherever one is
tracked; only a refusal by a rollback or by the stop itself leaves a filter behind.

What the exceptions name does happen: after one refused removal a switch reports
success with both modes' filters counting every frame, until a later switch adopts
the filter, a stop removes it or someone else does; and a filter attached when the
table of 16 is full (`overflow`) stays in place after a stop. These are defects of
the code that the properties delimit and do not excuse.

`AlreadyPresentIsSuccess` and `OthersUntouched` state what comments promise and the
code does not keep.

### ClientMap, MCClientMap, ClientMapProofs

`account_frame` and `try_count_connection` on several CPUs, one action per
helper call. The LRU map is a pool of elements: a lookup yields the element, an
eviction gives it to another key at once, and a CPU that still holds the pointer
adds to the new owner. `FramesAccounted` is exact accounting until the pool
overflows, with the frames lost to the first-insert race named;
`DroppedOnlyAtFirst` bounds that loss by the number of CPUs;
`SeenIsCounted` and `OvercountBounded` do the same for connections.

### RateWindow, MCRateWindow, RateWindowProofs

The walk of the map (`NextKey`, `Lookup`, one system call each) against frames
and evictions, the fold into clients, the two snapshots and the delta.
`bpf_map_get_next_key` restarts at the first bucket when the key under the
cursor is gone (external, modelled from the kernel's contract; each bucket holds
one key). `ReadComplete`: a walk that ends has read every key that was in the map
throughout. `NoInflatedRate`: no client is credited with more than it sent
between the start of the older read and the end of the newer, except when the
walk restarted (keys are added twice) or the older fold was cut at `max_clients`
(a later complete fold then reports whole histories). Both exceptions are
hazards of the code that the property makes precise.

### Coverage, CoverageWindow, Ring, MCCoverage, CoverageProofs

`CoverageWindow` is the promise: the newest of the last `Window` readings is
compared with the oldest complete one, and a decrease drops the window.
`Coverage` is the code: the ring with its head, count and stale slots, the
search for the oldest sample, the fall-through of the client sources. The
property `SlidesOverWindow` is the abstract specification under the refinement
mapping (readings as computed now, the ring as the sequence it stands for).
`ResetsNotRepeated` and `SpansNoReset` are about histories the ring alone does
not show. A recovery that restores one interface and fails on another returns
before the reset of the rates (`RecoveryFails`, `lanspeedd.c:1400-1411`), and so
does a switch that is rolled back: the ring then holds samples from both sides of
a restored filter. `SpansNoReset` says that these are the only ones that get
compared: between the two samples of a figure filters were not restored, or the
mode switched, more often than a recovery or a switch failed. Each such failure is
counted in `bpf_runtime_self_heal_failures`, of which every later reply warns. One direction stands for both; percentages are left out.

### Collectors, MCCollectors, CollectorsProofs

One `clients` call as one action: the daemon is one thread and nothing of its own
state changes under it. `Asked` and `Chosen` are `clients_method`'s chain: the
NSS ECM state first, then conntrack if the policy allows it, then BPF. `Folded`
credits each flow to a client by its ARP entry (ECM's own MAC comes first),
`Rates` subtracts the table's previous snapshot, `FromTable` replaces it. A
read may fail (`Readable`), and one of a file may leave flows out (`Dumps`): the
end of a file and a failed read look alike to `fgets`, and the kernel walks a live
table; a netlink dump that breaks off is an error in the code. Between calls
flows open, count and close, ARP entries change, and so does what the probe
finds. BPF's rates are `RateWindow`'s; here BPF is off, warming up or ready.

`RatesHonest` is the property the shared snapshots need: the bytes behind a rate
are those the client moved since the snapshot its interval is counted from,
whoever called in between and whichever other source was used. It names its
exception: a client newly credited with a flow that was counting already (its
address changed hands, or the last read left the flow out) is shown the flow's
whole history as one interval's traffic. `ConntrackNeedsNss` is what the
repository's README promises of devices without NSS, `BpfIsLastResort` that no
path ends empty while BPF has rates, `StatusNamesSource` that the two chains of
conditions behind `status` and `clients` agree; its exceptions are a failed
read, BPF's warm-up, and a device with NSS whose `enable_conntrack_fallback` is
off: `status` still names conntrack, `clients` does not read it.

### LuciPoll, MCLuciPoll, LuciProofs

The polling loop of the live view in the browser. State: the timeouts that are
armed, the one `viewState.timer` refers to, the polls in flight (asked and not
answered, answered and on their way), the pause, the error, the reload button,
whether the daemon is up. Actions: the timer fires (`Fire`), the daemon answers
(`Serve`), an answer or an error arrives in any order (`Show`, `Refuse`, `Lose`),
the four controls of the page, and a restart of the daemon. The three calls of a
poll travel together and count as one.

Safety: `NoOrphanTimer` and `PausedIsQuiet` are about timers that no button could
stop, `LoadBounded` about how many polls and timers a page holds at once.
Liveness: `KeepsGoing`, `CatchesUp` (an old answer or an error does not stay on
the page), and `OneLoopRemains`, whose premise is the point: extra loops merge
whenever no poll is in flight. Where answers take longer than the interval, that
moment never comes, and each click on refresh adds a loop that goes on for good.
A pause does not cancel what is in flight: a late answer is still drawn.

`LuciPoll` and `Settings` are two specifications of the same web interface that
share no variable: the view never writes the configuration, and the forms never
touch the timer. `LuciProofs` extends both; the view's is called `PollSpec`.

### DaemonConfig, Settings, MCSettings, LuciProofs

`DaemonConfig` holds what each of the two readers makes of the configuration
file, as operators: `Loaded` is `load_config`, with the conversions, the clamps
and the interface lists; `Shown` and `ReadForm` are the parameter form of the
page. The conversions do what the libraries do with numbers of any size. `Atoi`
keeps the low 32 bits, as musl's does (the C standard leaves it open). `Strtoull`
saturates from 2^64 on and negates a number with a sign. `ParseInt` rounds past
2^53 (the model has one distance, `Grain`, between the numbers a double can hold
there, where the real one grows). `Texts` is `String`: from 10^21 on it writes an
exponent, of which every reader takes the digit before the point. The widths are
constants, of which the proofs need only the order.

`Settings` is the way between them. Each form saves by a sequence of calls (set,
commit, reload; the interface form deletes its lists first and waits at the end);
rpcd keeps uncommitted changes per login session; a commit writes them and wakes
procd's reload trigger; a reload replaces the daemon, which loads the file as it
starts. A call may fail with or without having done its work. Forms of several
sessions, and both forms of one, are open at the same time.

`ConfigSound` holds for any file, also one edited by hand. `FormShowsDaemon`
names its exceptions (`Misread`): the repository's README says that values below
the minimum are clamped, but an active window of "0" falls back to 10000, and
a negative number counts down from 2^64; the form shows the minimum for both. Past
2^53 the form shows the nearest number a double can hold, and from 2^64 on the
daemon runs with 2^64-1. The other two exceptions are modes it does not know
beside an old option.
`AppliedRuns`: what a form reports as applied is what runs, numbers from 2^64 on
excepted: the form takes them, and the daemon saturates or, where the page wrote an
exponent, reads one digit. `ListsChangeWhole`:
the lists are replaced as a whole or, and that is the named exception, the
deletion that the interface form has staged is committed alone, by a commit of
the other form of the session. `FileTakesEffect`: whatever fails, the daemon ends
up with what the file says. The other direction does not hold and is not claimed:
the parameter form says "保存失败" also when only the reload call failed, though
the trigger applies the values.

### Daemon, Hostnames, Interfaces, Overview, Services, MCServices, ServicesProofs

`Daemon` is what the three services share: the one thread with the step it is at
(`job`), the clock, and the budgets that bound the environment. `Services`
composes them: one handler at a time, while files are written, frames arrive,
and interfaces go and come back at any step.

`Hostnames` is `hostname_cache_refresh`, a step per file, and the lookup. The
parsers are folds over lines (the last lease of a MAC wins, the first name of an
address). `LaterChangeShown` and `StaleNamesBounded` say when a name must be
right: a change shows in the first call of a later second, and after
`HOSTNAME_REFRESH_MS` at the latest. What lies between is a change within the
second in which the cache was filled: its mtime is the one already known. Both
are stated for files that fit (`Fits`): a full cache refuses a line about a
client it knows already, so a renewed lease keeps its old name.

`Interfaces` is `interfaces_method`: open, read and settle are steps of their
own, between which a device may vanish, be recreated with fresh counters, and
count. `RatesAreMoved` compares the bytes behind all rates ever shown with the
bytes the devices moved. `moved` and `shown` are history.

`Overview` is the walk of the BPF map by `bpf_collect_samples`, which reads one
entry at a time while frames arrive, the two snapshots with their resets, the
judgement of `clients_method` on each client, and the ring. `WindowShown`
compares the reply with the history of all samples. `ActiveCounted` says which
clients a sample counts as active, with one exception that is worth knowing:
`bpf_collect_samples` takes the snapshot's time before the walk
(`lanspeedd.c:4405`), a client with a frame during the walk has a `last_seen`
after it, and `client_is_active_recent` (`lanspeedd.c:2719`) calls it inactive.
The busier a client, the likelier it is. `Overview` assumes that the rates come
from BPF and that the reads succeed; failing reads, evictions and the other
sources are `RateWindow`'s and `Collectors'` subjects.

## The runs

| Run | Checks | Bounds and why they are enough |
|---|---|---|
| `attach` | `TypeOK`, `ModesExclusive`, `WindowIntact`, `CleanStop`, `HooksRestored`, `PolicyConverges` | two interfaces (a switch can fail on the second after the first succeeded), a table of 6 that a switch overflows, three external events of any kind, refused removals among them |
| `attach_present`, `attach_others` | one documented promise each, refuted | one interface |
| `accounting` | `TypeOK`, `FramesAccounted`, `DroppedOnlyAtFirst`, `SeenIsCounted`, `OvercountBounded` | two CPUs, three keys over two elements so that entries are recycled in use, two connections over one tuple, three frames per key; CPUs and elements are symmetric |
| `accounting_once` | `ConnectionCountedOnce`, refuted | two CPUs |
| `rates` | `TypeOK`, `NoInflatedRate`, `ReadComplete` | four keys over three entries, one place in the fold, a raw buffer twice the map as in the code, four bytes of traffic |
| `coverage` | `TypeOK`, `SlidesOverWindow`, `ResetsNotRepeated`, `SpansNoReset` | a ring of three (wraps, partly filled, cleared), counters up to 2, two changes (recoveries that succeed and that fail among them), any number of calls |
| `coverage_reset` | `ResetDetected`, refuted | as above with the sync source and three changes |
| `collectors` | `TypeOK`, `ConntrackNeedsNss`, `BpfIsLastResort`, `StatusNamesSource`, `RatesHonest` | two clients, two addresses with a flow each (clients gain, lose and swap flows), room for one client in the snapshot, devices without NSS, with sync only and with ECM's state, the fallback on, off and forced; two changes, one step of time (calls in one millisecond and after it), any number of calls |
| `view` | `NoOrphanTimer`, `PausedIsQuiet`, `LoadBounded`, `KeepsGoing`, `OneLoopRemains`, `CatchesUp` | three user actions (a reload, a pause and a click between them), one lost call, four polls in flight, three timer ids (one more than a correct page uses); polling itself is unbounded |
| `settings` | `ConfigSound`, `FormShowsDaemon`, `AppliedRuns`, `ListsChangeWhole`, `FileTakesEffect` | two sessions, two saves of either form (in one session or two), one failure at any call, files with legacy options, junk, and numbers too small and too large, of which some a form enters; the widths of the conversions scaled down in their order (2^32, 2^53, 2^64, 10^21 to 8192, 500000, 1000000, 10000000, all above the ranges of the options, and doubles 4 apart past the second); lists of two, so that they fill up |
| `services` | `TypeOK`, `StaleNamesBounded`, `LaterChangeShown`, `RatesAreMoved`, `WindowShown`, `ActiveCounted` | two clients of each kind, two interfaces, a ring of three that shows two, a refresh interval of 3; up to four calls, three writes, moves or frames and three steps of time, spent mostly on one service or one each on all (interfaces excepted, whose state the others never read) |

The bounds matter most for liveness: the safety properties of every passing run
are also proved, for any value of the constants (see Proofs).

Deadlock is not checked: a daemon that could attach nothing idles for ever, and
events, frames, clicks, saves and time are bounded.

### What the refuted promises show

* `AlreadyPresentIsSuccess` (`lanspeed_bpf.h:89`): after a crash the respawned
  daemon finds its predecessor's filters, every ingress attach fails with EEXIST,
  and the collector is off until someone reloads the service.
* `OthersUntouched` (`lanspeed_bpf.h:103`, `lanspeed_bpf.c:498`): a switch or its
  rollback deletes by pref and handle, whoever owns the filter; and a failed
  attach on a hook the same call created flushes that direction with the filters
  dae added meanwhile.
* `ConnectionCountedOnce` (`lanspeed_tc.bpf.c:196`): the check and the mark are
  two helper calls and the result of the mark is ignored.
* `ResetDetected` (`lanspeedd.c:404`): only the two ends of the window are
  compared.

## Fairness

`TcAttach` assumes weak fairness of the loader's and the handlers' steps (the
kernel schedules the process and a tc call returns), weak fairness of `Boot`
(procd respawns; the script allows five quick retries, more than the events of
the run), and strong fairness of `Tick`: it is enabled only while no other
handler runs, and uloop runs an expired timer before it serves the next request,
so a stream of requests cannot starve it. Nothing is assumed of the environment
but that its events end.

`LuciPoll` assumes weak fairness of what the browser and ubus owe: a timeout
fires, a call is answered or refused, an answer arrives, a restarted daemon comes
up. Nothing is assumed of the user, nor of the order of answers. `Settings`
assumes only that something is done while a call is under way or procd has work
(`WF_vars(Working)`), in whatever order; it does not assume that a call succeeds.

## Proofs

Six modules hold the theorems about the components, one per group of components,
and `DataLemmas` the facts about data they share. Every theorem holds for all
constants that satisfy the assumptions named with it; those are the `ASSUME`s of
the models, which TLC evaluates on its instances. In each module the invariant
that is proved inductive is a conjunction of named parts, and the proof that a
step keeps it has one lemma or step per action and part. What an action does is
often restated first as an action of the form the invariant is about (`Stepped`,
`Counts`, `Reads`, `Effect`), so that a part is proved once for all the actions
that do the same.

| Theorems | Module | The invariant that is inductive |
|---|---|---|
| `TypeCorrect`, `Safe`, `ModesAreExclusive`, `WindowsAreIntact`, `StopsAreClean` | `TcAttachProofs` | `SafetyInv` |
| `TypesHold`, `NoFrameLost`, `DropsAreBounded` | `ClientMapProofs` | `FramesInv` |
| `NoConnectionLost`, `OvercountIsBounded` | `ClientMapProofs` | `ConnInv` |
| `TypesHold`, `ReadsAreComplete`, `RatesAreNotInflated` | `RateWindowProofs` | `TypeInv`, `WalkInv`, `RateInv` |
| `TypeCorrect`, `Refines`, `AnnouncedOnce`, `NeverAcrossReset` | `CoverageProofs` | `IInv` |
| `TypesHold`, `OnlyNssUsesConntrack`, `BpfComesLast`, `StatusIsClients` | `CollectorsProofs` | `ReplyRight` |
| `RatesAreBytesMoved` | `CollectorsProofs` | `SnapshotRight` |
| `NoTimerIsOrphaned`, `PauseHolds`, `LoadIsBounded` | `LuciProofs` | `PauseInv`, `LoadInv` |
| `ConfigIsSound`, `FormShowsWhatRuns`, `AppliedIsTrue`, `ListsAreWhole` | `LuciProofs` | `SettingsInv` |
| `TypesHold`, `OverviewShowsNewest`, `RatesShowOnlyMoved`, `NamesCatchUp`, `ChangesShow`, `ActiveIsCounted` | `ServicesProofs` | `ServicesInv` |

### The attach life cycle (`TcAttachProofs`)

For every non-empty list of interfaces, table size and number of events.
`ModesExclusive` and the others are not inductive. `SafetyInv` adds what the code
relies on: an interface that is gone has no filters (`GoneHooksEmpty`, so a
detach that is skipped loses nothing); the loops of a switch have cleared every
interface they passed, of what was not refused (`SwitchProgress`, which needs that
the list of interfaces they run over is the one they attached to); every filter of
this process that was not refused is tracked, with the ifindex its interface has
now (`OwnTracked`); and a snapshot that was spoilt will be reset or its failure
recorded before the next one is taken (`SnapshotGuarded`).

That a stop reaches what a switch had to leave takes three more parts. Once a
switch is past an interface and direction (`Entered`), the filter of the wanted
mode is tracked there wherever there is any of this process (`SwitchTracked`), so
that what the retiring loop then leaves lies beside a tracked one (`LeftCovered`).
And a filter is left at the other mode's place only: a switch back adopts it
before its own retiring loop begins (`LeftIsOld`). Assumptions: `IfaceSeqAssumption`, `BoundAssumption`,
`ListingAssumption`.

### The maps in the kernel (`ClientMapProofs`)

For any number of CPUs, keys, elements, connections and frames.

* `FramesInv`: a key has one element at most (`OneElement`), and until one is
  recycled a CPU about to add still points at the element of its key
  (`PointersRight`). The frames of a key are then those in its element, those of
  the CPUs between their miss and their add, and those dropped (`Accounted`).
  The bound on the drops needs `DropsLeft`: once there is an element, the drops so
  far and the CPUs that may still lose an insert are together fewer than the
  CPUs, because the one that made the element has lost nothing; before there is
  one, nothing is dropped.
* `ConnInv`: `OvercountBounded` alone is not inductive, because it says nothing of
  the CPUs that passed the check and have not counted yet. `CountsBounded` adds
  them: the count and the CPUs that may still count are together at most the
  CPUs, and a connection that is not marked has no count yet.

Assumptions: `KeysAssumption`, `SenderAssumption`, `SizeAssumption`.

### From counters to rates (`RateWindowProofs`)

For any keys in any order, any sizes of the map, the buffer and the snapshot.

* `WalkInv` is about a walk under way: every key that was there throughout and
  that the cursor has passed was read (`Complete`), and unless the cursor was
  thrown back, every entry read is of a passed key and of a key of its own
  (`Once`). `Passed` says where the cursor is in each of the two steps.
* `RateInv` explains the totals. A client's traffic is a sum over its keys, but
  evictions erase the sums, so the proof carries four functions on keys that no
  variable holds: `T`, what the key has sent; `B` and `C`, what it had sent as the
  walk and the newer read began; `v`, what the newer snapshot holds of it.
  `Explained` says that such functions exist: they add up to the traffic of each
  client, an entry in the map or the buffer is bounded by what its key has sent
  since, and what a client's snapshot holds is at least what its keys had.
  `Grown` is `NoInflatedRate` without its case of no snapshot. The exceptions of
  the property appear where they are needed: `repeated` where the fold would add a
  key twice, `cut` where `v` has keys the snapshot lacks.

What `Folded` makes of the buffer is followed one sample at a time (`FoldChain`).
Assumptions: `KeySeqAssumption`, `SizeAssumption`.

### The coverage window (`CoverageProofs`)

For any window size, any list of NSS sources and any counters. `Refines` maps the
ring to the sequence it stands for (`View`); `PushSlides` shows that a push is an
append that keeps the last `Window` readings, `SameVerdict` that the search from
the back of the ring finds the first complete element of the sequence.
`AnnouncedOnce` and `NeverAcrossReset` come from `IInv`, which adds that since a held
sample was taken there were at most as many restorations and switches as failures
(`HeldSinceHeal`), and that it has seen
every decrease announced so far, and is no higher than the last complete sample
unless a decrease came in between (`HeldOrdered`). Assumptions:
`SourcesAssumption`, `WindowAssumption`, `BoundAssumption`.

### The choice of sources (`CollectorsProofs`)

For any clients, addresses, devices and configurations. `ReplyRight` says of an
answer what it was chosen from: the source is the one `clients_method`'s chain
ends at with the reads that failed, and what failed had been asked. The three
properties about sources follow from it by cases of the chain. `SnapshotRight` is
`RatesHonest` one call earlier: the flows credited to a client now hold what its
previous snapshot holds and what it moved since, exactly if none of them closed or
went to another client, otherwise at most, and nothing is said of a client that gained a
flow (`gained`). Assumptions: `NoMacAssumption`, `IpsAssumption`,
`BoundAssumption`.

### The web interface (`LuciProofs`)

For any number of timers, polls, clicks, losses and sessions, any files and
selections.

* `PauseInv`: `NoOrphanTimer` and `PausedIsQuiet` are inductive together.
  `schedule` stops the timer it knows of before it arms another, so it leaves none
  behind only because there was no other; and an answer that arrives while the
  page is paused arms none because `schedule` looks at the pause itself.
* `LoadInv` counts the polls and timers against the clicks, with the reload that
  has not come back yet counted apart (`AskedFor`), and says that a poll is asked
  or answered, not both, and answered once (`CallsRight`).
* `SettingsInv`: `TypeInv` keeps what is staged in one of the shapes the forms
  write (`IsChange`). `DaemonInv` says that the daemon runs what `Loaded` makes of
  the file, unless a reload is owed. `ParamsInv` and `IfacesInv` follow a save
  through its calls: while its commit is to come, what it saved is staged or in
  the file (`Pending`); from then on nothing of it is staged, and it is in the
  file until another session writes (`Held`), so that a commit of the other form
  can come at any time and changes nothing. Empty lists are staged only by a form
  that has not set its own yet, or has failed.

That the daemon's lists are sound whatever the file says is a statement about
two folds of `DaemonConfig`, followed name by name (`AttachChain`,
`ObserveChain`). Assumptions: `PollsAssumption`,
`BoundAssumption`, `NumbersAssumption`, `OrderAssumption`, `CapAssumption`,
`RawAssumption`, `NamesAssumption`, `FilesAssumption`, `EntriesAssumption`,
`SelectionsAssumption`.

### The daemon's services (`ServicesProofs`)

Of the composition, so with any interleaving of the three handlers' steps with
writers, frames and interfaces. `ServicesInv` has a part per service:

* `RingInv`: the ring holds what the history of all samples ends with.
* `RatesInv` is about the next rate, not the last: what would be shown if the
  counter were read now is not shown yet (`Unshown`), and while a call is between
  its open and its read either the device is the one it opened, or nothing of the
  device now there has been shown (`Reading`). A device that is recreated and a
  counter that wraps both start below the previous value, where the code shows
  nothing.
* `NamesInv`: there is a text of each file that the names are parsed from, and it
  is the file's text now wherever its mtime is earlier than the refresh
  (`NamesFrom`); until the interval is over, an mtime earlier than the last call is
  the one the cache has seen (`Kept`). A file that is emptied and filled while it
  is parsed gets an mtime that is not earlier. What the two parsers make of lines
  in order is compared with what the properties say of them (the last lease, the
  first name) by `MacRight` and `IpRight`, line by line.
* `CountInv`: each of the three snapshots holds of a client its last frame, but
  for those that came after the snapshot's time (`Copied`). That is the whole of
  the exception `ActiveCounted` names.

Assumptions: `BudgetsAssumption`, `CacheAssumption`, `FilesAssumption`,
`LinksAssumption`, `OverviewAssumption`, `PeopleAssumption`, `WidthAssumption`.

### Data (`DataLemmas`)

* Rings: a push makes the new sample the newest (`PushNewest`) and every sample
  within reach one place older (`PushOlder`), which is where the modulus of
  `coverage_sample_at` has to be right.
* Folds and sums over finite sets: they exist, are unique, and add, bound and
  compare element by element (`FoldExists`, `SumTakes`, `SumRemove`,
  `SumMonotone`, `SumPairs` and others).
* Sequences and partial functions.

Induction over data cannot be cited from the library, whose theorems take a
predicate as a parameter. It is done by hand for each statement: a finite set has
a minimal subset for which a statement fails (`MinimalSubset`), a set of numbers a
least element (`LeastNatural`), and a chain of values whose first link is in a set
and whose links stay in it never leaves it (`ChainStays`). The fold over a
sequence is such a chain (`SeqFoldExists`).

### Only model-checked

The six liveness properties: `HooksRestored`, `PolicyConverges`, `KeepsGoing`,
`OneLoopRemains`, `CatchesUp` and `FileTakesEffect`. They rest on fairness and so
on `ENABLED`, which TLAPS does not reason about. The four refuted promises are
shown by TLC's counterexamples. That the conversions of `DaemonConfig` compute what
the C library and the browser do is not a theorem: it is how they are defined.

## Plan

What a next step would take, in this order:

1. Connection counts: `merge_conntrack_conn_counts` reads conntrack also where
   `enable_conntrack_fallback` is off.
2. Freshness: the age of the last successful read against the age of the two
   snapshots whose difference is served as the current rate.
3. The hazards that no property covers yet (`PROJECT.json` says why of each):
   an adopted egress filter after a crash, an interface that does not exist and
   holds up every switch, the listing that does not show the object's path.
4. Proofs: `SnapshotRight` and `ReplyRight` for connection counts, and the safety
   half of `FileTakesEffect` (what the daemon runs is what the file says whenever
   nothing is owed, which `DaemonInv` has) as a property of its own.

## Not modelled

* Parsing and formatting: probe commands, ARP, evidence, warnings, JSON, the
  page's formatting and wording. They keep no state of their own; a wrong parse
  would be a wrong constant in the models.
* The identity of a client (MAC, address, interface): a value in the models.
* `max_clients`, `enable_bpf` and `enable_conntrack_fallback` of the
  configuration as loaded (the last is a constant of `Collectors`), and the
  `*_clamped` flags of `status`.
* Interfaces that are configured but absent when the page scans the devices: the
  page does not offer them, so a save drops them. No document says what it should
  do; `Settings` starts from a scan that found what the user may select.
* The `lanspeed_bpf_status` counters: evidence only, they change no decision but
  freshness (in the plan).
* LRU approximations of the kernel (per-CPU free lists), abstracted to the
  eviction of any key.
* Build scripts and packaging.
