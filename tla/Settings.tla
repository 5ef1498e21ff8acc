------------------------------ MODULE Settings ------------------------------
(***************************************************************************)
(* From the configuration page to the running daemon: the parameter form   *)
(* (config.js) and the interface form (ifaceConfig.js) of a page write     *)
(* options through rpcd, which keeps uncommitted changes per login         *)
(* session; a commit writes the file and wakes procd's reload trigger; a   *)
(* reload replaces the daemon, which reads the file as it starts. The      *)
(* forms of several sessions work at once, and calls fail with or without  *)
(* having done their work.                                                 *)
(***************************************************************************)
EXTENDS DaemonConfig, FiniteSets

CONSTANTS
  Sessions,     \* login sessions, each with one page open
  HandWritten,  \* files to start from
  Entries,      \* what a user may leave in the parameter form
  Selections,   \* [seen device -> mode] a user may leave in the interface form
  MaxSaves,     \* bound: presses of a save button
  MaxFailures   \* bound: calls that fail

ParamOptions == {"rate", "conn", "legacy", "window", "minbps"}
ListOptions == {"ifname", "include", "observe"}

\* Options that hold anything, a number or not, and interfaces.
IsFile(f) ==
  /\ ParamOptions \union ListOptions \union {"refresh", "overview"} \subseteq DOMAIN f
  /\ {f.window, f.minbps, f.refresh, f.overview} \subseteq Numbers
  /\ {f.ifname, f.include, f.observe} \subseteq Seq(Names)

ASSUME FilesAssumption == \A f \in HandWritten : IsFile(f)
ASSUME EntriesAssumption == \A e \in Entries : {e.window, e.minbps} \subseteq Numbers
ASSUME SelectionsAssumption ==
  \A sel \in Selections : IsFiniteSet(DOMAIN sel) /\ DOMAIN sel \subseteq Names
ASSUME BoundsAssumption == {MaxSaves, MaxFailures} \subseteq Nat

VARIABLES
  file,      \* /etc/config/lanspeed
  staged,    \* [Sessions -> changes rpcd holds for the session]
  params,    \* [Sessions -> [pc, values, result]], the parameter form
  ifaces,    \* [Sessions -> [pc, lists, result]], the interface form
  seen,      \* [Sessions -> a scan of the devices succeeded]
  up, conf,  \* the daemon runs, and with what; the last one's when it is down
  trigger,   \* procd has a configuration change to act on
  saves, failures,
  \* history
  writer,    \* [option group -> who committed it last]
  chosen     \* interface lists that a save set out to write

vars == <<file, staged, params, ifaces, seen, up, conf, trigger, saves, failures, writer, chosen>>
rpcd == <<file, staged, trigger, writer>>
daemon == <<up, conf>>

NoLists == [ifname |-> <<>>, include |-> <<>>, observe |-> <<>>]
Lists(f) == [ifname |-> f.ifname, include |-> f.include, observe |-> f.observe]

\* Changes laid over options.
Overlay(changes, f) == [o \in DOMAIN f \union DOMAIN changes |-> IF o \in DOMAIN changes THEN changes[o] ELSE f[o]]
NoChange == [o \in {} |-> Absent]

Init ==
  /\ file \in HandWritten
  /\ staged = [s \in Sessions |-> NoChange]
  /\ params = [s \in Sessions |-> [pc |-> "idle", values |-> Shown(file), result |-> "none"]]
  /\ ifaces = [s \in Sessions |-> [pc |-> "idle", lists |-> NoLists, result |-> "none"]]
  /\ seen = [s \in Sessions |-> FALSE]
  /\ up = TRUE /\ conf = Loaded(file)
  /\ trigger = FALSE /\ saves = MaxSaves /\ failures = MaxFailures
  /\ writer = [params |-> Absent, lists |-> Absent]
  /\ chosen = {}

----------------------------------------------------------------------------
(* The services a form calls. *)

UciSet(s, changes) ==
  /\ staged' = [staged EXCEPT ![s] = Overlay(changes, @)]
  /\ UNCHANGED <<file, trigger, writer>>

\* Mutant of ReloadOnChange: no trigger is registered.
NoReloadOnChange == FALSE

\* service_triggers of init.d: a commit of this file has procd reload.
ReloadOnChange == TRUE

\* The session's changes go to the file, all at once.
UciCommit(s) ==
  /\ file' = Overlay(staged[s], file)
  /\ staged' = [staged EXCEPT ![s] = NoChange]
  /\ trigger' = (trigger \/ ReloadOnChange)
  /\ writer' = [params |-> IF ParamOptions \intersect DOMAIN staged[s] = {} THEN writer.params ELSE s,
                lists |-> IF ListOptions \intersect DOMAIN staged[s] = {} THEN writer.lists ELSE s]

\* reload_service: procd stops the daemon and is told to start it again.
Reload == up' = FALSE /\ conf' = conf

Fail == failures > 0 /\ failures' = failures - 1
Answered == failures' = failures

----------------------------------------------------------------------------
(* The parameter form: saveDaemonSettings. *)

SavedOptions(v) ==
  {[rate |-> v.rate, conn |-> v.conn, legacy |-> v.rate, window |-> w, minbps |-> b] :
     w \in Texts(v.window), b \in Texts(v.minbps)}

ParamsAt(s, pc) == params[s].pc = pc
ParamsGo(s, pc) == params' = [params EXCEPT ![s].pc = pc] /\ UNCHANGED <<ifaces, seen, saves, chosen>>

ParamsEnd(s, result) ==
  /\ params' = [params EXCEPT ![s].pc = "idle", ![s].result = result]
  /\ UNCHANGED <<ifaces, seen, saves, chosen>>

SaveParams(s, entry) ==
  /\ ParamsAt(s, "idle") /\ saves > 0 /\ saves' = saves - 1
  /\ params' = [params EXCEPT ![s] = [pc |-> "set", values |-> ReadForm(entry), result |-> "saving"]]
  /\ UNCHANGED <<rpcd, daemon, ifaces, seen, failures, chosen>>

ParamsSet(s) ==
  /\ ParamsAt(s, "set") /\ UNCHANGED daemon
  /\ \E options \in SavedOptions(params[s].values) :
       \/ Answered /\ UciSet(s, options) /\ ParamsGo(s, "commit")
       \/ Fail /\ (UciSet(s, options) \/ UNCHANGED rpcd) /\ ParamsEnd(s, "failed")

\* Mutant of ParamsCommit: the form is done once the file is written.
ParamsCommitOnly(s) ==
  /\ ParamsAt(s, "commit") /\ UNCHANGED daemon
  /\ Answered /\ UciCommit(s) /\ ParamsEnd(s, "applied")

ParamsCommit(s) ==
  /\ ParamsAt(s, "commit") /\ UNCHANGED daemon
  /\ \/ Answered /\ UciCommit(s) /\ ParamsGo(s, "reload")
     \/ Fail /\ (UciCommit(s) \/ UNCHANGED rpcd) /\ ParamsEnd(s, "failed")

ParamsReload(s) ==
  /\ ParamsAt(s, "reload") /\ UNCHANGED rpcd
  /\ \/ Answered /\ Reload /\ ParamsEnd(s, "applied")
     \/ Fail /\ (Reload \/ UNCHANGED daemon) /\ ParamsEnd(s, "failed")

----------------------------------------------------------------------------
(* The interface form: loadIfaceConfig and saveIfaceConfig. *)

\* loadIfaceConfig: the devices are listed once the daemon answers.
Scan(s) ==
  /\ up /\ ~seen[s] /\ seen' = [seen EXCEPT ![s] = TRUE]
  /\ UNCHANGED <<rpcd, daemon, params, ifaces, saves, failures, chosen>>

\* collectIfaceSelections; the page offers to collect on recommended devices only.
ListsOf(sel) ==
  LET collect == SetToSeq({d \in DOMAIN sel \intersect Recommended : sel[d] = "collect"})
      observe == SetToSeq({d \in DOMAIN sel : sel[d] = "observe"})
  IN [ifname |-> collect, include |-> collect, observe |-> observe]

IfacesAt(s, pc) == ifaces[s].pc = pc
IfacesGo(s, pc) == ifaces' = [ifaces EXCEPT ![s].pc = pc] /\ UNCHANGED <<params, seen, saves, chosen>>
IfacesEnd(s, result) ==
  /\ ifaces' = [ifaces EXCEPT ![s].pc = "idle", ![s].result = result]
  /\ UNCHANGED <<params, saves, chosen>>

\* Mutant of MaySave: nothing selected is saved as well.
MaySaveNothing(lists) == TRUE

MaySave(lists) == lists # NoLists

SaveIfaces(s, sel) ==
  LET lists == IF seen[s] THEN ListsOf(sel) ELSE NoLists
  IN /\ IfacesAt(s, "idle") /\ saves > 0 /\ saves' = saves - 1
     /\ MaySave(lists)
     /\ ifaces' = [ifaces EXCEPT ![s] = [pc |-> "delete", lists |-> lists, result |-> "saving"]]
     /\ chosen' = chosen \union {lists}
     /\ UNCHANGED <<rpcd, daemon, params, seen, failures>>

\* The old lists are deleted; an error here is ignored.
IfacesDelete(s) ==
  /\ IfacesAt(s, "delete") /\ UNCHANGED daemon /\ IfacesGo(s, "set")
  /\ \/ Answered /\ UciSet(s, NoLists)
     \/ Fail /\ (UciSet(s, NoLists) \/ UNCHANGED rpcd)

IfacesSet(s) ==
  /\ IfacesAt(s, "set") /\ UNCHANGED daemon
  /\ \/ Answered /\ UciSet(s, ifaces[s].lists) /\ IfacesGo(s, "commit")
     \/ /\ Fail /\ (UciSet(s, ifaces[s].lists) \/ UNCHANGED rpcd)
        /\ IfacesEnd(s, "failed") /\ UNCHANGED seen

IfacesCommit(s) ==
  /\ IfacesAt(s, "commit") /\ UNCHANGED daemon
  /\ \/ Answered /\ UciCommit(s) /\ IfacesGo(s, "reload")
     \/ Fail /\ (UciCommit(s) \/ UNCHANGED rpcd) /\ IfacesEnd(s, "failed") /\ UNCHANGED seen

\* The reload's error is ignored; 4000 ms later the page reports success.
IfacesReload(s) ==
  /\ IfacesAt(s, "reload") /\ UNCHANGED rpcd /\ IfacesGo(s, "wait")
  /\ \/ Answered /\ Reload
     \/ Fail /\ (Reload \/ UNCHANGED daemon)

IfacesDone(s) ==
  /\ IfacesAt(s, "wait") /\ IfacesEnd(s, "applied")
  /\ seen' = [seen EXCEPT ![s] = @ \/ up]
  /\ UNCHANGED <<rpcd, daemon, failures>>

----------------------------------------------------------------------------
(* procd *)

TriggerReload ==
  /\ trigger /\ trigger' = FALSE /\ Reload
  /\ UNCHANGED <<file, staged, writer, params, ifaces, seen, saves, failures, chosen>>

DaemonStart ==
  /\ ~up /\ up' = TRUE /\ conf' = Loaded(file)
  /\ UNCHANGED <<rpcd, params, ifaces, seen, saves, failures, chosen>>

----------------------------------------------------------------------------
ParamsStep(s) == ParamsSet(s) \/ ParamsCommit(s) \/ ParamsReload(s)
IfacesStep(s) == IfacesDelete(s) \/ IfacesSet(s) \/ IfacesCommit(s) \/ IfacesReload(s) \/ IfacesDone(s)

Working ==
  (\E s \in Sessions : ParamsStep(s) \/ IfacesStep(s)) \/ TriggerReload \/ DaemonStart

Next ==
  \/ \E s \in Sessions : \/ \E entry \in Entries : SaveParams(s, entry)
                         \/ \E sel \in Selections : SaveIfaces(s, sel)
                         \/ Scan(s)
  \/ Working

Spec == Init /\ [][Next]_vars

\* While a call is out or procd has something to do, something gets done: no
\* more is assumed of any form, nor of the order.
FairSpec == Spec /\ WF_vars(Working)

----------------------------------------------------------------------------
(* Safety *)

\* Whatever the file holds, the daemon runs within the ranges its rings and
\* divisions rely on, and never counts an interface twice: none is listed
\* twice, collected and observed, or collected though it mirrors or leaves the
\* LAN.
ConfigSound ==
  /\ conf.refresh >= MinRefresh /\ conf.window >= MinActiveWindow /\ conf.minbps >= MinActiveBps
  /\ conf.overview \in MinOverview..OverviewWindow
  /\ Len(conf.attach) <= Cap /\ Len(conf.observe) <= Cap
  /\ IsInjective(conf.attach \o conf.observe)
  /\ Range(conf.attach) \subseteq Recommended

\* Files the page and the daemon understand differently: a number below the
\* minimum that is not simply raised to it (strtoull negates one with a sign,
\* takes zero for no window), one too large for the page to keep exactly or for
\* strtoull to return, and a mode nobody knows before a legacy one.
Misread(f) ==
  \/ f.window \notin {Absent, Junk} /\ f.window \notin 1..Exact
  \/ f.minbps \notin {Absent, Junk} /\ f.minbps \notin 0..Exact
  \/ f.rate \notin RateModes \union {Absent} /\ f.legacy = "bpf"
  \/ f.conn \notin ConnModes \union {Absent} /\ f.legacy \in ConnModes \ {"auto"}

\* Apart from those the form shows what a daemon started on the file runs with.
FormShowsDaemon ==
  Misread(file) \/ Shown(file) = ParamsOf(Loaded(file))

\* A daemon's parameters are a form's values, but for a number too large for it.
RunsWith(c, v) ==
  /\ c.rate = v.rate /\ c.conn = v.conn
  /\ v.window < Word => c.window = v.window
  /\ v.minbps < Word => c.minbps = v.minbps

\* Where a form says "applied", that is what runs. The daemon that runs next
\* runs with the parameter form's values until another session writes the
\* parameters, numbers from 2^64 on excepted (strtoull saturates, and stops at
\* the exponent that String writes from 10^21 on); and once procd has nothing
\* left to do, it collects on and observes what the interface form selected, as
\* far as its lists have room, until another session writes the lists.
AppliedRuns ==
  \A s \in Sessions :
    LET lists == ifaces[s].lists
    IN /\ params[s].result = "applied" /\ writer.params = s /\ up =>
            RunsWith(conf, params[s].values)
       /\ /\ ifaces[s].result = "applied" /\ writer.lists = s /\ up /\ ~trigger
          /\ Len(lists.ifname) <= Cap /\ Len(lists.observe) <= Cap
          => conf.attach = lists.ifname /\ conf.observe = lists.observe

\* Forms of one session share its uncommitted changes, so one may commit the
\* other's half-made ones. The three lists change together all the same: to
\* those some save chose, never an empty selection, or to none, where the
\* session's interface form has deleted them and not set the new ones, in this
\* save or in one that failed.
ListsChangeWhole ==
  [][Lists(file') # Lists(file) =>
       \/ Lists(file') \in chosen \ {NoLists}
       \/ /\ Lists(file') = NoLists
          /\ \E s \in Sessions : /\ DOMAIN staged[s] # {}
                               /\ \/ ifaces[s].pc \in {"delete", "set"}
                                  \/ ifaces[s].result = "failed"]_vars

(* Liveness *)

\* However saves interleave and whichever calls fail, the forms come to rest
\* and the daemon ends up with what the file says: where the page's own reload
\* call is lost, procd's trigger makes up for it.
FileTakesEffect ==
  <>[](/\ up /\ conf = Loaded(file)
       /\ \A s \in Sessions : ParamsAt(s, "idle") /\ IfacesAt(s, "idle"))
=============================================================================
