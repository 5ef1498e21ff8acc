---------------------------- MODULE DaemonConfig ----------------------------
(***************************************************************************)
(* How the two readers of /etc/config/lanspeed understand it: load_config  *)
(* of lanspeedd.c when the daemon starts, and the parameter form of the    *)
(* page view/lanspeed/config.js. A file gives each option its raw value;   *)
(* a number that does not parse is Junk, an option that is not there is    *)
(* Absent, a list that is not there is empty.                              *)
(***************************************************************************)
EXTENDS Integers, Sequences, SequencesExt

CONSTANTS
  Absent, Junk,
  IntWidth,     \* 2^32, the width of the int that atoi returns
  Word,         \* 2^64, the width of what strtoull returns
  Exact,        \* 2^53, up to which the page keeps an integer as it is
  Grain,        \* how far the page's numbers lie apart past Exact
  ExponentFrom, \* 10^21, from which the page writes a number with an exponent
  Cap,          \* LANSPEED_BPF_IFACE_MAX
  Recommended,  \* the names sysdevice_is_recommended_lan accepts
  Names         \* names of interfaces

ASSUME NumbersAssumption == {IntWidth, Word, Exact, Grain, ExponentFrom} \subseteq Nat \ {0}
ASSUME OrderAssumption == Exact < Word /\ Word <= ExponentFrom
ASSUME CapAssumption == Cap \in Nat
ASSUME NamesAssumption == Recommended \subseteq Names

Numbers == Int \union {Absent, Junk}  \* what a numeric option may hold

RateModes == {"auto", "bpf"}
ConnModes == {"auto", "conntrack_netlink", "conntrack_procfs"}

ASSUME RawAssumption ==
  \A raw \in {Absent, Junk} : raw \notin Int /\ raw \notin RateModes \union ConnModes

\* Options with a number, and the ranges of lanspeedd.c.
MinRefresh == 500
MinActiveWindow == 1000
MinActiveBps == 1
MinOverview == 2
OverviewWindow == 240
Defaults == [rate |-> "auto", conn |-> "auto", window |-> 10000, minbps |-> 1,
             refresh |-> 1000, overview |-> OverviewWindow]

----------------------------------------------------------------------------
\* atoi of an option that is there keeps the low bits, as a signed number
\* (musl's does, where the C standard leaves a result out of range open).
Atoi(raw) ==
  LET n == IF raw = Junk THEN 0 ELSE raw
      half == IntWidth \div 2
  IN ((n + half) % IntWidth) - half

\* strtoull saturates, and negates a number with a sign.
Strtoull(raw) ==
  LET n == IF raw = Junk THEN 0 ELSE raw
  IN IF n >= Word \/ n <= -Word THEN Word - 1
     ELSE IF n < 0 THEN n + Word
     ELSE n

Refresh(raw) ==
  IF raw = Absent \/ Atoi(raw) <= 0 THEN Defaults.refresh
  ELSE IF Atoi(raw) >= MinRefresh THEN Atoi(raw) ELSE MinRefresh

ActiveWindow(raw) ==
  IF raw = Absent \/ Strtoull(raw) = 0 THEN Defaults.window
  ELSE IF Strtoull(raw) >= MinActiveWindow THEN Strtoull(raw) ELSE MinActiveWindow

ActiveMinBps(raw) ==
  IF raw = Absent THEN Defaults.minbps
  ELSE IF Strtoull(raw) >= MinActiveBps THEN Strtoull(raw) ELSE MinActiveBps

\* Mutant of OverviewSamples: the ring's size does not limit it.
OverviewUnlimited(raw) ==
  IF raw = Absent \/ Atoi(raw) <= 0 THEN Defaults.overview
  ELSE IF Atoi(raw) < MinOverview THEN MinOverview ELSE Atoi(raw)

OverviewSamples(raw) ==
  IF raw = Absent \/ Atoi(raw) <= 0 THEN Defaults.overview
  ELSE IF Atoi(raw) < MinOverview THEN MinOverview
  ELSE IF Atoi(raw) > OverviewWindow THEN OverviewWindow
  ELSE Atoi(raw)

\* apply_legacy_collector_mode sets one mode or both; the explicit options,
\* read after it, replace what it set where they make sense.
RateMode(f) ==
  IF f.rate \in RateModes THEN f.rate
  ELSE IF f.legacy \in RateModes THEN f.legacy
  ELSE Defaults.rate

ConnMode(f) ==
  IF f.conn \in ConnModes THEN f.conn
  ELSE IF f.legacy \in ConnModes THEN f.legacy
  ELSE Defaults.conn

\* add_bpf_attach_ifname
AddAttach(list, name) ==
  IF name \in Recommended /\ Len(list) < Cap /\ ~Contains(list, name) THEN Append(list, name) ELSE list

AttachList(f) == FoldLeft(AddAttach, <<>>, f.ifname \o f.include)

\* add_observe_ifname; `attach` is the list already loaded.
AddObserve(attach, list, name) ==
  IF Len(list) < Cap /\ ~Contains(attach, name) /\ ~Contains(list, name) THEN Append(list, name) ELSE list

ObserveList(f) == FoldLeft(LAMBDA list, name : AddObserve(AttachList(f), list, name), <<>>, f.observe)

\* What a daemon started on file f runs with.
Loaded(f) ==
  [rate |-> RateMode(f), conn |-> ConnMode(f),
   window |-> ActiveWindow(f.window), minbps |-> ActiveMinBps(f.minbps),
   refresh |-> Refresh(f.refresh), overview |-> OverviewSamples(f.overview),
   attach |-> AttachList(f), observe |-> ObserveList(f)]

ParamsOf(c) == [rate |-> c.rate, conn |-> c.conn, window |-> c.window, minbps |-> c.minbps]

----------------------------------------------------------------------------
\* parseInt makes a double of the digits: past Exact the nearest there is.
\* Below minus Exact likewise, which every option raises to its minimum.
ParseInt(n) ==
  LET raised == n + Grain \div 2
  IN IF n > Exact THEN raised - (raised % Grain) ELSE n

\* intValue of config.js, without an upper limit.
IntValue(raw, fallback, min) ==
  LET n == IF raw \in {Absent, Junk} THEN fallback ELSE ParseInt(raw)
  IN IF n < min THEN min ELSE n

\* What String makes of a number, as every reader of the option will take it:
\* "2e+21" is read as 2, and "2.5e+21" as well.
Texts(n) == IF n >= ExponentFrom THEN 1..9 ELSE {n}

\* rateCollectorModeValue and connCollectorModeValue
RateModeValue(v) == IF v = "bpf" THEN v ELSE Defaults.rate
ConnModeValue(v) == IF v \in {"conntrack_netlink", "conntrack_procfs"} THEN v ELSE Defaults.conn

\* Mutant of ShownConn: the legacy option is not looked at.
ShownConnExplicit(f) == ConnModeValue(f.conn)

\* The option, or what legacyConnCollectorMode makes of the old one.
ShownConn(f) == ConnModeValue(IF f.conn # Absent THEN f.conn ELSE ConnModeValue(f.legacy))

ShownRate(f) == RateModeValue(IF f.rate # Absent THEN f.rate ELSE RateModeValue(f.legacy))

\* What load of config.js fills the form with.
Shown(f) ==
  [rate |-> ShownRate(f), conn |-> ShownConn(f),
   window |-> IntValue(f.window, Defaults.window, MinActiveWindow),
   minbps |-> IntValue(f.minbps, Defaults.minbps, MinActiveBps)]

\* readForm
ReadForm(entry) ==
  [rate |-> RateModeValue(entry.rate), conn |-> ConnModeValue(entry.conn),
   window |-> IntValue(entry.window, Defaults.window, MinActiveWindow),
   minbps |-> IntValue(entry.minbps, Defaults.minbps, MinActiveBps)]
=============================================================================
