----------------------------- MODULE Hostnames ------------------------------
(***************************************************************************)
(* The hostname cache: each `clients` call looks at the mtimes of the      *)
(* lease file, the hosts directory and /etc/hosts, and parses all three    *)
(* again when one moved or the last time is long ago. dnsmasq and others   *)
(* write the files meanwhile, the lease file by emptying it first.         *)
(***************************************************************************)
EXTENDS Daemon, Sequences, SequencesExt, FiniteSetsExt

CONSTANTS
  Macs, Ips, Names,     \* of clients
  IpLists,              \* the addresses a client to name may have
  LeaseFiles,           \* what dnsmasq may write
  HostsFiles,           \* and what the other files may hold
  CacheMax,             \* HOSTNAME_CACHE_MAX
  RefreshInterval,      \* HOSTNAME_REFRESH_MS
  Nameless, Loopback    \* "*" and "-"; 127.0.0.1 and ::1

LeaseLines == [mac : Macs, ip : Ips, name : Names]
HostsLines == [ip : Ips, name : Names]

ASSUME FilesAssumption ==
  LeaseFiles \subseteq Seq(LeaseLines) /\ HostsFiles \subseteq Seq(HostsLines) /\ IpLists \subseteq Seq(Ips)
ASSUME CacheAssumption == CacheMax \in Nat /\ RefreshInterval \in Nat \ {0}

Sources == {"leases", "hostsdir", "etchosts"}

VARIABLES
  text,    \* [Sources -> lines]
  mtime,   \* [Sources -> when it was written last], of a directory the latest
  names,   \* hostname_mac_cache and hostname_ip_cache, functions on what they hold
  seen,    \* [at, mtime]: hostname_cache_refresh_ms and the mtimes kept with it
  refresh, \* [at, mtime]: those of the refresh in progress
  \* history
  asked    \* when the last call that is through with the names began

hostnames == <<text, mtime, names, seen, refresh, asked>>
files == <<text, mtime>>

NoNames == [mac |-> [m \in {} |-> Nameless], ip |-> [a \in {} |-> Nameless]]

HostnamesInit ==
  /\ text = [s \in Sources |-> <<>>]
  /\ mtime = [s \in Sources |-> 0]
  /\ names = NoNames
  /\ seen = [at |-> 0, mtime |-> mtime] /\ refresh = seen /\ asked = 0

----------------------------------------------------------------------------
(* Parsing *)

\* hostname_cache_add_mac: the last line wins, while there is room.
AddMac(cache, mac, name) ==
  IF name = Nameless \/ Cardinality(DOMAIN cache) >= CacheMax THEN cache
  ELSE [m \in DOMAIN cache \union {mac} |-> IF m = mac THEN name ELSE cache[m]]

\* hostname_cache_add_ip: the first line wins.
AddIp(cache, ip, name) ==
  IF name = Nameless \/ Cardinality(DOMAIN cache) >= CacheMax \/ ip \in DOMAIN cache THEN cache
  ELSE [a \in DOMAIN cache \union {ip} |-> IF a = ip THEN name ELSE cache[a]]

\* hostname_cache_parse_leases
OneLease(c, l) == [mac |-> AddMac(c.mac, l.mac, l.name), ip |-> AddIp(c.ip, l.ip, l.name)]
WithLeases(cache, lines) == FoldLeft(OneLease, cache, lines)

\* hostname_cache_parse_hosts_file
OneHost(c, l) == IF l.ip \in Loopback THEN c ELSE [c EXCEPT !.ip = AddIp(@, l.ip, l.name)]
WithHosts(cache, lines) == FoldLeft(OneHost, cache, lines)

----------------------------------------------------------------------------
(* hostname_cache_refresh *)

\* Mutant of KeepsNames: the age of the cache is not looked at.
KeepsUnchanged == seen.at # 0 /\ mtime = seen.mtime

KeepsNames == seen.at # 0 /\ mtime = seen.mtime /\ now - seen.at < RefreshInterval

RefreshNames ==
  IF KeepsNames
    THEN job' = "answer" /\ asked' = now /\ UNCHANGED <<files, names, seen, refresh>>
    ELSE /\ job' = "leases" /\ names' = NoNames /\ refresh' = [at |-> now, mtime |-> mtime]
         /\ UNCHANGED <<files, seen, asked>>

ParseLeases ==
  /\ job = "leases" /\ job' = "hostsdir"
  /\ names' = WithLeases(names, text["leases"])
  /\ UNCHANGED <<files, seen, refresh, asked>>

ParseHostsDir ==
  /\ job = "hostsdir" /\ job' = "etchosts"
  /\ names' = WithHosts(names, text["hostsdir"])
  /\ UNCHANGED <<files, seen, refresh, asked>>

\* Mutant of ParseEtcHosts: the mtimes are those after the parse.
ParseThenStat ==
  /\ job = "etchosts" /\ job' = "answer"
  /\ names' = WithHosts(names, text["etchosts"])
  /\ seen' = [at |-> refresh.at, mtime |-> mtime] /\ asked' = refresh.at
  /\ UNCHANGED <<files, refresh>>

ParseEtcHosts ==
  /\ job = "etchosts" /\ job' = "answer"
  /\ names' = WithHosts(names, text["etchosts"])
  /\ seen' = refresh /\ asked' = refresh.at
  /\ UNCHANGED <<files, refresh>>

HostnamesStep == ParseLeases \/ ParseHostsDir \/ ParseEtcHosts

\* hostname_lookup: by MAC, or by the first address that has a name.
Lookup(mac, ips) ==
  LET known == {n \in 1..Len(ips) : ips[n] \in DOMAIN names.ip}
  IN IF mac \in DOMAIN names.mac THEN names.mac[mac]
     ELSE IF known = {} THEN Nameless ELSE names.ip[ips[Min(known)]]

----------------------------------------------------------------------------
(* The writers *)

Write(s, lines) ==
  /\ Spend("writes")
  /\ text' = [text EXCEPT ![s] = lines] /\ mtime' = [mtime EXCEPT ![s] = now]
  /\ UNCHANGED <<now, job, names, seen, refresh, asked>>

\* dnsmasq empties the lease file and fills it again.
EmptyLeases == text["leases"] # <<>> /\ Write("leases", <<>>)
FillLeases == text["leases"] = <<>> /\ \E lines \in LeaseFiles : Write("leases", lines)

WriteHosts ==
  \E s \in {"hostsdir", "etchosts"}, lines \in HostsFiles : text[s] # lines /\ Write(s, lines)

HostnamesWorld == EmptyLeases \/ FillLeases \/ WriteHosts

----------------------------------------------------------------------------
(* Properties *)

\* All lines, in the order they are parsed, and those that name their address.
Lines == text["leases"] \o text["hostsdir"] \o text["etchosts"]
Speaks(n) ==
  Lines[n].name # Nameless /\ (n <= Len(text["leases"]) \/ Lines[n].ip \notin Loopback)
About(ip) == {n \in 1..Len(Lines) : Lines[n].ip = ip /\ Speaks(n)}
Leased(mac) ==
  {n \in 1..Len(text["leases"]) :
     text["leases"][n].mac = mac /\ text["leases"][n].name # Nameless}

\* The name a client has by the files: its newest lease, or the first line on
\* the first of its addresses that has one, leases before hosts files.
Named(mac, ips) ==
  LET known == {n \in 1..Len(ips) : About(ips[n]) # {}}
  IN IF Leased(mac) # {} THEN text["leases"][Max(Leased(mac))].name
     ELSE IF known = {} THEN Nameless
     ELSE Lines[Min(About(ips[Min(known)]))].name

\* A full cache takes no new line, and none about a lease it holds.
Fits ==
  /\ Cardinality({text["leases"][n].mac : n \in DOMAIN text["leases"]}) < CacheMax
  /\ Cardinality({l.ip : l \in UNION {Range(text[s]) : s \in Sources}}) <= CacheMax

NamesRight == \A mac \in Macs, ips \in IpLists : Lookup(mac, ips) = Named(mac, ips)

\* Files that have been left alone for a refresh interval are what the names of
\* an answer are from, whatever was written before, while the daemon was
\* parsing too: half-written files do not stick.
StaleNamesBounded ==
  /\ job = "answer" /\ Fits
  /\ \A s \in Sources : mtime[s] + RefreshInterval <= asked
  => NamesRight

\* A change shows in the first call of a later second, unless the cache was
\* filled in the second of the change: the mtimes kept with the cache are from
\* before the parse, so that what changes during it is noticed next time.
LaterChangeShown ==
  /\ job = "answer" /\ Fits
  /\ \A s \in Sources : mtime[s] < asked /\ mtime[s] # seen.at
  => NamesRight
=============================================================================
