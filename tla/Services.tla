------------------------------ MODULE Services ------------------------------
(***************************************************************************)
(* The daemon's own services together: one thread that collects samples    *)
(* and answers `clients` (names, then the push into the overview) and      *)
(* `interfaces`, while files are written, frames arrive and interfaces     *)
(* come and go.                                                            *)
(***************************************************************************)
EXTENDS Hostnames, Interfaces, Overview

daemon == <<now, job, left>>
vars == <<daemon, hostnames, interfaces, overview>>

Init == DaemonInit /\ HostnamesInit /\ InterfacesInit /\ OverviewInit

\* clients_method begins with the names and ends with the push.
ClientsCall ==
  /\ job = "idle" /\ Spend("calls") /\ RefreshNames
  /\ UNCHANGED <<now, interfaces, overview>>

ClientsAnswer == PushOverview /\ UNCHANGED <<now, left, hostnames, interfaces>>

NamesStep == HostnamesStep /\ UNCHANGED <<now, left, interfaces, overview>>

InterfacesCall ==
  \/ StartPoll /\ UNCHANGED <<hostnames, overview>>
  \/ InterfacesStep /\ UNCHANGED <<now, left, hostnames, overview>>

Collect ==
  \/ (TickCollects \/ SwitchCollects) /\ UNCHANGED <<hostnames, interfaces>>
  \/ OverviewStep /\ UNCHANGED <<now, left, hostnames, interfaces>>

World ==
  \/ Tick /\ UNCHANGED <<hostnames, interfaces, overview>>
  \/ HostnamesWorld /\ UNCHANGED <<interfaces, overview>>
  \/ InterfacesWorld /\ UNCHANGED <<now, job, hostnames, overview>>
  \/ OverviewWorld /\ UNCHANGED <<hostnames, interfaces>>

Next == ClientsCall \/ NamesStep \/ ClientsAnswer \/ InterfacesCall \/ Collect \/ World

Spec == Init /\ [][Next]_vars

----------------------------------------------------------------------------
(* Properties *)

IsCache(f) == Cardinality(DOMAIN f) <= CacheMax

TypeOK ==
  /\ now \in Nat \ {0} /\ job \in Jobs /\ left \in [Bounded -> Nat]
  /\ IsCache(names.mac) /\ DOMAIN names.mac \subseteq Macs /\ IsCache(names.ip)
  /\ mtime \in [Sources -> 0..now] /\ refresh.at \in 0..now /\ seen.at <= refresh.at
  /\ DOMAIN link = Ifaces /\ DOMAIN previous = Ifaces /\ \A i \in Ifaces : previous[i].ms <= now
  /\ poll.at \in 1..Len(IfaceSeq) /\ poll.ms <= now
  /\ walk.at \in 1..Len(PeopleSeq) + 1 /\ walk.back \in {"idle", "answer"}
  /\ older.ms <= current.ms /\ current.ms <= walk.ms /\ walk.ms <= now
  /\ ring \in [slot : [0..Window-1 -> [ms : 0..now, clients : SUBSET People, active : SUBSET People]],
               head : 0..Window-1, count : 0..Window]
=============================================================================
