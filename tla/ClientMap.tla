----------------------------- MODULE ClientMap -----------------------------
(***************************************************************************)
(* The tc programs of lanspeed_tc.bpf.c on several CPUs at once: one frame *)
(* per CPU goes through account_frame and try_count_connection, helper     *)
(* call by helper call, over two LRU hash maps they share.                 *)
(*                                                                         *)
(* A map value is an element of a preallocated pool and a lookup returns a *)
(* pointer to it: when the LRU evicts a key its element is reused at once, *)
(* under a CPU that still holds the pointer.                               *)
(***************************************************************************)
EXTENDS Naturals, FiniteSets

CONSTANTS
  Cpus,
  TxKeys, RxKeys, \* (ifindex, vlan, mac, direction) of ingress and egress frames
  Elements,       \* the pool of lanspeed_clients (LANSPEED_MAX_CLIENTS)
  Conns,          \* connection tuples
  Sender,         \* the ingress key of each connection's frames
  MaxConns,       \* LANSPEED_MAX_CONN_TUPLES
  MaxFrames,      \* bound of the model: frames of one key
  None

Keys == TxKeys \union RxKeys

ASSUME KeysAssumption == TxKeys \intersect RxKeys = {} /\ None \notin Keys \union Conns
ASSUME SenderAssumption == Sender \in [Conns -> TxKeys]
ASSUME SizeAssumption ==
  /\ IsFiniteSet(Cpus) /\ Cpus # {} /\ Elements # {}
  /\ MaxConns \in Nat \ {0} /\ MaxFrames \in Nat

VARIABLES
  entry,    \* [Elements -> [key, frames, conns]], lanspeed_clients
  seen,     \* lanspeed_seen_conns
  cpu,      \* [Cpus -> [step, key, conn, elem]], the frame each CPU works on
  \* history
  traffic,  \* frames of each key that reached account_frame
  dropped,  \* those that returned without being counted
  counted,  \* how often each connection was added to a client's count
  recycled, \* an element was taken from a live key
  forgotten \* a tuple was evicted from lanspeed_seen_conns

vars == <<entry, seen, cpu, traffic, dropped, counted, recycled, forgotten>>
history == <<traffic, dropped, counted, recycled, forgotten>>

Steps == {"idle", "insert", "relookup", "add", "check", "mark", "bump"}
Idle == [step |-> "idle", key |-> None, conn |-> None, elem |-> None]
Empty == [key |-> None, frames |-> 0, conns |-> 0]

Init ==
  /\ entry = [e \in Elements |-> Empty] /\ seen = {}
  /\ cpu = [c \in Cpus |-> Idle]
  /\ traffic = [k \in Keys |-> 0] /\ dropped = [k \in Keys |-> 0]
  /\ counted = [t \in Conns |-> 0]
  /\ recycled = FALSE /\ forgotten = FALSE

Holding(k) == {e \in Elements : entry[e].key = k}
Goto(c, s) == cpu' = [cpu EXCEPT ![c].step = s]
Done(c) == cpu' = [cpu EXCEPT ![c] = Idle]
\* account_frame's tail: only ingress frames are looked at for a connection.
Counted(c, e) ==
  cpu' = [cpu EXCEPT ![c] = IF @.conn # None THEN [@ EXCEPT !.step = "check", !.elem = e]
                                             ELSE Idle]

\* Mutant of Arrive: the first lookup is missing.
ArriveInserting(c, k, t) ==
  /\ cpu[c].step = "idle"
  /\ traffic[k] < MaxFrames
  /\ traffic' = [traffic EXCEPT ![k] = @ + 1]
  /\ cpu' = [cpu EXCEPT ![c] = [step |-> "insert", key |-> k, conn |-> t, elem |-> None]]
  /\ UNCHANGED <<entry, seen, dropped, counted, recycled, forgotten>>

\* A frame with a valid client MAC enters account_frame: bpf_map_lookup_elem.
Arrive(c, k, t) ==
  /\ cpu[c].step = "idle"
  /\ traffic[k] < MaxFrames
  /\ traffic' = [traffic EXCEPT ![k] = @ + 1]
  /\ \/ \E e \in Holding(k) :
          cpu' = [cpu EXCEPT ![c] = [step |-> "add", key |-> k, conn |-> t, elem |-> e]]
     \/ /\ Holding(k) = {}
        /\ cpu' = [cpu EXCEPT ![c] = [step |-> "insert", key |-> k, conn |-> t, elem |-> None]]
  /\ UNCHANGED <<entry, seen, dropped, counted, recycled, forgotten>>

\* __sync_fetch_and_add through the pointer, whoever owns the element by now.
Add(c) ==
  /\ cpu[c].step = "add"
  /\ entry' = [entry EXCEPT ![cpu[c].elem].frames = @ + 1]
  /\ Counted(c, cpu[c].elem)
  /\ UNCHANGED <<seen, history>>

\* Mutant of Insert: BPF_ANY, which overwrites the other CPU's counter.
InsertOverwriting(c) ==
  LET k == cpu[c].key
      free == Holding(None)
      place == IF Holding(k) # {} THEN Holding(k) ELSE IF free # {} THEN free ELSE Elements
  IN /\ cpu[c].step = "insert"
     /\ \E e \in place : entry' = [entry EXCEPT ![e] = [key |-> k, frames |-> 1, conns |-> 0]]
     /\ recycled' = (recycled \/ Holding(k) \union free = {})
     /\ Goto(c, "relookup")
     /\ UNCHANGED <<seen, traffic, dropped, counted, forgotten>>

\* bpf_map_update_elem(BPF_NOEXIST): when another CPU was first the frame is
\* not counted; when the pool is full the LRU gives up some key's element.
Insert(c) ==
  LET k == cpu[c].key
      free == Holding(None)
  IN /\ cpu[c].step = "insert"
     /\ IF Holding(k) # {}
          THEN /\ dropped' = [dropped EXCEPT ![k] = @ + 1]
               /\ Done(c)
               /\ UNCHANGED <<entry, recycled>>
          ELSE /\ \E e \in IF free # {} THEN free ELSE Elements :
                    entry' = [entry EXCEPT ![e] = [key |-> k, frames |-> 1, conns |-> 0]]
               /\ recycled' = (recycled \/ free = {})
               /\ Goto(c, "relookup")
               /\ UNCHANGED dropped
     /\ UNCHANGED <<seen, traffic, counted, forgotten>>

Relookup(c) ==
  /\ cpu[c].step = "relookup"
  /\ \/ Holding(cpu[c].key) = {} /\ Done(c)
     \/ \E e \in Holding(cpu[c].key) : Counted(c, e)
  /\ UNCHANGED <<entry, seen, history>>

\* Mutant of Check: seen_conns is not consulted.
CheckNothing(c) ==
  /\ cpu[c].step = "check"
  /\ Done(c) \/ Goto(c, "mark")
  /\ UNCHANGED <<entry, seen, history>>

\* try_count_connection: a tuple in seen_conns was counted before; conntrack
\* may not know the connection (yet).
Check(c) ==
  /\ cpu[c].step = "check"
  /\ \/ Done(c)
     \/ cpu[c].conn \notin seen /\ Goto(c, "mark")
  /\ UNCHANGED <<entry, seen, history>>

\* Mutant of Mark: returns when the tuple has been stored.
MarkOnly(c) ==
  LET t == cpu[c].conn
  IN /\ cpu[c].step = "mark"
     /\ t \in seen \/ Cardinality(seen) < MaxConns
     /\ seen' = seen \union {t}
     /\ Done(c)
     /\ UNCHANGED <<entry, history>>

\* Mutant of Mark: the tuple map grows past its size.
MarkUnbounded(c) ==
  /\ cpu[c].step = "mark"
  /\ seen' = seen \union {cpu[c].conn}
  /\ Goto(c, "bump")
  /\ UNCHANGED <<entry, history>>

\* bpf_map_update_elem on seen_conns; its result is not looked at.
Mark(c) ==
  LET t == cpu[c].conn
  IN /\ cpu[c].step = "mark"
     /\ \/ /\ t \in seen \/ Cardinality(seen) < MaxConns
           /\ seen' = seen \union {t}
           /\ UNCHANGED forgotten
        \/ /\ t \notin seen /\ Cardinality(seen) = MaxConns
           /\ \E old \in seen : seen' = (seen \ {old}) \union {t}
           /\ forgotten' = TRUE
     /\ Goto(c, "bump")
     /\ UNCHANGED <<entry, traffic, dropped, counted, recycled>>

Bump(c) ==
  /\ cpu[c].step = "bump"
  /\ entry' = [entry EXCEPT ![cpu[c].elem].conns = @ + 1]
  /\ counted' = [counted EXCEPT ![cpu[c].conn] = @ + 1]
  /\ Done(c)
  /\ UNCHANGED <<seen, traffic, dropped, recycled, forgotten>>

Frame(c) ==
  \/ \E k \in Keys : Arrive(c, k, None)
  \/ \E t \in Conns : Arrive(c, Sender[t], t)

Next ==
  \E c \in Cpus :
    \/ Frame(c) \/ Add(c) \/ Insert(c) \/ Relookup(c)
    \/ Check(c) \/ Mark(c) \/ Bump(c)

Spec == Init /\ [][Next]_vars

----------------------------------------------------------------------------
(* Properties *)

TypeOK ==
  /\ entry \in [Elements -> [key : Keys \union {None}, frames : Nat, conns : Nat]]
  /\ seen \subseteq Conns /\ Cardinality(seen) <= MaxConns
  /\ cpu \in [Cpus -> [step : Steps, key : Keys \union {None},
                       conn : Conns \union {None}, elem : Elements \union {None}]]
  /\ traffic \in [Keys -> 0..MaxFrames] /\ dropped \in [Keys -> Nat]
  /\ counted \in [Conns -> Nat]
  /\ recycled \in BOOLEAN /\ forgotten \in BOOLEAN

At(k, steps) == {c \in Cpus : cpu[c].key = k /\ cpu[c].step \in steps}

\* Until the pool overflows no frame is lost or counted twice, whichever CPUs
\* meet in account_frame: a key's counter, the frames its first insertion
\* turned away and the frames still in the program add up to the traffic.
FramesAccounted ==
  ~recycled =>
    \A k \in Keys :
      LET pending == dropped[k] + Cardinality(At(k, {"insert", "add"}))
      IN /\ Holding(k) = {} => traffic[k] = pending
         /\ \A e \in Holding(k) : traffic[k] = entry[e].frames + pending

\* Frames are only turned away when several CPUs see the first frame of a key
\* at once, so each key loses fewer than there are CPUs, however long it lives.
DroppedOnlyAtFirst ==
  ~recycled => \A k \in Keys : dropped[k] < Cardinality(Cpus)

\* A tuple in lanspeed_seen_conns was counted, or is about to be, by the CPU
\* that put it there: marking before counting loses no connection.
SeenIsCounted ==
  \A t \in seen : counted[t] > 0 \/ \E c \in Cpus : cpu[c].conn = t /\ cpu[c].step = "bump"

\* The two maps overcount a connection only by the CPUs that checked it before
\* the first of them marked it.
OvercountBounded ==
  ~forgotten => \A t \in Conns : counted[t] <= Cardinality(Cpus)

\* lanspeed_tc.bpf.c:196 "Check if we already counted this connection" (and
\* :26 "Max tracked unique connections for dedup"): a connection whose tuple
\* was never evicted is counted once.
ConnectionCountedOnce ==
  ~forgotten => \A t \in Conns : counted[t] <= 1
=============================================================================
