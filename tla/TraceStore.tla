------------------------------- MODULE TraceStore -------------------------------
(***************************************************************************)
(* The traceroute tables and their operations (src/src/db/mod.rs): runs,   *)
(* their hops, and the addresses, stored once and referenced by id. No     *)
(* foreign key is enforced: the operations keep the tables consistent.     *)
(* The writers are transactions; the query of a monitor's hops is three    *)
(* reads, with writers in between.                                         *)
(***************************************************************************)
EXTENDS Integers, Sequences, FiniteSetsExt

CONSTANTS
    Monitors,   \* monitor ids
    Addrs,      \* hop addresses
    Silent,     \* a hop that did not answer
    Paths,      \* bound: the paths walks find, sequences over Addrs and Silent
    MaxRuns     \* bound: runs inserted

ASSUME TraceStoreAssumption ==
    /\ Silent \notin Addrs \cup Nat
    /\ \A p \in Paths : p \in Seq(Addrs \cup {Silent})
    /\ MaxRuns \in Nat

VARIABLES
    runs,       \* traceroute_runs: id, monitor, old (before the retention cutoff)
    traceHops,  \* traceroute_hops: run_id, hop_no, addr_id (or Silent)
    addrs,      \* traceroute_addrs: id, addr
    lastRun,    \* sqlite_sequence of traceroute_runs
    lastAddr,   \* sqlite_sequence of traceroute_addrs
    reader,     \* get_traceroute_hops: where it is and what it has read
    seen        \* history: <<monitor, hop_no, addr>> of every run stored

traceVars == <<runs, traceHops, addrs, lastRun, lastAddr, reader, seen>>

Idle == [at |-> "idle"]

TraceInit ==
    /\ runs = {}
    /\ traceHops = {}
    /\ addrs = {}
    /\ lastRun = 0
    /\ lastAddr = 0
    /\ reader = Idle
    /\ seen = {}
-----------------------------------------------------------------------------
(* Writers *)

\* Addresses that ON CONFLICT(addr) DO NOTHING does insert.
ToIntern(path) == {path[i] : i \in DOMAIN path} \ ({Silent} \cup {a.addr : a \in addrs})

\* New addresses get ids in the order of the hops they first appear at.
FirstAt(path, a) == Min({i \in DOMAIN path : path[i] = a})

IdOf(path, a) == lastAddr + Cardinality({b \in ToIntern(path) : FirstAt(path, b) <= FirstAt(path, a)})

Interned(path) == addrs \cup {[id |-> IdOf(path, a), addr |-> a] : a \in ToIntern(path)}

\* insert_traceroute: the run, its new addresses, its hops, all or nothing.
InsertTraceroute(m, path) ==
    /\ lastRun < MaxRuns
    /\ addrs' = Interned(path)
    /\ lastAddr' = lastAddr + Cardinality(ToIntern(path))
    /\ traceHops' = traceHops \cup
        {[run |-> lastRun + 1, hop |-> i,
          addr |-> IF path[i] = Silent THEN Silent
                   ELSE (CHOOSE a \in Interned(path) : a.addr = path[i]).id] : i \in DOMAIN path}
    /\ runs' = runs \cup {[id |-> lastRun + 1, monitor |-> m, old |-> FALSE]}
    /\ lastRun' = lastRun + 1
    /\ seen' = seen \cup {<<m, i, path[i]>> : i \in DOMAIN path}
    /\ UNCHANGED reader

\* Mutation: the runs go first, and the hops' sub-select finds none of them.
HopsLeft(gone) == traceHops

\* DELETE FROM traceroute_hops WHERE run_id IN (the runs that go).
HopsWithout(gone) == {h \in traceHops : h.run \notin {r.id : r \in gone}}

\* DELETE FROM traceroute_addrs WHERE id NOT IN (those the hops left refer to).
AddrsAfter(left) == {a \in addrs : \E h \in left : h.addr = a.id}

\* The transaction of prune_traceroute and of delete_traceroute.
DeleteRuns(gone) ==
    /\ traceHops' = HopsWithout(gone)
    /\ runs' = runs \ gone
    /\ addrs' = AddrsAfter(HopsWithout(gone))
    /\ UNCHANGED <<lastRun, lastAddr, reader, seen>>

PruneTraceroute(m) == DeleteRuns({r \in runs : r.monitor = m /\ r.old})

DeleteTraceroute(m) == DeleteRuns({r \in runs : r.monitor = m})

\* The retention cutoff passes a run.
Age(r) ==
    /\ ~r.old
    /\ runs' = (runs \ {r}) \cup {[id |-> r.id, monitor |-> r.monitor, old |-> TRUE]}
    /\ UNCHANGED <<traceHops, addrs, lastRun, lastAddr, reader, seen>>
-----------------------------------------------------------------------------
(* get_traceroute_hops, for all of a monitor's runs or for the recent ones *)

InRange(m, all) == {r \in runs : r.monitor = m /\ (all \/ ~r.old)}

\* The aggregate of each hop position: which answered at least once.
ReadAggregates(m, all) ==
    /\ reader = Idle
    /\ LET ids == {r.id : r \in InRange(m, all)}
           ofM == {h \in traceHops : h.run \in ids}
       IN  reader' = [at |-> "latest", monitor |-> m, all |-> all,
                      rows |-> {h.hop : h \in ofM},
                      reachable |-> {h.hop : h \in {k \in ofM : k.addr # Silent}}]
    /\ UNCHANGED <<runs, traceHops, addrs, lastRun, lastAddr, seen>>

\* Mutation: the newest run of any monitor.
LatestOfAll(m, all) == IF runs = {} THEN 0 ELSE Max({r.id : r \in runs})

\* SELECT MAX(id): 0 stands for NULL.
LatestRun(m, all) == IF InRange(m, all) = {} THEN 0 ELSE Max({r.id : r \in InRange(m, all)})

ReadLatestRun ==
    /\ reader.at = "latest"
    /\ reader' = [at |-> "addrs", monitor |-> reader.monitor, rows |-> reader.rows,
                  reachable |-> reader.reachable,
                  run |-> LatestRun(reader.monitor, reader.all)]
    /\ UNCHANGED <<runs, traceHops, addrs, lastRun, lastAddr, seen>>

\* The addresses of that run, joined to the rows.
ReadAddrs ==
    /\ reader.at = "addrs"
    /\ LET found == {h \in traceHops : h.run = reader.run /\ h.hop \in reader.rows}
       IN  reader' = [at |-> "answered", monitor |-> reader.monitor,
                      reachable |-> reader.reachable,
                      answer |-> {<<x[1].hop, x[2].addr>> :
                                    x \in {y \in found \X addrs : y[1].addr = y[2].id}}]
    /\ UNCHANGED <<runs, traceHops, addrs, lastRun, lastAddr, seen>>

ReaderDone ==
    /\ reader.at = "answered"
    /\ reader' = Idle
    /\ UNCHANGED <<runs, traceHops, addrs, lastRun, lastAddr, seen>>

TraceNext ==
    \/ \E m \in Monitors, p \in Paths : InsertTraceroute(m, p)
    \/ \E m \in Monitors : PruneTraceroute(m)
    \/ \E m \in Monitors : DeleteTraceroute(m)
    \/ \E r \in runs : Age(r)
    \/ \E m \in Monitors, all \in BOOLEAN : ReadAggregates(m, all)
    \/ ReadLatestRun \/ ReadAddrs \/ ReaderDone

TraceSpec == TraceInit /\ [][TraceNext]_traceVars
-----------------------------------------------------------------------------
(* Properties *)

TraceTypeOK ==
    /\ runs \subseteq [id : 1 .. lastRun, monitor : Monitors, old : BOOLEAN]
    /\ traceHops \subseteq [run : 1 .. lastRun, hop : Nat, addr : 1 .. lastAddr \cup {Silent}]
    /\ addrs \subseteq [id : 1 .. lastAddr, addr : Addrs]
    /\ lastRun \in 0 .. MaxRuns
    /\ lastAddr \in Nat
    /\ reader.at \in {"idle", "latest", "addrs", "answered"}
    /\ seen \subseteq Monitors \X Nat \X (Addrs \cup {Silent})

\* The three tables fit together after every insert, prune and delete: every hop has
\* its run and its address, as foreign keys would guarantee, and an address is stored
\* once, and only while a hop refers to it.
ReferencesHold ==
    /\ \A h \in traceHops :
        /\ \E r \in runs : r.id = h.run
        /\ h.addr = Silent \/ \E a \in addrs : a.id = h.addr
    /\ \A a, b \in addrs : a.addr = b.addr => a = b
    /\ \A a \in addrs : \E h \in traceHops : h.addr = a.id

\* Whatever is inserted, pruned, deleted or released between its three reads, the
\* query shows at a hop only an address that this monitor's walks found there.
AnswersAreOwn ==
    reader.at = "answered" =>
        \A x \in reader.answer : <<reader.monitor, x[1], x[2]>> \in seen
=============================================================================
