----------------------------- MODULE MonitorStore -----------------------------
(***************************************************************************)
(* The monitor store (src/src/monitors/mod.rs) under the HTTP handlers that *)
(* change it (src/src/api/mod.rs): concurrent requests, the write lock held *)
(* across the database call, the monitors table with its UNIQUE name and   *)
(* AUTOINCREMENT id, and the in-memory snapshot swapped after the call.    *)
(* A statement may fail; a client may disconnect, which drops the handler  *)
(* at whichever await it has reached; the process may crash and restart.   *)
(*                                                                         *)
(* The snapshot and the value of the watch channel are set together by one *)
(* synchronous block (swap, then notify), so one variable stands for both. *)
(* The Vec's order is the order of ids: push appends a fresh id, update    *)
(* keeps the position and load reads ORDER BY id.                          *)
(***************************************************************************)
EXTENDS Naturals

CONSTANTS
    Requests,       \* handler invocations that may be active at once
    Names,
    Settings,       \* all settings a client may send
    ValidSettings,  \* those that pass the per-protocol validation
    NoMonitor,
    NoRequest,
    MaxId,          \* bound: ids handed out
    MaxDrops        \* bound: handlers dropped between two loads

VARIABLES
    table,          \* the monitors table: id -> config or NoMonitor
    nextId,         \* sqlite_sequence of the table, plus one
    inner,          \* MonitorStore.inner, and the last value sent on tx
    lock,           \* the request holding the write guard, or NoRequest
    req,            \* per request: where it is and what it asks for
    orphans,        \* submitted statements whose handler is gone
    drops           \* handlers dropped since the last load

vars == <<table, nextId, inner, lock, req, orphans, drops>>

Registry == INSTANCE MonitorRegistry WITH entries <- table

Ids == Registry!Ids
Config == Registry!Config
ClientConfig == [name : Names, enabled : BOOLEAN, settings : Settings]
Ops == {"add", "update", "set_enabled", "delete"}

ASSUME StoreAssumption ==
    /\ MaxId \in Nat
    /\ MaxDrops \in Nat
    /\ ValidSettings \subseteq Settings
    /\ NoMonitor \notin ClientConfig
    /\ NoRequest \notin Requests

\* Where a handler waits: before list(), before write().await, for the database
\* with the guard held, and after the commit with the guard held.
PCs == {"validate", "lock", "db", "swap"}

Request == [pc : PCs, op : Ops, id : Ids, config : ClientConfig]

Idle == [pc |-> "idle"]

Live(t) == Registry!Live(t)
NameFree(t, n, i) == Registry!NameFree(t, n, i)

\* The parameters each endpoint takes; those it does not take are fixed.
AnyConfig == CHOOSE c \in Config : TRUE
Takes(op, i, c) ==
    /\ op = "add" => i = 1
    /\ op = "set_enabled" => c = [AnyConfig EXCEPT !.enabled = c.enabled]
    /\ op = "delete" => c = AnyConfig

Goto(r, pc) == req' = [req EXCEPT ![r].pc = pc]
Answer(r) == req' = [req EXCEPT ![r] = Idle]
Locked(r) == lock = r /\ req[r].pc = "db"
-----------------------------------------------------------------------------
(* The table *)

\* The row change a statement makes, on a table or on the snapshot.
Apply(t, s) ==
    [t EXCEPT ![s.id] = IF s.op = "delete" THEN NoMonitor ELSE s.config]

\* Mutation: statements that create the row they do not find.
Upsert(t, s) == Apply(t, s)

\* An UPDATE or DELETE of an absent row touches nothing and succeeds.
Effect(t, s) ==
    IF s.op = "add" \/ s.id \in Live(t) THEN Apply(t, s) ELSE t

\* Mutation: the column without its UNIQUE.
NoConstraint(s) == TRUE

\* name TEXT NOT NULL UNIQUE
UniqueHolds(s) ==
    \/ s.op = "delete"
    \/ NameFree(table, s.config.name, s.id)
    \/ s.op # "add" /\ s.id \notin Live(table)

\* Mutation: a plain INTEGER PRIMARY KEY, one past the largest id in the table.
IdAfterLargest == 1 + CHOOSE i \in Live(table) \cup {0} : \A j \in Live(table) : j <= i

\* INTEGER PRIMARY KEY AUTOINCREMENT: one past the largest id ever used.
FreshId == nextId

\* s as it reaches the table: an INSERT is given its id there.
Bound(s) == IF s.op = "add" THEN [s EXCEPT !.id = FreshId] ELSE s

Execute(s) ==
    /\ s.op = "add" => FreshId \in Ids
    /\ UniqueHolds(Bound(s))
    /\ table' = Effect(table, Bound(s))
    /\ nextId' = IF s.op = "add" THEN nextId + 1 ELSE nextId
-----------------------------------------------------------------------------
(* The handlers *)

Init ==
    /\ table = [i \in Ids |-> NoMonitor]
    /\ nextId = 1
    /\ inner = table
    /\ lock = NoRequest
    /\ req = [r \in Requests |-> Idle]
    /\ orphans = {}
    /\ drops = 0

\* A client calls one of the four endpoints.
Arrive(r) ==
    /\ req[r].pc = "idle"
    /\ \E op \in Ops, i \in Ids, c \in ClientConfig :
         /\ Takes(op, i, c)
         /\ req' = [req EXCEPT ![r] =
                      [pc |-> IF op \in {"add", "update"} THEN "validate" ELSE "lock",
                       op |-> op, id |-> i, config |-> c]]
    /\ UNCHANGED <<table, nextId, inner, lock, orphans, drops>>

\* Mutation: the per-protocol checks are skipped.
AcceptedByName(q) ==
    /\ q.op = "update" => q.id \in Live(inner)
    /\ \A j \in Live(inner) :
         (q.op = "update" /\ j = q.id) \/ inner[j].name # q.config.name

\* validate_monitor against the snapshot, without the request's own monitor on
\* an update; update answers 404 first when the id is not in the snapshot.
Accepted(q) ==
    /\ q.op = "update" => q.id \in Live(inner)
    /\ q.config.settings \in ValidSettings
    /\ \A j \in Live(inner) :
         (q.op = "update" /\ j = q.id) \/ inner[j].name # q.config.name

\* state.monitors.list().await and the checks on what it returned. The read
\* lock is released here: nothing protects the result until write().await.
Validate(r) ==
    /\ req[r].pc = "validate"
    /\ lock = NoRequest
    /\ IF Accepted(req[r]) THEN Goto(r, "lock") ELSE Answer(r)
    /\ UNCHANGED <<table, nextId, inner, lock, orphans, drops>>

\* What the store checks once it holds the guard, and the statement it submits.
\* set_enabled writes the snapshot's own row back with the flag changed.
Refused(q) ==
    IF q.op = "add"
    THEN \E j \in Live(inner) : inner[j].name = q.config.name
    ELSE \/ q.id \notin Live(inner)
         \/ q.op = "set_enabled" /\ inner[q.id].enabled = q.config.enabled

Statement(q) ==
    IF q.op = "set_enabled"
    THEN [q EXCEPT !.config = [inner[q.id] EXCEPT !.enabled = q.config.enabled]]
    ELSE q

\* write().await, then an early return (already exists, not found, no-op) that
\* gives the guard back, or the database call.
Acquire(r) ==
    /\ req[r].pc = "lock"
    /\ lock = NoRequest
    /\ IF Refused(req[r])
       THEN Answer(r) /\ UNCHANGED lock
       ELSE /\ req' = [req EXCEPT ![r] = [Statement(@) EXCEPT !.pc = "db"]]
            /\ lock' = r
    /\ UNCHANGED <<table, nextId, inner, orphans, drops>>

\* The statement commits; an INSERT returns its id.
Commit(r) ==
    /\ Locked(r)
    /\ Execute(req[r])
    /\ req' = [req EXCEPT ![r] = [Bound(@) EXCEPT !.pc = "swap"]]
    /\ UNCHANGED <<inner, lock, orphans, drops>>

\* Mutation: the snapshot is changed before the statement and not put back.
FailAfterSwap(r) ==
    /\ Locked(r)
    /\ inner' = Apply(inner, req[r])
    /\ Answer(r)
    /\ lock' = NoRequest
    /\ UNCHANGED <<table, nextId, orphans, drops>>

\* The statement fails (a UNIQUE violation, or the database itself): `?` leaves
\* the function, the guard is dropped and the handler answers with an error.
Fail(r) ==
    /\ Locked(r)
    /\ Answer(r)
    /\ lock' = NoRequest
    /\ UNCHANGED <<table, nextId, inner, orphans, drops>>

\* Mutation: the guard is still held when the handler calls list() again.
SwapKeepsGuard(r) ==
    /\ lock = r
    /\ req[r].pc = "swap"
    /\ inner' = Apply(inner, req[r])
    /\ Goto(r, "lock")
    /\ UNCHANGED <<table, nextId, lock, orphans, drops>>

\* *guard = Arc::new(monitors); self.notify(&guard); the guard is dropped and
\* the handler answers with success (its closing list() changes nothing).
Swap(r) ==
    /\ lock = r
    /\ req[r].pc = "swap"
    /\ inner' = Apply(inner, req[r])
    /\ lock' = NoRequest
    /\ Answer(r)
    /\ UNCHANGED <<table, nextId, orphans, drops>>
-----------------------------------------------------------------------------
(* The environment *)

\* The client goes away: the server drops the handler's future where it waits,
\* and with it the guard. A statement already handed to SQLite still runs.
Disconnect(r) ==
    /\ req[r].pc # "idle"
    /\ drops < MaxDrops
    /\ drops' = drops + 1
    /\ Answer(r)
    /\ lock' = IF lock = r THEN NoRequest ELSE lock
    /\ orphans' = IF req[r].pc = "db" THEN orphans \cup {req[r]} ELSE orphans
    /\ UNCHANGED <<table, nextId, inner>>

\* An abandoned statement runs, or comes to nothing.
OrphanEnds(s) ==
    /\ orphans' = orphans \ {s}
    /\ Execute(s) \/ UNCHANGED <<table, nextId>>
    /\ UNCHANGED <<inner, lock, req, drops>>

\* The process dies and starts again: load() reads the table back.
Restart ==
    /\ inner' = table
    /\ lock' = NoRequest
    /\ req' = [r \in Requests |-> Idle]
    /\ orphans' = {}
    /\ drops' = 0
    /\ UNCHANGED <<table, nextId>>

Handler(r) ==
    \/ Validate(r)
    \/ Acquire(r)
    \/ Commit(r)
    \/ Fail(r)
    \/ Swap(r)

Next ==
    \/ \E r \in Requests : Arrive(r) \/ Handler(r) \/ Disconnect(r)
    \/ \E s \in orphans : OrphanEnds(s)
    \/ Restart

Spec == Init /\ [][Next]_vars
-----------------------------------------------------------------------------
(* Properties *)

TypeOK ==
    /\ table \in [Ids -> Config \cup {NoMonitor}]
    /\ nextId \in 1 .. MaxId + 1
    /\ inner \in [Ids -> Config \cup {NoMonitor}]
    /\ lock \in Requests \cup {NoRequest}
    /\ req \in [Requests -> Request \cup {Idle}]
    /\ orphans \subseteq Request
    /\ drops \in 0 .. MaxDrops

\* The handlers implement the registry (refinement): every change of the
\* monitors table, by a handler or by an abandoned statement, is one atomic
\* registry change, although update() is never checked against other names
\* under the lock.
ImplementsRegistry == Registry!Spec

\* Deleted ids stay dead in the table through every interleaving and restart.
IdsNeverReused == Registry!IdsNeverReused

\* The table never holds two monitors of one name, dropped handlers included.
TableNamesUnique == Registry!NamesUnique

\* As long as no handler was dropped since the load, the snapshot that list()
\* and the watch channel show is the table, except between a commit and the
\* swap of the same request, where it lacks exactly that request's change.
SnapshotTracksTable ==
    drops = 0 =>
        table = IF lock # NoRequest /\ req[lock].pc = "swap"
                THEN Apply(inner, req[lock])
                ELSE inner

\* Same premise: the list the dashboard shows never has two monitors of one
\* name, although two requests may both have validated against a list that had
\* room for the name.
SnapshotNamesUnique ==
    drops = 0 => \A i \in Live(inner) : NameFree(inner, inner[i].name, i)

\* "Persists and notifies watchers": when update() or set_enabled() is about to
\* answer true, the row it was asked to write is in the table.
UpdatePersists ==
    \A r \in Requests :
        req[r].pc = "swap" /\ req[r].op \in {"update", "set_enabled"}
            => table[req[r].id] = req[r].config

\* No deadlock: whoever holds the write guard is inside its database call or
\* about to swap, and never waits for the store again. No early return, error
\* path or dropped handler leaves the store locked behind it.
GuardOnlyInCall ==
    \A r \in Requests : req[r].pc \in {"db", "swap"} <=> lock = r
=============================================================================
