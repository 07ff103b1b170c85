--------------------------- MODULE MonitorRegistry ---------------------------
(***************************************************************************)
(* What the monitor store promises to everybody who keys data by a         *)
(* monitor's id: a durable registry in which each change is one atomic     *)
(* step, names are unique, settings have been validated, and an id, once   *)
(* handed out, never names another monitor.  MonitorStore shows that the   *)
(* request handlers, the write lock and the SQLite table implement it.     *)
(***************************************************************************)
EXTENDS Naturals

CONSTANTS
    Names,          \* monitor names
    ValidSettings,  \* protocol-specific settings that pass validate_monitor
    NoMonitor,      \* the value of an id that names no monitor
    MaxId           \* bound: ids handed out in one behaviour

Ids == 1 .. MaxId

\* A stored configuration: MonitorConfig with everything the store never looks
\* at (url, host, interval, ...) folded into "settings".
Config == [name : Names, enabled : BOOLEAN, settings : ValidSettings]

VARIABLES
    entries,        \* id -> its configuration, or NoMonitor
    nextId          \* the id the next monitor gets

vars == <<entries, nextId>>

Live(t) == {i \in Ids : t[i] # NoMonitor}

\* No monitor of t other than i is called n.
NameFree(t, n, i) == \A j \in Live(t) \ {i} : t[j].name # n

Init ==
    /\ entries = [i \in Ids |-> NoMonitor]
    /\ nextId = 1

Add(c) ==
    /\ nextId \in Ids
    /\ NameFree(entries, c.name, nextId)
    /\ entries' = [entries EXCEPT ![nextId] = c]
    /\ nextId' = nextId + 1

Replace(i, c) ==
    /\ i \in Live(entries)
    /\ NameFree(entries, c.name, i)
    /\ entries' = [entries EXCEPT ![i] = c]
    /\ UNCHANGED nextId

Remove(i) ==
    /\ i \in Live(entries)
    /\ entries' = [entries EXCEPT ![i] = NoMonitor]
    /\ UNCHANGED nextId

Next ==
    \/ \E c \in Config : Add(c)
    \/ \E i \in Ids, c \in Config : Replace(i, c)
    \/ \E i \in Ids : Remove(i)

Spec == Init /\ [][Next]_vars
-----------------------------------------------------------------------------
\* Two monitors never share a name.
NamesUnique == \A i \in Live(entries) : NameFree(entries, entries[i].name, i)

\* A handed-out id that names no monitor never names one again: history rows
\* keyed by it can never become another monitor's history.
IdsNeverReused ==
    [][\A i \in 1 .. nextId - 1 : entries[i] = NoMonitor => entries'[i] = NoMonitor]_vars
=============================================================================
