-------------------------------- MODULE Startup --------------------------------
(***************************************************************************)
(* From the command line to the first request: main migrates [[monitors]]  *)
(* out of config.toml into monitors.toml, parses config.toml, and          *)
(* MonitorStore::load imports monitors.toml into an empty monitors table   *)
(* and tags the history that only carries names with the monitors' ids.    *)
(* (src/src/main.rs, src/src/monitors/mod.rs, src/src/db/mod.rs)           *)
(*                                                                         *)
(* The process can die, or a call can fail, between any two steps; it is   *)
(* started again. A monitor is its name here, its settings take no part.   *)
(***************************************************************************)
EXTENDS Integers, SequencesExt

CONSTANTS
    Names,      \* monitor names
    NoFile,     \* monitors.toml does not exist
    MaxCuts,    \* bound: crashes and failed calls
    MaxIds      \* bound: monitors are added while fewer ids were handed out

ASSUME StartupAssumption == MaxCuts \in Nat /\ MaxIds \in Nat /\ NoFile \notin Seq(Names)

HistoryTables == {"probe_results", "traceroute_runs"}

VARIABLES
    config,     \* what config.toml holds, of Contents
    entries,    \* the names under [[monitors]] of the config.toml of before
    nested,     \* one of these entries has a table of its own, [monitors.headers]
    tomlFile,   \* the names in monitors.toml, in order, or NoFile
    rows,       \* the monitors table
    lastId,     \* its sqlite_sequence
    untagged,   \* <<table, name>>: history rows without a monitor_id
    tagged,     \* <<table, name, id>>: the same rows once they have one
    boot,       \* where the program is
    todo,       \* what the import has left of monitors.toml
    toTag,      \* <<table, row>>: what the backfill has left
    cuts,       \* history: crashes and failures so far
    cutIn,      \* history: what they and a cut before the first start interrupted
    imported,   \* history: an import of monitors.toml ran to its end
    known       \* history: names that have had a row

startupVars == <<config, entries, nested, tomlFile, rows, lastId, untagged, tagged, boot, todo,
                 toTag, cuts, cutIn, imported, known>>
files == <<config, entries, nested, tomlFile>>
tables == <<rows, lastId, untagged, tagged>>
loops == <<todo, toTag>>
history == <<cuts, cutIn, imported, known>>

\* [[monitors]]; a table [monitors] without a path; broken off, with a part that
\* parses or one that does not; nothing but settings.
Contents == {"legacy", "rest", "cut", "torn", "plain"}

Files == UNION {[1 .. n -> Names] : n \in 0 .. 2}
RowNames == {r.name : r \in rows}

\* An old installation (either file or both, any name-keyed history) or a new one.
\* Both files are what a migration leaves that was cut short after monitors.toml.
StartupInit ==
    /\ config \in {"legacy", "plain"}
    /\ entries \in IF config = "legacy" THEN Files \ {<<>>} ELSE {<<>>}
    /\ nested \in IF config = "legacy" THEN BOOLEAN ELSE {FALSE}
    /\ tomlFile \in Files \cup {NoFile}
    /\ rows = {}
    /\ lastId = 0
    /\ untagged \in SUBSET (HistoryTables \X Names)
    /\ tagged = {}
    /\ boot = "off"
    /\ todo = <<>>
    /\ toTag = {}
    /\ cuts = 0
    /\ cutIn = IF config = "legacy" /\ tomlFile # NoFile THEN {"strip"} ELSE {}
    /\ imported = FALSE
    /\ known = {}
-----------------------------------------------------------------------------
(* migrate_legacy_config and migrate_legacy_monitors *)

Boot ==
    /\ boot = "off"
    /\ boot' = "migrate"
    /\ UNCHANGED <<files, tables, loops, history>>

\* "Don't clobber an existing monitors.toml", or nothing to migrate.
SkipMigration ==
    /\ boot = "migrate"
    /\ tomlFile # NoFile \/ config # "legacy"
    /\ boot' = "config"
    /\ UNCHANGED <<files, tables, loops, history>>

\* save_to_path: a temporary file, renamed.
SaveFile ==
    /\ boot = "migrate"
    /\ tomlFile = NoFile /\ config = "legacy"
    /\ tomlFile' = entries
    /\ boot' = "strip"
    /\ UNCHANGED <<config, entries, nested, tables, loops, history>>

\* Mutation: the error of save_to_path is dropped.
StripAnyway == "strip"

AfterFailedSave == "config"

\* Mutation: the legacy entries are left in config.toml.
StripNothing == "legacy"

\* strip_monitors_from_toml: the entries end at the next header, be it one of theirs.
Stripped == IF nested THEN "rest" ELSE "plain"

\* fs::write truncates config.toml, then writes it.
Truncate ==
    /\ boot = "strip"
    /\ config' = "cut"
    /\ boot' = "write"
    /\ UNCHANGED <<entries, nested, tomlFile, tables, loops, history>>

WriteConfig ==
    /\ boot = "write"
    /\ config' = Stripped
    /\ boot' = "config"
    /\ UNCHANGED <<entries, nested, tomlFile, tables, loops, history>>

\* What a write that was interrupted leaves in config.toml.
LeftOver == IF boot = "write" THEN {"cut", "torn"} ELSE {config}

Cut(what) ==
    /\ cuts < MaxCuts
    /\ cuts' = cuts + 1
    /\ cutIn' = cutIn \cup {what}
    /\ UNCHANGED <<imported, known>>

\* An error in the migration is logged and the program goes on.
SaveFails ==
    /\ boot = "migrate"
    /\ tomlFile = NoFile /\ config = "legacy"
    /\ boot' = AfterFailedSave
    /\ Cut("save")
    /\ UNCHANGED <<files, tables, loops>>

StripFails ==
    /\ boot \in {"strip", "write"}
    /\ boot' = "config"
    /\ config' \in LeftOver
    /\ Cut("strip")
    /\ UNCHANGED <<entries, nested, tomlFile, tables, loops>>

\* config::load. In its schema monitors is a table with a path.
LoadConfig ==
    /\ boot = "config"
    /\ boot' = IF config \in {"cut", "plain"} THEN "load" ELSE "off"
    /\ UNCHANGED <<files, tables, loops, history>>
-----------------------------------------------------------------------------
(* MonitorStore::load *)

\* monitors_table_empty; import_legacy_toml returns early without a file.
CheckEmpty ==
    /\ boot = "load"
    /\ IF rows = {} /\ tomlFile \notin {NoFile, <<>>}
       THEN boot' = "import" /\ todo' = tomlFile
       ELSE boot' = "list" /\ UNCHANGED todo
    /\ UNCHANGED <<files, tables, toTag, history>>

\* Mutation: a table without the UNIQUE name.
TakenNever(n) == FALSE

Taken(n) == n \in RowNames

\* insert_monitor, a statement of its own. A name that is there already fails, and
\* the program ends.
ImportRow ==
    /\ boot = "import"
    /\ todo # <<>>
    /\ IF Taken(Head(todo))
       THEN /\ boot' = "off"
            /\ todo' = <<>>
            /\ cutIn' = cutIn \cup {"import"}
            /\ UNCHANGED <<rows, lastId, known>>
       ELSE /\ rows' = rows \cup {[id |-> lastId + 1, name |-> Head(todo)]}
            /\ lastId' = lastId + 1
            /\ known' = known \cup {Head(todo)}
            /\ todo' = Tail(todo)
            /\ UNCHANGED <<boot, cutIn>>
    /\ UNCHANGED <<files, untagged, tagged, toTag, cuts, imported>>

\* Mutation: the loop ends one monitor early.
OneLeft == Len(todo) <= 1

NoneLeft == todo = <<>>

ImportDone ==
    /\ boot = "import"
    /\ NoneLeft
    /\ boot' = "list"
    /\ imported' = TRUE
    /\ UNCHANGED <<files, tables, loops, cuts, cutIn, known>>

\* Mutation: history is tagged only by the start that imported.
TagAfterImport(loaded) == IF imported /\ cuts = 0 THEN loaded ELSE {}

\* The monitors whose history is tagged: all that were loaded.
ToTag(loaded) == loaded

\* list_monitor_rows: in the order of their ids.
List ==
    /\ boot = "list"
    /\ toTag' = HistoryTables \X ToTag(rows)
    /\ boot' = "backfill"
    /\ UNCHANGED <<files, tables, todo, history>>

Precedes(x, y) == x[2].id < y[2].id \/ (x[2].id = y[2].id /\ x[1] = "probe_results")

\* backfill_monitor_id has one UPDATE for each table.
Backfill ==
    /\ boot = "backfill"
    /\ \E x \in toTag :
        /\ \A y \in toTag : x = y \/ Precedes(x, y)
        /\ toTag' = toTag \ {x}
        /\ untagged' = untagged \ {<<x[1], x[2].name>>}
        /\ tagged' = tagged \cup
            {<<x[1], x[2].name, x[2].id>> : u \in untagged \cap {<<x[1], x[2].name>>}}
    /\ UNCHANGED <<files, rows, lastId, boot, todo, history>>

Serve ==
    /\ boot = "backfill"
    /\ toTag = {}
    /\ boot' = "serving"
    /\ UNCHANGED <<files, tables, loops, history>>
-----------------------------------------------------------------------------
(* What happens while it serves, and the end of the process *)

AddMonitor(n) ==
    /\ boot = "serving"
    /\ n \notin RowNames
    /\ lastId < MaxIds
    /\ rows' = rows \cup {[id |-> lastId + 1, name |-> n]}
    /\ lastId' = lastId + 1
    /\ known' = known \cup {n}
    /\ UNCHANGED <<files, untagged, tagged, boot, loops, cuts, cutIn, imported>>

\* delete, with the purge of its history.
DeleteMonitor(r) ==
    /\ boot = "serving"
    /\ rows' = rows \ {r}
    /\ tagged' = {x \in tagged : x[3] # r.id}
    /\ UNCHANGED <<files, lastId, untagged, boot, loops, history>>

RenameMonitor(r, n) ==
    /\ boot = "serving"
    /\ n \notin RowNames
    /\ rows' = (rows \ {r}) \cup {[id |-> r.id, name |-> n]}
    /\ known' = known \cup {n}
    /\ UNCHANGED <<files, lastId, untagged, tagged, boot, loops, cuts, cutIn, imported>>

\* The process dies, is stopped, or ends on an error of the database.
Exit ==
    /\ boot # "off"
    /\ boot' = "off"
    /\ todo' = <<>>
    /\ toTag' = {}
    /\ config' \in LeftOver
    /\ Cut(IF boot = "write" THEN "strip" ELSE boot)
    /\ UNCHANGED <<entries, nested, tomlFile, tables>>

StartupNext ==
    \/ Boot \/ SkipMigration \/ SaveFile \/ Truncate \/ WriteConfig
    \/ SaveFails \/ StripFails
    \/ LoadConfig \/ CheckEmpty \/ ImportRow \/ ImportDone
    \/ List \/ Backfill \/ Serve
    \/ \E n \in Names : AddMonitor(n)
    \/ \E r \in rows : DeleteMonitor(r)
    \/ \E r \in rows, n \in Names : RenameMonitor(r, n)
    \/ Exit

StartupSpec == StartupInit /\ [][StartupNext]_startupVars

\* The program runs on, and is started again when it has ended.
StartupStep ==
    \/ Boot \/ SkipMigration \/ SaveFile \/ Truncate \/ WriteConfig
    \/ LoadConfig \/ CheckEmpty \/ ImportRow \/ ImportDone
    \/ List \/ Backfill \/ Serve
-----------------------------------------------------------------------------
(* Properties *)

StartupTypeOK ==
    /\ config \in Contents
    /\ nested \in BOOLEAN
    /\ entries \in Seq(Names)
    /\ tomlFile = NoFile \/ tomlFile \in Seq(Names)
    /\ rows \subseteq [id : 1 .. lastId, name : Names]
    /\ \A r, s \in rows : r.id = s.id \/ r.name = s.name => r = s
    /\ lastId \in Nat
    /\ untagged \subseteq HistoryTables \X Names
    /\ tagged \subseteq HistoryTables \X Names \X (1 .. lastId)
    /\ boot \in {"off", "migrate", "strip", "write", "config", "load", "import",
                 "list", "backfill", "serving"}
    /\ cuts \in 0 .. MaxCuts

\* No crash or failure in the migration loses a monitor of the old config.toml:
\* they are in config.toml until they are in monitors.toml.
EntriesKept ==
    \A i \in DOMAIN entries : config = "legacy" \/ tomlFile = entries

\* Every start that gets to serve has tagged the history of every monitor it
\* loaded, in both tables, whatever start was cut short before ("Existing probe
\* history is preserved and re-keyed").
HistoryRekeyed ==
    [][boot' = "serving" /\ boot # "serving"
          => \A t \in HistoryTables, r \in rows : <<t, r.name>> \notin untagged]_startupVars

\* A start serves with every monitor of monitors.toml having had its row. The one
\* exception is an import that ended in its midst and was never made whole: a later
\* start finds a table that is not empty. An import of an earlier start that got to its
\* end stays good, whatever was deleted, imported again or cut short since.
ImportedWhole ==
    boot = "serving" /\ tomlFile # NoFile
        => ToSet(tomlFile) \subseteq known \/ ("import" \in cutIn /\ ~imported)

\* The program gets to serve, unless config.toml was left as it does not parse: by a
\* cut between monitors.toml being written and config.toml being rewritten, or by
\* the rewriting of nested entries. The migration is then never tried again.
ServesInTheEnd ==
    <>[](boot = "serving" \/ (config # "plain" /\ ("strip" \in cutIn \/ nested)))

\* "Legacy monitors file to import once on first run (ignored thereafter)."
ImportedOnce == imported => boot # "import"

\* "Remove all `[[monitors]]` table entries from TOML text": after a migration that
\* nothing cut short, no part of them is left.
StrippedWhole == boot = "config" /\ entries # <<>> /\ cutIn = {} => config = "plain"
=============================================================================
