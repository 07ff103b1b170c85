------------------------------ MODULE ConfigProofs ------------------------------
(***************************************************************************)
(* The configuration, proved for every number of monitors, every setting   *)
(* and every size of a word: what a start of the program makes of the old  *)
(* files and tables (Startup), and what restarts and retention make of a   *)
(* monitor's settings (Settings). Last, the run that checks the parts      *)
(* together (MCParts) is a behaviour of each of them.                      *)
(***************************************************************************)
EXTENDS MCParts, PageProofs

-----------------------------------------------------------------------------
(* The start *)

\* Names of monitors.toml that have had no row, and what the loops have left: whole
\* until the import is interrupted, and what a backfill still has to tag.
Imported == tomlFile # NoFile => ToSet(tomlFile) \subseteq known

StartupInv ==
    /\ StartupTypeOK
    /\ todo \in Seq(Names)
    /\ EntriesKept
    /\ boot \in {"strip", "write"} => tomlFile = entries
    /\ config = "legacy" => known = {} /\ rows = {} /\ boot \in {"off", "migrate", "config", "strip"}
    /\ boot = "import" => tomlFile # NoFile /\ ToSet(tomlFile) \subseteq known \cup ToSet(todo)
    /\ imported => Imported /\ tomlFile # NoFile
    /\ "import" \notin cutIn /\ boot # "import"
           /\ (rows # {} \/ known # {} \/ boot \in {"list", "backfill", "serving"}) => Imported
    /\ boot = "backfill" =>
        /\ toTag \subseteq HistoryTables \X rows
        /\ \A t \in HistoryTables, r \in rows : <<t, r.name>> \in untagged => <<t, r>> \in toTag

\* The names of a list: those at its head and in its tail.
LEMMA HeadAndTail ==
    ASSUME NEW s \in Seq(Names), s # <<>>
    PROVE  /\ Head(s) \in Names /\ Tail(s) \in Seq(Names)
           /\ ToSet(s) = {Head(s)} \cup ToSet(Tail(s))
<1>1. /\ Head(s) = s[1] /\ Tail(s) \in Seq(Names) /\ Len(s) \in Nat \ {0} /\ DOMAIN s = 1 .. Len(s)
      /\ DOMAIN Tail(s) = 1 .. Len(s) - 1 /\ \A i \in 1 .. Len(s) - 1 : Tail(s)[i] = s[i + 1]
  OBVIOUS
<1>2. Head(s) \in Names
  BY <1>1
<1>3. \A i \in DOMAIN s : i = 1 \/ (i - 1 \in DOMAIN Tail(s) /\ s[i] = Tail(s)[i - 1])
  BY <1>1
<1>4. \A i \in DOMAIN Tail(s) : i + 1 \in DOMAIN s /\ Tail(s)[i] = s[i + 1]
  BY <1>1
<1>5. 1 \in DOMAIN s
  BY <1>1
<1>6. ToSet(s) \subseteq {Head(s)} \cup ToSet(Tail(s))
  <2> SUFFICES ASSUME NEW i \in DOMAIN s PROVE s[i] \in {Head(s)} \cup ToSet(Tail(s))
    BY DEF ToSet
  <2>1. CASE i = 1
    BY <1>1, <2>1
  <2>2. CASE i - 1 \in DOMAIN Tail(s) /\ s[i] = Tail(s)[i - 1]
    <3> DEFINE j == i - 1
    <3>1. j \in DOMAIN Tail(s) /\ s[i] = Tail(s)[j]
      BY <2>2
    <3> HIDE DEF j
    <3>2. QED
      BY <3>1 DEF ToSet
  <2>3. QED
    BY <1>3, <2>1, <2>2
<1>7. {Head(s)} \cup ToSet(Tail(s)) \subseteq ToSet(s)
  BY <1>1, <1>4, <1>5 DEF ToSet
<1>8. QED
  BY <1>1, <1>2, <1>6, <1>7

\* The inductive invariant of a start: what is in the files and tables at each stage of
\* it, wherever the one before was cut short.
THEOREM StartupSafe == StartupSpec => []StartupInv
<1> USE StartupAssumption
<1>1. StartupInit => StartupInv
  <2> SUFFICES ASSUME StartupInit PROVE StartupInv
    OBVIOUS
  <2>1. Files \subseteq Seq(Names) /\ <<>> \in Seq(Names)
    <3>1. \A n \in 0 .. 2 : \A f \in [1 .. n -> Names] : f \in Seq(Names)
      OBVIOUS
    <3>2. QED
      BY <3>1 DEF Files
  <2>2. entries \in Seq(Names) /\ (tomlFile = NoFile \/ tomlFile \in Seq(Names)) /\ nested \in BOOLEAN
    BY <2>1 DEF StartupInit
  <2>3. config = "legacy" \/ entries = <<>>
    BY DEF StartupInit
  <2>4. StartupTypeOK
    BY <2>2 DEF StartupInit, StartupTypeOK, Contents
  <2>5. EntriesKept
    BY <2>3 DEF EntriesKept
  <2>6. QED
    BY <2>1, <2>4, <2>5 DEF StartupInit, StartupInv
<1>2. StartupInv /\ [StartupNext]_startupVars => StartupInv'
  <2> SUFFICES ASSUME StartupInv, [StartupNext]_startupVars PROVE StartupInv'
    OBVIOUS
  <2> USE DEF files, tables, loops, history
  <2>0. StartupTypeOK /\ todo \in Seq(Names) /\ EntriesKept
    BY DEF StartupInv
  <2>1. CASE Boot
    BY <2>0, <2>1 DEF Boot, StartupInv, StartupTypeOK, EntriesKept, Imported
  <2>2. CASE SkipMigration
    BY <2>0, <2>2 DEF SkipMigration, StartupInv, StartupTypeOK, EntriesKept, Imported
  <2>3. CASE SaveFile
    BY <2>0, <2>3 DEF SaveFile, StartupInv, StartupTypeOK, EntriesKept, Imported
  <2>4. CASE Truncate
    BY <2>0, <2>4 DEF Truncate, StartupInv, StartupTypeOK, EntriesKept, Imported, Contents
  <2>5. CASE WriteConfig
    BY <2>0, <2>5 DEF WriteConfig, Stripped, StartupInv, StartupTypeOK, EntriesKept, Imported, Contents
  <2>6. CASE SaveFails
    BY <2>0, <2>6 DEF SaveFails, AfterFailedSave, Cut, StartupInv, StartupTypeOK, EntriesKept, Imported
  <2>7. CASE StripFails
    BY <2>0, <2>7 DEF StripFails, LeftOver, Cut, StartupInv, StartupTypeOK, EntriesKept, Imported, Contents
  <2>8. CASE LoadConfig
    BY <2>0, <2>8 DEF LoadConfig, StartupInv, StartupTypeOK, EntriesKept, Imported
  <2>9. CASE CheckEmpty
    BY <2>0, <2>9 DEF CheckEmpty, StartupInv, StartupTypeOK, EntriesKept, Imported, ToSet
  <2>10. CASE ImportRow
    <3> USE <2>10 DEF ImportRow
    <3>1. /\ Head(todo) \in Names /\ Tail(todo) \in Seq(Names)
          /\ ToSet(todo) = {Head(todo)} \cup ToSet(Tail(todo))
      BY <2>0, HeadAndTail
    <3>2. CASE Taken(Head(todo))
      BY <2>0, <3>2 DEF StartupInv, StartupTypeOK, EntriesKept, Imported
    <3>3. CASE ~Taken(Head(todo))
      <4>1. StartupTypeOK'
        <5> DEFINE new == [id |-> lastId + 1, name |-> Head(todo)]
        <5>1. /\ lastId \in Nat /\ \A r \in rows : r.id \in 1 .. lastId /\ r.name # new.name
              /\ new \in [id : 1 .. lastId + 1, name : Names] /\ new.id = lastId + 1
          BY <2>0, <3>1, <3>3 DEF StartupTypeOK, Taken, RowNames
        <5>2. rows' = rows \cup {new} /\ lastId' = lastId + 1
          BY <3>3
        <5> HIDE DEF new
        <5>3. \A r, s \in rows' : r.id = s.id \/ r.name = s.name => r = s
          BY <2>0, <5>1, <5>2 DEF StartupTypeOK
        <5>4. 1 .. lastId \subseteq 1 .. lastId + 1 /\ lastId + 1 \in Nat
          BY <5>1
        <5>5. rows' \subseteq [id : 1 .. lastId', name : Names]
          BY <2>0, <5>1, <5>2, <5>4 DEF StartupTypeOK
        <5>6. tagged' \subseteq HistoryTables \X Names \X (1 .. lastId')
          BY <2>0, <5>2, <5>4 DEF StartupTypeOK
        <5>7. QED
          BY <2>0, <3>3, <5>2, <5>3, <5>4, <5>5, <5>6 DEF StartupTypeOK
      <4>2. QED
        BY <2>0, <3>1, <3>3, <4>1 DEF StartupInv, EntriesKept, Imported
    <3>4. QED
      BY <3>2, <3>3
  <2>11. CASE ImportDone
    BY <2>0, <2>11 DEF ImportDone, NoneLeft, StartupInv, StartupTypeOK, EntriesKept, Imported, ToSet
  <2>12. CASE List
    BY <2>0, <2>12 DEF List, ToTag, StartupInv, StartupTypeOK, EntriesKept, Imported
  <2>13. CASE Backfill
    <3> USE <2>13 DEF Backfill
    <3>1. PICK x \in toTag :
            /\ toTag' = toTag \ {x}
            /\ untagged' = untagged \ {<<x[1], x[2].name>>}
            /\ tagged' = tagged \cup
                {<<x[1], x[2].name, x[2].id>> : u \in untagged \cap {<<x[1], x[2].name>>}}
      OBVIOUS
    <3>2. PICK t \in HistoryTables, r \in rows : x = <<t, r>>
      BY <2>0 DEF StartupInv
    <3>3. r.name \in Names /\ r.id \in 1 .. lastId
      BY <2>0 DEF StartupTypeOK
    <3>4. tagged' \subseteq HistoryTables \X Names \X (1 .. lastId')
      BY <2>0, <3>1, <3>2, <3>3 DEF StartupTypeOK
    <3>5. StartupTypeOK'
      BY <2>0, <3>1, <3>4 DEF StartupTypeOK
    <3>6. \A q \in HistoryTables, s \in rows : <<q, s.name>> \in untagged' => <<q, s>> \in toTag'
      BY <2>0, <3>1, <3>2 DEF StartupInv
    <3>7. QED
      BY <2>0, <3>1, <3>5, <3>6 DEF StartupInv, EntriesKept, Imported
  <2>14. CASE Serve
    BY <2>0, <2>14 DEF Serve, StartupInv, StartupTypeOK, EntriesKept, Imported
  <2>15. ASSUME NEW n \in Names, AddMonitor(n) PROVE StartupInv'
    <3> USE <2>15 DEF AddMonitor
    <3> DEFINE new == [id |-> lastId + 1, name |-> n]
    <3>1. /\ lastId \in Nat /\ \A r \in rows : r.id \in 1 .. lastId /\ r.name # new.name
          /\ new \in [id : 1 .. lastId + 1, name : Names] /\ new.id = lastId + 1
      BY <2>0 DEF StartupTypeOK, RowNames
    <3>2. rows' = rows \cup {new} /\ lastId' = lastId + 1
      OBVIOUS
    <3> HIDE DEF new
    <3>3. \A r, s \in rows' : r.id = s.id \/ r.name = s.name => r = s
      BY <2>0, <3>1, <3>2 DEF StartupTypeOK
    <3>4. 1 .. lastId \subseteq 1 .. lastId + 1 /\ lastId + 1 \in Nat
      BY <3>1
    <3>5. rows' \subseteq [id : 1 .. lastId', name : Names]
      BY <2>0, <3>1, <3>2, <3>4 DEF StartupTypeOK
    <3>6. tagged' \subseteq HistoryTables \X Names \X (1 .. lastId')
      BY <2>0, <3>2, <3>4 DEF StartupTypeOK
    <3>7. StartupTypeOK'
      BY <2>0, <3>2, <3>3, <3>4, <3>5, <3>6 DEF StartupTypeOK
    <3>8. QED
      BY <2>0, <3>7 DEF StartupInv, EntriesKept, Imported
  <2>16. ASSUME NEW r \in rows, DeleteMonitor(r) PROVE StartupInv'
    <3>1. StartupTypeOK'
      BY <2>0, <2>16 DEF DeleteMonitor, StartupTypeOK
    <3>2. QED
      BY <2>0, <2>16, <3>1 DEF DeleteMonitor, StartupInv, EntriesKept, Imported
  <2>17. ASSUME NEW r \in rows, NEW n \in Names, RenameMonitor(r, n) PROVE StartupInv'
    <3> USE <2>17 DEF RenameMonitor
    <3> DEFINE new == [id |-> r.id, name |-> n]
    <3>1. /\ new \in [id : 1 .. lastId, name : Names] /\ new.id = r.id
          /\ \A s \in rows : s.name # new.name
      BY <2>0 DEF StartupTypeOK, RowNames
    <3>2. rows' = (rows \ {r}) \cup {new}
      OBVIOUS
    <3> HIDE DEF new
    <3>3. \A q, s \in rows' : q.id = s.id \/ q.name = s.name => q = s
      BY <2>0, <3>1, <3>2 DEF StartupTypeOK
    <3>4. StartupTypeOK'
      BY <2>0, <3>1, <3>2, <3>3 DEF StartupTypeOK
    <3>5. QED
      BY <2>0, <3>4 DEF StartupInv, EntriesKept, Imported
  <2>18. CASE Exit
    <3>1. StartupTypeOK'
      BY <2>0, <2>18 DEF Exit, Cut, LeftOver, StartupTypeOK, Contents
    <3>2. QED
      BY <2>0, <2>18, <3>1 DEF Exit, Cut, LeftOver, StartupInv, EntriesKept, Imported
  <2>19. CASE UNCHANGED startupVars
    BY <2>0, <2>19 DEF startupVars, StartupInv, StartupTypeOK, EntriesKept, Imported
  <2>20. QED
    BY <2>1, <2>2, <2>3, <2>4, <2>5, <2>6, <2>7, <2>8, <2>9, <2>10, <2>11, <2>12, <2>13, <2>14, <2>15,
       <2>16, <2>17, <2>18, <2>19 DEF StartupNext
<1>3. QED
  BY <1>1, <1>2, PTL DEF StartupSpec

\* No crash or failure in the migration loses a monitor of the old config.toml.
THEOREM Entries == StartupSpec => []EntriesKept
<1>1. StartupInv => EntriesKept
  BY DEF StartupInv
<1>2. QED
  BY <1>1, StartupSafe, PTL

\* A start that serves has had every monitor of monitors.toml in its table, unless an
\* import ended in its midst and none has run to its end.
THEOREM WholeImport == StartupSpec => []ImportedWhole
<1>1. StartupInv => ImportedWhole
  BY DEF StartupInv, Imported, ImportedWhole
<1>2. QED
  BY <1>1, StartupSafe, PTL

\* A start that gets to serve has tagged the history of every monitor in both tables,
\* whatever start was cut short before.
THEOREM Rekeyed == StartupSpec => HistoryRekeyed
<1>1. StartupInv /\ [StartupNext]_startupVars =>
        [boot' = "serving" /\ boot # "serving"
          => \A t \in HistoryTables, r \in rows : <<t, r.name>> \notin untagged]_startupVars
  <2> SUFFICES ASSUME StartupInv, StartupNext, boot' = "serving", boot # "serving",
                      NEW t \in HistoryTables, NEW r \in rows
               PROVE  <<t, r.name>> \notin untagged
    OBVIOUS
  <2>1. Serve
    BY DEF StartupNext, Boot, SkipMigration, SaveFile, Truncate, WriteConfig, SaveFails, AfterFailedSave,
       StripFails, LoadConfig, CheckEmpty, ImportRow, ImportDone, List, Backfill, AddMonitor, DeleteMonitor,
       RenameMonitor, Exit
  <2>2. QED
    BY <2>1 DEF Serve, StartupInv
<1>2. QED
  BY <1>1, StartupSafe, PTL DEF StartupSpec, HistoryRekeyed
-----------------------------------------------------------------------------
(* The settings *)

\* What a conversion can yield: nothing in it is changed by another one.
Converted ==
    {c \in [kind : {"plain", "icmp", "traceroute"}, interval : Word, timeout : Word,
            hours : OrAbsent(Nat \ {0}), tries : OrAbsent(Word \ {0}), enabled : BOOLEAN] :
        /\ c.kind = "traceroute" => c.interval >= Floor
        /\ c.kind = "plain" <=> c.tries = Absent}

\* The list and the row hold the same settings, and the retention is the one that was
\* asked for.
SettingsInv ==
    /\ days \in Word
    /\ kept \subseteq Word
    /\ given # Absent =>
        /\ given \in RawSettings
        /\ listed \in Converted
        /\ stored = Serialize(listed)
        /\ listed.hours = Hours(given)

LEMMA Millisecs ==
    ASSUME NEW ms \in OrAbsent(Word), NEW secs \in OrAbsent(Word), NEW default \in OrAbsent(Word)
    PROVE  /\ Millis(ms, secs, default) \in OrAbsent(Word)
           /\ default # Absent => Millis(ms, secs, default) \in Word
<1>1. \A n \in Word : Times(n, SecondMillis) \in Word
  BY SettingsAssumption DEF Times, Word
<1>2. QED
  BY <1>1, SettingsAssumption DEF Millis, Or, OrAbsent

LEMMA NotAWord == Absent \notin Word
BY SettingsAssumption DEF Word

\* A configuration built from parts of the right types.
LEMMA Parts ==
    ASSUME NEW kind \in {"plain", "icmp", "traceroute"},
           NEW interval \in Word, NEW timeout \in Word, NEW hours \in OrAbsent(Nat \ {0}),
           NEW tries \in OrAbsent(Word \ {0}), NEW enabled \in BOOLEAN,
           kind = "traceroute" => interval >= Floor,
           kind = "plain" <=> tries = Absent
    PROVE  [kind |-> kind, interval |-> interval, timeout |-> timeout, hours |-> hours,
            tries |-> tries, enabled |-> enabled] \in Converted
BY DEF Converted

LEMMA HoursGiven ==
    ASSUME NEW raw \in RawSettings
    PROVE  Hours(raw) \in OrAbsent(Nat \ {0})
<1> DEFINE old == Millis(raw.oldMs, raw.oldSecs, Absent)
<1>1. raw.hours \in OrAbsent(Word) /\ old \in OrAbsent(Word)
  BY Millisecs DEF RawSettings, OrAbsent
<1>2. NonZero(raw.hours) \in OrAbsent(Nat \ {0})
  BY <1>1, SettingsAssumption DEF NonZero, OrAbsent, Word
<1>3. old # Absent => AtLeast(1, old \div HourMillis) \in Nat \ {0}
  BY <1>1, SettingsAssumption DEF AtLeast, OrAbsent, Word
<1> HIDE DEF old
<1>4. QED
  BY <1>2, <1>3 DEF Hours, Or, OrAbsent, old

\* Whatever is given, in either unit, is converted to settings that stay as they are.
LEMMA ConvertYields ==
    ASSUME NEW raw \in RawSettings
    PROVE  Convert(raw) \in Converted /\ Convert(raw).hours = Hours(raw)
<1> DEFINE interval == Millis(raw.intervalMs, raw.intervalSecs, BuiltInInterval)
           timeout == Millis(raw.timeoutMs, raw.timeoutSecs, BuiltInTimeout)
           tries == IF raw.kind = "plain" THEN Absent ELSE AtLeast(1, Or(raw.tries, BuiltInTries))
<1>1. interval \in Word /\ timeout \in Word
  <2>1. /\ raw.intervalMs \in OrAbsent(Word) /\ raw.intervalSecs \in OrAbsent(Word)
        /\ raw.timeoutMs \in OrAbsent(Word) /\ raw.timeoutSecs \in OrAbsent(Word)
    BY DEF RawSettings
  <2>2. /\ BuiltInInterval \in OrAbsent(Word) /\ BuiltInInterval # Absent
        /\ BuiltInTimeout \in OrAbsent(Word) /\ BuiltInTimeout # Absent
    BY NotAWord, SettingsAssumption DEF OrAbsent
  <2>3. QED
    BY <2>1, <2>2, Millisecs
<1>2. AtLeast(Floor, interval) \in Word /\ AtLeast(Floor, interval) >= Floor
  BY <1>1, SettingsAssumption DEF AtLeast, Word
<1>3. tries \in OrAbsent(Word \ {0}) /\ (raw.kind = "plain" <=> tries = Absent)
  BY SettingsAssumption DEF RawSettings, OrAbsent, AtLeast, Or, Word
<1>4. Or(raw.enabled, TRUE) \in BOOLEAN
  <2>1. raw.enabled = Absent \/ raw.enabled \in BOOLEAN
    BY DEF RawSettings, OrAbsent
  <2>2. QED
    BY <2>1 DEF Or
<1>5. raw.kind \in {"plain", "icmp", "traceroute"}
  BY DEF RawSettings
<1>6. Hours(raw) \in OrAbsent(Nat \ {0})
  BY HoursGiven
<1>7. Convert(raw) = [kind |-> raw.kind,
                      interval |-> IF raw.kind = "traceroute" THEN AtLeast(Floor, interval)
                                   ELSE interval,
                      timeout |-> timeout, hours |-> Hours(raw), tries |-> tries,
                      enabled |-> Or(raw.enabled, TRUE)]
  BY DEF Convert
<1> HIDE DEF interval, timeout, tries
<1>8. QED
  <2> DEFINE floored == IF raw.kind = "traceroute" THEN AtLeast(Floor, interval) ELSE interval
  <2>1. floored \in Word /\ (raw.kind = "traceroute" => floored >= Floor)
    BY <1>1, <1>2
  <2> HIDE DEF floored
  <2>2. [kind |-> raw.kind, interval |-> floored, timeout |-> timeout, hours |-> Hours(raw),
         tries |-> tries, enabled |-> Or(raw.enabled, TRUE)] \in Converted
    BY <1>1, <1>3, <1>4, <1>5, <1>6, <2>1, Parts
  <2>3. QED
    BY <1>7, <2>2 DEF floored

LEMMA DefaultsYield ==
    ASSUME NEW c \in Converted, NEW defaults \in RawDefaults
    PROVE  ApplyDefaults(c, defaults) \in Converted /\ ApplyDefaults(c, defaults).hours = c.hours
<1> DEFINE Chosen(value, builtIn, ms, secs) ==
             IF value = builtIn THEN Millis(ms, secs, value) ELSE value
           interval == Chosen(c.interval, BuiltInInterval, defaults.intervalMs, defaults.intervalSecs)
           timeout == Chosen(c.timeout, BuiltInTimeout, defaults.timeoutMs, defaults.timeoutSecs)
<1>1. c.interval \in Word /\ c.timeout \in Word
  BY DEF Converted
<1>2. interval \in Word /\ timeout \in Word
  <2>1. /\ defaults.intervalMs \in OrAbsent(Word) /\ defaults.intervalSecs \in OrAbsent(Word)
        /\ defaults.timeoutMs \in OrAbsent(Word) /\ defaults.timeoutSecs \in OrAbsent(Word)
    BY DEF RawDefaults
  <2>2. \A value \in Word : value \in OrAbsent(Word) /\ value # Absent
    BY NotAWord DEF OrAbsent
  <2>3. QED
    BY <1>1, <2>1, <2>2, Millisecs
<1>3. AtLeast(Floor, interval) \in Word /\ AtLeast(Floor, interval) >= Floor
  BY <1>2, SettingsAssumption DEF AtLeast, Word
<1>4. ApplyDefaults(c, defaults) =
        [c EXCEPT !.interval = IF c.kind = "traceroute" THEN AtLeast(Floor, interval) ELSE interval,
                  !.timeout = timeout]
  BY DEF ApplyDefaults
<1> HIDE DEF interval, timeout
<1>5. QED
  BY <1>2, <1>3, <1>4 DEF Converted

\* What the stored JSON is converted to is what was stored.
LEMMA RoundTrip ==
    ASSUME NEW c \in Converted
    PROVE  Convert(Serialize(c)) = c
<1> DEFINE json == Serialize(c)
<1>1. /\ json.kind = c.kind /\ json.intervalMs = c.interval /\ json.timeoutMs = c.timeout
      /\ json.hours = c.hours /\ json.oldMs = Absent /\ json.oldSecs = Absent
      /\ json.tries = c.tries /\ json.enabled = EnabledKey(c.enabled)
  BY DEF Serialize
<1> HIDE DEF json
<1>2. /\ Millis(json.intervalMs, json.intervalSecs, BuiltInInterval) = c.interval
      /\ Millis(json.timeoutMs, json.timeoutSecs, BuiltInTimeout) = c.timeout
  BY <1>1, SettingsAssumption DEF Millis, Or, Converted, Word
<1>3. Hours(json) = c.hours
  <2>1. Millis(json.oldMs, json.oldSecs, Absent) = Absent
    BY <1>1 DEF Millis, Or
  <2>2. NonZero(c.hours) = c.hours
    BY SettingsAssumption DEF NonZero, Converted, OrAbsent
  <2>3. QED
    BY <1>1, <2>1, <2>2 DEF Hours
<1>4. (IF json.kind = "plain" THEN Absent ELSE AtLeast(1, Or(json.tries, BuiltInTries))) = c.tries
  BY <1>1, SettingsAssumption DEF Converted, OrAbsent, Or, AtLeast, Word
<1>5. Or(json.enabled, TRUE) = c.enabled
  <2>1. CASE c.enabled = TRUE
    BY <1>1, <2>1 DEF Or, EnabledKey
  <2>2. CASE c.enabled = FALSE
    BY <1>1, <2>2, SettingsAssumption DEF Or, EnabledKey
  <2>3. QED
    BY <2>1, <2>2 DEF Converted
<1>6. (IF json.kind = "traceroute" THEN AtLeast(Floor, c.interval) ELSE c.interval) = c.interval
  BY <1>1, SettingsAssumption DEF AtLeast, Converted, Word
<1>7. Convert(json) = [kind |-> c.kind, interval |-> c.interval, timeout |-> c.timeout,
                       hours |-> c.hours, tries |-> c.tries, enabled |-> c.enabled]
  BY <1>1, <1>2, <1>3, <1>4, <1>5, <1>6 DEF Convert
<1>8. QED
  BY <1>7 DEF json, Converted
-----------------------------------------------------------------------------
LEMMA SettingsStep == SettingsInv /\ [SettingsNext]_settingsVars => SettingsInv'
<1> SUFFICES ASSUME SettingsInv, [SettingsNext]_settingsVars PROVE SettingsInv'
  OBVIOUS
<1>1. ASSUME NEW raw \in Given, Accept(raw) PROVE SettingsInv'
  <2>1. raw \in RawSettings
    BY SettingsAssumption
  <2>2. QED
    BY <1>1, <2>1, ConvertYields DEF Accept, Save, SettingsInv
<1>2. ASSUME NEW raw \in Given, NEW defaults \in GivenDefaults, Import(raw, defaults)
      PROVE  SettingsInv'
  <2>1. raw \in RawSettings /\ defaults \in RawDefaults
    BY SettingsAssumption
  <2>2. QED
    BY <1>2, <2>1, ConvertYields, DefaultsYield DEF Import, Save, SettingsInv
<1>3. ASSUME NEW enabled \in BOOLEAN, SetEnabled(enabled) PROVE SettingsInv'
  <2>1. [listed EXCEPT !.enabled = enabled] \in Converted
    BY <1>3 DEF SetEnabled, SettingsInv, Converted
  <2>2. [listed EXCEPT !.enabled = enabled].hours = listed.hours
    BY <1>3 DEF SetEnabled, SettingsInv, Converted
  <2>3. QED
    BY <1>3, <2>1, <2>2 DEF SetEnabled, Save, SettingsInv
<1>4. CASE Reload
  BY <1>4, RoundTrip DEF Reload, SettingsInv
<1>5. CASE ResultsOfEveryAge
  BY <1>5 DEF ResultsOfEveryAge, SettingsInv
<1>6. CASE Retain
  <2>1. kept' \subseteq kept /\ UNCHANGED <<given, listed, stored, days>>
    BY <1>6 DEF Retain
  <2>2. QED
    BY <2>1 DEF SettingsInv
<1>7. CASE UNCHANGED settingsVars
  BY <1>7 DEF settingsVars, SettingsInv
<1>8. QED
  BY <1>1, <1>2, <1>3, <1>4, <1>5, <1>6, <1>7 DEF SettingsNext

LEMMA SettingsStart == SettingsInit => SettingsInv
BY SettingsAssumption DEF SettingsInit, SettingsInv

\* No restart changes a monitor's settings, and a task's period is never below the floor.
THEOREM RestartKeeps == SettingsSpec => SurvivesRestart
<1> DEFINE Same == Reload => listed' = listed /\ Period(listed) >= Floor
<1>1. SettingsInv /\ [SettingsNext]_settingsVars => [Same]_settingsVars
  <2> SUFFICES ASSUME SettingsInv, Reload PROVE listed' = listed /\ Period(listed) >= Floor
    OBVIOUS
  <2>1. listed \in Converted /\ stored = Serialize(listed)
    BY DEF Reload, SettingsInv
  <2>2. Period(listed) >= Floor
    BY <2>1, SettingsAssumption DEF Period, AtLeast, Converted, Word
  <2>3. QED
    BY <2>1, <2>2, RoundTrip DEF Reload
<1>2. QED
  BY <1>1, SettingsStart, SettingsStep, PTL DEF SettingsSpec, SurvivesRestart

\* A retention pass deletes what is older than asked and nothing that is younger, for
\* retentions a signed word can hold.
THEOREM OnlyOldGo == SettingsSpec => PrunesOnlyOld
<1> DEFINE Spares == Retain /\ 2 * AskedHours <= MaxWord =>
                        /\ \A age \in kept \ kept' : age >= AskedHours
                        /\ AskedHours <= Representable =>
                            pruning' /\ \A age \in kept' : age <= AtLeast(1, AskedHours)
<1>1. SettingsInv /\ [SettingsNext]_settingsVars => [Spares]_settingsVars
  <2> SUFFICES ASSUME SettingsInv, Retain, 2 * AskedHours <= MaxWord
               PROVE  /\ \A age \in kept \ kept' : age >= AskedHours
                      /\ AskedHours <= Representable =>
                          pruning' /\ \A age \in kept' : age <= AtLeast(1, AskedHours)
    OBVIOUS
  <2> DEFINE hours == RetentionHours(listed, days)
             old == Millis(given.oldMs, given.oldSecs, Absent)
  <2>1. /\ given \in RawSettings /\ listed.hours = Hours(given) /\ days \in Word
        /\ kept \subseteq Word
    BY DEF Retain, SettingsInv
  <2>2. given.hours \in OrAbsent(Word) /\ old \in OrAbsent(Word)
    BY <2>1, Millisecs DEF RawSettings, OrAbsent
  <2>3. AskedHours \in Nat /\ hours \in Nat /\ (hours = AskedHours \/ (hours = 1 /\ AskedHours = 0))
    <3>1. CASE given.hours \notin {Absent, 0}
      <4>1. Hours(given) = given.hours
        BY <2>2, <3>1 DEF Hours, NonZero, Or
      <4>2. hours = given.hours
        BY <2>1, <3>1, <4>1 DEF RetentionHours, NonZero, Or
      <4>3. QED
        BY <2>2, <3>1, <4>2, SettingsAssumption DEF AskedHours, OrAbsent, Word
    <3>2. CASE given.hours \in {Absent, 0} /\ given.kind = "traceroute" /\ old # Absent
      <4> DEFINE whole == old \div HourMillis
      <4>1. whole \in Nat
        BY <2>2, <3>2, SettingsAssumption DEF OrAbsent, Word
      <4>2. AskedHours = whole
        BY <3>2 DEF AskedHours
      <4>3. Hours(given) = AtLeast(1, whole)
        BY <3>2 DEF Hours, NonZero, Or
      <4> HIDE DEF whole, old
      <4>4. hours = AtLeast(1, whole)
        BY <2>1, <4>1, <4>3, SettingsAssumption DEF RetentionHours, NonZero, Or, AtLeast
      <4>5. QED
        BY <4>1, <4>2, <4>4 DEF AtLeast
    <3>3. CASE given.hours \in {Absent, 0} /\ ~(given.kind = "traceroute" /\ old # Absent)
      <4>1. Hours(given) = Absent
        BY <3>3 DEF Hours, NonZero
      <4>2. hours = Times(days, DayHours)
        BY <2>1, <4>1 DEF RetentionHours, NonZero, Or
      <4>3. AskedHours = days * DayHours
        BY <3>3 DEF AskedHours
      <4>4. days * DayHours \in Nat
        BY <2>1, SettingsAssumption DEF Word
      <4>5. days * DayHours \in Word
        BY <4>3, <4>4, SettingsAssumption DEF Word
      <4>6. QED
        BY <4>2, <4>3, <4>4, <4>5 DEF Times
    <3>4. QED
      BY <3>1, <3>2, <3>3
  <2>4. IF AsSigned(hours) \in -Representable .. Representable
        THEN kept' = {age \in kept : age <= AsSigned(hours)} /\ pruning' = pruning
        ELSE pruning' = FALSE /\ kept' = kept
    BY DEF Retain
  <2>5. pruning
    BY DEF Retain
  <2> HIDE DEF hours, old
  <2>6. /\ AsSigned(hours) \in Int
        /\ AsSigned(hours) <= AtLeast(1, AskedHours)
        /\ AsSigned(hours) >= AskedHours \/ AskedHours = 0
        /\ AskedHours <= Representable => AsSigned(hours) \in -Representable .. Representable
    <3>1. CASE hours = AskedHours
      <4>1. AsSigned(hours) = AskedHours
        BY <3>1 DEF AsSigned
      <4>2. QED
        BY <2>3, <4>1, SettingsAssumption DEF AtLeast
    <3>2. CASE hours = 1 /\ AskedHours = 0
      <4>1. AsSigned(hours) \in {1, -1}
        BY <3>2, SettingsAssumption DEF AsSigned
      <4>2. QED
        BY <3>2, <4>1, SettingsAssumption DEF AtLeast
    <3>3. QED
      BY <2>3, <3>1, <3>2
  <2>7. ASSUME NEW age \in kept \ kept' PROVE age >= AskedHours
    <3>1. age \in Nat
      BY <2>1 DEF Word
    <3>2. ~(age <= AsSigned(hours))
      BY <2>4
    <3>3. QED
      BY <2>3, <2>6, <3>1, <3>2
  <2>8. ASSUME AskedHours <= Representable PROVE pruning'
    BY <2>4, <2>5, <2>6, <2>8
  <2>9. ASSUME AskedHours <= Representable, NEW age \in kept' PROVE age <= AtLeast(1, AskedHours)
    <3>1. age \in kept /\ age <= AsSigned(hours)
      BY <2>4, <2>6, <2>9
    <3>2. age \in Int /\ AtLeast(1, AskedHours) \in Int
      BY <2>1, <2>3, <3>1 DEF Word, AtLeast
    <3>3. QED
      BY <2>6, <3>1, <3>2
  <2>10. QED
    BY <2>7, <2>8, <2>9
<1>2. QED
  BY <1>1, SettingsStart, SettingsStep, PTL DEF SettingsSpec, PrunesOnlyOld
-----------------------------------------------------------------------------
(* The parts together *)

\* A behaviour of the run that checks the parts together is one of each part, so that
\* what is proved of a part holds in it.
THEOREM PartsOfSystem ==
    Spec => StartupSpec /\ DashSpec /\ EditSpec /\ HistorySpec /\ SettingsSpec
<1>1. Init => StartupInit /\ DashInit /\ EditInit /\ HistoryInit /\ SettingsInit
  BY DEF Init
<1>2. [Next]_vars => /\ [StartupNext]_startupVars
                     /\ [DashNext]_dashVars
                     /\ [EditNext]_editVars
                     /\ [HistoryNext]_historyVars
                     /\ [SettingsNext]_settingsVars
  <2> SUFFICES ASSUME [Next]_vars PROVE /\ [StartupNext]_startupVars
                                        /\ [DashNext]_dashVars
                                        /\ [EditNext]_editVars
                                        /\ [HistoryNext]_historyVars
                                        /\ [SettingsNext]_settingsVars
    OBVIOUS
  <2>1. CASE StartupNext /\ Keep("startup")
    BY <2>1 DEF Keep
  <2>2. CASE DashNext /\ Keep("dashboard")
    BY <2>2 DEF Keep
  <2>3. CASE EditNext /\ Keep("edit")
    BY <2>3 DEF Keep
  <2>4. CASE HistoryNext /\ Keep("history")
    BY <2>4 DEF Keep
  <2>5. CASE SettingsNext /\ Keep("settings")
    BY <2>5 DEF Keep
  <2>6. CASE UNCHANGED vars
    BY <2>6 DEF vars
  <2>7. QED
    BY <2>1, <2>2, <2>3, <2>4, <2>5, <2>6 DEF Next
<1>3. QED
  BY <1>1, <1>2, PTL DEF Spec, StartupSpec, DashSpec, EditSpec, HistorySpec, SettingsSpec

\* Every part's variables have their types.
THEOREM PartsTypes == Spec => []PartsTypeOK
<1>1. StartupInv => StartupTypeOK
  BY DEF StartupInv
<1>2. StartupTypeOK /\ DashTypeOK /\ EditTypeOK => PartsTypeOK
  BY DEF PartsTypeOK
<1>3. QED
  BY <1>1, <1>2, PartsOfSystem, StartupSafe, DashSafe, EditTypes, PTL
=============================================================================
