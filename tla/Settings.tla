-------------------------------- MODULE Settings --------------------------------
(***************************************************************************)
(* A monitor's settings (src/src/monitors/mod.rs): what a client or the    *)
(* legacy file gave is converted with defaults, floors and old units,      *)
(* stored as JSON, converted again at every load, and read by the          *)
(* scheduler: for the ticker's period and for the hourly retention.        *)
(*                                                                         *)
(* Numbers are unsigned words, 0 to MaxWord; a second has SecondMillis     *)
(* milliseconds, a day has DayHours hours. Names, hosts and URLs, which    *)
(* the conversions only trim, are left out, and so is max_hops, which is   *)
(* limited on both sides as the other counts are on one.                   *)
(***************************************************************************)
EXTENDS Integers

CONSTANTS
    Absent,             \* a key that is not given
    MaxWord,            \* the largest word, 2^64 - 1
    SecondMillis,       \* 1000
    HourMillis,         \* 3600000
    DayHours,           \* 24
    Floor,              \* MIN_INTERVAL_MS and TRACEROUTE_MIN_INTERVAL_MS, 500
    BuiltInInterval,    \* default_interval_ms, 60000
    BuiltInTimeout,     \* default_timeout_ms, 10000
    BuiltInTries,       \* default_icmp_count and default_traceroute_queries, 3
    Representable,      \* hours that chrono can subtract from now
    Given,              \* what a client or the file may give: a set of raw settings
    GivenDefaults,      \* what [defaults] of config.toml may give
    RetentionDays       \* values of [defaults].retention_days

Word == 0 .. MaxWord
OrAbsent(S) == S \cup {Absent}

\* RawHttpMonitorConfig and its siblings. "tries" is count or queries_per_hop,
\* "oldMs" and "oldSecs" the former retention keys: traceroute's own.
RawSettings ==
    [kind : {"plain", "icmp", "traceroute"},
     intervalMs : OrAbsent(Word), intervalSecs : OrAbsent(Word),
     timeoutMs : OrAbsent(Word), timeoutSecs : OrAbsent(Word),
     hours : OrAbsent(Word), oldMs : OrAbsent(Word), oldSecs : OrAbsent(Word),
     tries : OrAbsent(Word), enabled : OrAbsent(BOOLEAN)]

\* RawDefaults
RawDefaults ==
    [intervalMs : OrAbsent(Word), intervalSecs : OrAbsent(Word),
     timeoutMs : OrAbsent(Word), timeoutSecs : OrAbsent(Word)]

ASSUME SettingsAssumption ==
    /\ {MaxWord, SecondMillis, HourMillis, DayHours, Representable} \subseteq Nat \ {0}
    /\ {Floor, BuiltInInterval, BuiltInTimeout, BuiltInTries} \subseteq Word \ {0}
    /\ Absent \notin Nat /\ Absent \notin BOOLEAN
    /\ Given \subseteq RawSettings
    /\ GivenDefaults \subseteq RawDefaults
    /\ RetentionDays \subseteq Word

VARIABLES
    given,      \* what the monitor was made from, or Absent: it is not there yet
    listed,     \* its settings in the list
    stored,     \* the JSON of its row
    days,       \* the program's [defaults].retention_days
    kept,       \* ages in hours of the rows that are kept
    pruning     \* whether the retention loop is alive

settingsVars == <<given, listed, stored, days, kept, pruning>>
-----------------------------------------------------------------------------
(* The conversions *)

Or(value, default) == IF value = Absent THEN default ELSE value

AtLeast(low, n) == IF n < low THEN low ELSE n

\* saturating_mul
Times(n, m) == IF n * m \in Word THEN n * m ELSE MaxWord

\* resolve_ms
Millis(ms, secs, default) ==
    Or(ms, IF secs = Absent THEN default ELSE Times(secs, SecondMillis))

NonZero(n) == IF n = 0 THEN Absent ELSE n

Hours(raw) ==
    LET old == Millis(raw.oldMs, raw.oldSecs, Absent)
    IN  IF raw.kind # "traceroute" \/ old = Absent THEN NonZero(raw.hours)
        ELSE Or(NonZero(raw.hours), AtLeast(1, old \div HourMillis))

\* The From of each Raw*MonitorConfig.
Convert(raw) ==
    LET interval == Millis(raw.intervalMs, raw.intervalSecs, BuiltInInterval)
    IN  [kind     |-> raw.kind,
         interval |-> IF raw.kind = "traceroute" THEN AtLeast(Floor, interval) ELSE interval,
         timeout  |-> Millis(raw.timeoutMs, raw.timeoutSecs, BuiltInTimeout),
         hours    |-> Hours(raw),
         tries    |-> IF raw.kind = "plain" THEN Absent
                      ELSE AtLeast(1, Or(raw.tries, BuiltInTries)),
         enabled  |-> Or(raw.enabled, TRUE)]

\* Mutation: the key is skipped where it is false.
EnabledKeyOn(enabled) == IF enabled THEN TRUE ELSE Absent

\* skip_serializing_if = "is_true"
EnabledKey(enabled) == IF enabled THEN Absent ELSE FALSE

\* The derived Serialize: the new keys only.
Serialize(c) ==
    [kind |-> c.kind,
     intervalMs |-> c.interval, intervalSecs |-> Absent,
     timeoutMs |-> c.timeout, timeoutSecs |-> Absent,
     hours |-> c.hours, oldMs |-> Absent, oldSecs |-> Absent,
     tries |-> c.tries, enabled |-> EnabledKey(c.enabled)]

\* apply_defaults: a value that is the built-in default gives way to the configured
\* one, at the import.
ApplyDefaults(c, defaults) ==
    LET Chosen(value, builtIn, ms, secs) ==
            IF value = builtIn THEN Millis(ms, secs, value) ELSE value
        interval == Chosen(c.interval, BuiltInInterval, defaults.intervalMs, defaults.intervalSecs)
    IN  [c EXCEPT
            !.interval = IF c.kind = "traceroute" THEN AtLeast(Floor, interval) ELSE interval,
            !.timeout = Chosen(@, BuiltInTimeout, defaults.timeoutMs, defaults.timeoutSecs)]

\* validate_monitor, as far as it is about these settings.
Valid(c) == c.interval >= Floor /\ c.timeout >= 1

\* The ticker's period in spawn_monitor.
Period(c) == AtLeast(Floor, c.interval)

\* Mutation: days for hours.
RetentionInDays(c, globalDays) == Or(NonZero(Or(c.hours, 0)), globalDays)

\* retention_hours
RetentionHours(c, globalDays) == Or(NonZero(Or(c.hours, 0)), Times(globalDays, DayHours))

\* u64 as i64
AsSigned(n) == IF 2 * n <= MaxWord THEN n ELSE n - MaxWord - 1
-----------------------------------------------------------------------------
(* A monitor's life *)

SettingsInit ==
    /\ given = Absent /\ listed = Absent /\ stored = Absent
    /\ days \in RetentionDays
    /\ kept = {}
    /\ pruning = TRUE

Save(c) == listed' = c /\ stored' = Serialize(c)

\* add_monitor, or update_monitor with other settings.
Accept(raw) ==
    /\ Valid(Convert(raw))
    /\ given' = raw
    /\ Save(Convert(raw))
    /\ UNCHANGED <<days, kept, pruning>>

\* import_legacy_toml with apply_defaults.
Import(raw, defaults) ==
    /\ given = Absent
    /\ given' = raw
    /\ Save(ApplyDefaults(Convert(raw), defaults))
    /\ UNCHANGED <<days, kept, pruning>>

SetEnabled(enabled) ==
    /\ given # Absent
    /\ Save([listed EXCEPT !.enabled = enabled])
    /\ UNCHANGED <<given, days, kept, pruning>>

\* MonitorStore::load
Reload ==
    /\ given # Absent
    /\ listed' = Convert(stored)
    /\ pruning' = TRUE
    /\ UNCHANGED <<given, stored, days, kept>>

\* Rows of every age, up to the longest that can be asked for.
ResultsOfEveryAge ==
    /\ given # Absent
    /\ kept' = Word
    /\ UNCHANGED <<given, listed, stored, days, pruning>>

\* A tick of per_monitor_retention_loop: a row goes that is older than the cutoff,
\* now minus the hours; hours that chrono cannot represent end the loop by a panic.
Retain ==
    /\ given # Absent /\ pruning
    /\ LET hours == AsSigned(RetentionHours(listed, days))
       IN  IF hours \in -Representable .. Representable
           THEN kept' = {age \in kept : age <= hours} /\ UNCHANGED pruning
           ELSE pruning' = FALSE /\ UNCHANGED kept
    /\ UNCHANGED <<given, listed, stored, days>>

SettingsNext ==
    \/ \E raw \in Given : Accept(raw) \/ \E defaults \in GivenDefaults : Import(raw, defaults)
    \/ \E enabled \in BOOLEAN : SetEnabled(enabled)
    \/ Reload \/ ResultsOfEveryAge \/ Retain

SettingsSpec == SettingsInit /\ [][SettingsNext]_settingsVars
-----------------------------------------------------------------------------
(* Properties *)

\* A restart changes no monitor: what the stored JSON is converted to is what was
\* listed, whatever units, zeros, defaults and omitted keys it was made from, and a
\* task runs with the same period, never 0 ("a zero period panics tokio's ticker").
SurvivesRestart ==
    [][Reload => listed' = listed /\ Period(listed) >= Floor]_settingsVars

\* What the monitor was asked to keep, in whole hours: its own setting in the new or
\* the old unit, or else the program's days.
AskedHours ==
    LET old == Millis(given.oldMs, given.oldSecs, Absent)
    IN  IF given.hours \notin {Absent, 0} THEN given.hours
        ELSE IF given.kind = "traceroute" /\ old # Absent THEN old \div HourMillis
        ELSE days * DayHours

\* "prunes each monitor's probe_results + rollups to its own retention": a row goes
\* only if it is as old as asked, also after pauses and restarts. Hours that chrono
\* can represent do not end the loop, and every row older than asked goes (a former
\* setting of less than an hour counts as one). This is for retentions up to half the
\* range of a word; above, the cast to i64 turns the hours negative and every row goes.
PrunesOnlyOld ==
    [][Retain /\ 2 * AskedHours <= MaxWord =>
        /\ \A age \in kept \ kept' : age >= AskedHours
        /\ AskedHours <= Representable =>
            pruning' /\ \A age \in kept' : age <= AtLeast(1, AskedHours)]_settingsVars
=============================================================================
