-------------------------------- MODULE Rollup --------------------------------
(***************************************************************************)
(* The per-minute rollup (src/src/scheduler/mod.rs, rollup_loop, with its  *)
(* statements in src/src/db/mod.rs): raw probe results arrive, some late;  *)
(* a loop aggregates the completed minutes in chunks; its position is      *)
(* recovered at each start from what the table holds; get_uptime answers   *)
(* from the rollup while probes and the loop go on.                        *)
(*                                                                         *)
(* Time is counted in minutes. Every statement covers all monitors alike,  *)
(* so one monitor's rows are modelled, and a row of a minute is only       *)
(* counted. Pruning is left to Monitoring.                                 *)
(***************************************************************************)
EXTENDS Integers, FiniteSetsExt

CONSTANTS
    LastMinute,     \* bound: the clock stops here
    MaxRows,        \* bound: results stamped in one minute
    MaxStarts,      \* bound: starts of the process
    Chunk           \* minutes per roll_up_range, 1440 in the code

ASSUME RollupAssumption ==
    /\ LastMinute \in Nat
    /\ MaxRows \in Nat
    /\ MaxStarts \in Nat
    /\ Chunk \in Nat \ {0}

Minutes == 0 .. LastMinute
NoRow == -1     \* a minute without a row in probe_rollup_1m

VARIABLES
    now,            \* the current minute
    inflight,       \* per minute: results stamped in it and not yet stored
    raw,            \* per minute: its rows in probe_results
    rolled,         \* per minute: count in probe_rollup_1m, or NoRow
    pc,             \* the loop: "off", "idle" between ticks, "rolling"
    nextFrom,       \* next_from
    from,           \* the chunk loop's from
    nowMin,         \* now_min, read when the tick began
    starts,         \* starts of the process so far
    backfilled,     \* history: the loop has once caught up with the clock
    skipped         \* history: minutes a failed read has put behind the loop

dataVars == <<now, inflight, raw, rolled>>
loopVars == <<pc, nextFrom, from, nowMin, starts>>
auxVars == <<backfilled, skipped>>
vars == <<dataVars, loopVars, auxVars>>

AtLeast0(n) == IF n < 0 THEN 0 ELSE n
Lesser(m, n) == IF m < n THEN m ELSE n

\* An upgrade finds raw history and an empty rollup (migration 007 drops it).
Init ==
    /\ now \in Minutes
    /\ inflight = [m \in Minutes |-> 0]
    /\ raw \in [Minutes -> 0 .. MaxRows]
    /\ \A m \in Minutes : m >= now => raw[m] = 0
    /\ rolled = [m \in Minutes |-> NoRow]
    /\ pc = "off"
    /\ nextFrom = 0
    /\ from = 0
    /\ nowMin = 0
    /\ starts = 0
    /\ backfilled = FALSE
    /\ skipped = {}
-----------------------------------------------------------------------------
(* Probes and time *)

\* A probe ends: ProbeResult::up or ::down stamps the current time.
Stamp ==
    /\ pc # "off"
    /\ raw[now] + inflight[now] < MaxRows
    /\ inflight' = [inflight EXCEPT ![now] = @ + 1]
    /\ UNCHANGED <<now, raw, rolled, loopVars, auxVars>>

\* insert_result commits, or fails with a warning.
Insert(m) ==
    /\ inflight[m] > 0
    /\ inflight' = [inflight EXCEPT ![m] = @ - 1]
    /\ raw' = [raw EXCEPT ![m] = @ + 1] \/ UNCHANGED raw
    /\ UNCHANGED <<now, rolled, loopVars, auxVars>>

\* A minute passes. The store is never a whole minute behind: what the ended
\* minute's predecessor stamped is stored by now.
Clock ==
    /\ now < LastMinute
    /\ \A m \in 0 .. now - 1 : inflight[m] = 0
    /\ now' = now + 1
    /\ UNCHANGED <<inflight, raw, rolled, loopVars, auxVars>>
-----------------------------------------------------------------------------
(* rollup_loop *)

RolledMinutes == {m \in Minutes : rolled[m] # NoRow}
RawMinutes == {m \in Minutes : raw[m] > 0}

\* rollup_watermark, then earliest_raw_minute, then the current minute: the one
\* minute the loop starts from.
StartFrom ==
    IF RolledMinutes # {} THEN {w \in RolledMinutes : \A m \in RolledMinutes : m <= w}
    ELSE IF RawMinutes # {} THEN {e \in RawMinutes : \A m \in RawMinutes : e <= m}
    ELSE {now}

\* The reads before the loop: either of them fails, and it starts at the current
\* minute. What it leaves between its place and this one it will not come back to.
Start ==
    /\ pc = "off"
    /\ starts < MaxStarts
    /\ starts' = starts + 1
    /\ \E place \in StartFrom :
        /\ nextFrom' \in {place, now}
        /\ skipped' = {m \in Minutes :
                        m < nextFrom' - 1 /\ (m \in skipped \/ m >= place - 1)}
    /\ pc' = "idle"
    /\ UNCHANGED <<dataVars, from, nowMin, backfilled>>

\* Mutations: no clamp at the epoch; no minute back.
ResumeUnclamped(n) == n - 1
ResumeHere(n) == n

\* One minute back: the last rolled minute may have got rows since.
Resume(n) == AtLeast0(n - 1)

\* ticker.tick(): from one minute back up to the minute that is current now.
TickStarts ==
    /\ pc = "idle"
    /\ pc' = "rolling"
    /\ nowMin' = now
    /\ from' = Resume(nextFrom)
    /\ UNCHANGED <<dataVars, nextFrom, starts, auxVars>>

\* roll_up_range: INSERT OR REPLACE for the minutes of [a, b) that have rows.
RollUpRange(a, b) ==
    rolled' = [m \in Minutes |-> IF a <= m /\ m < b /\ raw[m] > 0 THEN raw[m] ELSE rolled[m]]

RollChunk ==
    /\ pc = "rolling"
    /\ from < nowMin
    /\ LET to == Lesser(from + Chunk, nowMin)
       IN  RollUpRange(from, to) /\ from' = to
    /\ UNCHANGED <<now, inflight, raw, pc, nextFrom, nowMin, starts, auxVars>>

\* Mutation: the range of a failed chunk is skipped.
SkipFailed == nowMin

\* The statement fails: break; the range is tried again at the next tick.
AfterFailure == from

ChunkFails ==
    /\ pc = "rolling"
    /\ from < nowMin
    /\ pc' = "idle"
    /\ nextFrom' = AfterFailure
    /\ UNCHANGED <<dataVars, from, nowMin, starts, auxVars>>

TickEnds ==
    /\ pc = "rolling"
    /\ from >= nowMin
    /\ pc' = "idle"
    /\ nextFrom' = from
    /\ backfilled' = TRUE
    /\ UNCHANGED <<dataVars, from, nowMin, starts, skipped>>

\* The process stops at any point; results in flight are lost with it.
Stop ==
    /\ pc # "off"
    /\ pc' = "off"
    /\ inflight' = [m \in Minutes |-> 0]
    /\ UNCHANGED <<now, raw, rolled, nextFrom, from, nowMin, starts, auxVars>>

Next ==
    \/ Stamp
    \/ \E m \in Minutes : Insert(m)
    \/ Clock
    \/ Start
    \/ TickStarts
    \/ RollChunk
    \/ ChunkFails
    \/ TickEnds
    \/ Stop

Spec == Init /\ [][Next]_vars

\* The ticker ticks, the process is started again while MaxStarts lasts, and from
\* some time on the database no longer fails. (It is not enough that statements
\* succeed again and again: a failed tick steps one minute back.)
Fairness ==
    /\ WF_vars(Start)
    /\ WF_vars(TickStarts)
    /\ WF_vars(RollChunk \/ ChunkFails)
    /\ WF_vars(TickEnds)
    /\ <>[][~ChunkFails]_vars

FairSpec == Spec /\ Fairness
-----------------------------------------------------------------------------
(* Queries *)

Total(count, a) == MapThenSumSet(LAMBDA m : AtLeast0(count[m]), a .. LastMinute)

\* get_uptime's total over a window of a day or more that begins at minute a.
UptimeTotal(a) == IF Total(rolled, a) > 0 THEN Total(rolled, a) ELSE Total(raw, a)
-----------------------------------------------------------------------------
(* Properties *)

TypeOK ==
    /\ now \in Minutes
    /\ inflight \in [Minutes -> 0 .. MaxRows]
    /\ raw \in [Minutes -> 0 .. MaxRows]
    /\ rolled \in [Minutes -> {NoRow} \cup 1 .. MaxRows]
    /\ pc \in {"off", "idle", "rolling"}
    /\ nextFrom \in Minutes
    /\ from \in Minutes
    /\ nowMin \in Minutes
    /\ starts \in 0 .. MaxStarts
    /\ backfilled \in BOOLEAN
    /\ skipped \subseteq Minutes

Agrees(m) == rolled[m] = IF raw[m] > 0 THEN raw[m] ELSE NoRow

\* A minute the loop will not visit again is rolled up exactly, whatever order
\* results were stored in, chunks failed or the process stopped: late results,
\* half-done backfills and restarts leave no gap and no stale count. ("A skipped
\* range would never be re-rolled - the watermark moves past it.") The exception is
\* what a failed read has put behind the loop: from the minute before the one it
\* ought to have started from to the one before its start.
Passed(m) == Agrees(m) \/ m \in skipped

PassedMinutesAgree ==
    /\ pc = "idle" => \A m \in Minutes : m < nextFrom - 1 => Passed(m)
    /\ pc = "rolling" => \A m \in Minutes : m < from - 1 => Passed(m)

\* Every result that stays stored reaches the rollup once its minute is over, unless
\* a failed read has put the minute behind the loop.
EventuallyRolled ==
    \A m \in Minutes :
        raw[m] > 0 /\ now > m + 1 ~> Passed(m) \/ (pc = "off" /\ starts = MaxStarts)

\* "Queries fall back to raw until the rollup has backfilled": until the loop has
\* caught up once, a long window's uptime counts every stored result, as long as no
\* read before the loop failed.
FallsBackUntilBackfilled ==
    ~backfilled /\ skipped = {} => \A a \in Minutes : UptimeTotal(a) = Total(raw, a)
=============================================================================
