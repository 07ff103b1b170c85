------------------------------ MODULE Monitoring ------------------------------
(***************************************************************************)
(* The life of a monitor's history: the scheduler's probe tasks write      *)
(* probe_results, the rollup loop derives probe_rollup_1m from it, the     *)
(* retention loop prunes what is too old, and the delete handler purges    *)
(* both tables after the monitor has left the registry.  All four run      *)
(* concurrently, and each statement on the database may fail.              *)
(*                                                                         *)
(* Composes Scheduler (EXTENDS) with the part of the monitor registry it   *)
(* sees: which ids exist.  An id is never handed out twice, so a deleted   *)
(* one stays deleted (IdsNeverReused of MonitorStore).  Rows are told      *)
(* apart by age only: of the current minute, of a completed minute, and    *)
(* older than the monitor's retention_hours.                               *)
(***************************************************************************)
EXTENDS Scheduler

VARIABLES
    registry,       \* per id: "none", "present" or "deleted"
    purge,          \* per id: where delete_monitor's purge has got to
    raw,            \* per id: ages of its probe_results rows
    rollup,         \* per id: ages of its probe_rollup_1m rows
    due,            \* per id: what the current retention pass has left to do
    late            \* history: a result was stored after the purge's raw DELETE

dataVars == <<registry, purge, raw, rollup, due, late>>
allVars == <<schedVars, dataVars>>

Ages == {"current", "complete", "old"}

Present == {i \in Ids : registry[i] = "present"}

\* Mutation: the rollups are deleted before the results.
RollupFirst == [none |-> "rollup", rollup |-> "raw", raw |-> "traces", traces |-> "done"]

\* delete_results: what it deletes next, and last the traceroute data.
NextDelete == [none |-> "raw", raw |-> "rollup", rollup |-> "traces", traces |-> "done"]

\* A purge that has run its raw DELETE, and one that is under way.
RawPurged(i) == purge[i] \in {"rollup", "traces", "done"}
Purging(i) == purge[i] \in {"raw", "rollup", "traces"}

MonitoringInit ==
    /\ Init
    /\ registry \in [Ids -> {"none", "present"}]
    /\ \A i \in Enabled(list) : registry[i] = "present"
    /\ purge = [i \in Ids |-> "none"]
    /\ raw = [i \in Ids |-> {}]
    /\ rollup = [i \in Ids |-> {}]
    /\ due = [i \in Ids |-> "nothing"]
    /\ late = [i \in Ids |-> FALSE]
-----------------------------------------------------------------------------
(* The API *)

\* add, update and set_enabled: the id exists, its entry in the list changes.
Save(i, entry) ==
    /\ registry[i] # "deleted"
    /\ Publish([list EXCEPT ![i] = entry])
    /\ registry' = [registry EXCEPT ![i] = "present"]
    /\ UNCHANGED <<purge, raw, rollup, due, late>>

\* delete_monitor, first half: the row is gone and the watchers are told.
Remove(i) ==
    /\ registry[i] = "present"
    /\ Publish([list EXCEPT ![i] = Off])
    /\ registry' = [registry EXCEPT ![i] = "deleted"]
    /\ purge' = [purge EXCEPT ![i] = NextDelete["none"]]
    /\ UNCHANGED <<raw, rollup, due, late>>

\* delete_results, one DELETE after the other.
PurgeRaw(i) ==
    /\ purge[i] = "raw"
    /\ raw' = [raw EXCEPT ![i] = {}]
    /\ purge' = [purge EXCEPT ![i] = NextDelete["raw"]]
    /\ UNCHANGED <<schedVars, registry, rollup, due, late>>

PurgeRollup(i) ==
    /\ purge[i] = "rollup"
    /\ rollup' = [rollup EXCEPT ![i] = {}]
    /\ purge' = [purge EXCEPT ![i] = NextDelete["rollup"]]
    /\ UNCHANGED <<schedVars, registry, raw, due, late>>

\* delete_traceroute, whose error is ignored. Its tables are TraceStore's.
PurgeTraces(i) ==
    /\ purge[i] = "traces"
    /\ purge' = [purge EXCEPT ![i] = NextDelete["traces"]]
    /\ UNCHANGED <<schedVars, registry, raw, rollup, due, late>>

\* A DELETE fails and `?` skips the rest, or the client disconnects and the
\* handler is dropped between the statements. Nothing tries again.
PurgeLost(i) ==
    /\ Purging(i)
    /\ purge' = [purge EXCEPT ![i] = "lost"]
    /\ UNCHANGED <<schedVars, registry, raw, rollup, due, late>>
-----------------------------------------------------------------------------
(* Probe results *)

\* The end of run_probe: insert_result, or a warning when it fails. Nothing
\* asks whether the monitor still exists.
StoreResult(t) ==
    /\ ProbeEnds(t)
    /\ LET i == task[t].id
       IN  \/ /\ raw' = [raw EXCEPT ![i] = @ \cup {"current"}]
              /\ late' = [late EXCEPT ![i] = @ \/ RawPurged(i)]
           \/ UNCHANGED <<raw, late>>
    /\ UNCHANGED <<registry, purge, rollup, due>>

\* Mutation: the current minute is rolled up with the completed ones.
RollUpCurrentToo ==
    /\ rollup' = [i \in Ids |-> rollup[i] \cup (raw[i] \cap {"current", "complete"})]
    /\ UNCHANGED <<schedVars, registry, purge, raw, due, late>>

\* roll_up_range over completed minutes, in a backfill old ones too: one INSERT OR
\* REPLACE .. SELECT for all monitors, whether the registry still has them or not.
RollUp ==
    /\ \E span \in {{"complete"}, {"old"}, {"complete", "old"}} :
         rollup' = [i \in Ids |-> rollup[i] \cup (raw[i] \cap span)]
    /\ UNCHANGED <<schedVars, registry, purge, raw, due, late>>

\* Time: the minute ends; rows grow older than the retention of their monitor.
Aged(from, to, rows) == IF from \in rows THEN (rows \ {from}) \cup {to} ELSE rows

MinuteEnds ==
    /\ raw' = [i \in Ids |-> Aged("current", "complete", raw[i])]
    /\ UNCHANGED <<schedVars, registry, purge, rollup, due, late>>

RowsAge(i) ==
    /\ raw' = [raw EXCEPT ![i] = Aged("complete", "old", @)]
    /\ rollup' = [rollup EXCEPT ![i] = Aged("complete", "old", @)]
    /\ UNCHANGED <<schedVars, registry, purge, due, late>>
-----------------------------------------------------------------------------
(* per_monitor_retention_loop *)

\* Mutation: the pass skips monitors that are disabled.
RetentionTickEnabled ==
    /\ \A i \in Ids : due[i] = "nothing"
    /\ due' = [i \in Ids |-> IF i \in Enabled(list) THEN "raw" ELSE "nothing"]
    /\ UNCHANGED <<schedVars, registry, purge, raw, rollup, late>>

\* The hourly tick takes the list of the monitors there are, disabled included.
RetentionTick ==
    /\ \A i \in Ids : due[i] = "nothing"
    /\ due' = [i \in Ids |-> IF i \in Present THEN "raw" ELSE "nothing"]
    /\ UNCHANGED <<schedVars, registry, purge, raw, rollup, late>>

\* prune_monitor_results, then prune_monitor_rollups; a failure of either is
\* logged and the pass goes on.
PruneRaw(i) ==
    /\ due[i] = "raw"
    /\ due' = [due EXCEPT ![i] = "rollup"]
    /\ raw' = [raw EXCEPT ![i] = @ \ {"old"}]
    /\ UNCHANGED <<schedVars, registry, purge, rollup, late>>

PruneRollup(i) ==
    /\ due[i] = "rollup"
    /\ due' = [due EXCEPT ![i] = "nothing"]
    /\ rollup' = [rollup EXCEPT ![i] = @ \ {"old"}]
    /\ UNCHANGED <<schedVars, registry, purge, raw, late>>

PruneFails(i) ==
    /\ due[i] # "nothing"
    /\ due' = [due EXCEPT ![i] = IF @ = "raw" THEN "rollup" ELSE "nothing"]
    /\ UNCHANGED <<schedVars, registry, purge, raw, rollup, late>>
-----------------------------------------------------------------------------
\* The process stops and starts again: the database stays, and run() begins with
\* an empty task_tokens and the list loaded from it. Its first spawns are those
\* of a Reload, so they are left to that action.
Crash ==
    /\ changes < MaxChanges
    /\ changes' = changes + 1
    /\ task' = [t \in Tasks |-> Free]
    /\ tokens' = [i \in Ids |-> NoToken]
    /\ unseen' = TRUE
    /\ shutdown' = FALSE
    /\ running' = TRUE
    /\ purge' = [i \in Ids |-> IF Purging(i) THEN "lost" ELSE purge[i]]
    /\ due' = [i \in Ids |-> "nothing"]
    /\ UNCHANGED <<list, registry, raw, rollup, late>>

ProbeStep(t) == JitterEnds(t) \/ Tick(t) \/ StopTask(t)

MonitoringNext ==
    \/ \E i \in Ids, entry \in Keys \cup {Off} : Save(i, entry)
    \/ Reload /\ UNCHANGED dataVars
    \/ \E i \in Ids : Remove(i) \/ PurgeRaw(i) \/ PurgeRollup(i) \/ PurgeTraces(i) \/ PurgeLost(i)
    \/ \E t \in Tasks : (ProbeStep(t) /\ UNCHANGED dataVars) \/ StoreResult(t)
    \/ RollUp
    \/ MinuteEnds
    \/ \E i \in Ids : RowsAge(i) \/ PruneRaw(i) \/ PruneRollup(i) \/ PruneFails(i)
    \/ RetentionTick
    \/ Crash

MonitoringSpec == MonitoringInit /\ [][MonitoringNext]_allVars

\* The loops tick for ever and the database does not fail for ever; tasks as in
\* Scheduler. Nothing is assumed of clients, of crashes or of a purge.
MonitoringFairness ==
    /\ WF_allVars(Reload /\ UNCHANGED dataVars)
    /\ WF_allVars(RetentionTick)
    /\ \A i \in Ids :
         /\ SF_allVars(PruneRaw(i))
         /\ WF_allVars(PruneRaw(i) \/ PruneRollup(i) \/ PruneFails(i))
    /\ \A t \in Tasks :
         /\ WF_allVars((JitterEnds(t) \/ Tick(t)) /\ UNCHANGED dataVars)
         /\ WF_allVars(StoreResult(t))
         /\ SF_allVars(StopTask(t) /\ UNCHANGED dataVars)

MonitoringFairSpec == MonitoringSpec /\ MonitoringFairness
-----------------------------------------------------------------------------
(* Properties *)

MonitoringTypeOK ==
    /\ TypeOK
    /\ registry \in [Ids -> {"none", "present", "deleted"}]
    /\ purge \in [Ids -> {"none", "raw", "rollup", "traces", "done", "lost"}]
    /\ raw \in [Ids -> SUBSET Ages]
    /\ rollup \in [Ids -> SUBSET {"complete", "old"}]
    /\ due \in [Ids -> {"nothing", "raw", "rollup"}]
    /\ late \in [Ids -> BOOLEAN]

\* A purge that ran to its end leaves neither results nor rollups of the monitor,
\* although the rollup loop may run between the DELETEs of delete_results,
\* unless a probe in flight stored its result after the first of them.
PurgeComplete ==
    \A i \in Ids : purge[i] = "done" /\ ~late[i] => raw[i] = {} /\ rollup[i] = {}

\* per_monitor_retention_loop reaches the old results of every monitor there is,
\* of a disabled one too, whatever failed in earlier passes.
RetentionReaches ==
    \A i \in Ids :
        registry[i] = "present" /\ "old" \in raw[i]
            ~> "old" \notin raw[i] \/ registry[i] = "deleted"

\* "Delete results older than N days [...] pruned automatically so the database
\* doesn't grow without bound" (README.md, retention_days).
OldResultsPruned ==
    \A i \in Ids : "old" \in raw[i] ~> "old" \notin raw[i]
=============================================================================
