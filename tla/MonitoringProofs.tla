--------------------------- MODULE MonitoringProofs ---------------------------
(***************************************************************************)
(* Deleting a monitor's history, proved of Monitoring for every number of  *)
(* monitors, tasks and list changes; and that the scheduler keeps its      *)
(* invariant in this composition, crashes included.                        *)
(***************************************************************************)
EXTENDS Monitoring, SchedulerProofs

\* The tables and the bookkeeping of the purge are functions over the ids.
DataInv ==
    /\ purge \in [Ids -> {"none", "raw", "rollup", "traces", "done", "lost"}]
    /\ raw \in [Ids -> SUBSET Ages]
    /\ rollup \in [Ids -> SUBSET {"complete", "old"}]
    /\ late \in [Ids -> BOOLEAN]

\* PurgeComplete with its half-way point: once the results are deleted, the rollup
\* loop has nothing left to bring rollups back from, before and after they are
\* deleted in their turn.
PurgeInv ==
    /\ DataInv
    /\ \A i \in Ids : ~late[i] =>
        /\ RawPurged(i) => raw[i] = {}
        /\ purge[i] \in {"traces", "done"} => rollup[i] = {}

\* Time only moves rows to a greater age, one they may have.
LEMMA AgedRows ==
    /\ \A rows \in SUBSET Ages : Aged("current", "complete", rows) \in SUBSET Ages
    /\ \A rows \in SUBSET Ages : Aged("complete", "old", rows) \in SUBSET Ages
    /\ \A rows \in SUBSET {"complete", "old"} :
         Aged("complete", "old", rows) \in SUBSET {"complete", "old"}
    /\ \A from, to : Aged(from, to, {}) = {}
BY DEF Aged, Ages

\* Each step keeps the purge's promise: only a result stored after the results were
\* deleted breaks it, and that one is remembered in "late".
LEMMA PurgeStep == PurgeInv /\ [MonitoringNext]_allVars => PurgeInv'
<1> SUFFICES ASSUME PurgeInv, [MonitoringNext]_allVars PROVE PurgeInv'
  OBVIOUS
<1> USE DEF PurgeInv, DataInv, RawPurged, Purging
<1>1. ASSUME NEW i \in Ids, NEW entry \in Keys \cup {Off}, Save(i, entry) PROVE PurgeInv'
  BY <1>1 DEF Save
<1>2. CASE Reload /\ UNCHANGED dataVars
  BY <1>2 DEF dataVars
<1>3. ASSUME NEW i \in Ids, Remove(i) PROVE PurgeInv'
  BY <1>3 DEF Remove, NextDelete
<1>4. ASSUME NEW i \in Ids, PurgeRaw(i) PROVE PurgeInv'
  BY <1>4 DEF PurgeRaw, NextDelete
<1>5. ASSUME NEW i \in Ids, PurgeRollup(i) PROVE PurgeInv'
  BY <1>5 DEF PurgeRollup, NextDelete
<1>6. ASSUME NEW i \in Ids, PurgeTraces(i) PROVE PurgeInv'
  BY <1>6 DEF PurgeTraces, NextDelete
<1>7. ASSUME NEW i \in Ids, PurgeLost(i) PROVE PurgeInv'
  BY <1>7 DEF PurgeLost
<1>8. ASSUME NEW t \in Tasks, ProbeStep(t), UNCHANGED dataVars PROVE PurgeInv'
  BY <1>8 DEF dataVars
<1>9. ASSUME NEW t \in Tasks, StoreResult(t) PROVE PurgeInv'
  <2>1. UNCHANGED <<purge, rollup>>
    BY <1>9 DEF StoreResult
  <2>2. CASE UNCHANGED <<raw, late>>
    BY <2>1, <2>2
  <2>3. ASSUME NEW i,
               raw' = [raw EXCEPT ![i] = @ \cup {"current"}],
               late' = [late EXCEPT ![i] = @ \/ purge[i] \in {"rollup", "traces", "done"}]
        PROVE  PurgeInv'
    BY <2>1, <2>3 DEF Ages
  <2>4. QED
    BY <1>9, <2>2, <2>3 DEF StoreResult
<1>10. CASE RollUp
  BY <1>10 DEF RollUp, Ages
<1>11. CASE MinuteEnds
  BY <1>11, AgedRows DEF MinuteEnds
<1>12. ASSUME NEW i \in Ids, RowsAge(i) PROVE PurgeInv'
  BY <1>12, AgedRows DEF RowsAge
<1>13. ASSUME NEW i \in Ids, PruneRaw(i) PROVE PurgeInv'
  BY <1>13 DEF PruneRaw
<1>14. ASSUME NEW i \in Ids, PruneRollup(i) PROVE PurgeInv'
  BY <1>14 DEF PruneRollup
<1>15. ASSUME NEW i \in Ids, PruneFails(i) PROVE PurgeInv'
  BY <1>15 DEF PruneFails
<1>16. CASE RetentionTick
  BY <1>16 DEF RetentionTick
<1>17. CASE Crash
  BY <1>17 DEF Crash
<1>18. CASE UNCHANGED allVars
  BY <1>18 DEF allVars, dataVars
<1>19. QED
  BY <1>1, <1>2, <1>3, <1>4, <1>5, <1>6, <1>7, <1>8, <1>9, <1>10, <1>11, <1>12, <1>13,
     <1>14, <1>15, <1>16, <1>17, <1>18 DEF MonitoringNext

\* A purge that ran to its end leaves nothing of the monitor behind, whatever the
\* rollup loop, the retention pass, other requests and restarts did in between,
\* unless a probe in flight stored its result after the results were deleted.
THEOREM PurgeLeavesNothing == MonitoringSpec => []PurgeComplete
<1>1. MonitoringInit => PurgeInv
  BY DEF MonitoringInit, PurgeInv, DataInv, RawPurged
<1>2. PurgeInv /\ [MonitoringNext]_allVars => PurgeInv'
  BY PurgeStep
<1>3. PurgeInv => PurgeComplete
  BY DEF PurgeInv, PurgeComplete, RawPurged
<1>4. QED
  BY <1>1, <1>2, <1>3, PTL DEF MonitoringSpec
-----------------------------------------------------------------------------
(* The scheduler under the API's changes, retention and crashes *)

\* A step of the composition is a step of the scheduler, or leaves it alone, or is a
\* crash.
LEMMA SchedulerSteps == TypeOK /\ [MonitoringNext]_allVars => [Next]_schedVars \/ Crash
<1> SUFFICES ASSUME TypeOK, [MonitoringNext]_allVars, ~Crash PROVE [Next]_schedVars
  OBVIOUS
<1>1. ASSUME NEW i \in Ids, NEW entry \in Keys \cup {Off}, Publish([list EXCEPT ![i] = entry])
      PROVE  Next
  <2>1. [list EXCEPT ![i] = entry] \in Lists
    BY DEF TypeOK, Lists
  <2>2. QED
    BY <1>1, <2>1 DEF Next
<1>2. ASSUME NEW t \in Tasks, ProbeStep(t) \/ ProbeEnds(t) PROVE Next
  BY <1>2 DEF Next, TaskStep, ProbeStep
<1>3. CASE UNCHANGED schedVars
  BY <1>3
<1>4. QED
  BY <1>1, <1>2, <1>3
  DEF MonitoringNext, Save, Remove, PurgeRaw, PurgeRollup, PurgeTraces, PurgeLost, StoreResult, RollUp, MinuteEnds,
      RowsAge, PruneRaw, PruneRollup, PruneFails, RetentionTick, allVars, Next

\* A crash starts with no task and a list nobody has taken in.
LEMMA CrashKeeps == SchedInv /\ Crash => SchedInv'
<1> SUFFICES ASSUME SchedInv, Crash PROVE SchedInv'
  OBVIOUS
<1>1. TypeOK'
  <2>1. changes' \in 0 .. MaxChanges
    BY SchedulerAssumption DEF SchedInv, Crash, TypeOK
  <2>2. tokens' \in [Ids -> Token \cup {NoToken}] /\ task' \in [Tasks -> TaskState \cup {Free}]
    BY DEF Crash
  <2>3. UNCHANGED list /\ unseen' = TRUE /\ shutdown' = FALSE /\ running' = TRUE
    BY DEF Crash
  <2>4. QED
    BY <2>1, <2>2, <2>3 DEF SchedInv, TypeOK
<1>2. \A t \in Tasks : ~Alive(t)'
  BY DEF Crash, Alive
<1>3. \A i \in Ids : ~Tracked(i)'
  BY DEF Crash, Tracked
<1>4. NoLeakedTask' /\ NothingMissed' /\ TokensName'
  BY <1>2, <1>3 DEF Crash, NoLeakedTask, Uncancelled, NothingMissed, TokensName
<1>5. QED
  BY <1>1, <1>4 DEF SchedInv

LEMMA SchedulerInvariant == MonitoringSpec => []SchedInv
<1>1. MonitoringInit => SchedInv
  BY InitEstablishes DEF MonitoringInit
<1>2. SchedInv /\ [MonitoringNext]_allVars => SchedInv'
  <2>1. SchedInv => TypeOK
    BY DEF SchedInv
  <2>2. QED
    BY <2>1, SchedulerSteps, CrashKeeps, InvariantKept
<1>3. QED
  BY <1>1, <1>2, PTL DEF MonitoringSpec

\* The registry and the retention pass.
RegistryInv ==
    /\ registry \in [Ids -> {"none", "present", "deleted"}]
    /\ due \in [Ids -> {"nothing", "raw", "rollup"}]

\* The tables and the scheduler's state keep their types through every step of either.
THEOREM MonitoringTypes == MonitoringSpec => []MonitoringTypeOK
<1>1. MonitoringInit => PurgeInv /\ RegistryInv
  BY DEF MonitoringInit, PurgeInv, DataInv, RawPurged, RegistryInv
<1>2. RegistryInv /\ [MonitoringNext]_allVars => RegistryInv'
  <2> SUFFICES ASSUME RegistryInv, [MonitoringNext]_allVars PROVE RegistryInv'
    OBVIOUS
  <2>1. \/ UNCHANGED <<registry, due>>
        \/ \E i \in Ids : /\ registry' \in {[registry EXCEPT ![i] = "present"],
                                          [registry EXCEPT ![i] = "deleted"]}
                         /\ due' = due
        \/ \E i \in Ids : /\ due' \in {[due EXCEPT ![i] = "nothing"], [due EXCEPT ![i] = "rollup"]}
                         /\ registry' = registry
        \/ /\ due' \in [Ids -> {"nothing", "raw", "rollup"}]
           /\ registry' = registry
    BY DEF MonitoringNext, Save, Remove, PurgeRaw, PurgeRollup, PurgeTraces, PurgeLost, StoreResult, RollUp,
       MinuteEnds, RowsAge, PruneRaw, PruneRollup, PruneFails, RetentionTick, Crash, allVars, dataVars,
       RegistryInv
  <2>2. QED
    BY <2>1 DEF RegistryInv
<1>3. SchedInv /\ PurgeInv /\ RegistryInv => MonitoringTypeOK
  BY DEF SchedInv, PurgeInv, DataInv, RegistryInv, MonitoringTypeOK
<1>4. QED
  BY <1>1, <1>2, <1>3, PurgeStep, SchedulerInvariant, PTL DEF MonitoringSpec

\* No task leaks in the composition either: changes of the list by the API, deletions and
\* crashes leave every task that nobody told to stop in the hands of its monitor's token.
THEOREM NoTaskLeaksHere == MonitoringSpec => []NoLeakedTask
<1>1. SchedInv => NoLeakedTask
  BY DEF SchedInv
<1>2. QED
  BY <1>1, SchedulerInvariant, PTL
=============================================================================
