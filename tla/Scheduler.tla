------------------------------- MODULE Scheduler -------------------------------
(***************************************************************************)
(* The scheduler (src/src/scheduler/mod.rs, run .. spawn_monitor): one     *)
(* supervising task that follows the watch channel of the monitor list and *)
(* one probe task per enabled monitor, each with its own cancellation      *)
(* token.  Cancellation is a request: a task sees it only where it waits   *)
(* in a select!, never in the middle of a probe.                           *)
(*                                                                         *)
(* To the scheduler an absent and a disabled monitor are the same, so the  *)
(* list maps an id to the config_key of an enabled monitor or to Off.  The *)
(* tasks of initial_monitors are already spawned in the initial states:    *)
(* run() spawns them before its first await.                               *)
(***************************************************************************)
EXTENDS Naturals, Functions

CONSTANTS
    Ids,            \* monitor ids
    Keys,           \* config_key values of enabled monitors
    Tasks,          \* bound: tasks alive at once
    Off,            \* a monitor that is absent or disabled
    NoToken,        \* an id without an entry in task_tokens
    MaxChanges      \* bound: changes of the monitor list

Lists == [Ids -> Keys \cup {Off}]

\* An entry of task_tokens: the task its token cancels, and the key it runs.
Token == [task : Tasks, key : Keys]

ASSUME SchedulerAssumption ==
    /\ Off \notin Keys
    /\ NoToken \notin Token
    /\ MaxChanges \in Nat

VARIABLES
    list,           \* the value in the watch channel
    unseen,         \* monitor_rx.changed() is ready
    changes,        \* changes of the list so far
    tokens,         \* task_tokens
    task,           \* the spawned tasks
    shutdown,       \* the global token is cancelled
    running         \* run() is in its loop

schedVars == <<list, unseen, changes, tokens, task, shutdown, running>>

Free == [pc |-> "free"]
TaskState ==
    [pc : {"jitter", "wait", "probe"}, id : Ids, key : Keys, cancelled : BOOLEAN]

\* spawn_monitor for id i: the task starts with its jitter sleep.
Spawned(i, key) == [pc |-> "jitter", id |-> i, key |-> key, cancelled |-> FALSE]
Cancelled(s) == IF s = Free THEN s ELSE [s EXCEPT !.cancelled = TRUE]

Alive(t) == task[t] # Free
Uncancelled(t) == Alive(t) /\ ~task[t].cancelled
Tracked(i) == tokens[i] # NoToken
FreeTasks == {t \in Tasks : ~Alive(t) /\ \A i \in Ids : Tracked(i) => tokens[i].task # t}
Enabled(l) == {i \in Ids : l[i] # Off}
-----------------------------------------------------------------------------
(* The supervisor *)

Init ==
    /\ list \in Lists
    /\ \E f \in Injection(Enabled(list), Tasks) :
         /\ tokens = [i \in Ids |-> IF i \in Enabled(list)
                                    THEN [task |-> f[i], key |-> list[i]]
                                    ELSE NoToken]
         /\ task = [t \in Tasks |->
                      IF \E i \in Enabled(list) : f[i] = t
                      THEN LET i == CHOOSE j \in Enabled(list) : f[j] = t
                           IN  Spawned(i, list[i])
                      ELSE Free]
    /\ unseen = FALSE
    /\ changes = 0
    /\ shutdown = FALSE
    /\ running = TRUE

\* MonitorStore.notify. A value the scheduler has not taken yet is overwritten.
Publish(l) ==
    /\ changes < MaxChanges
    /\ changes' = changes + 1
    /\ list' = l
    /\ unseen' = TRUE
    /\ UNCHANGED <<tokens, task, shutdown, running>>

\* diff_and_reload's groups: entries whose monitor is gone or disabled, entries
\* whose config is unchanged, and monitors that need a first or a new task.
Unwanted == {i \in Ids : Tracked(i) /\ list[i] = Off}

\* Mutations: config_key is not compared; every config counts as changed.
UnchangedIfTracked == {i \in Ids : Tracked(i)}
UnchangedNever == {}

Unchanged == {i \in Ids : Tracked(i) /\ tokens[i].key = list[i]}

\* Mutation: disabled monitors are not skipped.
ToStartDisabledToo == Ids \ Unchanged

ToStart == Enabled(list) \ Unchanged

\* Mutation: a restart forgets token.cancel().
ToCancelUnwanted == {tokens[i].task : i \in Unwanted}

ToCancel == {tokens[i].task : i \in {j \in Unwanted \cup ToStart : Tracked(j)}}

\* changed(), borrow_and_update() and diff_and_reload: no await in between.
Reload ==
    /\ running
    /\ unseen
    /\ unseen' = FALSE
    /\ \E f \in Injection(ToStart, FreeTasks) :
         /\ tokens' = [i \in Ids |-> IF i \in ToStart
                                     THEN [task |-> f[i], key |-> list[i]]
                                     ELSE IF i \in Unwanted THEN NoToken
                                     ELSE tokens[i]]
         /\ task' = [t \in Tasks |->
                       IF \E i \in ToStart : f[i] = t
                       THEN LET i == CHOOSE j \in ToStart : f[j] = t
                            IN  Spawned(i, list[i])
                       ELSE IF t \in ToCancel THEN Cancelled(task[t])
                       ELSE task[t]]
    /\ UNCHANGED <<list, changes, shutdown, running>>

\* Ctrl-C, or the tray's quit or reload.
RequestShutdown ==
    /\ ~shutdown
    /\ shutdown' = TRUE
    /\ UNCHANGED <<list, unseen, changes, tokens, task, running>>

\* cancel.cancelled() in run(): every token is cancelled and the map dropped.
StopRunning ==
    /\ running
    /\ shutdown
    /\ running' = FALSE
    /\ task' = [t \in Tasks |->
                  IF \E i \in Ids : Tracked(i) /\ tokens[i].task = t
                  THEN Cancelled(task[t])
                  ELSE task[t]]
    /\ tokens' = [i \in Ids |-> NoToken]
    /\ UNCHANGED <<list, unseen, changes, shutdown>>
-----------------------------------------------------------------------------
(* A probe task *)

At(t, pc) == Alive(t) /\ task[t].pc = pc

Move(t, pc) ==
    /\ task' = [task EXCEPT ![t].pc = pc]
    /\ UNCHANGED <<list, unseen, changes, tokens, shutdown, running>>

\* The jitter sleep ends. select! picks among ready branches at random, so a
\* cancelled task may still take this one.
JitterEnds(t) == At(t, "jitter") /\ Move(t, "wait")

\* ticker.tick() is ready: run_probe starts, again even in a cancelled task.
Tick(t) == At(t, "wait") /\ Move(t, "probe")

\* Mutation: an error of run_probe ends the task.
ProbeEndsTask(t) ==
    /\ At(t, "probe")
    /\ task' = [task EXCEPT ![t] = Free]
    /\ UNCHANGED <<list, unseen, changes, tokens, shutdown, running>>

\* run_probe returns, with the result stored and broadcast (or the failure
\* logged): its errors never end the task.
ProbeEnds(t) == At(t, "probe") /\ Move(t, "wait")

\* Mutation: the tokens are looked at only before the first probe.
StopTaskInJitter(t) ==
    /\ At(t, "jitter")
    /\ task[t].cancelled \/ shutdown
    /\ task' = [task EXCEPT ![t] = Free]
    /\ UNCHANGED <<list, unseen, changes, tokens, shutdown, running>>

\* Either token is cancelled and its branch is the one taken.
StopTask(t) ==
    /\ At(t, "jitter") \/ At(t, "wait")
    /\ task[t].cancelled \/ shutdown
    /\ task' = [task EXCEPT ![t] = Free]
    /\ UNCHANGED <<list, unseen, changes, tokens, shutdown, running>>

TaskStep(t) == JitterEnds(t) \/ Tick(t) \/ ProbeEnds(t) \/ StopTask(t)

Next ==
    \/ \E l \in Lists : Publish(l)
    \/ Reload
    \/ RequestShutdown
    \/ StopRunning
    \/ \E t \in Tasks : TaskStep(t)

Spec == Init /\ [][Next]_schedVars

\* Sleeps end, probes time out, ready tasks are polled. A select! takes a ready
\* branch at random, so a branch that is ready again and again is taken.
Fairness ==
    /\ SF_schedVars(Reload)
    /\ SF_schedVars(StopRunning)
    /\ \A t \in Tasks :
         /\ WF_schedVars(JitterEnds(t))
         /\ WF_schedVars(Tick(t))
         /\ WF_schedVars(ProbeEnds(t))
         /\ SF_schedVars(StopTask(t))

FairSpec == Spec /\ Fairness
-----------------------------------------------------------------------------
(* Properties *)

TypeOK ==
    /\ list \in Lists
    /\ unseen \in BOOLEAN
    /\ changes \in 0 .. MaxChanges
    /\ tokens \in [Ids -> Token \cup {NoToken}]
    /\ task \in [Tasks -> TaskState \cup {Free}]
    /\ shutdown \in BOOLEAN
    /\ running \in BOOLEAN

\* No task leaks: a task that nobody has told to stop is the one its monitor's
\* token cancels, so a monitor never has two of them and a later reload can
\* always reach it.
NoLeakedTask ==
    \A t \in Tasks : Uncancelled(t) =>
        /\ Tracked(task[t].id)
        /\ tokens[task[t].id].task = t
        /\ tokens[task[t].id].key = task[t].key

\* Coalescing loses nothing: with no notification pending, exactly the enabled
\* monitors have a task, each with the configuration in the list.
NothingMissed ==
    running /\ ~unseen =>
        \A i \in Ids :
            /\ Tracked(i) <=> list[i] # Off
            /\ Tracked(i) => tokens[i].key = list[i]

\* A reload leaves the task of a monitor whose configuration is unchanged alone,
\* ticker and all, however many other monitors change with it.
UnchangedUndisturbed ==
    [][running' => \A i \in Ids :
         Tracked(i) /\ tokens[i].key = list[i] =>
            /\ tokens'[i] = tokens[i]
            /\ Uncancelled(tokens[i].task) /\ ~shutdown => Uncancelled(tokens[i].task)']_schedVars

\* When the list stops changing, the tasks settle to one for each enabled
\* monitor: restarted and removed monitors' tasks all end, mid-probe ones too.
Settled ==
    \A i \in Ids :
        LET own == {t \in Tasks : Alive(t) /\ task[t].id = i}
        IN  IF list[i] = Off
            THEN own = {}
            ELSE Tracked(i) /\ own = {tokens[i].task} /\ tokens[i].key = list[i]
Settles == <>[](Settled \/ shutdown)

\* Every enabled monitor is probed again and again with its current config.
KeepsProbing ==
    \A i \in Ids :
        []<>(\/ shutdown
             \/ list[i] = Off
             \/ \E t \in Tasks : At(t, "probe") /\ task[t].id = i /\ task[t].key = list[i])

\* A shutdown ends the supervisor and every task.
ShutdownEnds == shutdown ~> ~running /\ \A t \in Tasks : ~Alive(t)
=============================================================================
