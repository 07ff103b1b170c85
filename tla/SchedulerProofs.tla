---------------------------- MODULE SchedulerProofs ----------------------------
(***************************************************************************)
(* Proofs about Scheduler, for any sets of ids, keys and tasks and any     *)
(* number of changes.                                                      *)
(***************************************************************************)
EXTENDS Scheduler, TLAPS

\* What task_tokens guarantees about the tasks it names: no two entries cancel
\* one task, and a named task that is alive runs its entry's monitor and key
\* and was not told to stop.
TokensName ==
    /\ \A i, j \in Ids :
         Tracked(i) /\ Tracked(j) /\ tokens[i].task = tokens[j].task => i = j
    /\ \A i \in Ids :
         Tracked(i) /\ Alive(tokens[i].task) =>
           LET s == task[tokens[i].task]
           IN  s.id = i /\ s.key = tokens[i].key /\ ~s.cancelled

SchedInv == TypeOK /\ NoLeakedTask /\ NothingMissed /\ TokensName

LEMMA FreeIsNoState == Free \notin TaskState
  BY DEF Free, TaskState

LEMMA SpawnedType ==
  \A i \in Ids, k \in Keys : Spawned(i, k) \in TaskState
  BY DEF Spawned, TaskState

LEMMA CancelledType ==
  \A s \in TaskState \cup {Free} :
    /\ Cancelled(s) \in TaskState \cup {Free}
    /\ Cancelled(s) = Free <=> s = Free
    /\ s # Free => Cancelled(s).cancelled /\ Cancelled(s).id = s.id /\ Cancelled(s).key = s.key
  BY DEF Cancelled, TaskState, Free

\* The tasks a reload spawns are those its injection assigns.
LEMMA ReloadTasks ==
  ASSUME TypeOK, NEW f \in Injection(ToStart, FreeTasks), NEW t \in Tasks,
         task' = [u \in Tasks |->
                    IF \E i \in ToStart : f[i] = u
                    THEN LET i == CHOOSE j \in ToStart : f[j] = u
                         IN  Spawned(i, list[i])
                    ELSE IF u \in ToCancel THEN Cancelled(task[u])
                    ELSE task[u]]
  PROVE  /\ \A i \in ToStart : f[i] = t => task'[t] = Spawned(i, list[i]) /\ t \in FreeTasks
         /\ (\A i \in ToStart : f[i] # t) =>
              task'[t] = IF t \in ToCancel THEN Cancelled(task[t]) ELSE task[t]
  BY DEF Injection, IsInjective
\* What a reload makes of each entry of task_tokens.
LEMMA ReloadTokens ==
  ASSUME TypeOK, NEW f \in Injection(ToStart, FreeTasks), NEW i \in Ids,
         tokens' = [j \in Ids |-> IF j \in ToStart
                                  THEN [task |-> f[j], key |-> list[j]]
                                  ELSE IF j \in Unwanted THEN NoToken
                                  ELSE tokens[j]]
  PROVE  /\ i \in ToStart => /\ tokens'[i].task = f[i] /\ tokens'[i].key = list[i]
                             /\ f[i] \in FreeTasks /\ list[i] \in Keys
                             /\ tokens'[i] # NoToken /\ tokens'[i] \in Token
         /\ i \in Unwanted => tokens'[i] = NoToken /\ list[i] = Off
         /\ i \notin ToStart /\ i \notin Unwanted =>
              /\ tokens'[i] = tokens[i]
              /\ Tracked(i) => tokens[i].key = list[i] /\ list[i] # Off
              /\ ~Tracked(i) => list[i] = Off
  BY SchedulerAssumption DEF TypeOK, Lists, Token, Injection, ToStart, Unwanted, Unchanged, Enabled, Tracked, FreeTasks

LEMMA InitEstablishes == Init => SchedInv
<1> SUFFICES ASSUME Init PROVE SchedInv
  OBVIOUS
<1>1. PICK f \in Injection(Enabled(list), Tasks) :
        /\ tokens = [i \in Ids |-> IF i \in Enabled(list)
                                   THEN [task |-> f[i], key |-> list[i]]
                                   ELSE NoToken]
        /\ task = [t \in Tasks |->
                     IF \E i \in Enabled(list) : f[i] = t
                     THEN LET i == CHOOSE j \in Enabled(list) : f[j] = t
                          IN  Spawned(i, list[i])
                     ELSE Free]
  BY DEF Init
<1>0. list \in Lists /\ unseen = FALSE /\ changes = 0 /\ shutdown = FALSE /\ running = TRUE
  BY DEF Init
<1>2. /\ \A i \in Enabled(list) : i \in Ids /\ list[i] # Off /\ f[i] \in Tasks /\ list[i] \in Keys
      /\ \A i, j \in Enabled(list) : f[i] = f[j] => i = j
  BY <1>0 DEF Lists, Enabled, Injection, IsInjective
<1>3. \A t \in Tasks :
        /\ \A i \in Enabled(list) : f[i] = t => task[t] = Spawned(i, list[i])
        /\ (\A i \in Enabled(list) : f[i] # t) => task[t] = Free
  BY <1>1, <1>2
<1>4. \A i \in Ids :
        /\ Tracked(i) <=> i \in Enabled(list)
        /\ Tracked(i) => tokens[i].task = f[i] /\ tokens[i].key = list[i] /\ tokens[i] \in Token
        /\ ~Tracked(i) => tokens[i] = NoToken
  BY <1>1, <1>2, SchedulerAssumption DEF Tracked, Token
<1>5. TypeOK
  <2>1. \A t \in Tasks : task[t] \in TaskState \cup {Free}
    BY <1>2, <1>3, SpawnedType DEF Enabled
  <2>2. task \in [Tasks -> TaskState \cup {Free}]
    BY <1>1, <2>1
  <2>3. tokens \in [Ids -> Token \cup {NoToken}]
    BY <1>1, <1>4
  <2>4. changes \in 0 .. MaxChanges
    BY <1>0, SchedulerAssumption
  <2>5. unseen \in BOOLEAN /\ shutdown \in BOOLEAN /\ running \in BOOLEAN
    BY <1>0
  <2>6. QED
    BY <1>0, <2>2, <2>3, <2>4, <2>5, Zenon DEF TypeOK
<1>5a. \A i \in Enabled(list) :
         LET s == Spawned(i, list[i]) IN s # Free /\ s.id = i /\ s.key = list[i] /\ ~s.cancelled
  BY <1>2, SpawnedType, FreeIsNoState DEF Spawned
<1>6. NoLeakedTask
  <2> SUFFICES ASSUME NEW t \in Tasks, Alive(t)
               PROVE  /\ Tracked(task[t].id)
                      /\ tokens[task[t].id].task = t
                      /\ tokens[task[t].id].key = task[t].key
    BY DEF NoLeakedTask, Uncancelled
  <2>1. PICK i \in Enabled(list) : f[i] = t
    BY <1>3 DEF Alive
  <2>2. task[t].id = i /\ task[t].key = list[i]
    BY <1>3, <1>5a, <2>1
  <2>3. QED
    BY <1>2, <1>4, <2>1, <2>2
<1>7. NothingMissed
  BY <1>2, <1>4 DEF NothingMissed, Enabled
<1>8. TokensName
  <2>1. \A i, j \in Ids :
          Tracked(i) /\ Tracked(j) /\ tokens[i].task = tokens[j].task => i = j
    BY <1>2, <1>4
  <2>2. ASSUME NEW i \in Ids, Tracked(i)
        PROVE  LET s == task[tokens[i].task]
               IN  s.id = i /\ s.key = tokens[i].key /\ ~s.cancelled
    BY <1>2, <1>3, <1>4, <1>5a, <2>2
  <2>3. QED
    BY <2>1, <2>2 DEF TokensName
<1>9. QED
  BY <1>5, <1>6, <1>7, <1>8 DEF SchedInv

\* diff_and_reload re-establishes everything for the new list.
LEMMA ReloadKeeps ==
  ASSUME SchedInv, Reload
  PROVE  SchedInv'
<1> USE DEF SchedInv, Tracked, Uncancelled, Alive
<1>1. PICK f \in Injection(ToStart, FreeTasks) :
        /\ tokens' = [i \in Ids |-> IF i \in ToStart
                                    THEN [task |-> f[i], key |-> list[i]]
                                    ELSE IF i \in Unwanted THEN NoToken
                                    ELSE tokens[i]]
        /\ task' = [t \in Tasks |->
                      IF \E i \in ToStart : f[i] = t
                      THEN LET i == CHOOSE j \in ToStart : f[j] = t
                           IN  Spawned(i, list[i])
                      ELSE IF t \in ToCancel THEN Cancelled(task[t])
                      ELSE task[t]]
  BY DEF Reload
<1>2. UNCHANGED <<list, changes, shutdown, running>> /\ unseen' = FALSE
  BY DEF Reload
<1> DEFINE New(t) == \E i \in ToStart : f[i] = t
<1>3. \A t \in Tasks :
        /\ \A i \in ToStart : f[i] = t => task'[t] = Spawned(i, list[i]) /\ t \in FreeTasks
        /\ ~New(t) => task'[t] = IF t \in ToCancel THEN Cancelled(task[t]) ELSE task[t]
  BY <1>1, ReloadTasks
<1>4. \A i \in ToStart : /\ tokens'[i].task = f[i] /\ tokens'[i].key = list[i]
                         /\ f[i] \in FreeTasks /\ list[i] \in Keys
                         /\ tokens'[i] # NoToken /\ tokens'[i] \in Token
  BY <1>1, ReloadTokens DEF ToStart, Enabled
<1>4a. \A i \in Unwanted : tokens'[i] = NoToken /\ list[i] = Off
  BY <1>1, ReloadTokens DEF Unwanted
<1>4b. \A i \in Ids : i \notin ToStart /\ i \notin Unwanted =>
          /\ tokens'[i] = tokens[i]
          /\ tokens[i] # NoToken => tokens[i].key = list[i] /\ list[i] # Off
          /\ tokens[i] = NoToken => list[i] = Off
  BY <1>1, ReloadTokens
<1>5. \A i, j \in ToStart : f[i] = f[j] => i = j
  BY <1>1 DEF Injection, IsInjective
<1>6. ToStart \subseteq Ids /\ Unwanted \subseteq Ids /\ FreeTasks \subseteq Tasks /\ \A i \in ToStart : list[i] # Off
  BY DEF ToStart, Unwanted, Enabled, FreeTasks
<1>7. TypeOK'
  <2>1. \A t \in Tasks : task'[t] \in TaskState \cup {Free}
    <3> TAKE t \in Tasks
    <3>1. CASE New(t)
      BY <1>3, <1>4, <1>6, <3>1, SpawnedType
    <3>2. CASE ~New(t)
      BY <1>3, <3>2, CancelledType DEF TypeOK
    <3>3. QED
      BY <3>1, <3>2
  <2>2. task' \in [Tasks -> TaskState \cup {Free}]
    BY <1>1, <2>1
  <2>3. \A i \in Ids : tokens'[i] \in Token \cup {NoToken}
    BY <1>4, <1>4a, <1>4b DEF TypeOK
  <2>4. tokens' \in [Ids -> Token \cup {NoToken}]
    BY <1>1, <2>3
  <2>5. QED
    BY <1>2, <2>2, <2>4 DEF TypeOK
<1>8. NothingMissed'
  <2>1. ASSUME NEW i \in Ids
        PROVE  /\ tokens'[i] # NoToken <=> list[i] # Off
               /\ tokens'[i] # NoToken => tokens'[i].key = list[i]
    <3>1. CASE i \in ToStart
      BY <1>4, <1>6, <3>1
    <3>2. CASE i \in Unwanted
      BY <1>4a, <3>2
    <3>3. CASE i \notin ToStart /\ i \notin Unwanted
      BY <1>4b, <3>3
    <3>4. QED
      BY <3>1, <3>2, <3>3
  <2>2. QED
    BY <1>2, <2>1 DEF NothingMissed
<1>9. NoLeakedTask'
  <2> SUFFICES ASSUME NEW t \in Tasks, Uncancelled(t)'
               PROVE  /\ Tracked(task[t].id)'
                      /\ tokens'[task'[t].id].task = t
                      /\ tokens'[task'[t].id].key = task'[t].key
    BY DEF NoLeakedTask
  <2>1. CASE New(t)
    <3>1. PICK i \in ToStart : f[i] = t
      BY <2>1
    <3>2. task'[t] = Spawned(i, list[i])
      BY <1>3, <3>1
    <3>3. task'[t].id = i /\ task'[t].key = list[i]
      BY <3>2 DEF Spawned
    <3>4. QED
      BY <1>4, <1>6, <3>1, <3>3
  <2>2. CASE ~New(t)
    <3>1. t \notin ToCancel
      BY <1>3, <2>2, CancelledType DEF TypeOK, Uncancelled, Alive
    <3>2. task'[t] = task[t] /\ Uncancelled(t)
      BY <1>3, <2>2, <3>1 DEF Uncancelled, Alive
    <3> DEFINE i == task[t].id
    <3>3. i \in Ids /\ Tracked(i) /\ tokens[i].task = t /\ tokens[i].key = task[t].key
      BY <3>2 DEF NoLeakedTask, TypeOK, TaskState, Uncancelled, Alive
    <3>4. i \notin ToStart /\ i \notin Unwanted
      BY <3>1, <3>3 DEF ToCancel
    <3>5. QED
      BY <1>4b, <3>2, <3>3, <3>4
  <2>3. QED
    BY <2>1, <2>2
<1>10. TokensName'
  <2>1. \A i \in Ids : Tracked(i)' /\ i \notin ToStart => Tracked(i) /\ tokens'[i] = tokens[i] /\ i \notin Unwanted
    BY <1>4a, <1>4b
  <2>2. \A i \in Ids : Tracked(i) => tokens[i].task \in Tasks /\ tokens[i].task \notin FreeTasks
    BY DEF TypeOK, Token, Tracked, FreeTasks
  <2>3. ASSUME NEW i \in Ids, NEW j \in Ids, Tracked(i)', Tracked(j)', tokens'[i].task = tokens'[j].task
        PROVE  i = j
    <3>1. CASE i \in ToStart /\ j \in ToStart
      BY <1>4, <1>5, <2>3, <3>1
    <3>2. CASE i \notin ToStart /\ j \notin ToStart
      BY <2>1, <2>3, <3>2 DEF TokensName
    <3>3. CASE i \in ToStart /\ j \notin ToStart
      BY <1>4, <2>1, <2>2, <2>3, <3>3
    <3>4. CASE i \notin ToStart /\ j \in ToStart
      BY <1>4, <2>1, <2>2, <2>3, <3>4
    <3>5. QED
      BY <3>1, <3>2, <3>3, <3>4
  <2>4. ASSUME NEW i \in Ids, Tracked(i)', Alive(tokens[i].task)'
        PROVE  LET s == task'[tokens'[i].task]
               IN  s.id = i /\ s.key = tokens'[i].key /\ ~s.cancelled
    <3>1. CASE i \in ToStart
      <4>1. f[i] \in Tasks /\ task'[f[i]] = Spawned(i, list[i])
        BY <1>3, <1>4, <1>6, <3>1
      <4>2. QED
        BY <1>4, <3>1, <4>1 DEF Spawned
    <3>2. CASE i \notin ToStart
      <4> DEFINE t == tokens[i].task
      <4>1. Tracked(i) /\ tokens'[i] = tokens[i] /\ i \notin Unwanted /\ t \in Tasks /\ t \notin FreeTasks
        BY <2>1, <2>2, <2>4, <3>2
      <4>2. ~New(t)
        BY <1>4, <1>6, <4>1
      <4>3. t \notin ToCancel
        <5>1. \A j \in Ids : Tracked(j) /\ tokens[j].task = t => j = i
          BY <4>1 DEF TokensName
        <5>2. QED
          BY <1>6, <3>2, <4>1, <5>1 DEF ToCancel
      <4>4. task'[t] = task[t]
        BY <1>3, <4>1, <4>2, <4>3
      <4>5. QED
        BY <2>4, <4>1, <4>4 DEF TokensName, Alive
    <3>3. QED
      BY <3>1, <3>2
  <2>5. QED
    BY <2>3, <2>4 DEF TokensName
<1>11. QED
  BY <1>7, <1>8, <1>9, <1>10

LEMMA PublishKeeps ==
  ASSUME SchedInv, NEW l \in Lists, Publish(l)
  PROVE  SchedInv'
<1>1. changes' \in 0 .. MaxChanges
  BY SchedulerAssumption DEF SchedInv, TypeOK, Publish
<1>2. TypeOK'
  BY <1>1 DEF SchedInv, TypeOK, Publish
<1>3. NoLeakedTask' /\ TokensName'
  BY DEF SchedInv, Publish, NoLeakedTask, TokensName, Uncancelled, Alive, Tracked
<1>4. NothingMissed'
  BY DEF Publish, NothingMissed
<1>5. QED
  BY <1>2, <1>3, <1>4 DEF SchedInv

\* The supervisor's end cancels the tasks of every entry it drops.
LEMMA StopRunningKeeps ==
  ASSUME SchedInv, StopRunning
  PROVE  SchedInv'
<1> USE DEF SchedInv
<1>1. /\ UNCHANGED <<list, unseen, changes, shutdown>> /\ running' = FALSE
      /\ \A i \in Ids : ~Tracked(i)'
      /\ \A t \in Tasks : task'[t] = IF \E i \in Ids : Tracked(i) /\ tokens[i].task = t
                                     THEN Cancelled(task[t])
                                     ELSE task[t]
  BY DEF StopRunning, Tracked
<1>2. TypeOK'
  <2>1. \A t \in Tasks : task'[t] \in TaskState \cup {Free}
    BY <1>1, CancelledType DEF TypeOK
  <2>2. task' \in [Tasks -> TaskState \cup {Free}]
    BY <2>1 DEF StopRunning
  <2>3. tokens' \in [Ids -> Token \cup {NoToken}]
    BY DEF StopRunning
  <2>4. QED
    BY <1>1, <2>2, <2>3 DEF TypeOK
<1>3. NoLeakedTask'
  <2> SUFFICES ASSUME NEW t \in Tasks, Uncancelled(t)' PROVE FALSE
    BY DEF NoLeakedTask
  <2>1. CASE \E i \in Ids : Tracked(i) /\ tokens[i].task = t
    BY <1>1, <2>1, CancelledType DEF TypeOK, Uncancelled, Alive
  <2>2. CASE ~\E i \in Ids : Tracked(i) /\ tokens[i].task = t
    <3>1. task'[t] = task[t]
      BY <1>1, <2>2
    <3>2. Uncancelled(t) /\ task[t].id \in Ids
      BY <3>1 DEF Uncancelled, Alive, TypeOK, TaskState
    <3>3. QED
      BY <2>2, <3>2 DEF NoLeakedTask
  <2>3. QED
    BY <2>1, <2>2
<1>4. TokensName'
  BY <1>1 DEF TokensName
<1>5. NothingMissed'
  BY <1>1 DEF NothingMissed
<1>6. QED
  BY <1>2, <1>3, <1>4, <1>5

\* A probe task keeps its monitor, key and cancellation, until it is gone.
LEMMA TaskStepKeeps ==
  ASSUME SchedInv, NEW t \in Tasks, TaskStep(t)
  PROVE  SchedInv'
<1> USE DEF SchedInv
<1>1. UNCHANGED <<list, unseen, changes, tokens, shutdown, running>>
  BY DEF TaskStep, JitterEnds, Tick, ProbeEnds, StopTask, Move
<1>2. Alive(t) /\ task[t] \in TaskState
  BY DEF TaskStep, JitterEnds, Tick, ProbeEnds, StopTask, At, TypeOK, Alive
<1>3. \/ \E pc \in {"wait", "probe"} : task' = [task EXCEPT ![t].pc = pc]
      \/ task' = [task EXCEPT ![t] = Free]
  BY DEF TaskStep, JitterEnds, Tick, ProbeEnds, StopTask, Move
<1>4. /\ task' \in [Tasks -> TaskState \cup {Free}]
      /\ \A u \in Tasks : \/ task'[u] = Free
                         \/ /\ Alive(u) /\ task'[u].id = task[u].id
                            /\ task'[u].key = task[u].key
                            /\ task'[u].cancelled = task[u].cancelled
  <2>1. CASE \E pc \in {"wait", "probe"} : task' = [task EXCEPT ![t].pc = pc]
    BY <1>2, <2>1 DEF TypeOK, TaskState, Alive
  <2>2. CASE task' = [task EXCEPT ![t] = Free]
    BY <1>2, <2>2 DEF TypeOK, Alive
  <2>3. QED
    BY <1>3, <2>1, <2>2
<1>5. TypeOK'
  BY <1>1, <1>4 DEF TypeOK
<1>6. NoLeakedTask'
  BY <1>1, <1>4 DEF NoLeakedTask, Uncancelled, Alive, Tracked
<1>7. TokensName'
  <2>1. \A i \in Ids : Tracked(i) => tokens[i].task \in Tasks
    BY DEF TypeOK, Token, Tracked
  <2>2. QED
    BY <1>1, <1>4, <2>1 DEF TokensName, Alive, Tracked
<1>8. NothingMissed'
  BY <1>1 DEF NothingMissed, Tracked
<1>9. QED
  BY <1>5, <1>6, <1>7, <1>8

LEMMA InvariantKept == SchedInv /\ [Next]_schedVars => SchedInv'
<1> SUFFICES ASSUME SchedInv, [Next]_schedVars PROVE SchedInv'
  OBVIOUS
<1>1. ASSUME NEW l \in Lists, Publish(l) PROVE SchedInv'
  BY <1>1, PublishKeeps
<1>2. CASE Reload
  BY <1>2, ReloadKeeps
<1>3. CASE RequestShutdown
  BY <1>3 DEF SchedInv, TypeOK, NoLeakedTask, NothingMissed, TokensName, RequestShutdown, Uncancelled, Alive, Tracked
<1>4. CASE StopRunning
  BY <1>4, StopRunningKeeps
<1>5. ASSUME NEW t \in Tasks, TaskStep(t) PROVE SchedInv'
  BY <1>5, TaskStepKeeps
<1>6. CASE UNCHANGED schedVars
  BY <1>6 DEF SchedInv, TypeOK, NoLeakedTask, NothingMissed, TokensName, schedVars, Uncancelled, Alive, Tracked
<1>7. QED
  BY <1>1, <1>2, <1>3, <1>4, <1>5, <1>6 DEF Next

\* The invariant of the scheduler: types, the three named parts.
THEOREM Invariance == Spec => []SchedInv
<1>1. SchedInv /\ [Next]_schedVars => SchedInv'
  BY InvariantKept
<1>2. QED
  BY <1>1, InitEstablishes, PTL DEF Spec

\* The scheduler's variables keep their types (run, diff_and_reload).
THEOREM TypeCorrect == Spec => []TypeOK
<1>1. SchedInv => TypeOK
  BY DEF SchedInv
<1>2. QED
  BY <1>1, Invariance, PTL

\* Whatever the list goes through and however notifications coalesce, a task
\* that was not told to stop is the one diff_and_reload's map can still cancel.
THEOREM NoTaskLeaks == Spec => []NoLeakedTask
<1>1. SchedInv => NoLeakedTask
  BY DEF SchedInv
<1>2. QED
  BY <1>1, Invariance, PTL

\* With no notification pending, task_tokens is what the list asks for.
THEOREM NothingIsMissed == Spec => []NothingMissed
<1>1. SchedInv => NothingMissed
  BY DEF SchedInv
<1>2. QED
  BY <1>1, Invariance, PTL

\* An entry diff_and_reload has no reason to touch keeps its task untouched.
LEMMA UndisturbedStep ==
  ASSUME SchedInv, [Next]_schedVars, running',
         NEW i \in Ids, Tracked(i), tokens[i].key = list[i]
  PROVE  /\ tokens'[i] = tokens[i]
         /\ Uncancelled(tokens[i].task) /\ ~shutdown => Uncancelled(tokens[i].task)'
<1> DEFINE t == tokens[i].task
<1>1. t \in Tasks /\ tokens[i].key \in Keys
  BY DEF SchedInv, TypeOK, Token, Tracked
<1>2. CASE Reload
  <2>1. PICK f \in Injection(ToStart, FreeTasks) :
          /\ tokens' = [j \in Ids |-> IF j \in ToStart
                                      THEN [task |-> f[j], key |-> list[j]]
                                      ELSE IF j \in Unwanted THEN NoToken
                                      ELSE tokens[j]]
          /\ task' = [u \in Tasks |->
                        IF \E j \in ToStart : f[j] = u
                        THEN LET j == CHOOSE k \in ToStart : f[k] = u
                             IN  Spawned(j, list[j])
                        ELSE IF u \in ToCancel THEN Cancelled(task[u])
                        ELSE task[u]]
    BY <1>2 DEF Reload
  <2>2. i \notin ToStart /\ i \notin Unwanted
    BY <1>1, SchedulerAssumption DEF ToStart, Unchanged, Unwanted
  <2>3. \A j \in ToStart : f[j] \in FreeTasks
    BY <2>1 DEF Injection
  <2>4. t \notin FreeTasks
    BY DEF FreeTasks
  <2>5. t \notin ToCancel
    <3>1. \A j \in Ids : Tracked(j) /\ tokens[j].task = t => j = i
      BY DEF SchedInv, TokensName
    <3>2. QED
      BY <2>2, <3>1 DEF ToCancel, Unwanted, ToStart, Enabled
  <2>6. task'[t] = task[t]
    BY <1>1, <2>1, <2>3, <2>4, <2>5, ReloadTasks DEF SchedInv
  <2>7. tokens'[i] = tokens[i]
    BY <2>1, <2>2
  <2>8. QED
    BY <2>6, <2>7 DEF Uncancelled, Alive
<1>3. CASE StopRunning
  BY <1>3 DEF StopRunning
<1>4. ASSUME NEW u \in Tasks, TaskStep(u), Uncancelled(t), ~shutdown
      PROVE  Uncancelled(t)'
  <2>1. task \in [Tasks -> TaskState \cup {Free}]
    BY DEF SchedInv, TypeOK
  <2>2. CASE StopTask(u)
    <3>1. u # t
      BY <1>4, <2>2 DEF StopTask, Uncancelled
    <3>2. task'[t] = task[t]
      BY <1>1, <2>1, <2>2, <3>1 DEF StopTask
    <3>3. QED
      BY <1>4, <2>2, <3>2 DEF Uncancelled, Alive, StopTask
  <2>3. ASSUME NEW pc \in {"wait", "probe"}, Move(u, pc)
        PROVE  Uncancelled(t)'
    <3>1. task[t] \in TaskState
      BY <1>1, <1>4, <2>1 DEF Uncancelled, Alive
    <3>2. task'[t] \in TaskState /\ task'[t].cancelled = task[t].cancelled
      BY <1>1, <2>1, <2>3, <3>1 DEF Move, TaskState
    <3>3. QED
      BY <1>4, <2>3, <3>2, FreeIsNoState DEF Uncancelled, Alive, Move
  <2>4. QED
    BY <1>4, <2>2, <2>3 DEF TaskStep, JitterEnds, Tick, ProbeEnds
<1>5. ASSUME NEW u \in Tasks, TaskStep(u)
      PROVE  tokens'[i] = tokens[i]
  BY <1>5 DEF TaskStep, JitterEnds, Tick, ProbeEnds, StopTask, Move
<1>6. ASSUME NEW l \in Lists, Publish(l)
      PROVE  tokens' = tokens /\ task' = task
  BY <1>6 DEF Publish
<1>7. CASE RequestShutdown \/ UNCHANGED schedVars
  BY <1>7 DEF RequestShutdown, schedVars, Uncancelled, Alive
<1>8. QED
  BY <1>2, <1>3, <1>4, <1>5, <1>6, <1>7 DEF Next, Uncancelled, Alive

\* diff_and_reload leaves the unchanged monitors' tasks alone.
THEOREM Undisturbed == Spec => UnchangedUndisturbed
<1>1. SchedInv /\ [Next]_schedVars =>
        [running' => \A i \in Ids :
           Tracked(i) /\ tokens[i].key = list[i] =>
              /\ tokens'[i] = tokens[i]
              /\ Uncancelled(tokens[i].task) /\ ~shutdown
                    => Uncancelled(tokens[i].task)']_schedVars
  BY UndisturbedStep
<1>2. QED
  BY <1>1, Invariance, PTL DEF Spec, UnchangedUndisturbed
=============================================================================
