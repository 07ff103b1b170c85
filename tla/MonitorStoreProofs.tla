-------------------------- MODULE MonitorStoreProofs --------------------------
(***************************************************************************)
(* Proofs about MonitorStore, for any sets of requests, names and settings *)
(* and any bounds.                                                         *)
(***************************************************************************)
EXTENDS MonitorStore, TLAPS

\* A statement that writes a configuration writes a validated one: only those
\* and rows of the snapshot reach the database.
SubmittedIsValid(q) == q \in Request /\ (q.op # "delete" => q.config \in Config)

TypeInv ==
    /\ TypeOK
    /\ \A r \in Requests :
         req[r] # Idle /\ req[r].pc \in {"lock", "db", "swap"}
           /\ req[r].op \in {"add", "update"} => req[r].config \in Config
    /\ \A r \in Requests :
         req[r] # Idle /\ req[r].pc \in {"db", "swap"} => SubmittedIsValid(req[r])
    /\ \A s \in orphans : SubmittedIsValid(s)

LEMMA ConfigIsClientConfig == Config \subseteq ClientConfig
  BY StoreAssumption DEF Config, ClientConfig, Registry!Config

LEMMA IdleIsNoRequest == \A q \in Request \cup {Idle} :
                           (q = Idle <=> q.pc = "idle") /\ (q # Idle => q \in Request)
  BY DEF Request, Idle, PCs

\* Running a submitted statement keeps the table well typed.
LEMMA ExecuteType ==
  ASSUME TypeOK, NEW s, SubmittedIsValid(s), Execute(s)
  PROVE  /\ table' \in [Ids -> Config \cup {NoMonitor}]
         /\ nextId' \in 1 .. MaxId + 1
         /\ SubmittedIsValid(Bound(s))
<1>1. CASE s.op = "add"
  <2>1. FreshId \in Ids /\ Bound(s) = [s EXCEPT !.id = FreshId]
    BY <1>1 DEF Execute, Bound
  <2>2. Bound(s) \in Request /\ Bound(s).config = s.config /\ Bound(s).op = "add"
    BY <1>1, <2>1 DEF SubmittedIsValid, Request
  <2>3. QED
    BY <1>1, <2>1, <2>2, StoreAssumption
    DEF TypeOK, SubmittedIsValid, Execute, Effect, Apply, FreshId, Ids, Registry!Ids
<1>2. CASE s.op # "add"
  <2>1. Bound(s) = s /\ nextId' = nextId /\ table' = Effect(table, s)
    BY <1>2 DEF Bound, Execute
  <2>2. Effect(table, s) \in [Ids -> Config \cup {NoMonitor}]
    BY <1>2 DEF TypeOK, SubmittedIsValid, Effect, Apply
  <2>3. QED
    BY <2>1, <2>2 DEF TypeOK
<1>3. QED
  BY <1>1, <1>2

\* The table, the snapshot, the lock and the requests keep their types.
THEOREM TypeCorrect == Spec => []TypeInv
<1>1. Init => TypeInv
  BY StoreAssumption DEF Init, TypeInv, TypeOK, Ids, Registry!Ids, Idle
<1>2. TypeInv /\ [Next]_vars => TypeInv'
  <2> SUFFICES ASSUME TypeInv, [Next]_vars PROVE TypeInv'
    OBVIOUS
  <2> USE StoreAssumption, ConfigIsClientConfig, IdleIsNoRequest
  <2>1. ASSUME NEW r \in Requests, Arrive(r) PROVE TypeInv'
    BY <2>1 DEF Arrive, TypeInv, TypeOK, Request, PCs, Idle, SubmittedIsValid
  <2>2. ASSUME NEW r \in Requests, Validate(r) PROVE TypeInv'
    BY <2>2 DEF Validate, Accepted, Goto, Answer, TypeInv, TypeOK, Request, PCs, Idle, SubmittedIsValid,
       Config, ClientConfig, Registry!Config
  <2>3. ASSUME NEW r \in Requests, Acquire(r) PROVE TypeInv'
    <3>1. CASE Refused(req[r])
      BY <2>3, <3>1 DEF Acquire, Answer, TypeInv, TypeOK, Idle
    <3>2. CASE ~Refused(req[r])
      <4> DEFINE q == Statement(req[r])
      <4>1. req[r] \in Request /\ req[r].pc = "lock"
        BY <2>3 DEF Acquire, TypeInv, TypeOK
      <4>2. SubmittedIsValid(q)
        <5>1. CASE req[r].op = "set_enabled"
          <6>1. inner[req[r].id] \in Config
            BY <3>2, <4>1, <5>1 DEF Refused, TypeInv, TypeOK, Live, Registry!Live, Ids, Request
          <6>2. req[r].config.enabled \in BOOLEAN
            BY <4>1 DEF Request, ClientConfig
          <6>3. [inner[req[r].id] EXCEPT !.enabled = req[r].config.enabled] \in Config
            BY <6>1, <6>2 DEF Config, Registry!Config
          <6>4. QED
            BY <4>1, <5>1, <6>3 DEF Statement, SubmittedIsValid, Request
        <5>2. CASE req[r].op \in {"add", "update"}
          BY <4>1, <5>2 DEF Statement, SubmittedIsValid, TypeInv, Idle, Request
        <5>3. CASE req[r].op = "delete"
          BY <4>1, <5>3 DEF Statement, SubmittedIsValid
        <5>4. QED
          BY <4>1, <5>1, <5>2, <5>3 DEF Request, Ops
      <4>3. SubmittedIsValid([q EXCEPT !.pc = "db"])
        BY <4>2 DEF SubmittedIsValid, Request, PCs
      <4>4. QED
        BY <2>3, <3>2, <4>3 DEF Acquire, TypeInv, TypeOK, SubmittedIsValid
    <3>3. QED
      BY <3>1, <3>2
  <2>4. ASSUME NEW r \in Requests, Commit(r) PROVE TypeInv'
    BY <2>4, ExecuteType DEF Commit, Locked, Bound, TypeInv, TypeOK, Request, PCs, Idle, SubmittedIsValid
  <2>5. ASSUME NEW r \in Requests, Fail(r) PROVE TypeInv'
    BY <2>5 DEF Fail, Locked, Answer, TypeInv, TypeOK, Request, PCs, Idle, SubmittedIsValid
  <2>6. ASSUME NEW r \in Requests, Swap(r) PROVE TypeInv'
    BY <2>6 DEF Swap, Apply, Answer, TypeInv, TypeOK, Request, PCs, Idle, SubmittedIsValid
  <2>7. ASSUME NEW r \in Requests, Disconnect(r) PROVE TypeInv'
    BY <2>7 DEF Disconnect, Answer, TypeInv, TypeOK, Request, PCs, Idle, SubmittedIsValid
  <2>8. ASSUME NEW s \in orphans, OrphanEnds(s) PROVE TypeInv'
    BY <2>8, ExecuteType DEF OrphanEnds, TypeInv, TypeOK
  <2>9. CASE Restart
    BY <2>9 DEF Restart, TypeInv, TypeOK, Idle
  <2>10. CASE UNCHANGED vars
    BY <2>10 DEF vars, TypeInv, TypeOK
  <2>11. QED
    BY <2>1, <2>2, <2>3, <2>4, <2>5, <2>6, <2>7, <2>8, <2>9, <2>10 DEF Next, Handler
<1>3. QED
  BY <1>1, <1>2, PTL DEF Spec
-----------------------------------------------------------------------------
(* Refinement *)

\* Running a submitted statement is one registry change, or none at all.
LEMMA ExecuteIsRegistryStep ==
  ASSUME TypeOK, NEW s, SubmittedIsValid(s), Execute(s)
  PROVE  [Registry!Next]_(Registry!vars)
<1> USE DEF Execute, Effect, Apply, Bound, UniqueHolds, FreshId, Ids, Config, Live, NameFree, SubmittedIsValid
<1>1. CASE s.op = "add"
  <2>1. Bound(s).op = "add" /\ Bound(s).id = nextId /\ Bound(s).config = s.config
    BY <1>1 DEF Request
  <2>2. Registry!Add(s.config)
    BY <1>1, <2>1 DEF Registry!Add
  <2>3. QED
    BY <1>1, <2>2 DEF Registry!Next
<1>2. CASE s.op # "add" /\ s.id \notin Live(table)
  BY <1>2 DEF Registry!vars
<1>3. CASE s.op = "delete" /\ s.id \in Live(table)
  BY <1>3 DEF Registry!Next, Registry!Remove, Registry!Live
<1>4. CASE s.op \notin {"add", "delete"} /\ s.id \in Live(table)
  <2>1. Registry!Replace(s.id, s.config)
    BY <1>4 DEF Registry!Replace
  <2>2. QED
    BY <1>4, <2>1 DEF Registry!Next, Registry!Live
<1>5. QED
  BY <1>1, <1>2, <1>3, <1>4

\* Every step is a registry step or leaves the registry alone.
LEMMA StepIsRegistryStep ==
  ASSUME TypeInv, [Next]_vars
  PROVE  [Registry!Next]_(Registry!vars)
<1>1. ASSUME NEW r \in Requests, Commit(r) PROVE [Registry!Next]_(Registry!vars)
  <2>1. SubmittedIsValid(req[r])
    BY <1>1 DEF Commit, Locked, TypeInv, Idle
  <2>2. QED
    BY <1>1, <2>1, ExecuteIsRegistryStep DEF Commit, TypeInv
<1>2. ASSUME NEW s \in orphans, OrphanEnds(s) PROVE [Registry!Next]_(Registry!vars)
  BY <1>2, ExecuteIsRegistryStep DEF OrphanEnds, TypeInv, Registry!vars
<1>3. ASSUME NEW r \in Requests,
             Arrive(r) \/ Validate(r) \/ Acquire(r) \/ Fail(r) \/ Swap(r) \/ Disconnect(r)
      PROVE [Registry!Next]_(Registry!vars)
  BY <1>3 DEF Arrive, Validate, Acquire, Fail, Swap, Disconnect, Registry!vars
<1>4. CASE Restart \/ UNCHANGED vars
  BY <1>4 DEF Restart, vars, Registry!vars
<1>5. QED
  BY <1>1, <1>2, <1>3, <1>4 DEF Next, Handler

\* The handlers, abandoned statements and restarts implement the registry:
\* whatever requests interleave, fail or are dropped, the monitors table only
\* ever takes atomic registry steps.
THEOREM Implementation == Spec => ImplementsRegistry
<1>1. Init => Registry!Init
  BY DEF Init, Registry!Init, Ids
<1>2. TypeInv /\ [Next]_vars => [Registry!Next]_(Registry!vars)
  BY StepIsRegistryStep
<1>3. QED
  BY <1>1, <1>2, TypeCorrect, PTL DEF Spec, ImplementsRegistry, Registry!Spec

\* An id that was handed out and names no row never names one again.
THEOREM NoReuse == Spec => IdsNeverReused
<1>1. [Registry!Next]_(Registry!vars)
        => [\A i \in 1 .. nextId - 1 : table[i] = NoMonitor => table'[i] = NoMonitor]_(Registry!vars)
  <2> SUFFICES ASSUME [Registry!Next]_(Registry!vars), ~UNCHANGED Registry!vars,
                      NEW i \in 1 .. nextId - 1, table[i] = NoMonitor
               PROVE  table'[i] = NoMonitor
    BY DEF Registry!vars
  <2>1. CASE \E c \in Registry!Config : Registry!Add(c)
    BY <2>1 DEF Registry!Add, Registry!Ids
  <2>2. CASE \E j \in Registry!Ids, c \in Registry!Config : Registry!Replace(j, c)
    BY <2>2 DEF Registry!Replace, Registry!Live
  <2>3. CASE \E j \in Registry!Ids : Registry!Remove(j)
    BY <2>3 DEF Registry!Remove
  <2>4. QED
    BY <2>1, <2>2, <2>3 DEF Registry!Next
<1>2. QED
  BY <1>1, Implementation, PTL DEF ImplementsRegistry, Registry!Spec, IdsNeverReused, Registry!IdsNeverReused
-----------------------------------------------------------------------------
(* The snapshot *)

\* What was checked under the guard stays true while it is held: nobody else
\* changes the snapshot.
TargetListed ==
    \A r \in Requests :
      req[r].pc = "db" /\ req[r].op # "add" => req[r].id \in Live(inner)

NoOrphans == drops = 0 => orphans = {}

SnapshotInv ==
    /\ TypeInv
    /\ GuardOnlyInCall
    /\ TableNamesUnique
    /\ TargetListed
    /\ NoOrphans
    /\ SnapshotTracksTable
    /\ SnapshotNamesUnique

\* A registry step keeps names unique.
LEMMA RegistryKeepsNamesUnique ==
  ASSUME TypeOK, TableNamesUnique, [Registry!Next]_(Registry!vars)
  PROVE  TableNamesUnique'
<1> USE DEF TableNamesUnique, Registry!NamesUnique, Live, NameFree, Registry!Live, Registry!NameFree, TypeOK, Ids
<1>1. CASE \E c \in Registry!Config : Registry!Add(c)
  BY <1>1 DEF Registry!Add
<1>2. CASE \E i \in Registry!Ids, c \in Registry!Config : Registry!Replace(i, c)
  BY <1>2 DEF Registry!Replace
<1>3. CASE \E i \in Registry!Ids : Registry!Remove(i)
  BY <1>3 DEF Registry!Remove
<1>4. CASE UNCHANGED Registry!vars
  BY <1>4 DEF Registry!vars
<1>5. QED
  BY <1>1, <1>2, <1>3, <1>4 DEF Registry!Next

\* The inductive step of SnapshotInv, the parts other than the type.
LEMMA SnapshotStep ==
  ASSUME SnapshotInv, TypeInv', [Next]_vars
  PROVE  SnapshotInv'
<1> USE DEF SnapshotInv, TypeInv, TypeOK
<1>0. TableNamesUnique'
  BY StepIsRegistryStep, RegistryKeepsNamesUnique
<1>1. ASSUME NEW r \in Requests, Arrive(r) PROVE SnapshotInv'
  <2>1. \E q \in Request : q.pc \in {"validate", "lock"} /\ req' = [req EXCEPT ![r] = q]
    BY <1>1 DEF Arrive, Request, PCs
  <2>2. QED
    BY <1>0, <1>1, <2>1 DEF Arrive, GuardOnlyInCall, TargetListed, NoOrphans, SnapshotTracksTable, SnapshotNamesUnique
<1>2. ASSUME NEW r \in Requests, Validate(r) PROVE SnapshotInv'
  <2>1. req'[r].pc \in {"idle", "lock"} /\ req' = [req EXCEPT ![r] = req'[r]]
    <3>1. Idle.pc = "idle"
      BY DEF Idle
    <3>2. req[r] \in Request
      BY <1>2 DEF Validate, Idle
    <3>3. [req[r] EXCEPT !.pc = "lock"].pc = "lock"
      BY <3>2 DEF Request
    <3>4. QED
      <4>1. CASE Accepted(req[r])
        <5>1. req' = [req EXCEPT ![r] = [req[r] EXCEPT !.pc = "lock"]]
          BY <1>2, <4>1 DEF Validate, Goto
        <5>2. QED
          BY <3>3, <5>1
      <4>2. CASE ~Accepted(req[r])
        BY <1>2, <3>1, <4>2 DEF Validate, Answer
      <4>3. QED
        BY <4>1, <4>2
  <2>2. lock = NoRequest /\ UNCHANGED <<table, inner, lock, orphans, drops>>
    BY <1>2 DEF Validate
  <2>3. QED
    BY <1>0, <2>1, <2>2, StoreAssumption
    DEF GuardOnlyInCall, TargetListed, NoOrphans, SnapshotTracksTable, SnapshotNamesUnique
<1>3. ASSUME NEW r \in Requests, Acquire(r) PROVE SnapshotInv'
  <2>0. lock = NoRequest /\ UNCHANGED <<table, inner, orphans, drops>>
    BY <1>3 DEF Acquire
  <2>1. CASE Refused(req[r])
    BY <1>0, <1>3, <2>0, <2>1, StoreAssumption
    DEF Acquire, Answer, Idle, GuardOnlyInCall, TargetListed, NoOrphans, SnapshotTracksTable, SnapshotNamesUnique
  <2>2. CASE ~Refused(req[r])
    <3> DEFINE q == [Statement(req[r]) EXCEPT !.pc = "db"]
    <3>1. req[r] \in Request
      BY <1>3 DEF Acquire, Idle
    <3>2. q.pc = "db" /\ q.op = req[r].op /\ q.id = req[r].id
      BY <3>1 DEF Statement, Request
    <3>3. q.op # "add" => q.id \in Live(inner)
      BY <2>2, <3>2 DEF Refused
    <3>4. req' = [req EXCEPT ![r] = q] /\ lock' = r
      BY <1>3, <2>2 DEF Acquire
    <3> HIDE DEF q
    <3>5. QED
      BY <1>0, <2>0, <3>2, <3>3, <3>4, StoreAssumption
      DEF GuardOnlyInCall, TargetListed, NoOrphans, SnapshotTracksTable, SnapshotNamesUnique
  <2>3. QED
    BY <2>1, <2>2
<1>4. ASSUME NEW r \in Requests, Commit(r) PROVE SnapshotInv'
  <2> DEFINE s == Bound(req[r])
             q == [s EXCEPT !.pc = "swap"]
  <2>1. lock = r /\ req[r].pc = "db" /\ UNCHANGED <<inner, lock, orphans, drops>>
    BY <1>4 DEF Commit, Locked
  <2>2. req[r] \in Request
    BY <2>1 DEF Idle
  <2>3. q.pc = "swap" /\ q.op = req[r].op /\ q.id = s.id /\ q.config = s.config /\ s.op = req[r].op
    BY <2>2 DEF Bound, Request
  <2>4. req' = [req EXCEPT ![r] = q]
    BY <1>4 DEF Commit
  <2>5. table' = Effect(table, s)
    BY <1>4 DEF Commit, Execute
  <2>6. drops = 0 => table = inner
    BY <2>1 DEF SnapshotTracksTable
  <2>7. drops = 0 => Effect(table, s) = Apply(inner, s)
    BY <2>1, <2>3, <2>6 DEF Effect, TargetListed, Bound
  <2>8. Apply(inner, q) = Apply(inner, s)
    BY <2>3 DEF Apply
  <2>9. SnapshotTracksTable'
    BY <2>1, <2>3, <2>4, <2>5, <2>7, <2>8, StoreAssumption DEF SnapshotTracksTable, Apply
  <2> HIDE DEF q, s
  <2>10. GuardOnlyInCall' /\ TargetListed' /\ NoOrphans' /\ SnapshotNamesUnique'
    BY <2>1, <2>3, <2>4 DEF GuardOnlyInCall, TargetListed, NoOrphans, SnapshotNamesUnique
  <2>11. QED
    BY <1>0, <2>9, <2>10
<1>5. ASSUME NEW r \in Requests, Fail(r) PROVE SnapshotInv'
  BY <1>0, <1>5, StoreAssumption DEF Fail, Locked, Answer, Idle, GuardOnlyInCall, TargetListed, NoOrphans,
     SnapshotTracksTable, SnapshotNamesUnique
<1>6. ASSUME NEW r \in Requests, Swap(r) PROVE SnapshotInv'
  BY <1>0, <1>6, StoreAssumption DEF Swap, Answer, Idle, GuardOnlyInCall, TargetListed, NoOrphans, TableNamesUnique,
     Registry!NamesUnique, Live, NameFree,
     SnapshotTracksTable, SnapshotNamesUnique
<1>7. ASSUME NEW r \in Requests, Disconnect(r) PROVE SnapshotInv'
  BY <1>0, <1>7, StoreAssumption DEF Disconnect, Answer, Idle, GuardOnlyInCall, TargetListed, NoOrphans,
     SnapshotTracksTable, SnapshotNamesUnique
<1>8. ASSUME NEW s \in orphans, OrphanEnds(s) PROVE SnapshotInv'
  BY <1>0, <1>8 DEF OrphanEnds, GuardOnlyInCall, TargetListed, NoOrphans, SnapshotTracksTable, SnapshotNamesUnique
<1>9. CASE Restart
  BY <1>0, <1>9, StoreAssumption DEF Restart, Idle, GuardOnlyInCall, TargetListed, NoOrphans, TableNamesUnique,
     Registry!NamesUnique, Live, NameFree,
     SnapshotTracksTable, SnapshotNamesUnique
<1>10. CASE UNCHANGED vars
  BY <1>0, <1>10 DEF vars, GuardOnlyInCall, TargetListed, NoOrphans, SnapshotTracksTable, SnapshotNamesUnique
<1>11. QED
  BY <1>1, <1>2, <1>3, <1>4, <1>5, <1>6, <1>7, <1>8, <1>9, <1>10 DEF Next, Handler

\* The three properties of the snapshot and the lock hold together.
LEMMA SnapshotInvariant == Spec => []SnapshotInv
<1>1. Init => SnapshotInv
  BY StoreAssumption DEF Init, SnapshotInv, TypeInv, TypeOK, GuardOnlyInCall, TableNamesUnique, TargetListed, NoOrphans,
     SnapshotTracksTable, SnapshotNamesUnique, Live, Registry!Live, Registry!NamesUnique, Ids, Registry!Ids, Idle
<1>2. SnapshotInv /\ TypeInv' /\ [Next]_vars => SnapshotInv'
  BY SnapshotStep
<1>3. QED
  BY <1>1, <1>2, TypeCorrect, PTL DEF Spec

\* Until a handler is dropped, the snapshot is the table but for the change of
\* the one request between its commit and its swap, and no two monitors of the
\* snapshot share a name; in the table names are unique even then.
THEOREM SnapshotCorrect ==
  Spec => [](SnapshotTracksTable /\ SnapshotNamesUnique /\ TableNamesUnique)
<1>1. SnapshotInv => SnapshotTracksTable /\ SnapshotNamesUnique /\ TableNamesUnique
  BY DEF SnapshotInv
<1>2. QED
  BY <1>1, SnapshotInvariant, PTL

\* No early return, error or dropped handler leaves the write guard behind.
THEOREM GuardReleased == Spec => []GuardOnlyInCall
<1>1. SnapshotInv => GuardOnlyInCall
  BY DEF SnapshotInv
<1>2. QED
  BY <1>1, SnapshotInvariant, PTL

\* The table, the snapshot and every handler's request keep their types, whatever
\* configurations clients send.
THEOREM StoreTypes == Spec => []TypeOK
<1>1. TypeInv => TypeOK
  BY DEF TypeInv
<1>2. QED
  BY <1>1, TypeCorrect, PTL

\* The list that the dashboard shows never has two monitors of one name, until a handler
\* is dropped.
THEOREM SnapshotNames == Spec => []SnapshotNamesUnique
<1>1. SnapshotInv => SnapshotNamesUnique
  BY DEF SnapshotInv
<1>2. QED
  BY <1>1, SnapshotInvariant, PTL
=============================================================================
