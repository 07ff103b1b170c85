----------------------------- MODULE RollupProofs -----------------------------
(***************************************************************************)
(* Proofs about Rollup, for any clock range, number of rows, number of     *)
(* starts and chunk length, whichever reads and chunks fail.               *)
(***************************************************************************)
EXTENDS Rollup, TLAPS

\* Only the current and the previous minute can still get rows, and only
\* completed minutes with rows are rolled up.
RecentOnly ==
    /\ \A m \in Minutes : raw[m] + inflight[m] <= MaxRows
    /\ \A m \in Minutes : inflight[m] > 0 => m >= now - 1 /\ m <= now
    /\ \A m \in Minutes : raw[m] > 0 => m <= now
    /\ \A m \in Minutes : rolled[m] # NoRow => m < now /\ raw[m] > 0

\* Where the loop is never lies ahead of the clock.
Behind ==
    /\ pc = "idle" => nextFrom <= now
    /\ pc = "rolling" => from <= nowMin /\ nowMin <= now

\* While chunks are left, everything below the next one agrees or was skipped.
ChunkReady == pc = "rolling" /\ from < nowMin => \A m \in Minutes : m < from => Passed(m)

\* Below any rolled minute but its predecessor there is no gap that is not remembered:
\* what makes the watermark a safe place to start from after a crash.
WatermarkSafe ==
    \A w \in Minutes : rolled[w] # NoRow =>
        \A m \in Minutes : m < w - 1 => Passed(m)

RollupInv ==
    TypeOK /\ RecentOnly /\ Behind /\ ChunkReady /\ WatermarkSafe /\ PassedMinutesAgree

\* What is a minute short of a bound is below it.
LEMMA TwoBelow == \A a, b \in Int : a < b - 1 => a < b /\ ~(b <= a)
  OBVIOUS

\* What is short of a bound is short of a later one.
LEMMA LaterBound == \A a, b, c \in Int : a < b - 1 /\ b <= c => a < c - 1
  OBVIOUS

LEMMA InitEstablishes == Init => RollupInv
<1> SUFFICES ASSUME Init PROVE RollupInv
  OBVIOUS
<1>1. TypeOK
  <2>1. 0 \in Minutes /\ 0 \in 0 .. MaxRows /\ 0 \in 0 .. MaxStarts
    BY RollupAssumption DEF Minutes
  <2>2. now \in Minutes /\ raw \in [Minutes -> 0 .. MaxRows]
    BY DEF Init
  <2>3. inflight \in [Minutes -> 0 .. MaxRows]
    BY <2>1 DEF Init
  <2>4. rolled \in [Minutes -> {NoRow} \cup 1 .. MaxRows]
    BY DEF Init
  <2>5. pc \in {"off", "idle", "rolling"} /\ backfilled \in BOOLEAN /\ skipped \subseteq Minutes
    BY DEF Init
  <2>6. nextFrom \in Minutes /\ from \in Minutes /\ nowMin \in Minutes /\ starts \in 0 .. MaxStarts
    BY <2>1 DEF Init
  <2>7. QED
    BY <2>2, <2>3, <2>4, <2>5, <2>6 DEF TypeOK
<1>2. RecentOnly
  <2>1. \A m \in Minutes : inflight[m] = 0 /\ rolled[m] = NoRow /\ raw[m] \in 0 .. MaxRows
    BY DEF Init
  <2>2. \A m \in Minutes : m >= now => raw[m] = 0
    BY DEF Init
  <2>3. QED
    BY <1>1, <2>1, <2>2, RollupAssumption DEF RecentOnly, Minutes, TypeOK
<1>3. Behind /\ ChunkReady /\ WatermarkSafe /\ PassedMinutesAgree
  BY DEF Init, Behind, ChunkReady, WatermarkSafe, PassedMinutesAgree
<1>4. QED
  BY <1>1, <1>2, <1>3 DEF RollupInv

\* A result stored late changes only minutes the loop has yet to visit.
LEMMA InsertKeeps ==
  ASSUME RollupInv, NEW k \in Minutes, Insert(k)
  PROVE  RollupInv'
<1> USE RollupAssumption DEF RollupInv
<1>1. /\ k >= now - 1 /\ inflight[k] > 0
      /\ UNCHANGED <<now, rolled, pc, nextFrom, from, nowMin, starts, backfilled, skipped>>
  BY DEF Insert, RecentOnly, loopVars, auxVars
<1>2. /\ raw' \in [Minutes -> 0 .. MaxRows] /\ inflight' \in [Minutes -> 0 .. MaxRows]
      /\ \A m \in Minutes : m # k => raw'[m] = raw[m] /\ inflight'[m] = inflight[m]
      /\ raw'[k] + inflight'[k] <= MaxRows /\ inflight'[k] <= inflight[k]
  <2>1. raw[k] + inflight[k] <= MaxRows /\ raw[k] \in Nat /\ inflight[k] \in Nat
    BY DEF TypeOK, RecentOnly
  <2>2. inflight' = [inflight EXCEPT ![k] = @ - 1]
    BY DEF Insert
  <2>3. raw' = [raw EXCEPT ![k] = @ + 1] \/ raw' = raw
    BY DEF Insert
  <2>4. QED
    BY <1>1, <2>1, <2>2, <2>3 DEF TypeOK
<1>3. \A m \in Minutes : m < now - 1 /\ Passed(m) => Passed(m)'
  BY <1>1, <1>2 DEF Passed, Agrees, Minutes, TypeOK
<1>4. TypeOK'
  BY <1>1, <1>2 DEF TypeOK
<1>5. RecentOnly'
  <2>1. \A m \in Minutes : raw'[m] + inflight'[m] <= MaxRows
    BY <1>2 DEF RecentOnly
  <2>2. \A m \in Minutes : inflight'[m] > 0 => m >= now - 1 /\ m <= now
    BY <1>1, <1>2 DEF RecentOnly
  <2>3. k <= now
    BY <1>1 DEF RecentOnly
  <2>4. \A m \in Minutes : raw'[m] > 0 => m <= now
    BY <1>2, <2>3 DEF RecentOnly
  <2>5. raw[k] > 0 => raw'[k] > 0
    BY DEF Insert, TypeOK
  <2>6. \A m \in Minutes : rolled[m] # NoRow => m < now /\ raw'[m] > 0
    BY <1>2, <2>5 DEF RecentOnly
  <2>7. QED
    BY <1>1, <2>1, <2>2, <2>4, <2>6 DEF RecentOnly
<1>6. Behind'
  BY <1>1 DEF Behind
<1>7. ChunkReady' /\ PassedMinutesAgree'
  BY <1>1, <1>3 DEF ChunkReady, PassedMinutesAgree, Behind, TypeOK, Minutes
<1>8. WatermarkSafe'
  BY <1>1, <1>3 DEF WatermarkSafe, RecentOnly, TypeOK, Minutes
<1>9. QED
  BY <1>4, <1>5, <1>6, <1>7, <1>8

\* A chunk makes everything below its end agree.
LEMMA RollChunkKeeps ==
  ASSUME RollupInv, RollChunk
  PROVE  RollupInv'
<1> USE RollupAssumption DEF RollupInv
<1> DEFINE to == Lesser(from + Chunk, nowMin)
<1>1. /\ pc = "rolling" /\ from < nowMin /\ from' = to
      /\ UNCHANGED <<now, inflight, raw, pc, nextFrom, nowMin, starts, backfilled, skipped>>
      /\ rolled' = [m \in Minutes |-> IF from <= m /\ m < to /\ raw[m] > 0 THEN raw[m] ELSE rolled[m]]
  BY DEF RollChunk, RollUpRange, auxVars
<1>2. to \in Minutes /\ from < to /\ to <= nowMin /\ nowMin <= now /\ from \in Int /\ now \in Int
  BY <1>1 DEF Lesser, TypeOK, Minutes, Behind
<1> HIDE DEF to
<1>3. \A m \in Minutes : Passed(m) => Passed(m)'
  BY <1>1, <1>2 DEF Passed, Agrees, TypeOK, Minutes
<1>4. \A m \in Minutes : m < to => Passed(m)'
  <2> SUFFICES ASSUME NEW m \in Minutes, m < to PROVE Passed(m)'
    OBVIOUS
  <2>1. CASE m < from
    BY <1>1, <1>3, <2>1 DEF ChunkReady
  <2>2. CASE m >= from /\ raw[m] > 0
    BY <1>1, <2>2 DEF Passed, Agrees
  <2>3. CASE m >= from /\ ~(raw[m] > 0)
    <3>1. rolled[m] = NoRow
      BY <2>3 DEF RecentOnly
    <3>2. QED
      BY <1>1, <2>3, <3>1 DEF Passed, Agrees
  <2>4. QED
    BY <1>2, <2>1, <2>2, <2>3 DEF Minutes
<1>5. TypeOK'
  <2>1. \A m \in Minutes : rolled'[m] \in {NoRow} \cup 1 .. MaxRows
    BY <1>1 DEF TypeOK
  <2>2. rolled' \in [Minutes -> {NoRow} \cup 1 .. MaxRows]
    BY <1>1, <2>1
  <2>3. QED
    BY <1>1, <1>2, <2>2 DEF TypeOK
<1>6. RecentOnly'
  <2>1. \A m \in Minutes : rolled'[m] # NoRow => m < now /\ raw[m] > 0
    <3> SUFFICES ASSUME NEW m \in Minutes, rolled'[m] # NoRow PROVE m < now /\ raw[m] > 0
      OBVIOUS
    <3>1. CASE m < to /\ raw[m] > 0
      <4>1. to \in Int /\ nowMin \in Int /\ m \in Int
        BY <1>2 DEF TypeOK, Minutes
      <4>2. QED
        BY <1>2, <3>1, <4>1
    <3>2. CASE ~(m < to /\ raw[m] > 0)
      <4>1. rolled[m] # NoRow
        BY <1>1, <3>2
      <4>2. QED
        BY <4>1 DEF RecentOnly
    <3>3. QED
      BY <3>1, <3>2
  <2>2. QED
    BY <1>1, <2>1 DEF RecentOnly
<1>7. Behind' /\ ChunkReady' /\ PassedMinutesAgree'
  BY <1>1, <1>2, <1>4 DEF Behind, ChunkReady, PassedMinutesAgree, Minutes
<1>8. WatermarkSafe'
  <2> SUFFICES ASSUME NEW w \in Minutes, rolled'[w] # NoRow, NEW m \in Minutes, m < w - 1
               PROVE  Passed(m)'
    BY DEF WatermarkSafe
  <2>1. CASE w < to
    BY <1>2, <1>4, <2>1 DEF Minutes
  <2>2. CASE ~(w < to)
    <3>1. rolled[w] # NoRow
      BY <1>1, <2>2
    <3>2. QED
      BY <1>3, <3>1 DEF WatermarkSafe
  <2>3. QED
    BY <2>1, <2>2
<1>9. QED
  BY <1>5, <1>6, <1>7, <1>8

\* The tick and the start take their position from where there is no gap.
LEMMA PositionKeeps ==
  ASSUME RollupInv, Start \/ TickStarts \/ ChunkFails \/ TickEnds
  PROVE  RollupInv'
<1> USE RollupAssumption DEF RollupInv
<1>1. UNCHANGED <<now, inflight, raw, rolled>>
  BY DEF Start, TickStarts, ChunkFails, TickEnds, dataVars
<1>2. RecentOnly'
  BY <1>1 DEF RecentOnly
<1>3. CASE Start
  <2>1. PICK place \in StartFrom :
          /\ nextFrom' \in {place, now}
          /\ skipped' = {m \in Minutes : m < nextFrom' - 1 /\ (m \in skipped \/ m >= place - 1)}
    BY <1>3 DEF Start
  <2>2. /\ pc' = "idle" /\ starts' = starts + 1 /\ starts < MaxStarts
        /\ UNCHANGED <<from, nowMin, backfilled>>
    BY <1>3 DEF Start
  <2>3. place \in Minutes /\ place <= now /\ \A w \in Minutes : rolled[w] # NoRow => w <= place
    <3>1. CASE RolledMinutes # {}
      <4>1. place \in Minutes /\ rolled[place] # NoRow /\ \A w \in RolledMinutes : w <= place
        BY <3>1 DEF StartFrom, RolledMinutes
      <4>2. place < now
        BY <4>1 DEF RecentOnly
      <4>3. QED
        BY <4>1, <4>2 DEF RolledMinutes, TypeOK, Minutes
    <3>2. CASE RolledMinutes = {} /\ RawMinutes # {}
      <4>1. place \in Minutes /\ raw[place] > 0
        BY <3>2 DEF StartFrom, RawMinutes
      <4>2. QED
        BY <3>2, <4>1 DEF RolledMinutes, RecentOnly
    <3>3. CASE RolledMinutes = {} /\ RawMinutes = {}
      <4>1. place = now /\ now \in Minutes
        BY <3>3 DEF StartFrom, TypeOK
      <4>2. \A w \in Minutes : rolled[w] = NoRow
        BY <3>3 DEF RolledMinutes
      <4>3. QED
        BY <4>1, <4>2 DEF Minutes
    <3>4. QED
      BY <3>1, <3>2, <3>3
  <2>4. nextFrom' \in Minutes /\ place <= nextFrom' /\ nextFrom' <= now
    BY <2>1, <2>3 DEF TypeOK, Minutes
  <2>5. ASSUME NEW m \in Minutes, m < place - 1 PROVE Passed(m)
    <3>1. CASE RolledMinutes # {}
      BY <2>5, <3>1 DEF StartFrom, RolledMinutes, WatermarkSafe
    <3>2. CASE RolledMinutes = {} /\ RawMinutes # {}
      <4>1. rolled[m] = NoRow
        BY <3>2 DEF RolledMinutes
      <4>2. m \notin RawMinutes
        <5>1. place \in {e \in RawMinutes : \A x \in RawMinutes : e <= x}
          BY <3>2 DEF StartFrom
        <5>2. ~(place <= m)
          BY <2>3, <2>5, TwoBelow DEF Minutes
        <5>3. QED
          BY <5>1, <5>2
      <4>3. QED
        BY <4>1, <4>2 DEF Passed, Agrees, RawMinutes
    <3>3. CASE RolledMinutes = {} /\ RawMinutes = {}
      BY <3>3 DEF Passed, Agrees, RolledMinutes, RawMinutes
    <3>4. QED
      BY <3>1, <3>2, <3>3
  <2>6. \A m \in Minutes : Agrees(m) => Agrees(m)'
    BY <1>1 DEF Agrees
  <2>7. ASSUME NEW m \in Minutes, m < nextFrom' - 1 PROVE Passed(m)'
    <3>1. CASE m \in skipped \/ m >= place - 1
      BY <2>1, <2>7, <3>1 DEF Passed
    <3>2. CASE m \notin skipped /\ m < place - 1
      BY <2>5, <2>6, <3>2 DEF Passed
    <3>3. QED
      BY <2>3, <3>1, <3>2 DEF Minutes
  <2>8. WatermarkSafe'
    <3> SUFFICES ASSUME NEW w \in Minutes, rolled'[w] # NoRow, NEW m \in Minutes, m < w - 1
                 PROVE  Passed(m)'
      BY DEF WatermarkSafe
    <3>1. w <= nextFrom'
      BY <1>1, <2>3, <2>4 DEF Minutes
    <3>2. m < nextFrom' - 1
      <4>1. m \in Int /\ w \in Int /\ nextFrom' \in Int
        BY <2>4 DEF Minutes
      <4>2. QED
        BY <3>1, <4>1, LaterBound
    <3>3. QED
      BY <2>7, <3>2
  <2>9. TypeOK'
    <3>1. skipped' \subseteq Minutes
      BY <2>1
    <3>2. QED
      BY <1>1, <2>2, <2>4, <3>1 DEF TypeOK
  <2>10. Behind' /\ ChunkReady' /\ PassedMinutesAgree'
    BY <1>1, <2>2, <2>4, <2>7 DEF Behind, ChunkReady, PassedMinutesAgree
  <2>11. QED
    BY <1>2, <2>8, <2>9, <2>10
<1>4. CASE TickStarts
  <2>1. /\ pc = "idle" /\ pc' = "rolling" /\ nowMin' = now /\ from' = Resume(nextFrom)
        /\ UNCHANGED <<nextFrom, starts, backfilled, skipped>>
    BY <1>4 DEF TickStarts, auxVars
  <2>2. from' \in Minutes /\ from' <= now /\ \A m \in Minutes : m < from' => m < nextFrom - 1
    BY <2>1 DEF Resume, AtLeast0, TypeOK, Minutes, Behind
  <2>3. TypeOK'
    BY <1>1, <2>1, <2>2 DEF TypeOK
  <2>4. \A m \in Minutes : m < from' => Passed(m)
    BY <2>1, <2>2 DEF PassedMinutesAgree
  <2>5. Behind'
    BY <1>1, <2>1, <2>2 DEF Behind, TypeOK, Minutes
  <2>6. ChunkReady'
    BY <1>1, <2>1, <2>4 DEF ChunkReady, Passed, Agrees
  <2>7. ASSUME NEW m \in Minutes, m < from' - 1 PROVE m < from'
    <3>1. m \in Int /\ from' \in Int
      BY <2>2 DEF Minutes
    <3>2. QED
      BY <2>7, <3>1, TwoBelow
  <2>8. PassedMinutesAgree'
    BY <1>1, <2>1, <2>4, <2>7 DEF PassedMinutesAgree, Passed, Agrees
  <2>9. WatermarkSafe'
    BY <1>1, <2>1 DEF WatermarkSafe, Passed, Agrees
  <2>10. QED
    BY <1>2, <2>3, <2>5, <2>6, <2>8, <2>9
<1>5. CASE ChunkFails \/ TickEnds
  <2>1. /\ pc = "rolling" /\ pc' = "idle" /\ nextFrom' = from
        /\ backfilled' \in BOOLEAN /\ UNCHANGED <<from, nowMin, starts, skipped>>
    BY <1>5 DEF ChunkFails, TickEnds, AfterFailure, TypeOK, auxVars
  <2>2. TypeOK'
    BY <1>1, <2>1 DEF TypeOK
  <2>3. Behind' /\ ChunkReady' /\ WatermarkSafe' /\ PassedMinutesAgree'
    BY <1>1, <2>1 DEF Behind, ChunkReady, WatermarkSafe, PassedMinutesAgree, Passed, Agrees, TypeOK, Minutes
  <2>4. QED
    BY <1>2, <2>2, <2>3
<1>6. QED
  BY <1>3, <1>4, <1>5

LEMMA InvariantKept ==
  ASSUME RollupInv, [Next]_vars
  PROVE  RollupInv'
<1> USE RollupAssumption DEF RollupInv
<1>1. CASE Stamp
  <2>1. /\ UNCHANGED <<now, raw, rolled, pc, nextFrom, from, nowMin, starts, backfilled, skipped>>
        /\ raw[now] + inflight[now] < MaxRows /\ inflight' = [inflight EXCEPT ![now] = @ + 1]
    BY <1>1 DEF Stamp, loopVars, auxVars
  <2>2. TypeOK'
    BY <2>1 DEF TypeOK
  <2>3. RecentOnly'
    BY <2>1 DEF RecentOnly, TypeOK, Minutes
  <2>4. Behind' /\ ChunkReady' /\ WatermarkSafe' /\ PassedMinutesAgree'
    BY <2>1 DEF Behind, ChunkReady, WatermarkSafe, PassedMinutesAgree, Passed, Agrees
  <2>5. QED
    BY <2>2, <2>3, <2>4
<1>2. ASSUME NEW m \in Minutes, Insert(m) PROVE RollupInv'
  BY <1>2, InsertKeeps
<1>3. CASE Clock
  <2>1. /\ UNCHANGED <<inflight, raw, rolled, pc, nextFrom, from, nowMin, starts, backfilled, skipped>>
        /\ now < LastMinute /\ now' = now + 1 /\ \A m \in 0 .. now - 1 : inflight[m] = 0
    BY <1>3 DEF Clock, loopVars, auxVars
  <2>2. TypeOK'
    BY <2>1 DEF TypeOK, Minutes
  <2>3. RecentOnly'
    BY <2>1 DEF RecentOnly, TypeOK, Minutes
  <2>4. Behind' /\ ChunkReady' /\ WatermarkSafe' /\ PassedMinutesAgree'
    BY <2>1 DEF Behind, ChunkReady, WatermarkSafe, PassedMinutesAgree, Passed, Agrees, TypeOK, Minutes
  <2>5. QED
    BY <2>2, <2>3, <2>4
<1>4. CASE Start \/ TickStarts \/ ChunkFails \/ TickEnds
  BY <1>4, PositionKeeps
<1>5. CASE RollChunk
  BY <1>5, RollChunkKeeps
<1>6. CASE Stop
  <2>1. /\ UNCHANGED <<now, raw, rolled, nextFrom, from, nowMin, starts, backfilled, skipped>>
        /\ pc' = "off" /\ inflight' = [m \in Minutes |-> 0]
    BY <1>6 DEF Stop, auxVars
  <2>2. TypeOK' /\ RecentOnly'
    BY <2>1 DEF TypeOK, RecentOnly
  <2>3. Behind' /\ ChunkReady' /\ WatermarkSafe' /\ PassedMinutesAgree'
    BY <2>1 DEF Behind, ChunkReady, WatermarkSafe, PassedMinutesAgree, Passed, Agrees
  <2>4. QED
    BY <2>2, <2>3
<1>7. CASE UNCHANGED vars
  BY <1>7 DEF vars, dataVars, loopVars, auxVars, TypeOK, RecentOnly, Behind, ChunkReady, WatermarkSafe, PassedMinutesAgree, Passed, Agrees
<1>8. QED
  BY <1>1, <1>2, <1>3, <1>4, <1>5, <1>6, <1>7 DEF Next

\* The loop's variables and the tables keep their types (rollup_loop).
THEOREM TypeCorrect == Spec => []TypeOK
<1>1. RollupInv /\ [Next]_vars => RollupInv'
  BY InvariantKept
<1>2. RollupInv => TypeOK
  BY DEF RollupInv
<1>3. QED
  BY <1>1, <1>2, InitEstablishes, PTL DEF Spec

\* Late results, failed chunks and restarts leave no minute behind: what the loop has
\* passed is rolled up exactly, but for the minutes that a start whose read failed has
\* put behind it, and for those only until a start goes back to them.
THEOREM NoMinuteSkipped == Spec => []PassedMinutesAgree
<1>1. RollupInv /\ [Next]_vars => RollupInv'
  BY InvariantKept
<1>2. RollupInv => PassedMinutesAgree
  BY DEF RollupInv
<1>3. QED
  BY <1>1, <1>2, InitEstablishes, PTL DEF Spec
=============================================================================
