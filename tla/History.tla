--------------------------------- MODULE History ---------------------------------
(***************************************************************************)
(* The queries of a monitor's page (src/src/db/mod.rs): the series, the    *)
(* results of a window in at most n buckets, from the raw rows or from the *)
(* rollup per minute; and the segments, the spans in which the state of a  *)
(* monitor, or of a border monitor's hop, was the same.                    *)
(*                                                                         *)
(* Instants are milliseconds, of which a second has Milli; a minute has    *)
(* Minute seconds. The rollup of a minute is what Rollup checks it to be,  *)
(* the minute's results; a bucket is the set of results it sums up, which  *)
(* fixes its counts, averages and extremes.                                *)
(***************************************************************************)
EXTENDS Integers, Sequences, SequencesExt

CONSTANTS
    Milli,          \* milliseconds of a second, 1000
    Minute,         \* seconds of a minute, 60
    Outcomes,       \* what a probe may record: up or not, and a detail
    Gaps,           \* milliseconds between two results
    MaxRows,        \* bound: results
    MaxBuckets,     \* bound: buckets asked for
    Instants        \* ends of the windows asked for

\* A detail has a leading token and, of a border probe, an answer or none of the hops
\* it measured; a result without a detail has no token and no hops.
Hops == {"local", "isp", "upstream"}
NoToken == "none"

ASSUME HistoryAssumption ==
    /\ {Milli, Minute, MaxBuckets} \subseteq Nat \ {0}
    /\ Gaps \subseteq Nat \ {0}
    /\ MaxRows \in Nat
    /\ Instants \subseteq Nat
    /\ \A o \in Outcomes : o.up \in BOOLEAN /\ o.hops \in UNION {[S -> BOOLEAN] : S \in SUBSET Hops}

VARIABLES
    results,    \* the monitor's probe_results, in the order of their times
    rolled      \* the rollup holds the minutes that begin before this second

historyVars == <<results, rolled>>

HistoryInit == results = <<>> /\ rolled = 0

NextTime(gap) == gap + IF results = <<>> THEN 0 ELSE Last(results).at

InsertResult(gap, o) ==
    /\ Len(results) < MaxRows
    /\ results' = Append(results, [at |-> NextTime(gap), up |-> o.up, token |-> o.token, hops |-> o.hops])
    /\ UNCHANGED rolled

\* The second in which a result's minute begins.
MinuteOf(r) == ((r.at \div Milli) \div Minute) * Minute

RollUp ==
    /\ results # <<>>
    /\ rolled' = MinuteOf(Last(results)) + Minute
    /\ UNCHANGED results

HistoryNext ==
    \/ \E gap \in Gaps, o \in Outcomes : InsertResult(gap, o)
    \/ RollUp

HistorySpec == HistoryInit /\ [][HistoryNext]_historyVars

\* WHERE checked_at >= from AND checked_at <= to; a result is its place in the order of times.
InWindow(from, to) == {k \in DOMAIN results : results[k].at \in from .. to}
-----------------------------------------------------------------------------
(* The series *)

Least(m, n) == IF m <= n THEN m ELSE n
AtLeastOne(n) == IF n < 1 THEN 1 ELSE n

\* Mutation: without the limit.
SlotUnbounded(time, from, n, span) == ((time - from) * n) \div span

\* The bucket of a time of the window; its very end belongs to the last one.
Slot(time, from, n, span) == Least(n - 1, ((time - from) * n) \div span)

\* One bucket of an answer: its label is the second it begins in.
Bucket(b, from, n, spanSecs, inside) ==
    [no |-> b, ts |-> from + (b * spanSecs) \div n, inside |-> inside]

\* GROUP BY bucket, of results with their slots.
Buckets(slot, from, n, spanSecs) ==
    {Bucket(b, from, n, spanSecs, {k \in DOMAIN slot : slot[k] = b}) :
        b \in {slot[k] : k \in DOMAIN slot}}

Second(time) == time \div Milli
Span(from, to) == AtLeastOne(Second(to) - Second(from))

\* The raw path of get_series.
RawSeries(from, to, n) ==
    Buckets([k \in InWindow(from, to) |-> Slot(results[k].at, from, n, AtLeastOne(to - from))],
            Second(from), n, Span(from, to))

\* get_series_rollup: whole minutes, by their beginning.
RollupSeries(from, to, n) ==
    LET inWindow == {k \in DOMAIN results : /\ MinuteOf(results[k]) < rolled
                                            /\ MinuteOf(results[k]) \in Second(from) .. Second(to)}
    IN  Buckets([k \in inWindow |-> Slot(MinuteOf(results[k]), Second(from), n, Span(from, to))],
                Second(from), n, Span(from, to))

FromRollup(from, to, n) == Span(from, to) \div n >= Minute /\ RollupSeries(from, to, n) # {}

GetSeries(from, to, n) ==
    IF FromRollup(from, to, n) THEN RollupSeries(from, to, n) ELSE RawSeries(from, to, n)
-----------------------------------------------------------------------------
(* The segments *)

Segment(state, start, end) == [state |-> state, start |-> start, end |-> end]

\* Mutation: a segment ends with the last result that was in it.
CloseNever(segs, time) == segs

CloseAt(segs, time) == IF segs = <<>> THEN segs ELSE [segs EXCEPT ![Len(segs)].end = time]

\* The fold of get_state_segments and, for each hop, of get_border_hop_segments.
Extend(segs, state, time) ==
    IF segs # <<>> /\ Last(segs).state = state THEN CloseAt(segs, time)
    ELSE Append(CloseAt(segs, time), Segment(state, time, time))

\* The segments after the first k results, of which those in the window are streamed.
SegmentsAfter(states, from, to) ==
    LET segs[k \in 0 .. Len(results)] ==
            IF k = 0 THEN <<>>
            ELSE IF k \in InWindow(from, to) THEN Extend(segs[k - 1], states[k], results[k].at)
            ELSE segs[k - 1]
    IN  segs

Collapse(states, from, to) == CloseAt(SegmentsAfter(states, from, to)[Len(results)], to)

\* The state of the monitor in each result: the leading token of its detail.
Tokens == [k \in DOMAIN results |-> results[k].token]

GetStateSegments(from, to) == Collapse(Tokens, from, to)

\* parse_border_hop_states
HopState(r, hop) ==
    IF hop \notin DOMAIN r.hops THEN NoToken ELSE IF r.hops[hop] THEN "up" ELSE "down"

HopStates(hop) == [k \in DOMAIN results |-> HopState(results[k], hop)]

GetHopSegments(hop, from, to) == Collapse(HopStates(hop), from, to)
-----------------------------------------------------------------------------
(* Properties *)

Windows == {w \in Instants \X Instants : w[1] <= w[2]}

\* Whole minutes, with no result that the rollup lacks or the window cuts off.
WholeMinutes(from, to, n) ==
    /\ from % (Minute * Milli) = 0
    /\ (to - from) % (Minute * Milli * n) = 0
    /\ \A k \in DOMAIN results :
        MinuteOf(results[k]) \in Second(from) .. Second(to) =>
            results[k].at <= to /\ MinuteOf(results[k]) < rolled

\* A series has at most the buckets asked for, a result is in at most one of them, and
\* none is labelled later than a result in it. From the raw rows it holds the window's
\* results and no other; from the rollup it is, where the window and its buckets are
\* whole minutes, the same series: "lets coarser re-bucketing stay exact".
SeriesExact ==
    results # <<>> => \A w \in Windows, n \in 1 .. MaxBuckets :
        LET from == w[1]
            to == w[2]
            series == GetSeries(from, to, n)
        IN  /\ \A b \in series :
                /\ b.no \in 0 .. n - 1
                /\ \A k \in b.inside : b.ts \in Second(from) .. Second(results[k].at)
                /\ \A c \in series : c = b \/ c.inside \cap b.inside = {}
            /\ ~FromRollup(from, to, n) =>
                UNION {b.inside : b \in series} = InWindow(from, to)
            /\ WholeMinutes(from, to, n) => series = RawSeries(from, to, n)

Explains(segs, states, from, to) ==
    LET observed == InWindow(from, to)
    IN  /\ segs = <<>> <=> observed = {}
        /\ segs # <<>> => Last(segs).end = to /\ \A j \in observed : segs[1].start <= results[j].at
        /\ \A i \in 1 .. Len(segs) - 1 :
            segs[i].end = segs[i + 1].start /\ segs[i].state # segs[i + 1].state
        /\ \A i \in DOMAIN segs :
            \E j \in observed : segs[i].start = results[j].at /\ segs[i].state = states[j]
        /\ \A i \in DOMAIN segs, j \in observed :
            results[j].at \in segs[i].start .. segs[i].end =>
                \/ states[j] = segs[i].state
                \/ i < Len(segs) /\ results[j].at = segs[i].end

\* The segments of a window tell what every result in it said: they follow each other
\* without a gap from the first result to the window's end, a new one exactly where
\* the state changed; of the monitor, and of each hop of its path by itself.
SegmentsExact ==
    results # <<>> => \A w \in Windows :
        /\ Explains(GetStateSegments(w[1], w[2]), Tokens, w[1], w[2])
        /\ \A hop \in Hops :
            Explains(GetHopSegments(hop, w[1], w[2]), HopStates(hop), w[1], w[2])
=============================================================================
