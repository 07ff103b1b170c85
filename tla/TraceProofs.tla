------------------------------ MODULE TraceProofs ------------------------------
(***************************************************************************)
(* The traceroute probe and the traceroute tables, proved of Traceroute    *)
(* for any number of hops and queries and any distance of the target, and  *)
(* of TraceStore for any monitors, addresses, paths and number of runs.    *)
(***************************************************************************)
EXTENDS Traceroute, TraceStore, FiniteSetTheorems, SequenceTheorems,
        WellFoundedInduction, TLAPS

-----------------------------------------------------------------------------
(* The walk *)

\* The answers to the first queries of a hop, to all of them, and whether a node gave one.
RepliesTo(R, t, q) == {r \in R : r[1] \in t * 256 .. t * 256 + q - 1}
OfHop(R, t) == {r \in R : r[1] \div 256 = t}
GaveOne(R, t, n) == \E r \in R : r[1] \div 256 = t /\ r[3] = n
GaveEcho(R, t, n) == \E r \in R : r[1] \div 256 = t /\ r[3] = n /\ r[2] = "echo_reply"

\* The queries sent so far: those of the hops that are finished and the hop's own.
Sent(t, q) == t < ttl \/ (t = ttl /\ (q < query \/ walk = "done" \/ (q = query /\ walk = "recv")))

\* What answered our queries: one answer each, an echo reply only from the target and
\* from no hop short of it.
RepliesOK ==
    /\ replies \subseteq Seqs \X Types \X (1 .. MaxDistance)
    /\ IsFiniteSet(replies)
    /\ \A r \in replies :
        /\ \E t \in 1 .. MaxHops, q \in 0 .. Queries - 1 : r[1] = Seq16(t, q) /\ Sent(t, q)
        /\ r[2] = "echo_reply" => r[3] = distance /\ r[1] \div 256 >= distance
        /\ r[2] = "time_exceeded" => r[1] \div 256 < distance

\* The current hop: what it has taken is the hop's own, and the target's if it says so.
HopOK ==
    /\ hopAddr # None => GaveOne(replies, ttl, hopAddr)
    /\ received <= Cardinality(RepliesTo(replies, ttl, query))
    /\ hopReached => hopAddr = distance /\ destAddr = distance /\ GaveEcho(replies, ttl, distance)

WalkInv ==
    /\ WalkTypeOK
    /\ RepliesOK
    /\ \A p \in network : p.ours => <<p.seq, p.typ, p.src>> \in replies
    /\ HopOK
    /\ walk \in {"send", "recv"} \/ (query = 0 /\ ~hopReached)
    /\ walk = "recv" => query < Queries
    /\ Len(hops) = IF walk = "done" /\ ~failed THEN ttl ELSE ttl - 1
    /\ walk # "done" => ~failed
    /\ failed => ~reached
    /\ HopsOwnTheirAnswers
    /\ ReachedByTarget

\* The sequence number names its hop.
LEMMA SeqNames ==
    ASSUME NEW t \in 1 .. MaxHops, NEW q \in 0 .. Queries - 1
    PROVE  /\ Seq16(t, q) = t * 256 + q /\ Seq16(t, q) \in Seqs
           /\ Seq16(t, q) \div 256 = t
<1>1. t \in 1 .. 64 /\ q \in 0 .. 254
  BY TracerouteAssumption
<1>2. q % 256 = q
  BY <1>1
<1>3. Seq16(t, q) = t * 256 + q
  BY <1>2 DEF Seq16
<1>4. Seq16(t, q) \in Seqs
  <2>1. /\ t * 256 + q \in Int /\ 0 <= t * 256 + q /\ t * 256 + q <= 256 * 256 - 1
        /\ 256 * 256 - 1 \in Int
    BY <1>1
  <2>2. \A x, n \in Int : 0 <= x /\ x <= n => x \in 0 .. n
    OBVIOUS
  <2>3. t * 256 + q \in 0 .. 256 * 256 - 1
    BY <2>1, <2>2, Zenon
  <2>4. QED
    BY <1>3, <2>3, Zenon DEF Seqs
<1>5. (t * 256 + q) \div 256 = t
  BY <1>1
<1>6. QED
  BY <1>3, <1>4, <1>5

\* A finished hop, and a packet on the wire.
Hop == [addr : {None} \cup 0 .. MaxDistance, loss : 0 .. Queries]

Packet == [typ : Types, ours : BOOLEAN, seq : Seqs, src : 0 .. MaxDistance]

LEMMA HopTypes ==
    ASSUME WalkTypeOK
    PROVE  /\ hops \in Seq(Hop) /\ Len(hops) \in Nat /\ DOMAIN hops = 1 .. Len(hops)
           /\ \A t \in DOMAIN hops : hops[t] \in Hop /\ hops[t].loss \in Int
<1>1. hops \in Seq(Hop)
  BY DEF WalkTypeOK, Hop
<1>2. \A t \in DOMAIN hops : hops[t] \in Hop
  BY <1>1
<1>3. \A h \in Hop : h.loss \in Int
  BY TracerouteAssumption DEF Hop
<1>4. QED
  BY <1>1, <1>2, <1>3

\* More answers, if any, leave what hops have as it was.
LEMMA MoreReplies ==
    ASSUME NEW R, NEW S, IsFiniteSet(S), R \subseteq S
    PROVE  /\ \A t, n : GaveOne(R, t, n) => GaveOne(S, t, n)
           /\ \A t, n : GaveEcho(R, t, n) => GaveEcho(S, t, n)
           /\ \A t : /\ Cardinality(OfHop(R, t)) \in Nat /\ Cardinality(OfHop(S, t)) \in Nat
                     /\ Cardinality(OfHop(R, t)) <= Cardinality(OfHop(S, t))
           /\ \A t, q : /\ Cardinality(RepliesTo(R, t, q)) \in Nat
                        /\ Cardinality(RepliesTo(S, t, q)) \in Nat
                        /\ Cardinality(RepliesTo(R, t, q)) <= Cardinality(RepliesTo(S, t, q))
<1>1. \A t, n : (GaveOne(R, t, n) => GaveOne(S, t, n)) /\ (GaveEcho(R, t, n) => GaveEcho(S, t, n))
  BY DEF GaveOne, GaveEcho
<1>2. \A A, B : A \subseteq B /\ B \subseteq S =>
        /\ Cardinality(A) \in Nat /\ Cardinality(B) \in Nat /\ Cardinality(A) <= Cardinality(B)
  BY FS_Subset, FS_CardinalityType
<1>3. \A t : OfHop(R, t) \subseteq OfHop(S, t) /\ OfHop(S, t) \subseteq S
  BY DEF OfHop
<1>4. \A t, q : RepliesTo(R, t, q) \subseteq RepliesTo(S, t, q) /\ RepliesTo(S, t, q) \subseteq S
  BY DEF RepliesTo
<1>5. QED
  BY <1>1, <1>2, <1>3, <1>4

\* The next query's answers are the earlier ones and its own.
LEMMA NextQuery ==
    ASSUME NEW R, IsFiniteSet(R), NEW t \in Nat, NEW q \in Nat
    PROVE  /\ Cardinality(RepliesTo(R, t, q)) \in Nat /\ Cardinality(RepliesTo(R, t, q + 1)) \in Nat
           /\ (\A r \in R : r[1] \in Int) =>
                Cardinality(RepliesTo(R, t, q)) <= Cardinality(RepliesTo(R, t, q + 1))
           /\ \A r \in R : r[1] = t * 256 + q /\ (\A x \in R : x[1] \in Int) =>
                Cardinality(RepliesTo(R, t, q)) + 1 <= Cardinality(RepliesTo(R, t, q + 1))
<1> DEFINE A == RepliesTo(R, t, q)
           B == RepliesTo(R, t, q + 1)
<1>1. A \subseteq R /\ B \subseteq R
  BY DEF RepliesTo
<1>2. IsFiniteSet(A) /\ IsFiniteSet(B)
  BY <1>1, FS_Subset
<1>3. Cardinality(A) \in Nat /\ Cardinality(B) \in Nat
  BY <1>2, FS_CardinalityType
<1>4. ASSUME \A x \in R : x[1] \in Int PROVE A \subseteq B
  BY <1>4 DEF RepliesTo
<1>5. ASSUME NEW r \in R, r[1] = t * 256 + q, \A x \in R : x[1] \in Int
      PROVE  Cardinality(A) + 1 <= Cardinality(B)
  <2>1. r \in B /\ r \notin A
    BY <1>5 DEF RepliesTo
  <2>2. A \cup {r} \subseteq B
    BY <1>4, <1>5, <2>1
  <2>3. IsFiniteSet(A \cup {r}) /\ Cardinality(A \cup {r}) = Cardinality(A) + 1
    BY <1>2, <2>1, FS_AddElement
  <2>4. QED
    BY <1>2, <2>2, <2>3, FS_Subset
<1>6. ASSUME \A x \in R : x[1] \in Int PROVE Cardinality(A) <= Cardinality(B)
  BY <1>2, <1>4, <1>6, FS_Subset
<1>7. QED
  BY <1>3, <1>5, <1>6

\* What the finished hops and the result say, in these terms.
LEMMA Finished ==
    /\ HopsOwnTheirAnswers <=>
        \A t \in DOMAIN hops :
            /\ hops[t].addr # None => GaveOne(replies, t, hops[t].addr)
            /\ Queries - hops[t].loss <= Cardinality(OfHop(replies, t))
    /\ ReachedByTarget <=>
        (reached => /\ walk = "done" /\ Last(hops).addr = distance /\ destAddr = distance
                    /\ GaveEcho(replies, Len(hops), distance))
BY DEF HopsOwnTheirAnswers, ReachedByTarget, AnsweredBy, GaveOne, GaveEcho, OfHop

\* The finished hops keep their answers, and the result its reason.
LEMMA FinishedKept ==
    ASSUME WalkInv, RepliesOK', replies \subseteq replies',
           UNCHANGED <<distance, hops, reached>>, reached => UNCHANGED <<walk, destAddr>>
    PROVE  HopsOwnTheirAnswers' /\ ReachedByTarget'
<1>1. IsFiniteSet(replies')
  BY DEF RepliesOK
<1>2. \A t \in DOMAIN hops : Queries - hops[t].loss \in Int
  BY HopTypes, TracerouteAssumption DEF WalkInv
<1>3. \A t \in DOMAIN hops :
        /\ hops[t].addr # None => GaveOne(replies', t, hops[t].addr)
        /\ Queries - hops[t].loss <= Cardinality(OfHop(replies', t))
  <2> TAKE t \in DOMAIN hops
  <2>1. /\ hops[t].addr # None => GaveOne(replies, t, hops[t].addr)
        /\ Queries - hops[t].loss <= Cardinality(OfHop(replies, t))
    BY Finished DEF WalkInv
  <2>2. QED
    BY <1>1, <1>2, <2>1, MoreReplies
<1>4. reached => /\ walk' = "done" /\ Last(hops).addr = distance /\ destAddr' = distance
                 /\ GaveEcho(replies', Len(hops), distance)
  BY <1>1, MoreReplies, Finished DEF WalkInv
<1>5. (\A t \in DOMAIN hops' :
        /\ hops'[t].addr # None => GaveOne(replies', t, hops'[t].addr)
        /\ Queries - hops'[t].loss <= Cardinality(OfHop(replies', t))) => HopsOwnTheirAnswers'
  BY DEF HopsOwnTheirAnswers, AnsweredBy, GaveOne, OfHop
<1>6. (reached' => /\ walk' = "done" /\ Last(hops').addr = distance' /\ destAddr' = distance'
                   /\ GaveEcho(replies', Len(hops'), distance')) => ReachedByTarget'
  BY DEF ReachedByTarget, AnsweredBy, GaveEcho
<1>7. QED
  BY <1>3, <1>4, <1>5, <1>6

\* The inductive invariant of a walk: every answer on its way back names the query it
\* answers, and what the walk has noted was answered.
THEOREM WalkSafe == WalkSpec => []WalkInv
<1>1. WalkInit => WalkInv
  <2> SUFFICES ASSUME WalkInit PROVE WalkInv
    OBVIOUS
  <2>2. WalkTypeOK
    <3>1. /\ distance \in 1 .. MaxDistance /\ ttl \in 1 .. MaxHops
          /\ query \in 0 .. Queries /\ received \in 0 .. query
      BY TracerouteAssumption DEF WalkInit
    <3>2. hops \in Seq(Hop)
      BY DEF WalkInit
    <3>3. QED
      BY <3>1, <3>2 DEF WalkInit, WalkTypeOK, Hop
  <2>3. RepliesOK
    BY FS_EmptySet DEF WalkInit, RepliesOK
  <2>4. HopOK
    <3>1. RepliesTo(replies, ttl, query) = {}
      BY DEF WalkInit, RepliesTo
    <3>2. QED
      BY <3>1, FS_EmptySet DEF WalkInit, HopOK
  <2>5. HopsOwnTheirAnswers /\ ReachedByTarget
    BY DEF WalkInit, HopsOwnTheirAnswers, ReachedByTarget
  <2>6. QED
    BY <2>2, <2>3, <2>4, <2>5 DEF WalkInit, WalkInv
<1>2. WalkInv /\ [WalkNext]_walkVars => WalkInv'
  <2> SUFFICES ASSUME WalkInv, [WalkNext]_walkVars PROVE WalkInv'
    OBVIOUS
  <2> USE TracerouteAssumption
  <2>0. /\ WalkTypeOK /\ RepliesOK /\ HopOK
        /\ walk # "done" => ~reached /\ ~failed
        /\ HopsOwnTheirAnswers /\ ReachedByTarget
    BY DEF WalkInv, ReachedByTarget
  <2>nats. /\ IsFiniteSet(replies) /\ \A r \in replies : r[1] \in Int
         /\ ttl \in Nat /\ query \in Nat /\ received \in Nat
    <3>1. Seqs \subseteq Int
      BY DEF Seqs
    <3>2. \A r \in replies : r[1] \in Seqs
      BY <2>0 DEF RepliesOK
    <3>3. ttl \in Nat /\ query \in Nat /\ received \in Nat
      BY <2>0 DEF WalkTypeOK
    <3>4. QED
      BY <2>0, <3>1, <3>2, <3>3 DEF RepliesOK
  <2>counts. /\ Cardinality(RepliesTo(replies, ttl, query)) \in Nat
          /\ Cardinality(RepliesTo(replies, ttl, query + 1)) \in Nat
          /\ Cardinality(RepliesTo(replies, ttl, query)) <= Cardinality(RepliesTo(replies, ttl, query + 1))
          /\ \A r \in replies : r[1] = ttl * 256 + query =>
                Cardinality(RepliesTo(replies, ttl, query)) + 1 <= Cardinality(RepliesTo(replies, ttl, query + 1))
    BY ONLY <2>nats, NextQuery, Zenon
  <2>1. CASE OtherTraffic
    <3> USE <2>1 DEF OtherTraffic, hopVars, outcome
    <3>1. WalkTypeOK'
      <4>1. Elsewhere \in 0 .. MaxDistance /\ Seq16(ttl, query) \in Seqs
        BY <2>0, SeqNames DEF WalkInv, WalkTypeOK, Elsewhere
      <4>2. PICK typ \in Types :
              network' = network \cup {[typ |-> typ, ours |-> FALSE, seq |-> Seq16(ttl, query), src |-> Elsewhere]}
        OBVIOUS
      <4>3. network' \subseteq Packet
        <5>1. network \subseteq Packet
          BY <2>0 DEF WalkTypeOK, Packet
        <5>2. [typ |-> typ, ours |-> FALSE, seq |-> Seq16(ttl, query), src |-> Elsewhere] \in Packet
          BY <4>1 DEF Packet
        <5>3. QED
          BY <4>2, <5>1, <5>2
      <4>4. QED
        BY <2>0, <4>3 DEF WalkTypeOK, Packet
    <3>2. RepliesOK'
      BY <2>0 DEF RepliesOK, Sent
    <3>3. \A p \in network' : p.ours => <<p.seq, p.typ, p.src>> \in replies'
      BY DEF WalkInv
    <3>4. HopOK'
      BY <2>0 DEF HopOK
    <3>5. HopsOwnTheirAnswers' /\ ReachedByTarget'
      BY <2>0, <3>2, FinishedKept
    <3>6. QED
      BY <2>0, <3>1, <3>2, <3>3, <3>4, <3>5 DEF WalkInv
  <2>2. CASE SetTtl
    <3> USE <2>2 DEF SetTtl, hopVars
    <3>1. WalkTypeOK'
      BY <2>0 DEF WalkTypeOK
    <3>2. RepliesOK'
      <4>1. \A t \in 1 .. MaxHops, q \in 0 .. Queries - 1 : Sent(t, q) => Sent(t, q)'
        BY <2>0 DEF Sent, WalkInv
      <4>2. QED
        BY <2>0, <4>1 DEF RepliesOK
    <3>3. HopOK'
      BY <2>0 DEF HopOK
    <3>4. HopsOwnTheirAnswers' /\ ReachedByTarget'
      BY <2>0, <3>2, FinishedKept
    <3>5. QED
      BY <2>0, <3>1, <3>2, <3>3, <3>4 DEF WalkInv
  <2>3. CASE Send
    <3> USE <2>3 DEF Send, hopVars, outcome
    <3>0. /\ ttl \in 1 .. MaxHops /\ query \in 0 .. Queries - 1
          /\ \A t \in 1 .. MaxHops, q \in 0 .. Queries - 1 : Sent(t, q) => Sent(t, q)'
          /\ Sent(ttl, query)'
      BY <2>0 DEF WalkTypeOK, Sent
    <3>1. CASE UNCHANGED <<network, replies>>
      <4> USE <3>1
      <4>1. WalkTypeOK'
        BY <2>0 DEF WalkTypeOK
      <4>2. RepliesOK'
        BY <2>0, <3>0 DEF RepliesOK
      <4>3. HopOK'
        BY <2>0 DEF HopOK
      <4>4. HopsOwnTheirAnswers' /\ ReachedByTarget'
        BY <2>0, <4>2, FinishedKept
      <4>5. QED
        BY <2>0, <4>1, <4>2, <4>3, <4>4 DEF WalkInv
    <3>2. ASSUME NEW a \in Answers(ttl),
                 network' = network \cup {[typ |-> a[1], ours |-> TRUE, seq |-> Seq16(ttl, query), src |-> a[2]]},
                 replies' = replies \cup {<<Seq16(ttl, query), a[1], a[2]>>}
          PROVE  WalkInv'
      <4> USE <3>2
      <4>1. /\ distance \in 1 .. MaxDistance
            /\ Seq16(ttl, query) \in Seqs /\ Seq16(ttl, query) \div 256 = ttl
        BY <2>0, <3>0, SeqNames DEF WalkTypeOK
      <4>2. /\ a[1] \in Types /\ a[2] \in 1 .. MaxDistance
            /\ a[1] = "echo_reply" => a[2] = distance /\ ttl >= distance
            /\ a[1] = "time_exceeded" => ttl < distance
        BY <3>0, <4>1 DEF Answers, Types
      <4>3. WalkTypeOK'
        <5>1. a[2] \in 0 .. MaxDistance
          BY <4>1, <4>2
        <5>2. network \subseteq Packet
          BY <2>0 DEF WalkTypeOK, Packet
        <5>3. [typ |-> a[1], ours |-> TRUE, seq |-> Seq16(ttl, query), src |-> a[2]] \in Packet
          BY <4>1, <4>2, <5>1 DEF Packet
        <5>4. network' \subseteq Packet
          BY <5>2, <5>3
        <5>5. QED
          BY <2>0, <5>4 DEF WalkTypeOK, Packet
      <4>4. RepliesOK'
        <5> DEFINE new == <<Seq16(ttl, query), a[1], a[2]>>
        <5>1. replies' \subseteq Seqs \X Types \X (1 .. MaxDistance)
          BY <2>0, <4>1, <4>2 DEF RepliesOK
        <5>2. IsFiniteSet(replies')
          BY <2>0, FS_AddElement DEF RepliesOK
        <5>3. /\ \E t \in 1 .. MaxHops, q \in 0 .. Queries - 1 : new[1] = Seq16(t, q) /\ Sent(t, q)'
              /\ new[2] = "echo_reply" => new[3] = distance /\ new[1] \div 256 >= distance
              /\ new[2] = "time_exceeded" => new[1] \div 256 < distance
          BY <3>0, <4>1, <4>2
        <5>4. \A r \in replies :
                /\ \E t \in 1 .. MaxHops, q \in 0 .. Queries - 1 : r[1] = Seq16(t, q) /\ Sent(t, q)'
                /\ r[2] = "echo_reply" => r[3] = distance /\ r[1] \div 256 >= distance
                /\ r[2] = "time_exceeded" => r[1] \div 256 < distance
          BY <2>0, <3>0 DEF RepliesOK
        <5>5. replies' = replies \cup {new} /\ distance' = distance
          OBVIOUS
        <5> HIDE DEF new
        <5>6. QED
          BY <5>1, <5>2, <5>3, <5>4, <5>5 DEF RepliesOK
      <4>5. \A p \in network' : p.ours => <<p.seq, p.typ, p.src>> \in replies'
        BY DEF WalkInv
      <4>6. HopOK'
        <5>1. IsFiniteSet(replies') /\ received \in Int
          BY <2>0, <4>4 DEF RepliesOK, WalkTypeOK
        <5>2. received <= Cardinality(RepliesTo(replies', ttl, query))
          BY <2>0, <5>1, MoreReplies DEF HopOK
        <5>3. QED
          BY <2>0, <5>1, <5>2, MoreReplies DEF HopOK
      <4>7. HopsOwnTheirAnswers' /\ ReachedByTarget'
        BY <2>0, <4>4, FinishedKept
      <4>8. QED
        BY <2>0, <4>3, <4>4, <4>5, <4>6, <4>7 DEF WalkInv
    <3>3. QED
      BY <3>1, <3>2
  <2>4. CASE SendFails
    <3> USE <2>4 DEF SendFails, hopVars, outcome
    <3>1. WalkTypeOK'
      BY <2>0 DEF WalkTypeOK
    <3>2. RepliesOK'
      <4>1. \A t \in 1 .. MaxHops, q \in 0 .. Queries - 1 : Sent(t, q) => Sent(t, q)'
        BY <2>0 DEF Sent, WalkTypeOK
      <4>2. QED
        BY <2>0, <4>1 DEF RepliesOK
    <3>3. HopOK'
      <4>1. received <= Cardinality(RepliesTo(replies, ttl, query + 1))
        BY <2>0, <2>nats, <2>counts DEF HopOK
      <4>2. QED
        BY <2>0, <4>1 DEF HopOK
    <3>4. HopsOwnTheirAnswers' /\ ReachedByTarget'
      BY <2>0, <3>2, FinishedKept
    <3>5. QED
      BY <2>0, <3>1, <3>2, <3>3, <3>4 DEF WalkInv
  <2>5. ASSUME NEW p \in network, Receive(p) PROVE WalkInv'
    <3> USE <2>5 DEF Receive, hopVars, outcome
    <3>1. CASE ~Matches(p)
      <4> USE <3>1
      <4>1. WalkTypeOK' /\ RepliesOK' /\ HopOK'
        BY <2>0 DEF WalkTypeOK, RepliesOK, Sent, HopOK
      <4>2. HopsOwnTheirAnswers' /\ ReachedByTarget'
        BY <2>0, <4>1, FinishedKept
      <4>3. QED
        BY <2>0, <4>1, <4>2 DEF WalkInv
    <3>2. CASE Matches(p)
      <4> USE <3>2
      <4> DEFINE r == <<p.seq, p.typ, p.src>>
      <4>1. r \in replies /\ r[1] = p.seq /\ r[2] = p.typ /\ r[3] = p.src
        BY DEF WalkInv, Matches
      <4>2. /\ query \in 0 .. Queries - 1 /\ ttl \in 1 .. MaxHops
            /\ p \in Packet /\ p.typ \in Types
            /\ distance \in 1 .. MaxDistance
        BY <2>0 DEF WalkInv, WalkTypeOK, Packet
      <4>3. p.seq = ttl * 256 + query /\ p.seq \div 256 = ttl
        BY <4>2, SeqNames DEF Matches
      <4>4. p.src \in 1 .. MaxDistance
        BY <2>0, <4>1 DEF RepliesOK
      <4>5. /\ p.typ = "echo_reply" => p.src = distance
            /\ p.typ = "time_exceeded" => ~hopReached
        <5>1. p.typ = "time_exceeded" => ttl < distance
          BY <2>0, <4>1, <4>3 DEF RepliesOK
        <5>2. hopReached => ttl >= distance
          BY <2>0 DEF HopOK, GaveEcho, RepliesOK
        <5>3. QED
          BY <2>0, <4>1, <4>2, <5>1, <5>2 DEF RepliesOK
      <4>6. WalkTypeOK'
        <5>1. query' \in 0 .. Queries /\ received' \in 0 .. query' /\ p.src \in 0 .. MaxDistance
          BY <2>0, <2>nats, <4>2, <4>4 DEF WalkTypeOK
        <5>2. hopReached' \in BOOLEAN
          BY <2>0 DEF WalkTypeOK, ReachedBy
        <5>3. network' \subseteq Packet
          BY <2>0 DEF WalkTypeOK, Packet
        <5>4. QED
          BY <2>0, <5>1, <5>2, <5>3 DEF WalkTypeOK, Packet
      <4>7. RepliesOK'
        <5>1. \A t \in 1 .. MaxHops, q \in 0 .. Queries - 1 : Sent(t, q) => Sent(t, q)'
          BY <2>0 DEF Sent, WalkTypeOK
        <5>2. QED
          BY <2>0, <5>1 DEF RepliesOK
      <4>8. HopOK'
        <5>1. hopAddr' = p.src /\ GaveOne(replies, ttl, p.src)
          BY <4>1, <4>3 DEF GaveOne
        <5>2. received' <= Cardinality(RepliesTo(replies', ttl', query'))
          <6>1. received + 1 <= Cardinality(RepliesTo(replies, ttl, query + 1))
            BY <2>0, <2>nats, <2>counts, <4>1, <4>3 DEF HopOK
          <6>2. QED
            BY <6>1
        <5>3. hopReached' => p.typ = "echo_reply"
          BY <4>2, <4>5 DEF ReachedBy, Types
        <5>4. p.typ = "echo_reply" =>
                /\ p.src = distance /\ destAddr' = distance /\ GaveEcho(replies, ttl, distance)
          BY <4>1, <4>3, <4>5 DEF GaveEcho
        <5>5. QED
          BY <5>1, <5>2, <5>3, <5>4 DEF HopOK
      <4>9. HopsOwnTheirAnswers' /\ ReachedByTarget'
        BY <2>0, <4>7, FinishedKept
      <4>10. QED
        BY <2>0, <4>6, <4>7, <4>8, <4>9 DEF WalkInv
    <3>3. QED
      BY <3>1, <3>2
  <2>6. CASE Timeout
    <3> USE <2>6 DEF Timeout, hopVars, outcome
    <3>1. WalkTypeOK'
      BY <2>0 DEF WalkTypeOK, WalkInv
    <3>2. RepliesOK'
      <4>1. \A t \in 1 .. MaxHops, q \in 0 .. Queries - 1 : Sent(t, q) => Sent(t, q)'
        BY <2>0 DEF Sent, WalkTypeOK
      <4>2. QED
        BY <2>0, <4>1 DEF RepliesOK
    <3>3. HopOK'
      <4>1. received <= Cardinality(RepliesTo(replies, ttl, query + 1))
        BY <2>0, <2>nats, <2>counts DEF HopOK
      <4>2. QED
        BY <2>0, <4>1 DEF HopOK
    <3>4. HopsOwnTheirAnswers' /\ ReachedByTarget'
      BY <2>0, <3>2, FinishedKept
    <3>5. QED
      BY <2>0, <3>1, <3>2, <3>3, <3>4 DEF WalkInv
  <2>7. CASE HopDone
    <3> USE <2>7 DEF HopDone
    <3> DEFINE h == [addr |-> hopAddr, loss |-> Queries - received]
    <3>1. hops' = Append(hops, h) /\ h \in Hop /\ Len(hops) = ttl - 1 /\ hops \in Seq(Hop)
      BY <2>0, HopTypes DEF WalkInv, WalkTypeOK, Hop
    <3> HIDE DEF h
    <3>2. /\ hops' \in Seq(Hop) /\ Len(hops') = ttl /\ DOMAIN hops' = 1 .. ttl
          /\ hops'[ttl] = h /\ \A t \in DOMAIN hops : hops'[t] = hops[t]
          /\ DOMAIN hops = 1 .. ttl - 1
      BY <2>0, <2>nats, <3>1
    <3>3. WalkTypeOK'
      <4>1. ttl' \in 1 .. MaxHops /\ query' \in 0 .. Queries /\ received' \in 0 .. query'
        BY <2>0 DEF WalkTypeOK, CountAtStart
      <4>2. QED
        BY <2>0, <3>2, <4>1 DEF WalkTypeOK, Hop
    <3>4. RepliesOK'
      <4>1. \A t \in 1 .. MaxHops, q \in 0 .. Queries - 1 : Sent(t, q) => Sent(t, q)'
        BY <2>0, <2>nats DEF Sent
      <4>2. QED
        BY <2>0, <4>1 DEF RepliesOK
    <3>5. HopOK'
      <4>1. 0 <= Cardinality(RepliesTo(replies, ttl', 0))
        <5>1. replies \subseteq replies
          OBVIOUS
        <5>2. \A t, q : Cardinality(RepliesTo(replies, t, q)) \in Nat
          BY ONLY <2>nats, <5>1, MoreReplies, Zenon
        <5>3. QED
          BY <5>2
      <4>2. QED
        BY <4>1 DEF HopOK, CountAtStart
    <3>6. \A t \in DOMAIN hops' :
            /\ hops'[t].addr # None => GaveOne(replies, t, hops'[t].addr)
            /\ Queries - hops'[t].loss <= Cardinality(OfHop(replies, t))
      <4>1. received <= Cardinality(OfHop(replies, ttl))
        <5>1. RepliesTo(replies, ttl, query) \subseteq OfHop(replies, ttl)
          BY <2>nats DEF RepliesTo, OfHop
        <5>2. OfHop(replies, ttl) \subseteq replies
          BY DEF OfHop
        <5>3. IsFiniteSet(OfHop(replies, ttl))
          BY <2>nats, <5>2, FS_Subset
        <5>4. QED
          BY <2>0, <2>nats, <5>1, <5>3, FS_Subset, FS_CardinalityType DEF HopOK
      <4>2. /\ hops'[ttl].addr # None => GaveOne(replies, ttl, hops'[ttl].addr)
            /\ Queries - hops'[ttl].loss <= Cardinality(OfHop(replies, ttl))
        <5>1. Queries - (Queries - received) = received
          BY <2>nats
        <5>2. QED
          BY <2>0, <3>2, <4>1, <5>1 DEF HopOK, h
      <4>3. \A t \in DOMAIN hops :
              /\ hops'[t].addr # None => GaveOne(replies, t, hops'[t].addr)
              /\ Queries - hops'[t].loss <= Cardinality(OfHop(replies, t))
        BY <2>0, <3>2, Finished
      <4>4. QED
        BY <2>nats, <3>2, <4>2, <4>3
    <3>7. HopsOwnTheirAnswers'
      BY <3>6 DEF HopsOwnTheirAnswers, AnsweredBy, GaveOne, OfHop
    <3>8. ReachedByTarget'
      <4>1. hopReached => Last(hops').addr = distance
        BY <2>0, <3>2 DEF HopOK, h, Last
      <4>2. hopReached => GaveEcho(replies, Len(hops'), distance)
        BY <2>0, <3>2 DEF HopOK
      <4>3. QED
        BY <2>0, <4>1, <4>2 DEF HopOK, GaveEcho, ReachedByTarget, AnsweredBy
    <3>9. QED
      BY <2>0, <2>nats, <3>2, <3>3, <3>4, <3>5, <3>7, <3>8 DEF WalkInv
  <2>8. CASE UNCHANGED walkVars
    <3> USE <2>8 DEF walkVars
    <3>1. RepliesOK' /\ HopOK' /\ WalkTypeOK'
      BY <2>0 DEF RepliesOK, Sent, HopOK, WalkTypeOK
    <3>2. HopsOwnTheirAnswers' /\ ReachedByTarget'
      BY <2>0, <3>1, FinishedKept
    <3>3. QED
      BY <2>0, <3>1, <3>2 DEF WalkInv
  <2>9. QED
    BY <2>1, <2>2, <2>3, <2>4, <2>5, <2>6, <2>7, <2>8 DEF WalkNext
<1>3. QED
  BY <1>1, <1>2, PTL DEF WalkSpec

\* However late answers come and whatever else is on the wire, a hop shows an address that
\* answered one of that hop's own queries, and counts no more answers than they got.
THEOREM HopsOwn == WalkSpec => []HopsOwnTheirAnswers
<1>1. WalkInv => HopsOwnTheirAnswers
  BY DEF WalkInv
<1>2. QED
  BY <1>1, WalkSafe, PTL

\* A walk says that it reached the target only if the target answered, at its last hop.
THEOREM TargetReached == WalkSpec => []ReachedByTarget
<1>1. WalkInv => ReachedByTarget
  BY DEF WalkInv
<1>2. QED
  BY <1>1, WalkSafe, PTL
-----------------------------------------------------------------------------
(* Least and greatest elements, which Min and Max choose *)

LEMMA LeastOf ==
    ASSUME NEW S \in SUBSET Nat, S # {}
    PROVE  Min(S) \in S /\ \A x \in S : Min(S) <= x
<1> DEFINE R == OpToRel(<, Nat)
<1>1. \A x, y \in Nat : y < x => <<y, x>> \in R
  BY DEF OpToRel
<1>2. IsWellFoundedOn(R, Nat)
  BY NatLessThanWellFounded
<1> HIDE DEF R
<1>3. PICK x \in S : \A y \in S : ~(<<y, x>> \in R)
  BY <1>2, WFMin
<1>4. \A y \in S : ~(y < x)
  BY <1>1, <1>3
<1>5. \A y \in S : x <= y
  BY <1>4
<1>6. QED
  BY <1>5 DEF Min

LEMMA GreatestOf ==
    ASSUME NEW n \in Nat, NEW S \in SUBSET (0 .. n), S # {}
    PROVE  Max(S) \in S /\ \A x \in S : x <= Max(S)
<1> DEFINE T == {n - x : x \in S}
<1>0. \A x \in S : n - x \in Nat
  OBVIOUS
<1>1. T \in SUBSET Nat /\ T # {}
  BY <1>0
<1>2. PICK z \in T : \A y \in T : z <= y
  BY <1>1, LeastOf
<1>3. PICK x \in S : z = n - x
  OBVIOUS
<1>4. \A y \in S : n - x <= n - y
  BY <1>2, <1>3
<1>5. \A y \in S : y <= x
  BY <1>4
<1>6. QED
  BY <1>5 DEF Max
-----------------------------------------------------------------------------
(* The tables *)

\* Every row and address has an id of its own; the address of a hop is one its run's
\* monitor found at that place; the reader's run, while it is there, is its monitor's.
HopsSeen ==
    \A h \in traceHops, r \in runs, a \in addrs :
        h.run = r.id /\ h.addr = a.id => <<r.monitor, h.hop, a.addr>> \in seen

ReaderOK ==
    reader.at = "addrs" =>
        /\ reader.run \in 0 .. lastRun
        /\ \A r \in runs : r.id = reader.run => r.monitor = reader.monitor

TraceInv ==
    /\ TraceTypeOK
    /\ \A r, q \in runs : r.id = q.id => r = q
    /\ \A a, b \in addrs : a.id = b.id => a = b
    /\ ReferencesHold
    /\ HopsSeen
    /\ ReaderOK
    /\ AnswersAreOwn
\* Interning: the new addresses get new ids, each its own.
LEMMA NewIds ==
    ASSUME NEW path \in Seq(Addrs \cup {Silent}), lastAddr \in Nat
    PROVE  /\ Cardinality(ToIntern(path)) \in Nat
           /\ \A a \in ToIntern(path) :
                IdOf(path, a) \in lastAddr + 1 .. lastAddr + Cardinality(ToIntern(path))
           /\ \A a, b \in ToIntern(path) : IdOf(path, a) = IdOf(path, b) => a = b
<1> DEFINE fresh == ToIntern(path)
           places(a) == {i \in DOMAIN path : path[i] = a}
           upTo(a) == {b \in fresh : FirstAt(path, b) <= FirstAt(path, a)}
<1>1. IsFiniteSet(fresh)
  <2>1. IsFiniteSet(1 .. Len(path)) /\ DOMAIN path = 1 .. Len(path)
    BY FS_Interval
  <2> DEFINE at == [i \in 1 .. Len(path) |-> path[i]]
  <2>2. IsFiniteSet({path[i] : i \in 1 .. Len(path)})
    <3>1. at \in Surjection(1 .. Len(path), {path[i] : i \in 1 .. Len(path)})
      BY DEF Surjection
    <3>2. QED
      BY <2>1, <3>1, FS_Surjection
  <2>3. fresh \subseteq {path[i] : i \in 1 .. Len(path)}
    BY <2>1 DEF ToIntern
  <2>4. QED
    BY <2>2, <2>3, FS_Subset
<1>2. \A a \in fresh : FirstAt(path, a) \in Nat /\ path[FirstAt(path, a)] = a
  <2> TAKE a \in fresh
  <2>1. places(a) \in SUBSET Nat /\ places(a) # {}
    BY DEF ToIntern
  <2>2. Min(places(a)) \in places(a)
    BY <2>1, LeastOf
  <2>3. QED
    BY <2>1, <2>2 DEF FirstAt
<1>3. \A a \in fresh : upTo(a) \subseteq fresh /\ a \in upTo(a)
  BY <1>2
<1>4. \A a \in fresh : IsFiniteSet(upTo(a)) /\ Cardinality(upTo(a)) \in 1 .. Cardinality(fresh)
  <2> TAKE a \in fresh
  <2>1. /\ IsFiniteSet(upTo(a)) /\ Cardinality(upTo(a)) <= Cardinality(fresh)
        /\ Cardinality(upTo(a)) \in Nat /\ Cardinality(fresh) \in Nat
    BY <1>1, <1>3, FS_Subset, FS_CardinalityType
  <2>2. Cardinality(upTo(a)) # 0
    BY <1>3, <2>1, FS_EmptySet
  <2>3. QED
    BY <2>1, <2>2
<1>5. \A a, b \in fresh :
        FirstAt(path, a) < FirstAt(path, b) => Cardinality(upTo(a)) < Cardinality(upTo(b))
  <2> SUFFICES ASSUME NEW a \in fresh, NEW b \in fresh, FirstAt(path, a) < FirstAt(path, b)
               PROVE  Cardinality(upTo(a)) < Cardinality(upTo(b))
    OBVIOUS
  <2>1. upTo(a) \subseteq upTo(b) /\ b \in upTo(b) /\ b \notin upTo(a)
    BY <1>2
  <2>2. upTo(a) # upTo(b)
    BY <2>1
  <2>3. QED
    BY <1>4, <2>1, <2>2, FS_Subset
<1>6. \A a \in fresh : IdOf(path, a) = lastAddr + Cardinality(upTo(a))
  BY DEF IdOf
<1> HIDE DEF upTo, fresh
<1>7. \A a, b \in fresh : IdOf(path, a) = IdOf(path, b) => a = b
  <2> SUFFICES ASSUME NEW a \in fresh, NEW b \in fresh, IdOf(path, a) = IdOf(path, b) PROVE a = b
    OBVIOUS
  <2>1. Cardinality(upTo(a)) \in Nat /\ Cardinality(upTo(b)) \in Nat
    BY <1>4
  <2>2. Cardinality(upTo(a)) = Cardinality(upTo(b))
    BY <1>6, <2>1
  <2>3. FirstAt(path, a) = FirstAt(path, b)
    BY <1>2, <1>5, <2>1, <2>2
  <2>4. QED
    BY <1>2, <2>3
<1>8. \A a \in fresh : IdOf(path, a) \in lastAddr + 1 .. lastAddr + Cardinality(fresh)
  BY <1>1, <1>4, <1>6, FS_CardinalityType
<1>9. Cardinality(fresh) \in Nat
  BY <1>1, FS_CardinalityType
<1>10. QED
  BY <1>7, <1>8, <1>9 DEF fresh

\* What is stored after the new addresses: each once, under its own id, all of the path.
LEMMA InternedOnce ==
    ASSUME TraceInv, NEW path \in Seq(Addrs \cup {Silent})
    PROVE  /\ Interned(path) \subseteq [id : 1 .. lastAddr + Cardinality(ToIntern(path)), addr : Addrs]
           /\ \A a, b \in Interned(path) : a.addr = b.addr => a = b
           /\ \A a, b \in Interned(path) : a.id = b.id => a = b
           /\ \A i \in DOMAIN path : path[i] # Silent => \E a \in Interned(path) : a.addr = path[i]
           /\ \A a \in Interned(path) :
                a \in addrs \/ (a.id > lastAddr /\ \E i \in DOMAIN path : path[i] = a.addr)
           /\ Cardinality(ToIntern(path)) \in Nat /\ lastAddr \in Nat
<1> DEFINE fresh == ToIntern(path)
           new(a) == [id |-> IdOf(path, a), addr |-> a]
<1>1. /\ lastAddr \in Nat /\ addrs \subseteq [id : 1 .. lastAddr, addr : Addrs]
      /\ \A a \in addrs : a.id \in 1 .. lastAddr /\ a.addr \in Addrs
  BY DEF TraceInv, TraceTypeOK
<1>2. /\ Cardinality(fresh) \in Nat
      /\ \A a \in fresh : IdOf(path, a) \in lastAddr + 1 .. lastAddr + Cardinality(fresh)
      /\ \A a, b \in fresh : IdOf(path, a) = IdOf(path, b) => a = b
  BY <1>1, NewIds
<1>3. /\ fresh \subseteq Addrs
      /\ \A a \in fresh : (\E i \in DOMAIN path : path[i] = a) /\ \A b \in addrs : b.addr # a
      /\ \A i \in DOMAIN path : path[i] # Silent => path[i] \in fresh \/ \E a \in addrs : a.addr = path[i]
  BY DEF ToIntern
<1>4. Interned(path) = addrs \cup {new(a) : a \in fresh}
  BY DEF Interned
<1>5. \A a \in fresh : new(a).id = IdOf(path, a) /\ new(a).addr = a
  OBVIOUS
<1>6. \A a \in fresh : new(a) \in [id : 1 .. lastAddr + Cardinality(fresh), addr : Addrs]
  <2> TAKE a \in fresh
  <2>1. IdOf(path, a) \in 1 .. lastAddr + Cardinality(fresh)
    BY <1>1, <1>2
  <2>2. QED
    BY <1>3, <2>1
<1>7. addrs \subseteq [id : 1 .. lastAddr + Cardinality(fresh), addr : Addrs]
  <2>1. 1 .. lastAddr \subseteq 1 .. lastAddr + Cardinality(fresh)
    BY <1>1, <1>2
  <2>2. QED
    BY <1>1, <2>1
<1>8. /\ \A a, b \in addrs : (a.addr = b.addr => a = b) /\ (a.id = b.id => a = b)
  BY DEF TraceInv, ReferencesHold
<1> HIDE DEF new, fresh
<1>9. \A a, b \in Interned(path) : a.addr = b.addr => a = b
  BY <1>3, <1>4, <1>5, <1>8
<1>10. \A a, b \in Interned(path) : a.id = b.id => a = b
  <2>1. \A a \in fresh, b \in addrs : new(a).id # b.id
    BY <1>1, <1>2, <1>5
  <2>2. QED
    BY <1>2, <1>4, <1>5, <1>8, <2>1
<1>11. \A a \in Interned(path) :
         a \in addrs \/ (a.id > lastAddr /\ \E i \in DOMAIN path : path[i] = a.addr)
  BY <1>1, <1>2, <1>3, <1>4, <1>5
<1>12. \A i \in DOMAIN path : path[i] # Silent => \E a \in Interned(path) : a.addr = path[i]
  BY <1>3, <1>4, <1>5
<1>13. Interned(path) \subseteq [id : 1 .. lastAddr + Cardinality(fresh), addr : Addrs]
  BY <1>4, <1>6, <1>7
<1>14. QED
  BY <1>1, <1>2, <1>9, <1>10, <1>11, <1>12, <1>13 DEF fresh

\* The inductive invariant of the traceroute tables and of the query that reads them in
\* three steps.
THEOREM StoreSafe == TraceSpec => []TraceInv
<1>1. TraceInit => TraceInv
  BY TraceStoreAssumption DEF TraceInit, TraceInv, TraceTypeOK, ReferencesHold, HopsSeen, ReaderOK,
     AnswersAreOwn, Idle
<1>2. TraceInv /\ [TraceNext]_traceVars => TraceInv'
  <2> SUFFICES ASSUME TraceInv, [TraceNext]_traceVars PROVE TraceInv'
    OBVIOUS
  <2>0. /\ TraceTypeOK /\ ReferencesHold /\ HopsSeen /\ ReaderOK /\ AnswersAreOwn
        /\ \A r, q \in runs : r.id = q.id => r = q
        /\ \A a, b \in addrs : a.id = b.id => a = b
    BY DEF TraceInv
  <2>1. ASSUME NEW m \in Monitors, NEW path \in Paths, InsertTraceroute(m, path) PROVE TraceInv'
    <3> USE <2>1 DEF InsertTraceroute
    <3> DEFINE new == [id |-> lastRun + 1, monitor |-> m, old |-> FALSE]
               IdAt(i) == IF path[i] = Silent THEN Silent
                          ELSE (CHOOSE a \in Interned(path) : a.addr = path[i]).id
               hop(i) == [run |-> lastRun + 1, hop |-> i, addr |-> IdAt(i)]
    <3>1. /\ path \in Seq(Addrs \cup {Silent}) /\ DOMAIN path \subseteq Nat
          /\ \A i \in DOMAIN path : path[i] \in Addrs \cup {Silent}
      BY TraceStoreAssumption
    <3>2. /\ lastRun \in Nat /\ lastRun + 1 \in 0 .. MaxRuns
          /\ \A r \in runs : r.id \in 1 .. lastRun
          /\ \A h \in traceHops : h.run \in 1 .. lastRun /\ h.addr \in 1 .. lastAddr \cup {Silent}
          /\ \A a \in addrs : a.id \in 1 .. lastAddr
      BY <2>0, TraceStoreAssumption DEF TraceTypeOK
    <3>3. /\ addrs' = Interned(path) /\ lastRun' = lastRun + 1 /\ lastAddr' = lastAddr + Cardinality(ToIntern(path))
          /\ runs' = runs \cup {new} /\ traceHops' = traceHops \cup {hop(i) : i \in DOMAIN path}
          /\ seen' = seen \cup {<<m, i, path[i]>> : i \in DOMAIN path} /\ reader' = reader
      BY Zenon
    <3>4. /\ new.id = lastRun + 1 /\ new.monitor = m
          /\ \A i \in DOMAIN path : hop(i).run = lastRun + 1 /\ hop(i).hop = i /\ hop(i).addr = IdAt(i)
      OBVIOUS
    <3>5. \A i \in DOMAIN path :
            \/ path[i] = Silent /\ IdAt(i) = Silent
            \/ \E a \in addrs' : a.addr = path[i] /\ a.id = IdAt(i)
      BY <3>1, <3>3, InternedOnce
    <3>6. /\ addrs' \subseteq [id : 1 .. lastAddr', addr : Addrs] /\ lastAddr' \in Nat
          /\ \A a, b \in addrs' : (a.addr = b.addr => a = b) /\ (a.id = b.id => a = b)
          /\ \A a \in addrs' :
               a \in addrs \/ (a.id > lastAddr /\ \E i \in DOMAIN path : path[i] = a.addr)
          /\ addrs \subseteq addrs'
          /\ \A a \in addrs' : a.id \in 1 .. lastAddr'
          /\ 1 .. lastAddr \subseteq 1 .. lastAddr' /\ lastAddr \in Nat
      BY <3>1, <3>3, InternedOnce DEF Interned
    <3>7. \A i \in DOMAIN path : IdAt(i) \in 1 .. lastAddr' \cup {Silent}
      BY <3>5, <3>6
    <3> HIDE DEF IdAt, new
    <3>8. TraceTypeOK'
      <4>1. runs' \subseteq [id : 1 .. lastRun', monitor : Monitors, old : BOOLEAN]
        <5>1. new \in [id : 1 .. lastRun + 1, monitor : Monitors, old : BOOLEAN]
          BY <3>2 DEF new
        <5>2. 1 .. lastRun \subseteq 1 .. lastRun + 1
          BY <3>2
        <5>3. QED
          BY <2>0, <3>3, <5>1, <5>2 DEF TraceTypeOK
      <4>2. traceHops' \subseteq [run : 1 .. lastRun', hop : Nat, addr : 1 .. lastAddr' \cup {Silent}]
        <5>1. \A i \in DOMAIN path : hop(i) \in [run : 1 .. lastRun + 1, hop : Nat, addr : 1 .. lastAddr' \cup {Silent}]
          BY <3>1, <3>2, <3>7
        <5>2. 1 .. lastRun \subseteq 1 .. lastRun + 1
          BY <3>2
        <5>3. traceHops \subseteq [run : 1 .. lastRun + 1, hop : Nat, addr : 1 .. lastAddr' \cup {Silent}]
          BY <2>0, <3>6, <5>2 DEF TraceTypeOK
        <5> HIDE DEF hop
        <5>4. QED
          BY <3>3, <5>1, <5>3
      <4>3. seen' \subseteq Monitors \X Nat \X (Addrs \cup {Silent})
        BY <2>0, <3>1, <3>3 DEF TraceTypeOK
      <4>4. QED
        BY <2>0, <3>2, <3>3, <3>6, <4>1, <4>2, <4>3 DEF TraceTypeOK
    <3> HIDE DEF hop
    <3>9. \A r, q \in runs' : r.id = q.id => r = q
      BY <2>0, <3>2, <3>3, <3>4
    <3>10. ReferencesHold'
      <4>1. \A h \in traceHops' : \E r \in runs' : r.id = h.run
        BY <2>0, <3>3, <3>4 DEF ReferencesHold
      <4>2. \A h \in traceHops' : h.addr = Silent \/ \E a \in addrs' : a.id = h.addr
        BY <2>0, <3>3, <3>4, <3>5, <3>6 DEF ReferencesHold
      <4>3. \A a \in addrs' : \E h \in traceHops' : h.addr = a.id
        <5>1. ASSUME NEW a \in addrs', NEW i \in DOMAIN path, path[i] = a.addr
              PROVE  hop(i).addr = a.id
          <6>1. a.addr # Silent
            BY <3>6, TraceStoreAssumption
          <6>2. QED
            BY <3>4, <3>5, <3>6, <5>1, <6>1
        <5>2. QED
          BY <2>0, <3>3, <3>6, <5>1 DEF ReferencesHold
      <4>4. QED
        BY <3>6, <4>1, <4>2, <4>3 DEF ReferencesHold
    <3>11. HopsSeen'
      <4> SUFFICES ASSUME NEW h \in traceHops', NEW r \in runs', NEW a \in addrs',
                          h.run = r.id, h.addr = a.id
                   PROVE  <<r.monitor, h.hop, a.addr>> \in seen'
        BY DEF HopsSeen
      <4>1. CASE h \in traceHops
        <5>1. r \in runs
          BY <3>2, <3>3, <3>4, <4>1
        <5>2. a \in addrs
          BY <3>2, <3>6, <4>1, TraceStoreAssumption
        <5>3. QED
          BY <2>0, <3>3, <4>1, <5>1, <5>2 DEF HopsSeen
      <4>2. ASSUME NEW i \in DOMAIN path, h = hop(i) PROVE <<r.monitor, h.hop, a.addr>> \in seen'
        <5>1. r.monitor = m
          BY <3>2, <3>3, <3>4, <4>2
        <5>2. a.addr = path[i]
          BY <3>4, <3>5, <3>6, <4>2, TraceStoreAssumption
        <5>3. QED
          BY <3>3, <3>4, <4>2, <5>1, <5>2
      <4>3. QED
        BY <3>3, <4>1, <4>2
    <3>12. ReaderOK' /\ AnswersAreOwn'
      BY <2>0, <3>2, <3>3, <3>4 DEF ReaderOK, AnswersAreOwn
    <3>13. QED
      BY <3>6, <3>8, <3>9, <3>10, <3>11, <3>12 DEF TraceInv
  <2>2. ASSUME NEW gone \in SUBSET runs, DeleteRuns(gone) PROVE TraceInv'
    <3> USE <2>2 DEF DeleteRuns
    <3>1. runs' \subseteq runs /\ traceHops' \subseteq traceHops /\ addrs' \subseteq addrs
      BY DEF HopsWithout, AddrsAfter
    <3>2. TraceTypeOK'
      BY <2>0, <3>1 DEF TraceTypeOK
    <3>3. ReferencesHold'
      <4>1. \A h \in traceHops' : \E r \in runs' : r.id = h.run
        BY <2>0 DEF HopsWithout, ReferencesHold
      <4>2. \A h \in traceHops' : h.addr = Silent \/ \E a \in addrs' : a.id = h.addr
        BY <2>0 DEF HopsWithout, AddrsAfter, ReferencesHold
      <4>3. \A a \in addrs' : \E h \in traceHops' : h.addr = a.id
        BY DEF AddrsAfter
      <4>4. QED
        BY <2>0, <3>1, <4>1, <4>2, <4>3 DEF ReferencesHold
    <3>4. HopsSeen' /\ ReaderOK' /\ AnswersAreOwn'
      BY <2>0, <3>1 DEF HopsSeen, ReaderOK, AnswersAreOwn
    <3>5. QED
      BY <2>0, <3>1, <3>2, <3>3, <3>4 DEF TraceInv
  <2>3. ASSUME NEW r \in runs, Age(r) PROVE TraceInv'
    <3> USE <2>3 DEF Age
    <3> DEFINE q == [id |-> r.id, monitor |-> r.monitor, old |-> TRUE]
    <3>1. /\ q \in [id : 1 .. lastRun, monitor : Monitors, old : BOOLEAN]
          /\ q.id = r.id /\ q.monitor = r.monitor /\ runs' = (runs \ {r}) \cup {q}
      BY <2>0 DEF TraceTypeOK
    <3> HIDE DEF q
    <3>2. TraceTypeOK'
      BY <2>0, <3>1 DEF TraceTypeOK
    <3>3. /\ \A y \in runs : \E x \in runs' : x.id = y.id /\ x.monitor = y.monitor
          /\ \A x \in runs' : \E y \in runs : x.id = y.id /\ x.monitor = y.monitor
          /\ \A x, y \in runs' : x.id = y.id => x = y
      BY <2>0, <3>1
    <3>4. ReferencesHold'
      BY <2>0, <3>3 DEF ReferencesHold
    <3>5. HopsSeen' /\ ReaderOK' /\ AnswersAreOwn'
      BY <2>0, <3>3 DEF HopsSeen, ReaderOK, AnswersAreOwn
    <3>6. QED
      BY <2>0, <3>2, <3>3, <3>4, <3>5 DEF TraceInv
  <2>4. ASSUME NEW m \in Monitors, NEW all \in BOOLEAN, ReadAggregates(m, all) PROVE TraceInv'
    <3> USE <2>4 DEF ReadAggregates
    <3>1. reader'.at = "latest"
      OBVIOUS
    <3>2. QED
      BY <2>0, <3>1 DEF TraceInv, TraceTypeOK, ReferencesHold, HopsSeen, ReaderOK, AnswersAreOwn
  <2>5. CASE ReadLatestRun
    <3> USE <2>5 DEF ReadLatestRun
    <3>1. /\ reader'.at = "addrs" /\ reader'.monitor = reader.monitor
          /\ reader'.run = LatestRun(reader.monitor, reader.all)
      OBVIOUS
    <3> DEFINE S == InRange(reader.monitor, reader.all)
               ids == {r.id : r \in S}
    <3>2. /\ reader'.run \in 0 .. lastRun
          /\ \A r \in runs : r.id = reader'.run => r.monitor = reader.monitor
      <4>1. lastRun \in Nat /\ \A r \in runs : r.id \in 1 .. lastRun
        BY <2>0 DEF TraceTypeOK
      <4>2. CASE S = {}
        BY <3>1, <4>1, <4>2 DEF LatestRun
      <4>3. CASE S # {}
        <5>1. ids \in SUBSET (0 .. lastRun) /\ ids # {}
          BY <4>1, <4>3 DEF InRange
        <5>2. Max(ids) \in ids
          BY <4>1, <5>1, GreatestOf
        <5>3. reader'.run = Max(ids)
          BY <3>1, <4>3 DEF LatestRun
        <5>4. PICK r \in S : r.id = Max(ids)
          BY <5>2
        <5>5. QED
          BY <2>0, <4>1, <5>3, <5>4 DEF InRange
      <4>4. QED
        BY <4>2, <4>3
    <3>3. ReaderOK' /\ AnswersAreOwn'
      BY <3>1, <3>2 DEF ReaderOK, AnswersAreOwn
    <3>4. QED
      BY <2>0, <3>1, <3>3 DEF TraceInv, TraceTypeOK, ReferencesHold, HopsSeen
  <2>6. CASE ReadAddrs
    <3> USE <2>6 DEF ReadAddrs
    <3>1. reader'.at = "answered" /\ reader'.monitor = reader.monitor
      OBVIOUS
    <3>2. ASSUME NEW x \in reader'.answer PROVE <<reader.monitor, x[1], x[2]>> \in seen
      <4>1. PICK h \in traceHops, a \in addrs :
              h.run = reader.run /\ h.addr = a.id /\ x = <<h.hop, a.addr>>
        BY <3>2
      <4>2. PICK r \in runs : r.id = h.run
        BY <2>0 DEF ReferencesHold
      <4>3. QED
        BY <2>0, <4>1, <4>2 DEF ReaderOK, HopsSeen
    <3>3. ReaderOK' /\ AnswersAreOwn'
      BY <3>1, <3>2 DEF ReaderOK, AnswersAreOwn
    <3>4. QED
      BY <2>0, <3>1, <3>3 DEF TraceInv, TraceTypeOK, ReferencesHold, HopsSeen
  <2>7. CASE ReaderDone
    BY <2>0, <2>7 DEF ReaderDone, Idle, TraceInv, TraceTypeOK, ReferencesHold, HopsSeen, ReaderOK,
       AnswersAreOwn
  <2>8. CASE UNCHANGED traceVars
    BY <2>0, <2>8 DEF traceVars, TraceInv, TraceTypeOK, ReferencesHold, HopsSeen, ReaderOK,
       AnswersAreOwn
  <2>9. QED
    <3>1. \A m : PruneTraceroute(m) \/ DeleteTraceroute(m) => \E gone \in SUBSET runs : DeleteRuns(gone)
      BY DEF PruneTraceroute, DeleteTraceroute
    <3>2. QED
      BY <2>1, <2>2, <2>3, <2>4, <2>5, <2>6, <2>7, <2>8, <3>1 DEF TraceNext
<1>3. QED
  BY <1>1, <1>2, PTL DEF TraceSpec

\* Every hop has its run and its address, and an address is stored once, and only while a
\* hop refers to it, after every insert, prune and delete.
THEOREM ReferencesKept == TraceSpec => []ReferencesHold
<1>1. TraceInv => ReferencesHold
  BY DEF TraceInv
<1>2. QED
  BY <1>1, StoreSafe, PTL

\* The query shows at a hop only addresses that this monitor's walks found there, whatever
\* is inserted, pruned or released between its three reads.
THEOREM AnswersOwn == TraceSpec => []AnswersAreOwn
<1>1. TraceInv => AnswersAreOwn
  BY DEF TraceInv
<1>2. QED
  BY <1>1, StoreSafe, PTL
=============================================================================
