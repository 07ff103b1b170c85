------------------------------ MODULE Traceroute ------------------------------
(***************************************************************************)
(* One traceroute walk (src/src/probe/traceroute.rs, trace_ipv4): echoes   *)
(* with a growing TTL, several per hop, sent and awaited one at a time on  *)
(* a raw socket, which hands over every ICMP packet the host receives:     *)
(* late answers to earlier queries and other programs' answers too.        *)
(*                                                                         *)
(* A node is its distance from the host; the target is Distance hops away. *)
(***************************************************************************)
EXTENDS Integers, SequencesExt

CONSTANTS
    MaxHops,        \* max_hops
    Queries,        \* queries_per_hop, less than 256
    MaxDistance,    \* bound: how far the target may be
    MaxForeign      \* bound: packets of other programs

ASSUME TracerouteAssumption ==
    /\ MaxHops \in 1 .. 64
    /\ Queries \in 1 .. 255
    /\ MaxDistance \in Nat \ {0}
    /\ MaxForeign \in Nat

None == -1      \* no address
Elsewhere == 0  \* where another program's answer comes from

Types == {"echo_reply", "time_exceeded", "dest_unreachable"}

VARIABLES
    distance,   \* of the target
    network,    \* ICMP packets on their way to the host, or in the socket's buffer
    foreign,    \* history: packets of other programs so far
    replies,    \* history: <<seq, type, node>>: what answered each query of ours
    walk,       \* "ttl", "send", "recv" or "done"
    ttl, query, \* the two loops' counters
    hopAddr,    \* hop_addr
    received,   \* rtts_us.len()
    hopReached, \* hop_reached
    hops,       \* the finished hops
    reached,    \* reached
    destAddr,   \* dest_addr
    failed      \* error is set: the hops are not used

walkVars == <<distance, network, foreign, replies, walk, ttl, query, hopAddr, received,
              hopReached, hops, reached, destAddr, failed>>
hopVars == <<hopAddr, received, hopReached, destAddr>>
outcome == <<hops, reached, failed>>

WalkInit ==
    /\ distance \in 1 .. MaxDistance
    /\ network = {}
    /\ foreign = 0
    /\ replies = {}
    /\ walk = "ttl"
    /\ ttl = 1
    /\ query = 0
    /\ hopAddr = None
    /\ received = 0
    /\ hopReached = FALSE
    /\ hops = <<>>
    /\ reached = FALSE
    /\ destAddr = None
    /\ failed = FALSE

\* ((ttl as u16) << 8) | (q & 0xff)
Seq16(t, q) == t * 256 + (q % 256)

Seqs == 0 .. 256 * 256 - 1
-----------------------------------------------------------------------------
(* The network *)

\* Which nodes may answer an echo sent with this TTL, and how. Any node on the way
\* may refuse to pass it on. Assumed: all echoes of a walk take the same path.
Answers(t) ==
    IF t < distance
    THEN {<<"time_exceeded", t>>} \cup ({"dest_unreachable"} \X (1 .. t))
    ELSE {<<"echo_reply", distance>>} \cup ({"dest_unreachable"} \X (1 .. distance))

\* Another ping or traceroute on this host is answered. Assumed: its identifier
\* differs (rand_ident: 16 bits of the clock and of the process id).
OtherTraffic ==
    /\ walk = "recv"
    /\ foreign < MaxForeign
    /\ foreign' = foreign + 1
    /\ \E typ \in Types :
        network' = network \cup {[typ |-> typ, ours |-> FALSE, seq |-> Seq16(ttl, query), src |-> Elsewhere]}
    /\ UNCHANGED <<distance, replies, walk, ttl, query, hopVars, outcome>>
-----------------------------------------------------------------------------
(* trace_ipv4 *)

\* set_ttl at the top of a hop; when it fails the walk ends in an error.
SetTtl ==
    /\ walk = "ttl"
    /\ \/ walk' = "send" /\ UNCHANGED failed
       \/ walk' = "done" /\ failed' = TRUE
    /\ UNCHANGED <<distance, network, foreign, replies, ttl, query, hopVars, hops, reached>>

\* The echo is sent; an answer to it is on its way, or never comes.
Send ==
    /\ walk = "send"
    /\ query < Queries
    /\ walk' = "recv"
    /\ \/ UNCHANGED <<network, replies>>
       \/ \E a \in Answers(ttl) :
            /\ network' = network \cup {[typ |-> a[1], ours |-> TRUE, seq |-> Seq16(ttl, query), src |-> a[2]]}
            /\ replies' = replies \cup {<<Seq16(ttl, query), a[1], a[2]>>}
    /\ UNCHANGED <<distance, foreign, ttl, query, hopVars, outcome>>

\* send_to fails: on with the next query.
SendFails ==
    /\ walk = "send"
    /\ query < Queries
    /\ query' = query + 1
    /\ UNCHANGED <<distance, network, foreign, replies, walk, ttl, hopVars, outcome>>

\* Mutation: the identifier is not compared.
MatchesSeq(p) == p.seq = Seq16(ttl, query)

\* rid == ident && rseq == seq
Matches(p) == p.ours /\ p.seq = Seq16(ttl, query)

\* Mutation: a refusal counts as the target's answer.
ReachedAny(typ) == typ \in {"echo_reply", "dest_unreachable"}

\* hop_reached after this answer: set or cleared by a reply or a refusal.
ReachedBy(typ) == IF typ \in {"echo_reply", "dest_unreachable"} THEN typ = "echo_reply" ELSE hopReached

\* recv_from hands over a packet: the answer awaited, or one to pass over.
Receive(p) ==
    /\ walk = "recv"
    /\ network' = network \ {p}
    /\ IF Matches(p)
       THEN /\ hopAddr' = p.src
            /\ received' = received + 1
            /\ hopReached' = ReachedBy(p.typ)
            /\ destAddr' = IF p.typ = "echo_reply" THEN p.src ELSE destAddr
            /\ query' = query + 1
            /\ walk' = "send"
       ELSE UNCHANGED <<hopVars, query, walk>>
    /\ UNCHANGED <<distance, foreign, replies, ttl, outcome>>

\* The deadline passes. What is still on its way may be received later.
Timeout ==
    /\ walk = "recv"
    /\ query' = query + 1
    /\ walk' = "send"
    /\ UNCHANGED <<distance, network, foreign, replies, ttl, hopVars, outcome>>

\* Mutation: the count goes on into the next hop.
CountGoesOn == received

\* rtts_us is new for each hop.
CountAtStart == 0

HopDone ==
    /\ walk = "send"
    /\ query = Queries
    /\ hops' = Append(hops, [addr |-> hopAddr, loss |-> Queries - received])
    /\ reached' = hopReached
    /\ IF hopReached \/ ttl = MaxHops
       THEN walk' = "done" /\ UNCHANGED ttl
       ELSE walk' = "ttl" /\ ttl' = ttl + 1
    /\ query' = 0
    /\ hopAddr' = None
    /\ received' = CountAtStart
    /\ hopReached' = FALSE
    /\ UNCHANGED <<distance, network, foreign, replies, destAddr, failed>>

WalkNext ==
    \/ OtherTraffic
    \/ SetTtl \/ Send \/ SendFails
    \/ \E p \in network : Receive(p)
    \/ Timeout \/ HopDone

WalkSpec == WalkInit /\ [][WalkNext]_walkVars
-----------------------------------------------------------------------------
(* Properties *)

WalkTypeOK ==
    /\ distance \in 1 .. MaxDistance
    /\ network \subseteq [typ : Types, ours : BOOLEAN, seq : Seqs, src : 0 .. MaxDistance]
    /\ walk \in {"ttl", "send", "recv", "done"}
    /\ ttl \in 1 .. MaxHops
    /\ query \in 0 .. Queries
    /\ hopAddr \in {None} \cup 0 .. MaxDistance
    /\ received \in 0 .. query
    /\ hopReached \in BOOLEAN
    /\ destAddr \in {None} \cup 0 .. MaxDistance
    /\ hops \in Seq([addr : {None} \cup 0 .. MaxDistance, loss : 0 .. Queries])
    /\ reached \in BOOLEAN /\ failed \in BOOLEAN

\* Which queries of hop t the given node answered.
AnsweredBy(t, node) == {r \in replies : r[1] \div 256 = t /\ r[3] = node}

\* However late answers are and whatever else is on the wire, a hop shows an address
\* that answered one of that hop's own queries, and counts no more answers than its
\* queries got.
HopsOwnTheirAnswers ==
    \A t \in DOMAIN hops :
        /\ hops[t].addr # None => AnsweredBy(t, hops[t].addr) # {}
        /\ Queries - hops[t].loss <= Cardinality({r \in replies : r[1] \div 256 = t})

\* "reached" is reported only if the target itself answered, and then the walk's last
\* hop shows it.
ReachedByTarget ==
    reached => /\ walk = "done"
               /\ Last(hops).addr = distance /\ destAddr = distance
               /\ \E r \in AnsweredBy(Len(hops), distance) : r[2] = "echo_reply"

\* "stopping when the destination replies": no further hop is begun once an echo
\* reply of the destination was taken.
StopsAtReply == walk = "ttl" => destAddr = None
=============================================================================
