--------------------------------- MODULE Border ---------------------------------
(***************************************************************************)
(* The border probe (src/src/probe/border.rs): border monitors share one   *)
(* cache of detected gateways, filled by walks under its lock; each cycle  *)
(* pings what is configured or detected and says where the path is broken. *)
(***************************************************************************)
EXTENDS Integers, FiniteSets, Sequences

CONSTANTS
    Probers,        \* tasks of border monitors, an edited monitor's old one included
    Private,        \* addresses of private ranges
    Public,         \* public addresses other than the trace target
    Target,         \* TRACE_TARGET
    NoAddr,         \* no answer; no gateway
    WalkHops,       \* hops of a walk, TRACE_MAX_HOPS
    MaxExpiries     \* bound: how often REDETECT_AFTER passes

ASSUME BorderAssumption ==
    /\ WalkHops \in Nat /\ MaxExpiries \in Nat
    /\ NoAddr \notin Probers \cup Private \cup Public \cup {Target}

VARIABLES
    cache,      \* GW_CACHE: attempted less than REDETECT_AFTER ago; detected
    holder,     \* the prober that holds the cache's lock, or NoAddr
    prober,     \* per prober: at, and the gateways it resolved
    walks,      \* history: walks made
    expiries    \* history: how often REDETECT_AFTER passed

borderVars == <<cache, holder, prober, walks, expiries>>

Undetected == [local |-> NoAddr, isp |-> NoAddr]

BorderInit ==
    /\ cache = [fresh |-> FALSE, detected |-> Undetected]
    /\ holder = NoAddr
    /\ prober = [p \in Probers |-> [at |-> "idle"]]
    /\ walks = 0
    /\ expiries = 0

Configs == [gateway : Private \cup {NoAddr}, isp : Public \cup {NoAddr}]

StepTo(p, state) == prober' = [prober EXCEPT ![p] = state]
-----------------------------------------------------------------------------
(* Walks *)

\* What each TTL got: an address or nothing.
Replies == [1 .. WalkHops -> Private \cup Public \cup {Target, NoAddr}]

IsRouter(a) == a # Target

\* select_gateways: the private hop last seen before the first public one, which is
\* the ISP's unless it is the target. Without a private hop there is no result.
SelectGateways(replies) ==
    LET outside == {i \in 1 .. WalkHops : replies[i] \in Public \cup {Target}}
        inside  == {i \in 1 .. WalkHops : /\ replies[i] \in Private
                                          /\ \A o \in outside : i < o}
        local   == {i \in inside : \A j \in inside : j <= i}
        isp     == {i \in outside : (\A o \in outside : i <= o) /\ IsRouter(replies[i])}
    IN  IF local = {} THEN Undetected
        ELSE [local |-> replies[CHOOSE i \in local : TRUE],
              isp   |-> IF isp = {} THEN NoAddr ELSE replies[CHOOSE i \in isp : TRUE]]

\* Mutation: the new walk replaces what was known.
MergeNew(old, new) == new

\* The match over (prior, walked): what a walk misses is not forgotten.
Merge(old, new) ==
    IF new.local = NoAddr THEN old
    ELSE [local |-> new.local, isp |-> IF new.isp = NoAddr THEN old.isp ELSE new.isp]
-----------------------------------------------------------------------------
(* resolve_gateways *)

\* An explicit local gateway: detection, and the lock, are skipped.
ResolveConfigured(p) ==
    /\ prober[p].at = "idle"
    /\ \E config \in Configs :
        /\ config.gateway # NoAddr
        /\ StepTo(p, [at |-> "ping", local |-> config.gateway, isp |-> config.isp])
    /\ UNCHANGED <<cache, holder, walks, expiries>>

\* GW_CACHE.lock().await, of a monitor that may still name its ISP's gateway.
Lock(p) ==
    /\ prober[p].at = "idle"
    /\ holder = NoAddr
    /\ holder' = p
    /\ \E config \in Configs :
        /\ config.gateway = NoAddr
        /\ StepTo(p, [at |-> "locked", named |-> config.isp])
    /\ UNCHANGED <<cache, walks, expiries>>

Complete == cache.detected.isp # NoAddr

\* Mutation: a recent attempt does not count.
WalkIfIncomplete == ~Complete

WalkNeeded == ~Complete /\ ~cache.fresh

\* walk_for_gateways and the new cache entry. It takes the first of up to three walks
\* that finds a private hop; each gets what it gets, so what it yields is what one walk
\* with some replies yields.
Walk(p) ==
    /\ holder = p /\ prober[p].at = "locked"
    /\ WalkNeeded
    /\ \E replies \in Replies :
        cache' = [fresh |-> TRUE,
                  detected |-> Merge(cache.detected, SelectGateways(replies))]
    /\ walks' = walks + 1
    /\ StepTo(p, [at |-> "walked", named |-> prober[p].named])
    /\ UNCHANGED <<holder, expiries>>

\* A configured ISP gateway goes before the detected one, which is cached all the same.
IspGateway(named) == IF named # NoAddr THEN named ELSE cache.detected.isp

\* The gateways to ping; the routing table stands in for a missing local gateway.
Resolve(p) ==
    /\ holder = p
    /\ \/ prober[p].at = "locked" /\ ~WalkNeeded
       \/ prober[p].at = "walked"
    /\ holder' = NoAddr
    /\ \E local \in IF cache.detected.local = NoAddr THEN Private \cup {NoAddr}
                    ELSE {cache.detected.local} :
        StepTo(p, [at |-> "ping", local |-> local, isp |-> IspGateway(prober[p].named)])
    /\ UNCHANGED <<cache, walks, expiries>>

\* REDETECT_AFTER has passed since the last attempt.
Expire ==
    /\ cache.fresh
    /\ expiries < MaxExpiries
    /\ expiries' = expiries + 1
    /\ cache' = [cache EXCEPT !.fresh = FALSE]
    /\ UNCHANGED <<holder, prober, walks>>
-----------------------------------------------------------------------------
(* run *)

\* Mutation: the order of run's comment, from the inside out.
ClassifyInsideOut(localOk, ispOk, upstreamOk) ==
    IF ~localOk THEN "lan_down"
    ELSE IF ispOk = "no" THEN "isp_gw_down"
    ELSE IF ~upstreamOk THEN "isp_down"
    ELSE "ok"

\* classify_border; ispOk is "yes", "no" or, without an ISP gateway, "unknown".
Classify(localOk, ispOk, upstreamOk) ==
    IF upstreamOk THEN "ok"
    ELSE IF ispOk = "yes" THEN "isp_down"
    ELSE IF ispOk = "no" /\ localOk THEN "isp_gw_down"
    ELSE IF localOk THEN "isp_down"
    ELSE "lan_down"

\* The pings: each is answered or not.
Ping(p) ==
    /\ prober[p].at = "ping"
    /\ prober[p].local # NoAddr
    /\ \E localOk, upstreamOk \in BOOLEAN,
          ispOk \in IF prober[p].isp = NoAddr THEN {"unknown"} ELSE {"yes", "no"} :
        StepTo(p, [at |-> "reported", localOk |-> localOk, ispOk |-> ispOk,
                 upstreamOk |-> upstreamOk,
                 verdict |-> Classify(localOk, ispOk, upstreamOk)])
    /\ UNCHANGED <<cache, holder, walks, expiries>>

\* The early returns: no local gateway, or a raw socket is refused.
NoVerdict(p) ==
    /\ prober[p].at = "ping"
    /\ \E verdict \in IF prober[p].local = NoAddr THEN {"gateway_not_detected"} ELSE {"privilege_error"} :
        StepTo(p, [at |-> "failed", verdict |-> verdict])
    /\ UNCHANGED <<cache, holder, walks, expiries>>

NextCycle(p) ==
    /\ prober[p].at \in {"reported", "failed"}
    /\ StepTo(p, [at |-> "idle"])
    /\ UNCHANGED <<cache, holder, walks, expiries>>

BorderNext ==
    \/ \E p \in Probers :
        \/ ResolveConfigured(p) \/ Lock(p) \/ Walk(p) \/ Resolve(p)
        \/ Ping(p) \/ NoVerdict(p) \/ NextCycle(p)
    \/ Expire

BorderSpec == BorderInit /\ [][BorderNext]_borderVars
-----------------------------------------------------------------------------
(* Properties *)

BorderTypeOK ==
    /\ cache \in [fresh : BOOLEAN,
                  detected : [local : Private \cup {NoAddr}, isp : Public \cup {NoAddr}]]
    /\ holder \in Probers \cup {NoAddr}
    /\ \A p \in Probers :
        /\ prober[p].at \in {"idle", "locked", "walked", "ping", "reported", "failed"}
        /\ holder = p <=> prober[p].at \in {"locked", "walked"}
    /\ expiries \in 0 .. MaxExpiries

\* "A complete detection is trusted for the process lifetime", and a walk that sees
\* fewer hops does not erase what an earlier one found, whoever walks.
DetectionKept ==
    [][LET old == cache.detected
           new == cache'.detected
       IN  /\ old.isp # NoAddr => new = old
           /\ old.local # NoAddr => new.local # NoAddr]_borderVars

\* However many border monitors probe at once, there is one walk for each time the
\* last attempt grew stale.
WalksBounded == walks <= expiries + 1

\* What the pings would show if the path were broken in the given segment and the
\* given gateways blocked echoes while forwarding traffic.
Fits(r, broken, blocking) ==
    /\ r.localOk <=> broken # "lan_down" /\ "local" \notin blocking
    /\ r.ispOk \in {"unknown",
                    IF broken \notin {"lan_down", "isp_gw_down"} /\ "isp" \notin blocking
                    THEN "yes" ELSE "no"}
    /\ r.upstreamOk <=> broken = "ok"

\* "Gateways very commonly block ICMP echo": a cycle reports the segment that explains
\* its pings with the fewest gateways blocking, and never one that nothing explains.
VerdictExplains ==
    \A p \in Probers : prober[p].at = "reported" =>
        \E blocking \in SUBSET {"local", "isp"} :
            /\ Fits(prober[p], prober[p].verdict, blocking)
            /\ \A broken \in {"ok", "lan_down", "isp_gw_down", "isp_down"},
                  other \in SUBSET {"local", "isp"} :
                 Fits(prober[p], broken, other) => Cardinality(blocking) <= Cardinality(other)
=============================================================================
