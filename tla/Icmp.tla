---------------------------------- MODULE Icmp ----------------------------------
(***************************************************************************)
(* The ICMP probe (src/src/probe/icmp.rs): the echoes of a cycle one after *)
(* the other, several probes at once over one shared socket. An answer     *)
(* finds its echo by address and identifier; identifiers are handed out in *)
(* turn and wrap.                                                          *)
(*                                                                         *)
(* All pingers here ping the same address: the case in which only the      *)
(* identifier tells their answers apart.                                   *)
(***************************************************************************)
EXTENDS Integers, Sequences

CONSTANTS
    Pingers,        \* probes that may be under way at once
    Count,          \* echoes of a cycle, 3 by default, at least 1
    Idents,         \* how many identifiers there are, 2^16
    MaxEchoes       \* bound: echoes sent

ASSUME IcmpAssumption ==
    /\ Count \in Nat \ {0}
    /\ Idents \in Nat \ {0}
    /\ MaxEchoes \in Nat

VARIABLES
    ident,      \* the next identifier
    pings,      \* per pinger: its cycle's tally, the identifier it waits for, its result
    wire,       \* answers on their way: the identifier, and which echo they answer
    sentCount   \* echoes sent

icmpVars == <<ident, pings, wire, sentCount>>

\* "heard": the echoes whose answers were counted. History only.
Cycle(echo) ==
    [at |-> "next", tried |-> 0, received |-> 0, errors |-> 0, ident |-> 0, echo |-> 0,
     heard |-> <<>>, first |-> echo, status |-> "none", reason |-> "none"]

\* The result of a cycle.
Result(cycle, status, reason) == [cycle EXCEPT !.at = "stopped", !.status = status, !.reason = reason]

IcmpInit ==
    /\ ident = 1 % Idents
    /\ pings = [p \in Pingers |-> Result(Cycle(0), "none", "none")]
    /\ wire = {}
    /\ sentCount = 0

\* resolve_host, once a cycle.
BeginCycle(p) ==
    /\ pings[p].at = "stopped"
    /\ sentCount < MaxEchoes
    /\ pings' = [pings EXCEPT ![p] = Cycle(sentCount + 1)]
    /\ UNCHANGED <<ident, wire, sentCount>>

NoAddress(p) ==
    /\ pings[p].at = "stopped"
    /\ pings' = [pings EXCEPT ![p] = Result(Cycle(0), "down", "dns_error")]
    /\ UNCHANGED <<ident, wire, sentCount>>

\* Without the privilege for a raw socket there is no client, now or later.
NoPrivilege(p) ==
    /\ pings[p].at = "next" /\ pings[p].tried = 0
    /\ pings' = [pings EXCEPT ![p] = Result(Cycle(0), "down", "privilege_error")]
    /\ UNCHANGED <<ident, wire, sentCount>>

\* Mutation: a number of the process, as ping(8) has it.
SameIdent == ident

NextIdent == (ident + 1) % Idents

\* No answer is under way, and none is waited for, so long that its identifier comes
\* again: that takes 2^16 echoes.
Recent(echo) == sentCount + 1 - echo < Idents

\* The cycle while it waits for the answer to the next echo.
Waiting(cycle) ==
    [cycle EXCEPT !.at = "wait", !.tried = @ + 1, !.ident = ident, !.echo = sentCount + 1]

\* next_ident and the echo request; the network may have an answer for it, in time
\* or not.
SendEcho(p) ==
    /\ pings[p].at = "next" /\ pings[p].tried < Count
    /\ sentCount < MaxEchoes
    /\ \A q \in Pingers : pings[q].at = "wait" => Recent(pings[q].echo)
    /\ ident' = NextIdent
    /\ sentCount' = sentCount + 1
    /\ pings' = [pings EXCEPT ![p] = Waiting(@)]
    /\ LET older == {a \in wire : Recent(a.echo)}
       IN  wire' \in {older, older \cup {[ident |-> ident, to |-> p, echo |-> sentCount + 1]}}

\* The cycle once this answer was counted.
Counted(cycle, answer) ==
    [cycle EXCEPT !.at = "next", !.received = @ + 1,
                  !.heard = Append(@, [to |-> answer.to, echo |-> answer.echo])]

\* The socket's receiver hands an answer to whoever waits for its identifier.
Deliver(answer) ==
    /\ wire' = wire \ {answer}
    /\ pings' = [p \in Pingers |->
           IF pings[p].at = "wait" /\ pings[p].ident = answer.ident
           THEN Counted(pings[p], answer)
           ELSE pings[p]]
    /\ UNCHANGED <<ident, sentCount>>

NoReply(p) ==
    /\ pings[p].at = "wait"
    /\ pings' = [pings EXCEPT ![p].at = "next"]
    /\ UNCHANGED <<ident, wire, sentCount>>

OtherError(p) ==
    /\ pings[p].at = "wait"
    /\ pings' = [pings EXCEPT ![p].at = "next", ![p].errors = @ + 1]
    /\ UNCHANGED <<ident, wire, sentCount>>

\* decide_icmp_result; an error is the reason only if every echo met one.
Decide(cycle) ==
    IF cycle.received = Count THEN Result(cycle, "up", "")
    ELSE IF cycle.received > 0 THEN Result(cycle, "up", "partial_loss")
    ELSE Result(cycle, "down", IF cycle.errors = Count THEN "error" ELSE "no_reply")

EndCycle(p) ==
    /\ pings[p].at = "next" /\ pings[p].tried = Count
    /\ pings' = [pings EXCEPT ![p] = Decide(@)]
    /\ UNCHANGED <<ident, wire, sentCount>>

IcmpNext ==
    \/ \E p \in Pingers :
        \/ BeginCycle(p) \/ NoAddress(p) \/ NoPrivilege(p)
        \/ SendEcho(p) \/ NoReply(p) \/ OtherError(p) \/ EndCycle(p)
    \/ \E answer \in wire : Deliver(answer)

IcmpSpec == IcmpInit /\ [][IcmpNext]_icmpVars
-----------------------------------------------------------------------------
(* Properties *)

\* "Unique echo identifier per ping, so concurrent pings multiplexed over the shared
\* clients can't collide": a cycle counts only answers to echoes of its own, each
\* once, and never one of an earlier cycle that comes late; so the monitor is up only
\* if the host did answer one of this cycle's echoes.
TallyOwn ==
    \A p \in Pingers :
        /\ Len(pings[p].heard) = pings[p].received
        /\ \A k \in DOMAIN pings[p].heard :
            /\ pings[p].heard[k].to = p
            /\ pings[p].heard[k].echo >= pings[p].first
            /\ \A j \in DOMAIN pings[p].heard : j # k => pings[p].heard[j] # pings[p].heard[k]
        /\ pings[p].at = "stopped" => (pings[p].status = "up" <=> pings[p].heard # <<>>)
=============================================================================
