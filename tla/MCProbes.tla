-------------------------------- MODULE MCProbes --------------------------------
(***************************************************************************)
(* The scheduler and what its tasks run: the probes with a state of their  *)
(* own, and the traceroute tables. They share no state with each other: a  *)
(* behaviour is one of one part, with the others in an initial state.      *)
(***************************************************************************)
EXTENDS Scheduler, Traceroute, TraceStore, Border, PublicIp, Icmp

CONSTANTS a1, a2

VARIABLE part

\* Tasks of the scheduler are only compared for equality.
Symmetry == Permutations(Tasks)

TracePaths == {<<Silent, a1>>, <<a2, a1>>}

probeVars == <<part, schedVars, walkVars, traceVars, borderVars, ipVars, icmpVars>>

\* Of the initial states of the parts that do not move, one is enough.
ProbesInit ==
    /\ part \in {"scheduler", "walk", "store", "border", "publicip", "icmp"}
    /\ Init /\ WalkInit /\ TraceInit /\ BorderInit /\ PublicIpInit /\ IcmpInit
    /\ part # "scheduler" => list = [i \in Ids |-> Off]
    /\ part # "walk" => distance = 1
    /\ part # "publicip" => address = CHOOSE ip \in Ips : TRUE

Keep(moving) ==
    /\ UNCHANGED part
    /\ moving # "scheduler" => UNCHANGED schedVars
    /\ moving # "walk" => UNCHANGED walkVars
    /\ moving # "store" => UNCHANGED traceVars
    /\ moving # "border" => UNCHANGED borderVars
    /\ moving # "publicip" => UNCHANGED ipVars
    /\ moving # "icmp" => UNCHANGED icmpVars

ProbesNext ==
    \/ part = "scheduler" /\ Next /\ Keep("scheduler")
    \/ part = "walk" /\ WalkNext /\ Keep("walk")
    \/ part = "store" /\ TraceNext /\ Keep("store")
    \/ part = "border" /\ BorderNext /\ Keep("border")
    \/ part = "publicip" /\ PublicIpNext /\ Keep("publicip")
    \/ part = "icmp" /\ IcmpNext /\ Keep("icmp")

ProbesSpec == ProbesInit /\ [][ProbesNext]_probeVars

\* The variables of the probes and of the traceroute tables have their types.
ProbesTypeOK == WalkTypeOK /\ TraceTypeOK /\ BorderTypeOK
=============================================================================
