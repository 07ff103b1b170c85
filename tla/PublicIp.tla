-------------------------------- MODULE PublicIp --------------------------------
(***************************************************************************)
(* The public-IP probe (src/src/probe/publicip.rs): it asks the service,   *)
(* and when that fails the fallback, and notes beside the address the one  *)
(* of the monitor's newest row, when they differ. After a change of its    *)
(* settings a monitor's old probe and its new one may overlap.             *)
(***************************************************************************)
EXTENDS Integers

CONSTANTS
    Ips,            \* addresses the host may have
    NoIp,           \* no address: a failed probe, an empty note
    IpTasks,        \* probes that may be under way at once
    Services,       \* how many candidates: 2 by default, 1 for a configured URL
    MaxReadings     \* bound: probes begun

ASSUME PublicIpAssumption ==
    /\ NoIp \notin Ips
    /\ Services \in Nat \ {0}
    /\ MaxReadings \in Nat

VARIABLES
    address,    \* the host's address as the services see it
    ipRows,     \* the monitor's rows: when stamped, the address and the note of its detail
    readings,   \* per task: where its probe is, and what it has so far
    begun,      \* probes begun
    stamps      \* the clock of checked_at

ipVars == <<address, ipRows, readings, begun, stamps>>

Rest == [at |-> "rest"]

PublicIpInit ==
    /\ address \in Ips
    /\ ipRows = {}
    /\ readings = [k \in IpTasks |-> Rest]
    /\ begun = 0 /\ stamps = 0

AddressChanges(ip) ==
    /\ ip # address
    /\ address' = ip
    /\ UNCHANGED <<ipRows, readings, begun, stamps>>

\* "alone": no other probe has been under way since this one began. History only.
Begin(k) ==
    /\ readings[k] = Rest
    /\ begun < MaxReadings
    /\ begun' = begun + 1
    /\ readings' = [j \in IpTasks |->
           IF j = k THEN [at |-> "ask", service |-> 1,
                          alone |-> \A h \in IpTasks : readings[h] = Rest]
           ELSE IF readings[j] = Rest THEN Rest ELSE [readings[j] EXCEPT !.alone = FALSE]]
    /\ UNCHANGED <<address, ipRows, stamps>>

\* The service answers with an address.
Answered(k) ==
    /\ readings[k].at = "ask"
    /\ readings' = [readings EXCEPT ![k] =
                       [at |-> "compare", ip |-> address, alone |-> @.alone]]
    /\ UNCHANGED <<address, ipRows, begun, stamps>>

Stamped(k, ip, note, sure) ==
    /\ stamps' = stamps + 1
    /\ readings' = [readings EXCEPT ![k] = [at |-> "store", alone |-> @.alone,
           row |-> [stamp |-> stamps + 1, ip |-> ip, note |-> note, alone |-> @.alone /\ sure]]]

\* Refused, timed out, another status, not an address: the next service, or down.
Unanswered(k) ==
    /\ readings[k].at = "ask"
    /\ IF readings[k].service < Services
       THEN readings' = [readings EXCEPT ![k].service = @ + 1] /\ UNCHANGED stamps
       ELSE Stamped(k, NoIp, NoIp, TRUE)
    /\ UNCHANGED <<address, ipRows, begun>>

Newest == CHOOSE r \in ipRows : \A q \in ipRows : q.stamp <= r.stamp

\* prior_ip: the leading token of the newest row's detail.
PriorIp == IF ipRows = {} THEN NoIp ELSE Newest.ip

\* Mutation: the prior address is noted whether it differs or not.
NoteAlways(ip, prior) == prior

\* detail_for_ip
Note(ip, prior) == IF prior = ip THEN NoIp ELSE prior

\* A failed read counts as no prior row.
Compare(k) ==
    /\ readings[k].at = "compare"
    /\ \/ Stamped(k, readings[k].ip, Note(readings[k].ip, PriorIp), TRUE)
       \/ Stamped(k, readings[k].ip, NoIp, FALSE)
    /\ UNCHANGED <<address, ipRows, begun>>

\* insert_result, which may fail.
Store(k) ==
    /\ readings[k].at = "store"
    /\ ipRows' \in {ipRows, ipRows \cup {readings[k].row}}
    /\ readings' = [readings EXCEPT ![k] = Rest]
    /\ UNCHANGED <<address, begun, stamps>>

PublicIpNext ==
    \/ \E ip \in Ips : AddressChanges(ip)
    \/ \E k \in IpTasks : Begin(k) \/ Answered(k) \/ Unanswered(k) \/ Compare(k) \/ Store(k)

PublicIpSpec == PublicIpInit /\ [][PublicIpNext]_ipVars
-----------------------------------------------------------------------------
(* Properties *)

Before(r) == {q \in ipRows : q.stamp < r.stamp}

RightBefore(q, r) == q \in Before(r) /\ \A h \in Before(r) : h.stamp <= q.stamp

\* "When the IP differs from the previously recorded one, the change is surfaced in
\* the detail": the note of a row names an address that was recorded before and is
\* not the row's own; and of two rows next to each other that both have an address,
\* the later one has a note exactly if they differ, and then of the earlier's
\* address. The second holds of probes that did not overlap with another and could
\* read their prior row; of a row after a failed one nothing is said: it has no note.
NotesAreTrue ==
    \A r \in ipRows :
        /\ r.note # NoIp => r.note # r.ip /\ \E q \in Before(r) : q.ip = r.note
        /\ r.alone /\ r.ip # NoIp =>
            \A q \in ipRows : RightBefore(q, r) /\ q.ip # NoIp =>
                r.note = IF q.ip = r.ip THEN NoIp ELSE q.ip
=============================================================================
