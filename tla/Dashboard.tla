------------------------------- MODULE Dashboard -------------------------------
(***************************************************************************)
(* The live view: probe results reach the dashboard by a broadcast stream  *)
(* (src/src/scheduler/mod.rs, run_probe; src/src/api/mod.rs,               *)
(* monitor_stream) and by a poll of the whole list (list_monitors), and    *)
(* the page (src/assets/app.js) merges both with its own optimistic        *)
(* changes.                                                                *)
(*                                                                         *)
(* A result is its stamp: larger is newer, 0 is none. Of a monitor's       *)
(* configuration only the enabled flag is kept. The server's list is what  *)
(* MonitorStore proves it to be, an atomic registry.                       *)
(***************************************************************************)
EXTENDS Integers, Sequences, FiniteSets, SequencesExt

CONSTANTS
    MaxCards,       \* monitors, present or yet to be added
    RingSize,       \* capacity of the broadcast channel, 256 in main
    MaxPolls,       \* polls that may be under way at once
    MaxEvents       \* bound: probe results, changes by users, and failures together

ASSUME DashboardAssumption ==
    /\ MaxCards \in Nat
    /\ MaxEvents \in Nat
    /\ RingSize \in Nat \ {0}
    /\ MaxPolls \in Nat

CardIds == 1 .. MaxCards

VARIABLES
    mode,       \* the server's list, per id: "new" (not added yet), "on", "off" or "gone"
    latest,     \* per id: the newest row in probe_results
    probes,     \* results between the end of a probe and its broadcast
    ring,       \* the stream: updates broadcast and not yet shown
    open,       \* whether the stream is subscribed
    cards,      \* the page's monitors: a function on the ids it shows
    polls,      \* the polls under way, oldest first: the list, and what each has read
    requests,   \* toggles and deletions sent by the page
    events      \* results, changes and failures so far; also the clock of the stamps

serverVars == <<mode, latest, probes>>
streamVars == <<ring, open>>
pageVars == <<cards, polls, requests>>
dashVars == <<serverVars, streamVars, pageVars, events>>

Listed == {i \in CardIds : mode[i] \in {"on", "off"}}

\* What list_monitors answers when nothing moves meanwhile.
Current == [i \in Listed |-> [stamp |-> latest[i], enabled |-> mode[i] = "on"]]

\* The page after its first fetch (which may have failed), not yet subscribed.
DashInit ==
    /\ mode \in [CardIds -> {"new", "on"}]
    /\ latest = [i \in CardIds |-> 0]
    /\ probes = {}
    /\ ring = <<>> /\ open = FALSE
    /\ \/ cards = Current
       \/ cards = [i \in {} |-> 0]
    /\ polls = <<>>
    /\ requests = {}
    /\ events = 0

\* What ends some time: the tasks, the users and the failures rest.
Event == events < MaxEvents /\ events' = events + 1

-----------------------------------------------------------------------------
(* A result's way to the page *)

\* A probe ends. One that began before a pause or a deletion may end after it.
ProbeEnds(i) ==
    /\ mode[i] # "new"
    /\ Event
    /\ probes' = probes \cup {[id |-> i, stamp |-> events + 1, stored |-> FALSE]}
    /\ UNCHANGED <<mode, latest, streamVars, pageVars>>

Newer(s, t) == IF s > t THEN s ELSE t

\* insert_result, which may fail; the newest row is the one with the latest stamp.
StoreResult(r) ==
    /\ ~r.stored
    /\ probes' = (probes \ {r}) \cup {[r EXCEPT !.stored = TRUE]}
    /\ \/ latest' = [latest EXCEPT ![r.id] = Newer(@, r.stamp)] /\ UNCHANGED events
       \/ Event /\ UNCHANGED latest
    /\ UNCHANGED <<mode, streamVars, pageVars>>

\* A receiver that is behind loses the oldest updates.
Retained(updates) ==
    IF Len(updates) > RingSize THEN Tail(updates) ELSE updates

\* updates.send, whether the row was stored or not.
Broadcast(r) ==
    /\ r.stored
    /\ probes' = probes \ {r}
    /\ ring' = IF open THEN Retained(Append(ring, [id |-> r.id, stamp |-> r.stamp])) ELSE ring
    /\ UNCHANGED <<mode, latest, open, pageVars, events>>

\* The EventSource connects, first and after each break, to a fresh receiver.
Connect ==
    /\ ~open
    /\ open' = TRUE
    /\ UNCHANGED <<serverVars, ring, pageVars, events>>

StreamBreaks ==
    /\ open
    /\ Event
    /\ open' = FALSE /\ ring' = <<>>
    /\ UNCHANGED <<serverVars, pageVars>>

\* monitor_stream passes an update on, skipping what was lost before it. onUpdate
\* writes the card's fields, whatever they were; no card, no update.
OnUpdate ==
    /\ ring # <<>>
    /\ ring' = Tail(ring)
    /\ cards' = [i \in DOMAIN cards |->
                    IF i = Head(ring).id THEN [cards[i] EXCEPT !.stamp = Head(ring).stamp]
                    ELSE cards[i]]
    /\ UNCHANGED <<serverVars, open, polls, requests, events>>
-----------------------------------------------------------------------------
(* The poll *)

\* list_monitors takes the list. The page's timer does not wait for its last poll.
PollStarts ==
    /\ Len(polls) < MaxPolls
    /\ polls' = Append(polls, [list |-> mode, got |-> <<>>])
    /\ UNCHANGED <<serverVars, streamVars, cards, requests, events>>

Asked(poll) == {i \in CardIds : poll.list[i] \in {"on", "off"}}

HasRead(poll, i, stamp) ==
    [list |-> poll.list,
     got |-> [j \in DOMAIN poll.got \cup {i} |-> IF j = i THEN stamp ELSE poll.got[j]]]

\* One get_latest_status after the other; a failed one counts as no result.
PollReads(k) ==
    /\ k \in DOMAIN polls
    /\ LET left == Asked(polls[k]) \ DOMAIN polls[k].got
           next == CHOOSE i \in left : \A j \in left : i <= j
       IN  /\ left # {}
           /\ \/ polls' = [polls EXCEPT ![k] = HasRead(@, next, latest[next])] /\ UNCHANGED events
              \/ Event /\ polls' = [polls EXCEPT ![k] = HasRead(@, next, 0)]
    /\ UNCHANGED <<serverVars, streamVars, cards, requests>>

Answer(poll) ==
    [i \in Asked(poll) |-> [stamp |-> poll.got[i], enabled |-> poll.list[i] = "on"]]

\* Mutation: the answer is merged into the list.
Merged(answer) ==
    [i \in DOMAIN cards \cup DOMAIN answer |->
        IF i \in DOMAIN answer THEN answer[i] ELSE cards[i]]

Shown(answer) == answer

\* fetchMonitors replaces the list; a toggle under way holds an object of the old one.
PollEnds(k) ==
    /\ k \in DOMAIN polls
    /\ DOMAIN polls[k].got = Asked(polls[k])
    /\ cards' = Shown(Answer(polls[k]))
    /\ polls' = RemoveAt(polls, k)
    /\ requests' = {[q EXCEPT !.live = FALSE] : q \in requests}
    /\ UNCHANGED <<serverVars, streamVars, events>>

\* "Poll failed": the page keeps what it has.
PollFails(k) ==
    /\ k \in DOMAIN polls
    /\ Event
    /\ polls' = RemoveAt(polls, k)
    /\ UNCHANGED <<serverVars, streamVars, cards, requests>>
-----------------------------------------------------------------------------
(* Changes *)

\* Adding, pausing, resuming or deleting a monitor in another tab or by the API.
ChangedElsewhere(i, to) ==
    /\ Event
    /\ to \in IF mode[i] = "new" THEN {"on", "off"}
              ELSE IF i \in Listed THEN {"on", "off", "gone"} \ {mode[i]} ELSE {}
    /\ mode' = [mode EXCEPT ![i] = to]
    /\ latest' = IF to = "gone" THEN [latest EXCEPT ![i] = 0] ELSE latest
    /\ UNCHANGED <<probes, streamVars, cards, polls, requests>>

\* toggleMonitor shows the change before it is made.
Toggle(i) ==
    /\ Event
    /\ i \in DOMAIN cards
    /\ cards' = [cards EXCEPT ![i].enabled = ~@]
    /\ requests' = requests \cup
        {[no |-> events, kind |-> "toggle", id |-> i, to |-> ~cards[i].enabled, at |-> "sent", live |-> TRUE]}
    /\ UNCHANGED <<serverVars, streamVars, polls>>

\* deleteMonitor does not.
Delete(i) ==
    /\ Event
    /\ i \in DOMAIN cards
    /\ requests' = requests \cup
        {[no |-> events, kind |-> "delete", id |-> i, to |-> FALSE, at |-> "sent", live |-> TRUE]}
    /\ UNCHANGED <<serverVars, streamVars, cards, polls>>

Flag(enabled) == IF enabled THEN "on" ELSE "off"

\* set_monitor_enabled and delete_monitor; a monitor that is gone is not found.
Handle(q) ==
    /\ q.at = "sent"
    /\ LET found == q.id \in Listed
       IN  /\ mode' = IF ~found THEN mode
                      ELSE [mode EXCEPT ![q.id] = IF q.kind = "delete" THEN "gone" ELSE Flag(q.to)]
           /\ latest' = IF found /\ q.kind = "delete" THEN [latest EXCEPT ![q.id] = 0] ELSE latest
           /\ requests' = (requests \ {q}) \cup {[q EXCEPT !.at = IF found THEN "ok" ELSE "refused"]}
    /\ UNCHANGED <<probes, streamVars, cards, polls, events>>

\* The request or its answer is lost, or the statement fails: an error to the page.
RequestFails(q) ==
    /\ q.at \in {"sent", "ok"}
    /\ Event
    /\ requests' = (requests \ {q}) \cup {[q EXCEPT !.at = "refused"]}
    /\ UNCHANGED <<serverVars, streamVars, cards, polls>>

\* A refused toggle is undone on the object it was made on; a deletion takes the
\* card away.
RequestDone(q) ==
    /\ q.at \in {"ok", "refused"}
    /\ requests' = requests \ {q}
    /\ cards' =
        IF q.kind = "toggle" /\ q.at = "refused" /\ q.live /\ q.id \in DOMAIN cards
        THEN [cards EXCEPT ![q.id].enabled = ~q.to]
        ELSE IF q.kind = "delete" /\ q.at = "ok"
        THEN [i \in DOMAIN cards \ {q.id} |-> cards[i]]
        ELSE cards
    /\ UNCHANGED <<serverVars, streamVars, polls, events>>
-----------------------------------------------------------------------------
DashNext ==
    \/ \E i \in CardIds :
        \/ ProbeEnds(i)
        \/ \E to \in {"on", "off", "gone"} : ChangedElsewhere(i, to)
        \/ Toggle(i) \/ Delete(i)
    \/ \E r \in probes : StoreResult(r) \/ Broadcast(r)
    \/ Connect \/ StreamBreaks \/ OnUpdate
    \/ PollStarts
    \/ \E k \in 1 .. MaxPolls : PollReads(k) \/ PollEnds(k) \/ PollFails(k)
    \/ \E q \in requests : Handle(q) \/ RequestFails(q) \/ RequestDone(q)

DashSpec == DashInit /\ [][DashNext]_dashVars

\* Tasks run on, the page's timer ticks, and a request or a poll that is under way
\* ends. Nothing is assumed of users, or of the stream being open.
DashFairness ==
    /\ WF_dashVars(\E r \in probes : StoreResult(r) \/ Broadcast(r))
    /\ WF_dashVars(OnUpdate)
    /\ WF_dashVars(PollStarts)
    /\ \A k \in 1 .. MaxPolls : WF_dashVars(PollReads(k) \/ PollEnds(k))
    /\ WF_dashVars(\E q \in requests : Handle(q) \/ RequestDone(q))

DashFairSpec == DashSpec /\ DashFairness
-----------------------------------------------------------------------------
(* Properties *)

DashTypeOK ==
    /\ mode \in [CardIds -> {"new", "on", "off", "gone"}]
    /\ latest \in [CardIds -> 0 .. MaxEvents]
    /\ probes \subseteq [id : CardIds, stamp : 1 .. MaxEvents, stored : BOOLEAN]
    /\ ring \in Seq([id : CardIds, stamp : 1 .. MaxEvents])
    /\ Len(ring) <= RingSize
    /\ ~open => ring = <<>>
    /\ DOMAIN cards \subseteq CardIds
    /\ \A i \in DOMAIN cards : cards[i] \in [stamp : 0 .. MaxEvents, enabled : BOOLEAN]

\* "A lagging client drops oldest events and is reconciled by the dashboard's
\* periodic poll": whatever the stream lost, reordered or delivered late, whichever
\* poll overtook which update, and however a request ended, when users and probes
\* rest the page comes to show the stored list and results, and keeps showing them.
PageCatchesUp == <>[](cards = Current)
=============================================================================
