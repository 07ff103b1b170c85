------------------------------- MODULE PageProofs -------------------------------
(***************************************************************************)
(* The page, proved for every number of monitors, results, polls and       *)
(* windows: the live view (Dashboard) keeps its types, a save of the edit  *)
(* form (EditForm) keeps what the form does not show, and the series of    *)
(* buckets and the segments of states (History) are exact.                 *)
(***************************************************************************)
EXTENDS Dashboard, EditForm, History, SequenceTheorems, WellFoundedInduction, TLAPS

-----------------------------------------------------------------------------
(* Induction over the numbers: the least counterexample *)

LEMMA LeastNumber ==
    ASSUME NEW S \in SUBSET Nat, S # {}
    PROVE  \E x \in S : \A y \in S : x <= y
<1> DEFINE R == OpToRel(<, Nat)
<1>1. \A x, y \in Nat : y < x => <<y, x>> \in R
  BY DEF OpToRel
<1>2. IsWellFoundedOn(R, Nat)
  BY NatLessThanWellFounded
<1> HIDE DEF R
<1>3. PICK x \in S : \A y \in S : ~(<<y, x>> \in R)
  BY <1>2, WFMin
<1>4. \A y \in S : ~(y < x)
  BY <1>1, <1>3
<1>5. QED
  BY <1>4

-----------------------------------------------------------------------------
(* The live view *)

Modes == {"new", "on", "off", "gone"}
Stamps == 0 .. MaxEvents
Cards == [stamp : Stamps, enabled : BOOLEAN]
Results == [id : CardIds, stamp : 1 .. MaxEvents, stored : BOOLEAN]
Updates == [id : CardIds, stamp : 1 .. MaxEvents]

Requests ==
    [no : Stamps, kind : {"toggle", "delete"}, id : CardIds, to : BOOLEAN,
     at : {"sent", "ok", "refused"}, live : BOOLEAN]

\* A poll has read of some monitors of its list what a row can hold.
Polls ==
    {poll \in [list : [CardIds -> Modes], got : UNION {[S -> Stamps] : S \in SUBSET CardIds}] :
        DOMAIN poll.got \subseteq Asked(poll)}

DashInv ==
    /\ DashTypeOK
    /\ events \in Stamps
    /\ polls \in Seq(Polls)
    /\ requests \subseteq Requests

\* The least of a set of ids is in it.
LEMMA LeastCard ==
    ASSUME NEW S \in SUBSET CardIds, S # {}
    PROVE  (CHOOSE i \in S : \A j \in S : i <= j) \in S
<1>1. S \in SUBSET Nat
  BY DashboardAssumption DEF CardIds
<1>2. QED
  BY <1>1, LeastNumber

LEMMA Ending ==
    ASSUME Event, events \in Stamps
    PROVE  events' \in Stamps /\ events' = events + 1 /\ events + 1 \in 1 .. MaxEvents
BY DashboardAssumption DEF Event, Stamps

LEMMA DashStart == DashInit => DashInv
<1> SUFFICES ASSUME DashInit PROVE DashInv
  OBVIOUS
<1> USE DashboardAssumption
<1>1. 0 \in Stamps
  BY DEF Stamps
<1>2. polls \in Seq(Polls)
  BY DEF DashInit
<1>3. DOMAIN cards \subseteq CardIds /\ \A i \in DOMAIN cards : cards[i] \in Cards
  <2>1. \A i \in Listed : i \in CardIds /\ latest[i] = 0 /\ (mode[i] = "on") \in BOOLEAN
    BY DEF DashInit, Listed
  <2>2. CASE cards = Current
    <3>1. \A i \in Listed : [stamp |-> latest[i], enabled |-> mode[i] = "on"] \in Cards
      BY <1>1, <2>1 DEF Cards
    <3>2. QED
      BY <2>1, <2>2, <3>1 DEF Current
  <2>3. CASE cards = [i \in {} |-> 0]
    BY <2>3
  <2>4. QED
    BY <2>2, <2>3 DEF DashInit
<1>4. DashTypeOK
  <2>1. latest \in [CardIds -> 0 .. MaxEvents]
    BY <1>1 DEF DashInit, Stamps
  <2>2. mode \in [CardIds -> {"new", "on", "off", "gone"}]
    BY DEF DashInit
  <2>3. ring \in Seq([id : CardIds, stamp : 1 .. MaxEvents]) /\ Len(ring) <= RingSize
    BY DEF DashInit
  <2>4. QED
    BY <1>3, <2>1, <2>2, <2>3 DEF DashInit, DashTypeOK, Cards, Stamps
<1>5. QED
  BY <1>1, <1>2, <1>4 DEF DashInit, DashInv


LEMMA Removed ==
    ASSUME NEW S, NEW s \in Seq(S), NEW k \in DOMAIN s
    PROVE  RemoveAt(s, k) \in Seq(S)
<1>1. k \in 1 .. Len(s) /\ Len(s) \in Nat
  OBVIOUS
<1>2. SubSeq(s, 1, k - 1) \in Seq(S)
  BY <1>1, SubSeqProperties
<1>3. SubSeq(s, k + 1, Len(s)) \in Seq(S)
  BY <1>1, SubSeqProperties
<1>4. QED
  BY <1>2, <1>3, ConcatProperties DEF RemoveAt

\* A poll that reads one row more.
LEMMA OneMoreRead ==
    ASSUME NEW poll \in Polls, NEW i \in Asked(poll), NEW v \in Stamps
    PROVE  HasRead(poll, i, v) \in Polls
<1> DEFINE got == [j \in DOMAIN poll.got \cup {i} |-> IF j = i THEN v ELSE poll.got[j]]
<1>1. Asked(poll) \subseteq CardIds
  BY DEF Asked
<1>2. DOMAIN poll.got \subseteq Asked(poll) /\ \A j \in DOMAIN poll.got : poll.got[j] \in Stamps
  BY DEF Polls
<1>3. got \in [DOMAIN poll.got \cup {i} -> Stamps] /\ DOMAIN poll.got \cup {i} \in SUBSET CardIds
  BY <1>1, <1>2
<1>4. got \in UNION {[S -> Stamps] : S \in SUBSET CardIds} /\ DOMAIN got \subseteq Asked(poll)
  BY <1>2, <1>3
<1>5. HasRead(poll, i, v) = [list |-> poll.list, got |-> got]
  BY DEF HasRead
<1>6. poll.list \in [CardIds -> Modes]
  BY DEF Polls
<1> HIDE DEF got
<1>7. QED
  BY <1>4, <1>5, <1>6 DEF Polls, Asked

\* What a finished poll answers is cards.
LEMMA AnswersCards ==
    ASSUME NEW poll \in Polls, DOMAIN poll.got = Asked(poll)
    PROVE  /\ DOMAIN Answer(poll) \subseteq CardIds
           /\ \A i \in DOMAIN Answer(poll) : Answer(poll)[i] \in Cards
<1>1. Asked(poll) \subseteq CardIds
  BY DEF Asked
<1>2. \A i \in Asked(poll) : poll.got[i] \in Stamps
  BY DEF Polls
<1>3. \A i \in Asked(poll) : [stamp |-> poll.got[i], enabled |-> poll.list[i] = "on"] \in Cards
  BY <1>2 DEF Cards
<1>4. QED
  BY <1>1, <1>3 DEF Answer

\* A ring that takes one update more, and one that gives its oldest away.
LEMMA RingKept ==
    ASSUME NEW r \in Seq(Updates), Len(r) <= RingSize, NEW u \in Updates
    PROVE  Retained(Append(r, u)) \in Seq(Updates) /\ Len(Retained(Append(r, u))) <= RingSize
<1>1. Append(r, u) \in Seq(Updates) /\ Len(Append(r, u)) = Len(r) + 1 /\ Len(r) \in Nat
  OBVIOUS
<1>2. Tail(Append(r, u)) \in Seq(Updates) /\ Len(Tail(Append(r, u))) = Len(r)
  BY <1>1, HeadTailProperties
<1>3. QED
  BY <1>1, <1>2, DashboardAssumption DEF Retained

LEMMA RingTail ==
    ASSUME NEW r \in Seq(Updates), Len(r) <= RingSize, r # <<>>
    PROVE  Tail(r) \in Seq(Updates) /\ Len(Tail(r)) <= RingSize /\ Head(r) \in Updates
<1>1. Tail(r) \in Seq(Updates) /\ Len(Tail(r)) = Len(r) - 1 /\ Len(r) \in Nat /\ Head(r) \in Updates
  BY HeadTailProperties
<1>2. QED
  BY <1>1, DashboardAssumption

\* A request that is handled, or fails, stays a request.
LEMMA MovedOn ==
    ASSUME NEW q \in Requests, NEW at \in {"ok", "refused"}
    PROVE  [q EXCEPT !.at = at] \in Requests
BY DEF Requests

LEMMA DashStep == DashInv /\ [DashNext]_dashVars => DashInv'
<1> SUFFICES ASSUME DashInv, [DashNext]_dashVars PROVE DashInv'
  OBVIOUS
<1> USE DashboardAssumption
<1> DEFINE Server == /\ mode \in [CardIds -> Modes]
                     /\ latest \in [CardIds -> Stamps]
                     /\ probes \subseteq Results
           Stream == /\ ring \in Seq(Updates)
                     /\ Len(ring) <= RingSize
                     /\ ~open => ring = <<>>
           CardsOK == /\ DOMAIN cards \subseteq CardIds
                      /\ \A i \in DOMAIN cards : cards[i] \in Cards
           RequestsOK == requests \subseteq Requests
           PollsOK == polls \in Seq(Polls)
           EventsOK == events \in Stamps
<1>0. /\ DashInv <=> Server /\ Stream /\ CardsOK /\ RequestsOK /\ PollsOK /\ EventsOK
      /\ DashInv' <=> (Server' /\ Stream' /\ CardsOK' /\ RequestsOK' /\ PollsOK' /\ EventsOK')
  BY DEF DashInv, DashTypeOK, Modes, Stamps, Results, Updates, Cards
<1>k. /\ UNCHANGED <<mode, latest, probes>> => Server'
      /\ UNCHANGED <<ring, open>> => Stream'
      /\ UNCHANGED cards => CardsOK'
      /\ UNCHANGED requests => RequestsOK'
      /\ UNCHANGED polls => PollsOK'
      /\ UNCHANGED events => EventsOK'
      /\ Event => EventsOK' /\ events + 1 \in 1 .. MaxEvents
  BY <1>0, Ending
<1>c. Server /\ Stream /\ CardsOK /\ RequestsOK /\ PollsOK /\ EventsOK
  BY <1>0
<1>1. ASSUME NEW i \in CardIds, ProbeEnds(i) PROVE DashInv'
  <2>1. Event /\ [id |-> i, stamp |-> events + 1, stored |-> FALSE] \in Results
    BY <1>k, <1>1 DEF ProbeEnds, Results
  <2>2. Server'
    BY <1>c, <1>1, <2>1 DEF ProbeEnds
  <2>3. QED
    BY <1>0, <1>k, <1>1, <2>1, <2>2 DEF ProbeEnds, streamVars, pageVars
<1>2. ASSUME NEW r \in probes, StoreResult(r) PROVE DashInv'
  <2>1. r \in Results
    BY <1>c
  <2>2. [r EXCEPT !.stored = TRUE] \in Results
    BY <2>1 DEF Results
  <2>3. Newer(latest[r.id], r.stamp) \in Stamps
    BY <1>c, <2>1 DEF Newer, Results, Stamps
  <2>4. mode' \in [CardIds -> Modes] /\ probes' \subseteq Results
    BY <1>c, <1>2, <2>2 DEF StoreResult
  <2>5. latest' \in [CardIds -> Stamps]
    BY <1>c, <1>2, <2>3 DEF StoreResult
  <2>6. EventsOK'
    BY <1>k, <1>2 DEF StoreResult
  <2>7. QED
    BY <1>0, <1>k, <1>2, <2>4, <2>5, <2>6 DEF StoreResult, streamVars, pageVars
<1>3. ASSUME NEW r \in probes, Broadcast(r) PROVE DashInv'
  <2>1. r \in Results /\ [id |-> r.id, stamp |-> r.stamp] \in Updates
    BY <1>c DEF Results, Updates
  <2>2. Stream'
    BY <1>c, <1>3, <2>1, RingKept DEF Broadcast
  <2>3. Server'
    BY <1>c, <1>3 DEF Broadcast
  <2>4. QED
    BY <1>0, <1>k, <1>3, <2>2, <2>3 DEF Broadcast, pageVars
<1>4. CASE Connect
  <2>1. Stream'
    BY <1>c, <1>4 DEF Connect
  <2>2. QED
    BY <1>0, <1>k, <1>4, <2>1 DEF Connect, serverVars, pageVars
<1>5. CASE StreamBreaks
  <2>1. Stream'
    BY <1>c, <1>5 DEF StreamBreaks
  <2>2. QED
    BY <1>0, <1>k, <1>5, <2>1 DEF StreamBreaks, serverVars, pageVars
<1>6. CASE OnUpdate
  <2>1. Head(ring) \in Updates /\ Stream'
    BY <1>c, <1>6, RingTail DEF OnUpdate
  <2>2. \A i \in DOMAIN cards : [cards[i] EXCEPT !.stamp = Head(ring).stamp] \in Cards
    <3>1. Head(ring).stamp \in Stamps
      BY <2>1 DEF Updates, Stamps
    <3>2. \A c \in Cards : [c EXCEPT !.stamp = Head(ring).stamp] \in Cards
      BY <3>1 DEF Cards
    <3>3. QED
      BY <1>c, <3>2
  <2>3. CardsOK'
    BY <1>c, <1>6, <2>2 DEF OnUpdate
  <2>4. QED
    BY <1>0, <1>k, <1>6, <2>1, <2>3 DEF OnUpdate, serverVars
<1>7. CASE PollStarts
  <2>1. [list |-> mode, got |-> <<>>] \in Polls
    <3>1. <<>> \in [{} -> Stamps] /\ {} \in SUBSET CardIds /\ DOMAIN <<>> = {}
      OBVIOUS
    <3>2. QED
      BY <1>c, <3>1 DEF Polls
  <2>2. PollsOK'
    BY <1>c, <1>7, <2>1 DEF PollStarts
  <2>3. QED
    BY <1>0, <1>k, <1>7, <2>2 DEF PollStarts, serverVars, streamVars
<1>8. ASSUME NEW k \in DOMAIN polls, PollReads(k) PROVE DashInv'
  <2> DEFINE left == Asked(polls[k]) \ DOMAIN polls[k].got
             next == CHOOSE i \in left : \A j \in left : i <= j
  <2>1. polls[k] \in Polls
    BY <1>c
  <2>2. left # {} /\ left \in SUBSET CardIds
    BY <1>8 DEF PollReads, Asked
  <2>3. next \in left
    BY <2>2, LeastCard
  <2>4. next \in CardIds /\ next \in Asked(polls[k])
    BY <2>2, <2>3
  <2>5. latest[next] \in Stamps /\ 0 \in Stamps
    BY <1>c, <2>4 DEF Stamps
  <2>6. \/ polls' = [polls EXCEPT ![k] = HasRead(polls[k], next, latest[next])] /\ UNCHANGED events
        \/ polls' = [polls EXCEPT ![k] = HasRead(polls[k], next, 0)] /\ Event
    BY <1>8 DEF PollReads
  <2> HIDE DEF left, next
  <2>7. /\ HasRead(polls[k], next, latest[next]) \in Polls
        /\ HasRead(polls[k], next, 0) \in Polls
    BY <2>1, <2>4, <2>5, OneMoreRead
  <2>8. PollsOK'
    <3>1. \A v \in Polls : [polls EXCEPT ![k] = v] \in Seq(Polls)
      BY <1>c
    <3>2. QED
      BY <2>6, <2>7, <3>1
  <2>9. QED
    BY <1>0, <1>k, <1>8, <2>6, <2>8 DEF PollReads, serverVars, streamVars
<1>9. ASSUME NEW k \in DOMAIN polls, PollEnds(k) PROVE DashInv'
  <2>1. polls[k] \in Polls /\ DOMAIN polls[k].got = Asked(polls[k])
    BY <1>c, <1>9 DEF PollEnds
  <2>2. CardsOK'
    <3>1. cards' = Answer(polls[k])
      BY <1>9 DEF PollEnds, Shown
    <3>2. QED
      BY <2>1, <3>1, AnswersCards
  <2>3. PollsOK'
    BY <1>c, <1>9, Removed DEF PollEnds
  <2>4. RequestsOK'
    <3>1. \A q \in Requests : [q EXCEPT !.live = FALSE] \in Requests
      BY DEF Requests
    <3>2. QED
      BY <1>c, <1>9, <3>1 DEF PollEnds
  <2>5. QED
    BY <1>0, <1>k, <1>9, <2>2, <2>3, <2>4 DEF PollEnds, serverVars, streamVars
<1>10. ASSUME NEW k \in DOMAIN polls, PollFails(k) PROVE DashInv'
  <2>1. PollsOK'
    BY <1>c, <1>10, Removed DEF PollFails
  <2>2. QED
    BY <1>0, <1>k, <1>10, <2>1 DEF PollFails, serverVars, streamVars
<1>11. ASSUME NEW i \in CardIds, NEW to \in {"on", "off", "gone"}, ChangedElsewhere(i, to)
       PROVE  DashInv'
  <2>1. mode' \in [CardIds -> Modes] /\ latest' \in [CardIds -> Stamps] /\ probes' \subseteq Results
    BY <1>c, <1>11 DEF ChangedElsewhere, Modes, Stamps
  <2>2. QED
    BY <1>0, <1>k, <1>11, <2>1 DEF ChangedElsewhere, streamVars
<1>12. ASSUME NEW i \in CardIds, Toggle(i) PROVE DashInv'
  <2>1. i \in DOMAIN cards /\ cards' = [cards EXCEPT ![i].enabled = ~@]
    BY <1>12 DEF Toggle
  <2>2. [cards[i] EXCEPT !.enabled = ~@] \in Cards /\ (~cards[i].enabled) \in BOOLEAN
    <3>1. ASSUME NEW c \in Cards PROVE [c EXCEPT !.enabled = ~@] \in Cards /\ (~c.enabled) \in BOOLEAN
      <4>1. (~c.enabled) \in BOOLEAN
        OBVIOUS
      <4>2. c = [stamp |-> c.stamp, enabled |-> c.enabled] /\ c.stamp \in Stamps
        BY DEF Cards
      <4>3. [c EXCEPT !.enabled = ~@] = [stamp |-> c.stamp, enabled |-> ~c.enabled]
        BY <4>2
      <4>4. QED
        BY <4>1, <4>2, <4>3 DEF Cards
    <3>2. QED
      BY <1>c, <2>1, <3>1
  <2>3. CardsOK'
    BY <1>c, <2>1, <2>2
  <2>4. RequestsOK'
    <3>1. [no |-> events, kind |-> "toggle", id |-> i, to |-> ~cards[i].enabled, at |-> "sent",
           live |-> TRUE] \in Requests
      BY <1>c, <2>2 DEF Requests
    <3>2. QED
      BY <1>c, <1>12, <3>1 DEF Toggle
  <2>5. QED
    BY <1>0, <1>k, <1>12, <2>3, <2>4 DEF Toggle, serverVars, streamVars
<1>13. ASSUME NEW i \in CardIds, Delete(i) PROVE DashInv'
  <2>1. [no |-> events, kind |-> "delete", id |-> i, to |-> FALSE, at |-> "sent", live |-> TRUE]
          \in Requests
    BY <1>c DEF Requests
  <2>2. RequestsOK'
    BY <1>c, <1>13, <2>1 DEF Delete
  <2>3. QED
    BY <1>0, <1>k, <1>13, <2>2 DEF Delete, serverVars, streamVars
<1>14. ASSUME NEW q \in requests, Handle(q) PROVE DashInv'
  <2>1. RequestsOK'
    <3>1. \A at \in {"ok", "refused"} : [q EXCEPT !.at = at] \in Requests
      BY <1>c, MovedOn
    <3>2. QED
      BY <1>c, <1>14, <3>1 DEF Handle
  <2>2. mode' \in [CardIds -> Modes]
    BY <1>c, <1>14 DEF Handle, Flag, Modes
  <2>3. latest' \in [CardIds -> Stamps]
    <3>1. q.id \in CardIds /\ 0 \in Stamps
      BY <1>c DEF Requests, Stamps
    <3>2. latest' = latest \/ latest' = [latest EXCEPT ![q.id] = 0]
      BY <1>14 DEF Handle
    <3>3. QED
      BY <1>c, <3>1, <3>2
  <2>4. QED
    BY <1>0, <1>k, <1>14, <2>1, <2>2, <2>3 DEF Handle, streamVars
<1>15. ASSUME NEW q \in requests, RequestFails(q) PROVE DashInv'
  <2>1. RequestsOK'
    <3>1. [q EXCEPT !.at = "refused"] \in Requests
      BY <1>c, MovedOn
    <3>2. QED
      BY <1>c, <1>15, <3>1 DEF RequestFails
  <2>2. QED
    BY <1>0, <1>k, <1>15, <2>1 DEF RequestFails, serverVars, streamVars
<1>16. ASSUME NEW q \in requests, RequestDone(q) PROVE DashInv'
  <2>0. q.to \in BOOLEAN /\ (~q.to) \in BOOLEAN
    <3>1. q.to \in BOOLEAN
      BY <1>c DEF Requests
    <3>2. QED
      BY <3>1
  <2>1. RequestsOK' /\ q.id \in CardIds /\ (~q.to) \in BOOLEAN
    BY <1>c, <1>16, <2>0 DEF RequestDone, Requests
  <2>2. CardsOK'
    <3>1. q.id \in DOMAIN cards => [cards[q.id] EXCEPT !.enabled = ~q.to] \in Cards
      <4>1. \A c \in Cards : [c EXCEPT !.enabled = ~q.to] \in Cards
        BY <2>1 DEF Cards
      <4>2. QED
        BY <1>c, <4>1
    <3>2. CASE cards' = [cards EXCEPT ![q.id].enabled = ~q.to] /\ q.id \in DOMAIN cards
      BY <1>c, <3>1, <3>2
    <3>3. CASE cards' = [i \in DOMAIN cards \ {q.id} |-> cards[i]]
      BY <1>c, <3>3
    <3>4. CASE cards' = cards
      BY <1>c, <3>4
    <3>5. QED
      BY <1>16, <3>2, <3>3, <3>4 DEF RequestDone
  <2>3. QED
    BY <1>0, <1>k, <1>16, <2>1, <2>2 DEF RequestDone, serverVars, streamVars
<1>17. CASE UNCHANGED dashVars
  BY <1>0, <1>k, <1>17 DEF dashVars, serverVars, streamVars, pageVars
<1>18. QED
  <2>1. \A k : PollReads(k) \/ PollEnds(k) \/ PollFails(k) => k \in DOMAIN polls
    BY DEF PollReads, PollEnds, PollFails
  <2>2. QED
    BY <1>1, <1>2, <1>3, <1>4, <1>5, <1>6, <1>7, <1>8, <1>9, <1>10, <1>11, <1>12, <1>13, <1>14,
       <1>15, <1>16, <1>17, <2>1 DEF DashNext

\* The live view's variables have their types, whatever is lost, late or out of order.
THEOREM DashSafe == DashSpec => []DashTypeOK
<1>1. DashInv => DashTypeOK
  BY DEF DashInv
<1>2. QED
  BY <1>1, DashStart, DashStep, PTL DEF DashSpec
-----------------------------------------------------------------------------
(* The edit form *)

Configuration == [hidden : Hidden, enabled : BOOLEAN, since : Nat]

\* A copy of a configuration, however old: if nothing has changed since it was read,
\* it is what is stored.
Copy(i, c) ==
    /\ c \in Configuration
    /\ c.since = settings[i].since => c = settings[i]
    /\ c.since <= changes

\* What a fetch has read, what the form was filled from and what a save carries are
\* copies of the configuration of one monitor, the one they name.
EditInv ==
    /\ changes \in 0 .. MaxChanges
    /\ settings \in [Edited -> Configuration]
    /\ \A i \in Edited : settings[i].since <= changes
    /\ \A f \in fetches :
        /\ f.id \in Edited
        /\ f.read => \A i \in Edited : Copy(i, f.configs[i])
    /\ form = NoForm \/ (form.id \in Edited /\ Copy(form.id, form.original))
    /\ \/ save = NoSave
       \/ /\ save.id \in Edited
          /\ \E c \in Configuration :
                Copy(save.id, c) /\ save.since = c.since /\ save.body = Body(c)

\* A save carries what was read.
LEMMA Carried ==
    ASSUME NEW c \in Configuration
    PROVE  /\ Body(c).hidden = c.hidden /\ c.hidden \in Hidden
           /\ Body(c).enabled = c.enabled /\ c.enabled \in BOOLEAN
<1>1. c.enabled = TRUE \/ c.enabled = FALSE
  BY DEF Configuration
<1>2. CASE c.enabled = TRUE
  BY <1>2 DEF Body, Configuration
<1>3. CASE c.enabled = FALSE
  BY <1>3 DEF Body, Configuration
<1>4. QED
  BY <1>1, <1>2, <1>3

\* A change makes every copy of that monitor's configuration an old one, and leaves
\* the copies of the others as they are.
LEMMA ChangeKeepsCopies ==
    ASSUME EditInv, NEW i \in Edited, NEW hidden \in Hidden, NEW enabled \in BOOLEAN,
           Change(i, hidden, enabled)
    PROVE  /\ changes' \in 0 .. MaxChanges
           /\ settings' \in [Edited -> Configuration]
           /\ \A j \in Edited : settings'[j].since <= changes'
           /\ \A j \in Edited : \A c : Copy(j, c) => Copy(j, c)'
<1> USE DEF EditInv, Change, Configuration
<1>1. changes' = changes + 1 /\ changes' \in 0 .. MaxChanges
  BY EditFormAssumption
<1>2. \A j \in Edited : settings'[j] = IF j = i
          THEN [hidden |-> hidden, enabled |-> enabled, since |-> changes + 1] ELSE settings[j]
  OBVIOUS
<1>3. settings' \in [Edited -> Configuration]
  OBVIOUS
<1>4. \A j \in Edited : settings'[j].since <= changes'
  BY <1>1, <1>2
<1>5. ASSUME NEW j \in Edited, NEW c, Copy(j, c) PROVE Copy(j, c)'
  BY <1>1, <1>2, <1>5 DEF Copy
<1>6. QED
  BY <1>1, <1>3, <1>4, <1>5

LEMMA EditStep == EditInv /\ [EditNext]_editVars => EditInv'
<1> SUFFICES ASSUME EditInv, [EditNext]_editVars PROVE EditInv'
  OBVIOUS
<1>1. ASSUME NEW i \in Edited, NEW hidden \in Hidden, NEW enabled \in BOOLEAN,
             ChangeElsewhere(i, hidden, enabled)
      PROVE  EditInv'
  <2>1. Change(i, hidden, enabled)
    BY <1>1 DEF ChangeElsewhere
  <2> HIDE DEF Change
  <2>2. QED
    BY <1>1, <2>1, ChangeKeepsCopies DEF ChangeElsewhere, EditInv
<1>2. ASSUME NEW i \in Edited, OpenEdit(i) PROVE EditInv'
  BY <1>2 DEF OpenEdit, EditInv, Copy
<1>3. ASSUME NEW f \in fetches, ReadConfigs(f) PROVE EditInv'
  <2>1. \A i \in Edited : Copy(i, settings[i])
    BY DEF EditInv, Copy
  <2>2. QED
    BY <1>3, <2>1 DEF ReadConfigs, EditInv, Copy
<1>4. ASSUME NEW f \in fetches, FillForm(f) PROVE EditInv'
  BY <1>4 DEF FillForm, Filled, EditInv, Copy
<1>5. ASSUME NEW f \in fetches, FetchFails(f) PROVE EditInv'
  BY <1>5 DEF FetchFails, EditInv, Copy
<1>6. CASE CloseForm
  BY <1>6 DEF CloseForm, EditInv, Copy
<1>7. CASE Submit
  BY <1>7 DEF Submit, EditInv, Copy
<1>8. CASE Put
  <2>1. save # NoSave /\ Change(save.id, save.body.hidden, save.body.enabled)
    BY <1>8 DEF Put
  <2>2. save.id \in Edited /\ save.body.hidden \in Hidden /\ save.body.enabled \in BOOLEAN
    BY <2>1, Carried DEF EditInv
  <2>3. /\ save'.id = save.id /\ save'.since = save.since /\ save'.body = save.body
    BY <1>8 DEF Put
  <2>4. UNCHANGED <<fetches, form>>
    BY <1>8 DEF Put
  <2>5. /\ changes' \in 0 .. MaxChanges
        /\ settings' \in [Edited -> Configuration]
        /\ \A j \in Edited : settings'[j].since <= changes'
        /\ \A j \in Edited : \A c : Copy(j, c) => Copy(j, c)'
    BY <2>1, <2>2, ChangeKeepsCopies
  <2>6. \E c \in Configuration :
          Copy(save.id, c)' /\ save'.since = c.since /\ save'.body = Body(c)
    BY <2>1, <2>2, <2>3, <2>5 DEF EditInv
  <2>7. (\A f \in fetches : f.id \in Edited /\ (f.read => \A i \in Edited : Copy(i, f.configs[i])))'
    BY <2>4, <2>5 DEF EditInv
  <2>8. (form = NoForm \/ (form.id \in Edited /\ Copy(form.id, form.original)))'
    BY <2>4, <2>5 DEF EditInv, NoForm
  <2>9. save'.id \in Edited
    BY <2>2, <2>3
  <2>10. QED
    BY <2>5, <2>6, <2>7, <2>8, <2>9 DEF EditInv
<1>9. CASE SaveDone
  BY <1>9 DEF SaveDone, EditInv, Copy
<1>10. CASE SaveRefused
  BY <1>10 DEF SaveRefused, EditInv, Copy
<1>11. CASE UNCHANGED editVars
  BY <1>11 DEF editVars, EditInv, Copy
<1>12. QED
  BY <1>1, <1>2, <1>3, <1>4, <1>5, <1>6, <1>7, <1>8, <1>9, <1>10, <1>11 DEF EditNext

LEMMA EditStart == EditInit => EditInv
BY EditFormAssumption DEF EditInit, EditInv, Configuration

\* The stored configurations keep their types, whatever the forms send, and the form and
\* the save are of a monitor there is.
THEOREM EditTypes == EditSpec => []EditTypeOK
<1>1. EditInv => EditTypeOK
  <2> SUFFICES ASSUME EditInv PROVE EditTypeOK
    OBVIOUS
  <2>1. \A i \in Edited : settings[i] \in Configuration /\ settings[i].since <= changes
    BY DEF EditInv
  <2>2. changes \in Nat /\ changes <= MaxChanges
    BY EditFormAssumption DEF EditInv
  <2>3. \A i \in Edited :
          settings[i] \in [hidden : Hidden, enabled : BOOLEAN, since : 0 .. MaxChanges]
    BY <2>1, <2>2, EditFormAssumption DEF Configuration
  <2>4. QED
    BY <2>3 DEF EditInv, EditTypeOK
<1>2. QED
  BY <1>1, EditStart, EditStep, PTL DEF EditSpec

\* A save whose form was filled from what is still stored changes nothing that the form
\* does not show: whichever forms were opened, filled late or closed meanwhile, the
\* carried-over fields are those of the monitor that is saved.
THEOREM SaveKeeps == EditSpec => EditKeeps
<1> DEFINE Keeps == \A i \in Edited :
                      Put /\ save.id = i /\ save.since = settings[i].since =>
                          /\ settings'[i].hidden = settings[i].hidden
                          /\ settings'[i].enabled = settings[i].enabled
<1>2. EditInv /\ [EditNext]_editVars => [Keeps]_editVars
  <2> SUFFICES ASSUME EditInv, NEW i \in Edited, Put, save.id = i, save.since = settings[i].since
               PROVE  /\ settings'[i].hidden = settings[i].hidden
                      /\ settings'[i].enabled = settings[i].enabled
    OBVIOUS
  <2>1. save # NoSave
    BY DEF Put
  <2>2. PICK c \in Configuration :
          Copy(save.id, c) /\ save.since = c.since /\ save.body = Body(c)
    BY <2>1 DEF EditInv
  <2>3. save.body.hidden = settings[i].hidden /\ save.body.enabled = settings[i].enabled
    BY <2>2, Carried DEF Copy
  <2>4. settings'[i] = [hidden |-> save.body.hidden, enabled |-> save.body.enabled,
                        since |-> changes + 1]
    <3>1. settings' = [settings EXCEPT ![i] =
                         [hidden |-> save.body.hidden, enabled |-> save.body.enabled,
                          since |-> changes + 1]]
      BY DEF Put, Change
    <3>2. DOMAIN settings = Edited
      BY DEF EditInv
    <3>3. QED
      BY <3>1, <3>2
  <2>5. QED
    BY <2>3, <2>4
<1>3. QED
  BY <1>2, EditStart, EditStep, PTL DEF EditSpec, EditKeeps
-----------------------------------------------------------------------------
(* The series: division *)

LEMMA Quotient ==
    ASSUME NEW a \in Nat, NEW d \in Nat \ {0}
    PROVE  a \div d \in Nat /\ d * (a \div d) <= a /\ a < d * (a \div d) + d
OBVIOUS

LEMMA QuotientIs ==
    ASSUME NEW a \in Nat, NEW d \in Nat \ {0}, NEW q \in Nat, d * q <= a, a < d * q + d
    PROVE  a \div d = q
OBVIOUS

LEMMA Divides ==
    ASSUME NEW a \in Nat, NEW d \in Nat \ {0}, a % d = 0
    PROVE  a = d * (a \div d)
OBVIOUS

LEMMA AtLeastQuotient ==
    ASSUME NEW a \in Nat, NEW d \in Nat \ {0}, NEW q \in Nat, d * q <= a
    PROVE  q <= a \div d
OBVIOUS

LEMMA ProductIsNat ==
    ASSUME NEW a \in Nat, NEW d \in Nat
    PROVE  a * d \in Nat
OBVIOUS

LEMMA ProductIsOrdered ==
    ASSUME NEW a \in Nat, NEW d \in Nat, NEW n \in Nat, a <= d
    PROVE  a * n <= d * n
OBVIOUS

LEMMA Cancel ==
    ASSUME NEW a \in Nat, NEW d \in Nat, NEW n \in Nat \ {0}, a * n <= d * n
    PROVE  a <= d
OBVIOUS

(* One bucket *)

LEMMA Seconds ==
    ASSUME NEW s \in Nat, NEW t \in Nat, s <= t
    PROVE  Second(s) \in Nat /\ Second(t) \in Nat /\ Second(s) <= Second(t)
<1>0. Milli \in Nat \ {0}
  BY HistoryAssumption
<1>1. /\ s \div Milli \in Nat /\ Milli * (s \div Milli) <= s
      /\ t \div Milli \in Nat
  BY <1>0, Quotient
<1>2. Milli * (s \div Milli) <= t
  <2> DEFINE p == Milli * (s \div Milli)
  <2>1. p \in Nat
    BY <1>0, <1>1
  <2> HIDE DEF p
  <2>2. p <= s => p <= t
    BY <2>1
  <2>3. QED
    BY <1>1, <2>2 DEF p
<1>3. s \div Milli <= t \div Milli
  BY <1>0, <1>1, <1>2, AtLeastQuotient
<1>4. QED
  BY <1>1, <1>3 DEF Second

LEMMA SlotRange ==
    ASSUME NEW time \in Nat, NEW from \in Nat, from <= time,
           NEW n \in Nat \ {0}, NEW span \in Nat \ {0}
    PROVE  /\ Slot(time, from, n, span) \in 0 .. n - 1
           /\ span * Slot(time, from, n, span) <= (time - from) * n
<1> DEFINE d == (time - from) * n
           q == d \div span
<1>1. time - from \in Nat
  OBVIOUS
<1>2. d \in Nat
  BY <1>1, ProductIsNat
<1> HIDE DEF d
<1>3. q \in Nat /\ span * q <= d
  BY <1>2, Quotient
<1>4. Slot(time, from, n, span) = IF n - 1 <= q THEN n - 1 ELSE q
  BY DEF Slot, Least, q, d
<1> HIDE DEF q
<1>5. Slot(time, from, n, span) \in 0 .. n - 1 /\ Slot(time, from, n, span) <= q
  BY <1>3, <1>4
<1> DEFINE b == Slot(time, from, n, span)
<1>6. b \in Nat /\ b <= q
  BY <1>5
<1> HIDE DEF b
<1>7. b * span <= q * span
  BY <1>3, <1>6, ProductIsOrdered
<1>8. span * b <= span * q
  BY <1>3, <1>6, <1>7
<1>9. span * b <= d
  <2> DEFINE x == span * b
             y == span * q
  <2>1. x \in Int /\ y \in Int
    BY <1>3, <1>6
  <2> HIDE DEF x, y
  <2>2. x <= y /\ y <= d => x <= d
    BY <1>2, <2>1
  <2>3. QED
    BY <1>3, <1>8, <2>2 DEF x, y
<1>10. QED
  BY <1>5, <1>9 DEF b, d

\* A bucket's label does not pass what its slot was reckoned from, in the same unit.
LEMMA Label ==
    ASSUME NEW b \in Nat, NEW s \in Nat, NEW d \in Nat, NEW n \in Nat \ {0}, s * b <= d * n
    PROVE  (b * s) \div n \in Nat /\ (b * s) \div n <= d
<1> DEFINE q == (b * s) \div n
<1>1. b * s \in Nat /\ b * s = s * b
  OBVIOUS
<1>2. q \in Nat /\ n * q <= b * s
  BY <1>1, Quotient
<1> HIDE DEF q
<1>3. q * n <= d * n
  <2>1. q * n = n * q /\ q * n \in Nat /\ d * n \in Nat
    BY <1>2
  <2>2. QED
    BY <1>1, <1>2, <2>1
<1>4. q <= d
  BY <1>2, <1>3, Cancel
<1>5. QED
  BY <1>2, <1>4 DEF q

\* From the raw rows, the slot was reckoned in milliseconds and the label in seconds.
LEMMA RawLabel ==
    ASSUME NEW from \in Nat, NEW to \in Nat, NEW at \in Nat, from <= at, at <= to,
           NEW n \in Nat \ {0}, NEW b \in 0 .. n - 1,
           AtLeastOne(to - from) * b <= (at - from) * n
    PROVE  Second(from) + (b * Span(from, to)) \div n \in Second(from) .. Second(at)
<1> DEFINE f == Second(from)
           t == Second(to)
           s == Span(from, to)
           q == (b * s) \div n
<1>0. Milli \in Nat \ {0}
  BY HistoryAssumption
<1>1. /\ f \in Nat /\ t \in Nat /\ f <= t
      /\ Milli * f <= from /\ Milli * t <= to
      /\ Second(at) \in Nat /\ f <= Second(at)
  BY <1>0, Seconds, Quotient DEF Second
<1>2. s \in Nat \ {0} /\ (t = f => s = 1) /\ (t # f => s = t - f)
  BY <1>1 DEF Span, AtLeastOne
<1>3. CASE t = f
  <2>1. b * s = b /\ b \in Nat /\ n * 0 <= b /\ b < n * 0 + n
    BY <1>2, <1>3
  <2>2. q = 0
    BY <2>1, QuotientIs
  <2>3. QED
    BY <1>1, <2>2
<1>4. CASE t # f
  <2>1. from < to /\ s = t - f /\ to - from \in Nat \ {0}
    <3>1. from # to
      BY <1>4
    <3>2. QED
      BY <1>2, <1>4, <3>1
  <2>2. q \in Nat /\ n * q <= b * s
    BY <1>2, Quotient
  <2>3. b \in Nat /\ n - b \in Nat
    OBVIOUS
  <2>4. (to - from) * b <= (at - from) * n
    BY <2>1 DEF AtLeastOne
  <2> HIDE DEF f, t, s, q
  <2>5. from * (n - b) + to * b <= at * n
    <3>1. (to - from) * b = to * b - from * b /\ (at - from) * n = at * n - from * n
      BY <2>3
    <3>2. from * (n - b) = from * n - from * b
      BY <2>3
    <3>3. to * b \in Int /\ from * b \in Int /\ at * n \in Int /\ from * n \in Int
      BY <2>3
    <3> DEFINE tb == to * b
               fb == from * b
               an == at * n
               fn == from * n
    <3>4. tb - fb <= an - fn /\ from * (n - b) = fn - fb
      BY <2>4, <3>1, <3>2
    <3> HIDE DEF tb, fb, an, fn
    <3>5. (fn - fb) + tb <= an
      BY <3>3, <3>4 DEF tb, fb, an, fn
    <3>6. QED
      BY <3>4, <3>5 DEF tb, an
  <2>6. (Milli * f) * (n - b) <= from * (n - b) /\ (Milli * t) * b <= to * b
    BY <1>0, <1>1, <2>3, ProductIsOrdered
  <2>7. (Milli * f) * (n - b) + (Milli * t) * b = Milli * (f * n + b * s)
    BY <1>0, <1>1, <2>1, <2>3
  <2>8. Milli * (f * n + q * n) <= Milli * (f * n + b * s)
    <3>1. f * n + q * n \in Nat /\ f * n + b * s \in Nat /\ f * n + q * n <= f * n + b * s
      BY <1>1, <1>2, <2>2, <2>3
    <3>2. QED
      BY <1>0, <3>1, ProductIsOrdered
  <2>9. (Milli * (f + q)) * n = Milli * (f * n + q * n)
    BY <1>0, <1>1, <2>2
  <2>10. (Milli * (f + q)) * n <= at * n
    <3> DEFINE u == (Milli * f) * (n - b)
               v == (Milli * t) * b
               x == from * (n - b)
               y == to * b
               z == at * n
               w == (Milli * (f + q)) * n
               m == Milli * (f * n + b * s)
    <3>1. u \in Int /\ v \in Int /\ x \in Int /\ y \in Int /\ z \in Int /\ w \in Int /\ m \in Int
      BY <1>0, <1>1, <1>2, <2>2, <2>3
    <3>2. u <= x /\ v <= y /\ x + y <= z /\ w <= m /\ u + v = m
      BY <2>5, <2>6, <2>7, <2>8, <2>9
    <3> HIDE DEF u, v, x, y, z, w, m
    <3>3. w <= z
      BY <3>1, <3>2
    <3>4. QED
      BY <3>3 DEF w, z
  <2>11. Milli * (f + q) <= at
    <3>1. Milli * (f + q) \in Nat
      BY <1>0, <1>1, <2>2
    <3>2. QED
      BY <2>10, <3>1, Cancel
  <2>12. f + q <= at \div Milli
    <3>1. f + q \in Nat
      BY <1>1, <2>2
    <3>2. QED
      BY <1>0, <2>11, <3>1, AtLeastQuotient
  <2>13. f + q \in f .. Second(at)
    BY <1>1, <2>2, <2>12 DEF Second
  <2>14. QED
    BY <2>13 DEF f, q, s
<1>5. QED
  BY <1>3, <1>4
-----------------------------------------------------------------------------
(* A series *)

\* Every bucket sums up the results of its slot, and every result is in one.
LEMMA BucketsOf ==
    ASSUME NEW slot, NEW from, NEW n, NEW s
    PROVE  /\ \A b \in Buckets(slot, from, n, s) :
                /\ \E k \in DOMAIN slot : b.no = slot[k]
                /\ b.ts = from + (b.no * s) \div n
                /\ b.inside = {k \in DOMAIN slot : slot[k] = b.no}
           /\ \A b, c \in Buckets(slot, from, n, s) : c = b \/ c.inside \cap b.inside = {}
           /\ UNION {b.inside : b \in Buckets(slot, from, n, s)} = DOMAIN slot
<1> DEFINE of(no) == Bucket(no, from, n, s, {k \in DOMAIN slot : slot[k] = no})
           series == Buckets(slot, from, n, s)
<1>1. series = {of(no) : no \in {slot[k] : k \in DOMAIN slot}}
  BY DEF Buckets
<1>2. \A no : /\ of(no).no = no
              /\ of(no).ts = from + (no * s) \div n
              /\ of(no).inside = {k \in DOMAIN slot : slot[k] = no}
  BY DEF Bucket
<1> HIDE DEF of, series
<1>3. \A b \in series : \E no \in {slot[k] : k \in DOMAIN slot} : b = of(no)
  BY <1>1
<1>4. \A b \in series : /\ b = of(b.no)
                        /\ \E k \in DOMAIN slot : b.no = slot[k]
                        /\ b.ts = from + (b.no * s) \div n
                        /\ b.inside = {k \in DOMAIN slot : slot[k] = b.no}
  BY <1>2, <1>3
<1>5. \A b, c \in series : c = b \/ c.inside \cap b.inside = {}
  <2> SUFFICES ASSUME NEW b \in series, NEW c \in series, NEW k \in c.inside \cap b.inside
               PROVE  c = b
    OBVIOUS
  <2>1. slot[k] = b.no /\ slot[k] = c.no
    BY <1>4
  <2>2. QED
    BY <1>4, <2>1
<1>6. UNION {b.inside : b \in series} = DOMAIN slot
  <2>1. \A k \in DOMAIN slot : of(slot[k]) \in series /\ k \in of(slot[k]).inside
    BY <1>1, <1>2
  <2>2. \A b \in series : b.inside \subseteq DOMAIN slot
    BY <1>4
  <2>3. QED
    BY <2>1, <2>2
<1>7. QED
  BY <1>4, <1>5, <1>6 DEF series

\* Buckets with labels between the window's start and the results in them.
Labelled(series, from, n) ==
    \A b \in series :
        /\ b.no \in 0 .. n - 1
        /\ \A k \in b.inside : b.ts \in Second(from) .. Second(results[k].at)
        /\ \A c \in series : c = b \/ c.inside \cap b.inside = {}

TimesOK == \A k \in DOMAIN results : results[k].at \in Nat

LEMMA RawExact ==
    ASSUME TimesOK, NEW from \in Nat, NEW to \in Nat, from <= to, NEW n \in Nat \ {0}
    PROVE  /\ Labelled(RawSeries(from, to, n), from, n)
           /\ UNION {b.inside : b \in RawSeries(from, to, n)} =
                InWindow(from, to)
<1> DEFINE inWindow == InWindow(from, to)
           slot == [k \in inWindow |-> Slot(results[k].at, from, n, AtLeastOne(to - from))]
           series == Buckets(slot, Second(from), n, Span(from, to))
<1>1. RawSeries(from, to, n) = series
  BY DEF RawSeries
<1>2. AtLeastOne(to - from) \in Nat \ {0}
  BY DEF AtLeastOne
<1>3. \A k \in inWindow : results[k].at \in Nat /\ from <= results[k].at /\ results[k].at <= to
  BY DEF TimesOK, InWindow
<1>4. \A k \in inWindow : /\ slot[k] \in 0 .. n - 1
                          /\ AtLeastOne(to - from) * slot[k] <= (results[k].at - from) * n
  BY <1>2, <1>3, SlotRange
<1>5. DOMAIN slot = inWindow
  OBVIOUS
<1> HIDE DEF slot, inWindow, series
<1>6. \A k \in inWindow :
        Second(from) + (slot[k] * Span(from, to)) \div n \in Second(from) .. Second(results[k].at)
  BY <1>3, <1>4, RawLabel
<1>7. /\ \A b \in series :
                /\ \E k \in inWindow : b.no = slot[k]
                /\ b.ts = Second(from) + (b.no * Span(from, to)) \div n
                /\ b.inside = {k \in inWindow : slot[k] = b.no}
      /\ \A b, c \in series : c = b \/ c.inside \cap b.inside = {}
      /\ UNION {b.inside : b \in series} = inWindow
  <2>1. /\ \A b \in series :
                /\ \E k \in DOMAIN slot : b.no = slot[k]
                /\ b.ts = Second(from) + (b.no * Span(from, to)) \div n
                /\ b.inside = {k \in DOMAIN slot : slot[k] = b.no}
        /\ \A b, c \in series : c = b \/ c.inside \cap b.inside = {}
        /\ UNION {b.inside : b \in series} = DOMAIN slot
    BY ONLY BucketsOf DEF series
  <2>2. QED
    BY ONLY <1>5, <2>1
<1> HIDE DEF series
<1>8. ASSUME NEW b \in series
      PROVE  b.no \in 0 .. n - 1 /\ \A k \in b.inside : b.ts \in Second(from) .. Second(results[k].at)
  <2>1. b.no \in 0 .. n - 1
    BY <1>4, <1>7
  <2>2. ASSUME NEW k \in b.inside PROVE b.ts \in Second(from) .. Second(results[k].at)
    <3>1. k \in inWindow /\ slot[k] = b.no
      BY <1>7
    <3>2. b.ts = Second(from) + (slot[k] * Span(from, to)) \div n
      BY <1>7, <3>1
    <3>3. QED
      BY <1>6, <3>1, <3>2
  <2>3. QED
    BY <2>1, <2>2
<1>9. Labelled(series, from, n)
  BY <1>7, <1>8 DEF Labelled
<1>10. QED
  BY <1>1, <1>7, <1>9 DEF inWindow

\* The second a result's minute begins in.
LEMMA MinuteBegins ==
    ASSUME NEW r, r.at \in Nat
    PROVE  MinuteOf(r) \in Nat /\ MinuteOf(r) <= Second(r.at) /\ Second(r.at) < MinuteOf(r) + Minute
<1> DEFINE s == r.at \div Milli
           c == s \div Minute
<1>1. Milli \in Nat \ {0} /\ Minute \in Nat \ {0}
  BY HistoryAssumption
<1>2. s \in Nat
  BY <1>1, Quotient
<1> HIDE DEF s
<1>3. c \in Nat /\ Minute * c <= s /\ s < Minute * c + Minute
  BY <1>1, <1>2, Quotient
<1>4. MinuteOf(r) = c * Minute /\ Second(r.at) = s
  BY DEF MinuteOf, Second, c, s
<1> HIDE DEF c
<1>5. c * Minute = Minute * c /\ c * Minute \in Nat
  BY <1>1, <1>3
<1>6. QED
  BY <1>2, <1>3, <1>4, <1>5

LEMMA RollupExact ==
    ASSUME TimesOK, NEW from \in Nat, NEW to \in Nat, from <= to, NEW n \in Nat \ {0}
    PROVE  Labelled(RollupSeries(from, to, n), from, n)
<1> DEFINE inWindow == {k \in DOMAIN results : /\ MinuteOf(results[k]) < rolled
                                               /\ MinuteOf(results[k]) \in Second(from) .. Second(to)}
           f == Second(from)
           s == Span(from, to)
           slot == [k \in inWindow |-> Slot(MinuteOf(results[k]), f, n, s)]
           series == Buckets(slot, f, n, s)
<1>1. RollupSeries(from, to, n) = series
  BY DEF RollupSeries
<1>2. f \in Nat /\ Second(to) \in Nat /\ f <= Second(to)
  BY Seconds
<1>3. s \in Nat \ {0}
  BY <1>2 DEF Span, AtLeastOne
<1>4. \A k \in inWindow : /\ MinuteOf(results[k]) \in Nat /\ f <= MinuteOf(results[k])
                          /\ MinuteOf(results[k]) <= Second(results[k].at)
                          /\ Second(results[k].at) \in Nat
  <2>1. \A k \in DOMAIN results : /\ MinuteOf(results[k]) \in Nat
                                  /\ MinuteOf(results[k]) <= Second(results[k].at)
                                  /\ Second(results[k].at) \in Nat
    BY MinuteBegins, Seconds DEF TimesOK
  <2>2. QED
    BY <1>2, <2>1
<1> HIDE DEF f, s
<1>5. \A k \in inWindow : /\ slot[k] \in 0 .. n - 1
                          /\ s * slot[k] <= (MinuteOf(results[k]) - f) * n
  BY <1>2, <1>3, <1>4, SlotRange
<1>6. DOMAIN slot = inWindow
  OBVIOUS
<1> HIDE DEF slot, inWindow, series
<1>7. ASSUME NEW k \in inWindow PROVE f + (slot[k] * s) \div n \in f .. Second(results[k].at)
  <2> DEFINE d == MinuteOf(results[k]) - f
             q == (slot[k] * s) \div n
  <2>1. d \in Nat /\ slot[k] \in Nat /\ s * slot[k] <= d * n
    BY <1>2, <1>4, <1>5
  <2> HIDE DEF d
  <2>2. q \in Nat /\ q <= d
    BY <1>3, <2>1, Label
  <2> HIDE DEF q
  <2>3. f + q \in f .. Second(results[k].at)
    BY <1>2, <1>4, <2>1, <2>2 DEF d
  <2>4. QED
    BY <2>3 DEF q
<1>8. /\ \A b \in series :
                /\ \E k \in inWindow : b.no = slot[k]
                /\ b.ts = f + (b.no * s) \div n
                /\ b.inside = {k \in inWindow : slot[k] = b.no}
      /\ \A b, c \in series : c = b \/ c.inside \cap b.inside = {}
  <2>1. /\ \A b \in series :
                /\ \E k \in DOMAIN slot : b.no = slot[k]
                /\ b.ts = f + (b.no * s) \div n
                /\ b.inside = {k \in DOMAIN slot : slot[k] = b.no}
        /\ \A b, c \in series : c = b \/ c.inside \cap b.inside = {}
        /\ UNION {b.inside : b \in series} = DOMAIN slot
    BY ONLY BucketsOf DEF series
  <2>2. QED
    BY ONLY <1>6, <2>1
<1> HIDE DEF series
<1>9. ASSUME NEW b \in series
      PROVE  b.no \in 0 .. n - 1 /\ \A k \in b.inside : b.ts \in f .. Second(results[k].at)
  <2>1. b.no \in 0 .. n - 1
    BY <1>5, <1>8
  <2>2. ASSUME NEW k \in b.inside PROVE b.ts \in f .. Second(results[k].at)
    <3>1. k \in inWindow /\ slot[k] = b.no
      BY <1>8
    <3>2. b.ts = f + (slot[k] * s) \div n
      BY <1>8, <3>1
    <3>3. QED
      BY <1>7, <3>1, <3>2
  <2>3. QED
    BY <2>1, <2>2
<1>10. Labelled(series, from, n)
  BY <1>8, <1>9 DEF Labelled, f
<1>11. QED
  BY <1>1, <1>10
-----------------------------------------------------------------------------
(* Whole minutes *)

\* A part of w, counted among n parts of e each.
LEMMA PartOf ==
    ASSUME NEW w \in Nat \ {0}, NEW n \in Nat \ {0}, NEW e \in Nat \ {0}, NEW i \in Nat,
           NEW d \in Nat, w * i <= d, d < w * i + w
    PROVE  (d * n) \div (w * n * e) = i \div e
<1> DEFINE g == i \div e
<1>1. g \in Nat /\ e * g <= i /\ i + 1 <= e * g + e
  BY Quotient
<1> HIDE DEF g
<1>2. w * (e * g) <= d
  <2>1. (e * g) * w <= i * w
    BY <1>1, ProductIsOrdered
  <2>2. (e * g) * w = w * (e * g) /\ i * w = w * i /\ w * (e * g) \in Int /\ w * i \in Int
    BY <1>1
  <2> DEFINE x == w * (e * g)
             y == w * i
  <2>3. x <= y /\ y <= d /\ x \in Int /\ y \in Int
    BY <2>1, <2>2
  <2> HIDE DEF x, y
  <2>4. x <= d
    BY <2>3
  <2>5. QED
    BY <2>4 DEF x
<1>3. d + 1 <= w * (e * g + e)
  <2>1. (i + 1) * w <= (e * g + e) * w
    BY <1>1, ProductIsOrdered
  <2>2. (i + 1) * w = w * i + w /\ (e * g + e) * w = w * (e * g + e)
        /\ w * i \in Int /\ w * (e * g + e) \in Int
    BY <1>1
  <2> DEFINE x == w * (e * g + e)
             y == w * i
  <2>3. y + w <= x /\ d < y + w /\ x \in Int /\ y \in Int
    BY <2>1, <2>2
  <2> HIDE DEF x, y
  <2>4. d + 1 <= x
    BY <2>3
  <2>5. QED
    BY <2>4 DEF x
<1>4. (w * (e * g)) * n <= d * n /\ (d + 1) * n <= (w * (e * g + e)) * n
  <2>1. w * (e * g) \in Nat /\ w * (e * g + e) \in Nat
    BY <1>1
  <2>2. QED
    BY <1>2, <1>3, <2>1, ProductIsOrdered
<1>5. /\ (w * (e * g)) * n = (w * n * e) * g
      /\ (w * (e * g + e)) * n = (w * n * e) * g + w * n * e
      /\ (d + 1) * n = d * n + n
  BY <1>1
<1>6. w * n * e \in Nat \ {0} /\ d * n \in Nat /\ (w * n * e) * g \in Nat
  <2>1. w * n \in Nat \ {0}
    OBVIOUS
  <2>2. w * n * e \in Nat \ {0}
    BY <2>1
  <2>3. QED
    BY <1>1, <2>2, ProductIsNat
<1> DEFINE b == w * n * e
           c == d * n
<1>7. b \in Nat \ {0} /\ c \in Nat /\ b * g <= c /\ c + n <= b * g + b /\ b * g \in Nat
  BY <1>4, <1>5, <1>6
<1> HIDE DEF b, c
<1>8. c < b * g + b
  BY <1>7
<1>9. c \div b = g
  BY <1>1, <1>7, <1>8, QuotientIs
<1>10. QED
  BY <1>9 DEF b, c, g

\* The seconds and the minute of a time.
LEMMA TimeParts ==
    ASSUME NEW r, r.at \in Nat
    PROVE  \E j \in Nat : /\ MinuteOf(r) = Minute * j
                          /\ Minute * j <= Second(r.at)
                          /\ (Minute * Milli) * j <= r.at
                          /\ r.at < (Minute * Milli) * j + Minute * Milli
<1> DEFINE s == r.at \div Milli
           j == s \div Minute
<1>1. Milli \in Nat \ {0} /\ Minute \in Nat \ {0}
  BY HistoryAssumption
<1>2. s \in Nat /\ Milli * s <= r.at /\ r.at < Milli * s + Milli
  BY <1>1, Quotient
<1> HIDE DEF s
<1>3. j \in Nat /\ Minute * j <= s /\ s + 1 <= Minute * j + Minute
  BY <1>1, <1>2, Quotient
<1>4. MinuteOf(r) = j * Minute /\ Second(r.at) = s
  BY DEF MinuteOf, Second, s, j
<1> HIDE DEF j
<1>5. j * Minute = Minute * j /\ Minute * j \in Nat /\ Minute * j + Minute \in Nat
  BY <1>1, <1>3
<1>6. (Minute * j) * Milli <= s * Milli /\ (s + 1) * Milli <= (Minute * j + Minute) * Milli
  BY <1>1, <1>2, <1>3, <1>5, ProductIsOrdered
<1>7. /\ (Minute * j) * Milli = (Minute * Milli) * j
      /\ (Minute * j + Minute) * Milli = (Minute * Milli) * j + Minute * Milli
      /\ s * Milli = Milli * s /\ (s + 1) * Milli = Milli * s + Milli
      /\ (Minute * Milli) * j \in Nat /\ Minute * Milli \in Nat /\ Milli * s \in Nat
  BY <1>1, <1>2, <1>3
<1> DEFINE x == (Minute * Milli) * j
           y == Milli * s
           w == Minute * Milli
<1>8. x <= y /\ y + Milli <= x + w /\ x \in Nat /\ y \in Nat /\ w \in Nat
  BY <1>6, <1>7
<1>9. y <= r.at /\ r.at < y + Milli
  BY <1>2
<1> HIDE DEF x, y, w
<1>10. x <= r.at /\ r.at < x + w
  BY <1>1, <1>8, <1>9
<1>11. QED
  BY <1>3, <1>4, <1>5, <1>10 DEF x, w

\* A time that is a number of whole minutes, in seconds.
LEMMA WholeSeconds ==
    ASSUME NEW c \in Nat
    PROVE  /\ (Minute * Milli) * c \in Nat
           /\ Second((Minute * Milli) * c) = Minute * c /\ Minute * c \in Nat
           /\ Milli * (Minute * c) = (Minute * Milli) * c
<1>1. Milli \in Nat \ {0} /\ Minute \in Nat \ {0}
  BY HistoryAssumption
<1>2. /\ Milli * (Minute * c) = (Minute * Milli) * c
      /\ Minute * c \in Nat /\ (Minute * Milli) * c \in Nat
  BY <1>1
<1> DEFINE x == (Minute * Milli) * c
           m == Minute * c
<1>3. x \in Nat /\ m \in Nat /\ Milli * m = x
  BY <1>2
<1> HIDE DEF x, m
<1>4. Milli * m <= x /\ x < Milli * m + Milli
  BY <1>1, <1>3
<1>5. x \div Milli = m
  BY <1>1, <1>3, <1>4, QuotientIs
<1>6. QED
  BY <1>2, <1>5 DEF x, m, Second

LEMMA WholeStart ==
    ASSUME NEW from \in Nat, from % (Minute * Milli) = 0
    PROVE  \E c \in Nat : from = (Minute * Milli) * c /\ Second(from) = Minute * c
<1> DEFINE w == Minute * Milli
<1>1. w \in Nat \ {0}
  BY HistoryAssumption
<1>2. from % w = 0
  OBVIOUS
<1> HIDE DEF w
<1>3. from \div w \in Nat /\ from = w * (from \div w)
  BY <1>1, <1>2, Quotient, Divides
<1> DEFINE c == from \div w
<1>4. c \in Nat /\ from = (Minute * Milli) * c
  BY <1>3 DEF w
<1> HIDE DEF c
<1>5. Second(from) = Minute * c
  BY <1>4, WholeSeconds
<1>6. QED
  BY <1>4, <1>5

\* A window of whole minutes holds a result exactly if it holds the result's minute.
LEMMA SameWindow ==
    ASSUME TimesOK, NEW from \in Nat, NEW to \in Nat, from <= to, NEW n \in Nat \ {0},
           WholeMinutes(from, to, n)
    PROVE  {k \in DOMAIN results : results[k].at \in from .. to} =
              {k \in DOMAIN results : /\ MinuteOf(results[k]) < rolled
                                      /\ MinuteOf(results[k]) \in Second(from) .. Second(to)}
<1>1. Milli \in Nat \ {0} /\ Minute \in Nat \ {0}
  BY HistoryAssumption
<1>2. PICK c \in Nat : from = (Minute * Milli) * c /\ Second(from) = Minute * c
  BY WholeStart DEF WholeMinutes
<1>3. Second(from) \in Nat /\ Second(to) \in Nat
  BY Seconds
<1>4. ASSUME NEW k \in DOMAIN results
      PROVE  results[k].at \in from .. to <=>
                /\ MinuteOf(results[k]) < rolled
                /\ MinuteOf(results[k]) \in Second(from) .. Second(to)
  <2> DEFINE r == results[k]
  <2>1. r.at \in Nat
    BY DEF TimesOK
  <2> HIDE DEF r
  <2>2. PICK j \in Nat : /\ MinuteOf(r) = Minute * j
                         /\ Minute * j <= Second(r.at)
                         /\ (Minute * Milli) * j <= r.at
                         /\ r.at < (Minute * Milli) * j + Minute * Milli
    BY <2>1, TimeParts
  <2>3. Minute * j \in Nat /\ Minute * c \in Nat
    BY <1>1
  <2>4. r.at \in from .. to => MinuteOf(r) \in Second(from) .. Second(to)
    <3> SUFFICES ASSUME r.at \in from .. to PROVE MinuteOf(r) \in Second(from) .. Second(to)
      OBVIOUS
    <3>1. Second(r.at) <= Second(to) /\ Second(r.at) \in Nat
      BY <2>1, Seconds
    <3>2. c <= j
      <4>1. CASE j < c
        <5> DEFINE w == Minute * Milli
        <5>1. w \in Nat \ {0}
          BY <1>1
        <5>2. (j + 1) * w <= c * w
          BY <4>1, <5>1, ProductIsOrdered
        <5>3. w * j + w <= w * c
          <6>1. (j + 1) * w = w * j + w /\ c * w = w * c
            BY <5>1
          <6>2. QED
            BY <5>2, <6>1
        <5>4. w * c <= r.at /\ r.at < w * j + w
          BY <1>2, <2>2
        <5>5. w * j \in Int /\ w * c \in Int
          BY <5>1
        <5> HIDE DEF w
        <5> DEFINE x == w * j
                   y == w * c
        <5>6. x + w <= y /\ y <= r.at /\ r.at < x + w /\ x \in Int /\ y \in Int
          BY <5>3, <5>4, <5>5
        <5> HIDE DEF x, y
        <5>7. QED
          BY <2>1, <5>1, <5>6
      <4>2. QED
        BY <4>1
    <3>3. Minute * c <= Minute * j
      <4>1. c * Minute <= j * Minute
        BY <1>1, <3>2, ProductIsOrdered
      <4>2. QED
        BY <1>1, <4>1
    <3>4. QED
      BY <1>2, <1>3, <2>2, <2>3, <3>1, <3>3
  <2>5. MinuteOf(r) \in Second(from) .. Second(to) => from <= r.at
    <3> SUFFICES ASSUME MinuteOf(r) \in Second(from) .. Second(to) PROVE from <= r.at
      OBVIOUS
    <3>1. Minute * c <= Minute * j
      BY <1>2, <2>2, <2>3
    <3>2. (Minute * c) * Milli <= (Minute * j) * Milli
      BY <1>1, <2>3, <3>1, ProductIsOrdered
    <3>3. (Minute * c) * Milli = (Minute * Milli) * c /\ (Minute * j) * Milli = (Minute * Milli) * j
          /\ (Minute * Milli) * j \in Int
      BY <1>1
    <3> DEFINE x == (Minute * Milli) * j
    <3>4. from <= x /\ x <= r.at /\ x \in Int
      BY <1>2, <2>2, <3>2, <3>3
    <3> HIDE DEF x
    <3>5. QED
      BY <2>1, <3>4
  <2>6. MinuteOf(r) \in Second(from) .. Second(to) => r.at <= to /\ MinuteOf(r) < rolled
    BY DEF WholeMinutes, r
  <2>7. QED
    BY <2>1, <2>4, <2>5, <2>6 DEF r
<1>5. QED
  BY <1>4

\* The slot of a result is that of the minute it is in, where slots are whole minutes.
LEMMA SameSlot ==
    ASSUME NEW from \in Nat, NEW to \in Nat, from <= to, NEW n \in Nat \ {0},
           from % (Minute * Milli) = 0, (to - from) % (Minute * Milli * n) = 0,
           NEW r, r.at \in from .. to, MinuteOf(r) \in Second(from) .. Second(to)
    PROVE  Slot(r.at, from, n, AtLeastOne(to - from)) =
              Slot(MinuteOf(r), Second(from), n, Span(from, to))
<1>1. Milli \in Nat \ {0} /\ Minute \in Nat \ {0}
  BY HistoryAssumption
<1>2. PICK c \in Nat : from = (Minute * Milli) * c /\ Second(from) = Minute * c
  BY WholeStart
<1>3. PICK j \in Nat : /\ MinuteOf(r) = Minute * j
                       /\ Minute * j <= Second(r.at)
                       /\ (Minute * Milli) * j <= r.at
                       /\ r.at < (Minute * Milli) * j + Minute * Milli
  BY TimeParts
<1> DEFINE w == Minute * Milli
           e == (to - from) \div (w * n)
           i == j - c
<1>4. w \in Nat \ {0} /\ w * n \in Nat \ {0} /\ to - from \in Nat
  BY <1>1
<1>5. e \in Nat /\ to - from = (w * n) * e
  BY <1>4, Quotient, Divides
<1> HIDE DEF e
<1>6. Second(to) = Minute * (c + n * e) /\ to = w * (c + n * e) /\ c + n * e \in Nat
  <2>1. to = from + (w * n) * e
    BY <1>4, <1>5
  <2>2. to = (Minute * Milli) * (c + n * e) /\ c + n * e \in Nat
    BY <1>1, <1>2, <1>5, <2>1
  <2>3. QED
    BY <2>2, WholeSeconds
<1>7. CASE e = 0
  <2>1. to = from
    BY <1>4, <1>5, <1>7
  <2>2. r.at - from = 0 /\ MinuteOf(r) - Second(from) = 0
    <3>1. Second(from) \in Nat
      BY Seconds
    <3>2. QED
      BY <2>1, <3>1
  <2>3. AtLeastOne(to - from) = 1 /\ Span(from, to) = 1
    <3>1. Second(from) \in Nat
      BY Seconds
    <3>2. QED
      BY <2>1, <3>1 DEF AtLeastOne, Span
  <2>4. QED
    BY <2>2, <2>3 DEF Slot
<1>8. CASE e # 0
  <2>1. e \in Nat \ {0}
    BY <1>5, <1>8
  <2>2. AtLeastOne(to - from) = w * n * e
    <3>1. w * n * e \in Nat \ {0}
      BY <1>4, <2>1
    <3>2. QED
      BY <1>5, <3>1 DEF AtLeastOne
  <2>3. Span(from, to) = Minute * n * e
    <3>1. Second(to) - Second(from) = Minute * n * e
      BY <1>1, <1>2, <1>5, <1>6
    <3>2. Minute * n * e \in Nat \ {0}
      <4>1. Minute * n \in Nat \ {0}
        BY <1>1
      <4>2. QED
        BY <2>1, <4>1
    <3>3. QED
      BY <3>1, <3>2 DEF Span, AtLeastOne
  <2>4. c <= j
    <3>1. c * Minute <= j * Minute
      BY <1>1, <1>2, <1>3
    <3>2. QED
      BY <1>1, <3>1, Cancel
  <2>5. i \in Nat
    BY <2>4
  <2>6. r.at - from \in Nat /\ w * i <= r.at - from /\ r.at - from < w * i + w
    <3>1. w * i = w * j - w * c /\ w * j \in Int /\ w * c \in Int
      BY <1>4
    <3>2. w * j <= r.at /\ r.at < w * j + w /\ from = w * c
      BY <1>2, <1>3
    <3> DEFINE x == w * j
               y == w * c
    <3>3. w * i = x - y /\ x \in Int /\ y \in Int /\ x <= r.at /\ r.at < x + w /\ from = y
      BY <3>1, <3>2
    <3> HIDE DEF x, y, w, i
    <3>4. QED
      BY <1>4, <3>3
  <2>7. MinuteOf(r) - Second(from) = Minute * i /\ Minute * i \in Nat
    BY <1>1, <1>2, <1>3, <2>5
  <2> HIDE DEF w, i
  <2>8. ((r.at - from) * n) \div (w * n * e) = i \div e
    <3> DEFINE d == r.at - from
    <3>1. d \in Nat /\ w * i <= d /\ d < w * i + w
      BY <2>6
    <3> HIDE DEF d
    <3>2. (d * n) \div (w * n * e) = i \div e
      BY <1>4, <2>1, <2>5, <3>1, PartOf
    <3>3. QED
      BY <3>2 DEF d
  <2>9. ((MinuteOf(r) - Second(from)) * n) \div (Minute * n * e) = i \div e
    <3>1. Minute * i <= Minute * i /\ Minute * i < Minute * i + Minute
      BY <1>1, <2>7
    <3>2. ((Minute * i) * n) \div (Minute * n * e) = i \div e
      BY <1>1, <2>1, <2>5, <2>7, <3>1, PartOf
    <3>3. QED
      BY <2>7, <3>2
  <2>10. QED
    BY <2>2, <2>3, <2>8, <2>9 DEF Slot
<1>9. QED
  BY <1>7, <1>8

LEMMA RollupIsRaw ==
    ASSUME TimesOK, NEW from \in Nat, NEW to \in Nat, from <= to, NEW n \in Nat \ {0},
           WholeMinutes(from, to, n)
    PROVE  RollupSeries(from, to, n) = RawSeries(from, to, n)
<1> DEFINE inRaw == {k \in DOMAIN results : results[k].at \in from .. to}
           inRollup == {k \in DOMAIN results : /\ MinuteOf(results[k]) < rolled
                                               /\ MinuteOf(results[k]) \in Second(from) .. Second(to)}
           raw(k) == Slot(results[k].at, from, n, AtLeastOne(to - from))
           rollup(k) == Slot(MinuteOf(results[k]), Second(from), n, Span(from, to))
<1>1. inRaw = inRollup
  BY SameWindow
<1>2. \A k \in inRaw : raw(k) = rollup(k)
  <2>1. \A k \in inRaw : results[k].at \in from .. to
    OBVIOUS
  <2>2. \A k \in inRaw : MinuteOf(results[k]) \in Second(from) .. Second(to)
    BY <1>1
  <2>3. from % (Minute * Milli) = 0 /\ (to - from) % (Minute * Milli * n) = 0
    BY DEF WholeMinutes
  <2> HIDE DEF inRaw, inRollup
  <2>4. QED
    BY <2>1, <2>2, <2>3, SameSlot
<1> HIDE DEF inRaw, inRollup, raw, rollup
<1>3. [k \in inRaw |-> raw(k)] = [k \in inRollup |-> rollup(k)]
  BY <1>1, <1>2
<1>4. RawSeries(from, to, n) = Buckets([k \in inRaw |-> raw(k)], Second(from), n, Span(from, to))
  BY DEF RawSeries, InWindow, inRaw, raw
<1>5. RollupSeries(from, to, n) =
        Buckets([k \in inRollup |-> rollup(k)], Second(from), n, Span(from, to))
  BY DEF RollupSeries, inRollup, rollup
<1>6. QED
  BY <1>3, <1>4, <1>5

LEMMA AllSeriesExact == TimesOK => SeriesExact
<1> SUFFICES ASSUME TimesOK, NEW w \in Windows, NEW n \in 1 .. MaxBuckets
             PROVE  LET from == w[1]
                        to == w[2]
                        series == GetSeries(from, to, n)
                    IN  /\ \A b \in series :
                            /\ b.no \in 0 .. n - 1
                            /\ \A k \in b.inside : b.ts \in Second(from) .. Second(results[k].at)
                            /\ \A c \in series : c = b \/ c.inside \cap b.inside = {}
                        /\ ~FromRollup(from, to, n) =>
                            UNION {b.inside : b \in series} = InWindow(from, to)
                        /\ WholeMinutes(from, to, n) => series = RawSeries(from, to, n)
  BY DEF SeriesExact
<1> DEFINE from == w[1]
           to == w[2]
<1>1. from \in Nat /\ to \in Nat /\ from <= to /\ n \in Nat \ {0}
  <2>1. w \in Instants \X Instants /\ from <= to
    BY DEF Windows
  <2>2. Instants \subseteq Nat /\ MaxBuckets \in Nat
    BY HistoryAssumption
  <2>3. QED
    <3>1. n \in Nat \ {0}
      BY <2>2
    <3>2. from \in Instants /\ to \in Instants
      BY <2>1
    <3>3. QED
      BY <2>1, <2>2, <3>1, <3>2
<1> HIDE DEF from, to
<1>2. Labelled(GetSeries(from, to, n), from, n)
  BY <1>1, RawExact, RollupExact DEF GetSeries
<1>3. ~FromRollup(from, to, n) =>
        UNION {b.inside : b \in GetSeries(from, to, n)} = InWindow(from, to)
  BY <1>1, RawExact DEF GetSeries
<1>4. WholeMinutes(from, to, n) => GetSeries(from, to, n) = RawSeries(from, to, n)
  BY <1>1, RollupIsRaw DEF GetSeries
<1>5. QED
  BY <1>2, <1>3, <1>4 DEF Labelled, from, to

-----------------------------------------------------------------------------
(* The segments *)

\* Segments of states in S.
Segments(S) == Seq([state : S, start : Nat, end : Nat])

\* Closing segments moves the end of the last one, and nothing else.
LEMMA Closed ==
    ASSUME NEW S, NEW segs \in Segments(S), NEW time \in Nat
    PROVE  /\ CloseAt(segs, time) \in Segments(S)
           /\ Len(CloseAt(segs, time)) = Len(segs)
           /\ \A i \in 1 .. Len(segs) :
                /\ CloseAt(segs, time)[i].state = segs[i].state
                /\ CloseAt(segs, time)[i].start = segs[i].start
                /\ CloseAt(segs, time)[i].end = IF i = Len(segs) THEN time ELSE segs[i].end
<1> DEFINE T == [state : S, start : Nat, end : Nat]
           last == Len(segs)
           closed == [segs EXCEPT ![last].end = time]
<1>1. CASE segs = <<>>
  BY <1>1 DEF CloseAt, Segments
<1>2. CASE segs # <<>>
  <2>1. segs \in Seq(T) /\ last \in 1 .. last /\ DOMAIN segs = 1 .. last /\ last \in Nat
    BY <1>2 DEF Segments
  <2>2. CloseAt(segs, time) = closed
    BY <1>2 DEF CloseAt
  <2>3. \A i \in 1 .. last : segs[i] \in T
    BY <2>1, ElementOfSeq
  <2>4. closed = [i \in 1 .. last |-> IF i = last THEN [segs[i] EXCEPT !.end = time] ELSE segs[i]]
    BY <2>1
  <2>5. \A i \in 1 .. last : closed[i] \in T
    BY <2>3, <2>4
  <2>6. closed \in Seq(T) /\ Len(closed) = last
    <3> DEFINE new == closed[last]
    <3>1. new \in T /\ last \in 1 .. Len(segs)
      BY <2>1, <2>5
    <3>2. closed = [segs EXCEPT ![last] = new]
      BY <2>1, <2>4
    <3> HIDE DEF closed, new, last, T
    <3>3. QED
      BY <2>1, <3>1, <3>2, ExceptSeq DEF last
  <2>7. \A i \in 1 .. last :
            /\ closed[i].state = segs[i].state
            /\ closed[i].start = segs[i].start
            /\ closed[i].end = IF i = last THEN time ELSE segs[i].end
    BY <2>3, <2>4
  <2>8. QED
    BY <2>2, <2>6, <2>7 DEF Segments
<1>3. QED
  BY <1>1, <1>2

\* A result ends the last segment and, in another state, begins one of its own.
LEMMA Extended ==
    ASSUME NEW S, NEW segs \in Segments(S), NEW state \in S, NEW time \in Nat
    PROVE  LET grown == segs = <<>> \/ segs[Len(segs)].state # state
               longer == Extend(segs, state, time)
           IN  /\ longer \in Segments(S)
               /\ Len(longer) = IF grown THEN Len(segs) + 1 ELSE Len(segs)
               /\ \A i \in 1 .. Len(segs) :
                    /\ longer[i].state = segs[i].state
                    /\ longer[i].start = segs[i].start
                    /\ longer[i].end = IF i = Len(segs) THEN time ELSE segs[i].end
               /\ grown => longer[Len(segs) + 1] = Segment(state, time, time)
<1> DEFINE T == [state : S, start : Nat, end : Nat]
           closed == CloseAt(segs, time)
           grown == segs = <<>> \/ segs[Len(segs)].state # state
           longer == Extend(segs, state, time)
<1>1. /\ closed \in Seq(T) /\ Len(closed) = Len(segs)
      /\ \A i \in 1 .. Len(segs) :
            /\ closed[i].state = segs[i].state
            /\ closed[i].start = segs[i].start
            /\ closed[i].end = IF i = Len(segs) THEN time ELSE segs[i].end
  BY Closed DEF Segments
<1>2. Segment(state, time, time) \in T
  BY DEF Segment
<1>3. CASE grown
  <2>1. longer = Append(closed, Segment(state, time, time))
    BY <1>3 DEF Extend, Last
  <2>2. /\ longer \in Seq(T) /\ Len(longer) = Len(closed) + 1
        /\ \A i \in 1 .. Len(closed) : longer[i] = closed[i]
        /\ longer[Len(closed) + 1] = Segment(state, time, time)
    <3> HIDE DEF closed, longer
    <3>1. QED
      BY <1>1, <1>2, <2>1, AppendProperties
  <2>3. QED
    <3> HIDE DEF closed, longer
    <3>1. QED
      BY <1>1, <1>3, <2>2 DEF Segments, longer
<1>4. CASE ~grown
  <2>1. longer = closed
    BY <1>4 DEF Extend, Last
  <2>2. QED
    <3> HIDE DEF closed
    <3>1. QED
      BY <1>1, <1>4, <2>1 DEF Segments
<1>5. QED
  BY <1>3, <1>4

\* What the recursive function that streams the results is, at each of its arguments.
StreamStep(f, states, from, to, k) ==
    IF k = 0 THEN <<>>
    ELSE IF k \in InWindow(from, to) THEN Extend(f[k - 1], states[k], results[k].at)
    ELSE f[k - 1]

Streams(f, m, states, from, to) == f = [k \in 0 .. m |-> StreamStep(f, states, from, to, k)]

LEMMA StreamExists ==
    ASSUME NEW n \in Nat, NEW states, NEW from, NEW to
    PROVE  \E f : Streams(f, n, states, from, to)
<1> DEFINE Bad == {m \in Nat : ~\E f : Streams(f, m, states, from, to)}
<1> SUFFICES ASSUME Bad # {} PROVE FALSE
  OBVIOUS
<1>1. PICK m \in Bad : \A l \in Bad : m <= l
  <2>1. Bad \in SUBSET Nat
    OBVIOUS
  <2> HIDE DEF Bad
  <2>2. QED
    BY <2>1, LeastNumber
<1>2. m \in Nat /\ ~\E f : Streams(f, m, states, from, to)
  OBVIOUS
<1>3. CASE m = 0
  <2> DEFINE f == [k \in 0 .. m |-> <<>>]
  <2>1. \A k \in 0 .. m : StreamStep(f, states, from, to, k) = <<>>
    BY <1>3 DEF StreamStep
  <2>2. Streams(f, m, states, from, to)
    BY <2>1 DEF Streams
  <2>3. QED
    BY <1>2, <2>2
<1>4. CASE m # 0
  <2>1. m - 1 \in Nat /\ m - 1 \notin Bad
    BY <1>1, <1>2, <1>4
  <2>2. PICK g : Streams(g, m - 1, states, from, to)
    BY <2>1
  <2> DEFINE f == [k \in 0 .. m |-> IF k = m THEN StreamStep(g, states, from, to, m) ELSE g[k]]
  <2>3. \A k \in 0 .. m - 1 : f[k] = g[k]
    BY <1>2
  <2>4. ASSUME NEW k \in 0 .. m PROVE StreamStep(f, states, from, to, k) = StreamStep(g, states, from, to, k)
    <3>1. k = 0 \/ f[k - 1] = g[k - 1]
      <4> HIDE DEF f
      <4>1. QED
        BY <1>2, <2>3
    <3> HIDE DEF f
    <3>2. QED
      BY <3>1 DEF StreamStep
  <2>5. \A k \in 0 .. m - 1 : g[k] = StreamStep(g, states, from, to, k)
    BY <2>2 DEF Streams
  <2>6. \A k \in 0 .. m : f[k] = StreamStep(g, states, from, to, k)
    <3> HIDE DEF StreamStep
    <3>1. QED
      BY <1>2, <2>5
  <2>7. f = [k \in 0 .. m |-> f[k]]
    OBVIOUS
  <2> HIDE DEF f
  <2>8. f = [k \in 0 .. m |-> StreamStep(f, states, from, to, k)]
    BY <2>4, <2>6, <2>7, Zenon
  <2>9. QED
    BY <1>2, <2>8 DEF Streams
<1>5. QED
  BY <1>3, <1>4

LEMMA Stream ==
    ASSUME NEW states, NEW from, NEW to, Len(results) \in Nat
    PROVE  \A k \in 0 .. Len(results) :
                SegmentsAfter(states, from, to)[k] =
                    StreamStep(SegmentsAfter(states, from, to), states, from, to, k)
<1> DEFINE P(f) == Streams(f, Len(results), states, from, to)
           segs == SegmentsAfter(states, from, to)
<1>1. segs = CHOOSE f : P(f)
  BY DEF SegmentsAfter, Streams, StreamStep
<1>2. \E f : P(f)
  BY StreamExists
<1> HIDE DEF P, segs
<1>3. P(CHOOSE f : P(f))
  BY <1>2
<1>4. P(segs)
  BY <1>1, <1>3
<1>5. QED
  BY <1>4 DEF P, Streams, segs

\* Results are in the order of their times.
TimesOrdered ==
    /\ TimesOK
    /\ Len(results) \in Nat /\ DOMAIN results = 1 .. Len(results)
    /\ \A j, k \in DOMAIN results : j < k => results[j].at < results[k].at

Seen(from, to, k) == {j \in InWindow(from, to) : j <= k}

\* The parts of what segments say once the results of `seen` have been streamed: they
\* follow each other, begin with a result, the first with the first, and tell the rest.
Chained(segs) ==
    \A i \in 1 .. Len(segs) - 1 :
        segs[i].end = segs[i + 1].start /\ segs[i].state # segs[i + 1].state

Begun(segs, states, seen) ==
    \A i \in 1 .. Len(segs) :
        \E j \in seen : segs[i].start = results[j].at /\ segs[i].state = states[j]

FirstBegun(segs, seen) == segs # <<>> => \A j \in seen : segs[1].start <= results[j].at

Told(segs, states, seen) ==
    \A i \in 1 .. Len(segs), j \in seen :
        results[j].at \in segs[i].start .. segs[i].end =>
            \/ states[j] = segs[i].state
            \/ i < Len(segs) /\ results[j].at = segs[i].end

\* The last segment ends with the last result, in its state.
LastTold(segs, states, seen) ==
    segs # <<>> => \E l \in seen :
        /\ \A j \in seen : j <= l
        /\ segs[Len(segs)].end = results[l].at
        /\ segs[Len(segs)].state = states[l]

StreamOK(S, segs, states, seen) ==
    /\ segs \in Segments(S)
    /\ segs = <<>> <=> seen = {}
    /\ Chained(segs) /\ Begun(segs, states, seen) /\ FirstBegun(segs, seen)
    /\ Told(segs, states, seen) /\ LastTold(segs, states, seen)

LEMMA StreamOneMore ==
    ASSUME TimesOrdered, NEW S, NEW states, \A j \in DOMAIN results : states[j] \in S,
           NEW segs, NEW seen \in SUBSET DOMAIN results, StreamOK(S, segs, states, seen),
           NEW k \in DOMAIN results, \A j \in seen : j < k
    PROVE  StreamOK(S, Extend(segs, states[k], results[k].at), states, seen \cup {k})
<1> DEFINE state == states[k]
           time == results[k].at
           longer == Extend(segs, state, time)
           n == Len(segs)
           grown == segs = <<>> \/ segs[n].state # state
           more == seen \cup {k}
<1>1. /\ segs \in Segments(S) /\ n \in Nat /\ (segs # <<>> => n > 0) /\ (segs = <<>> => n = 0)
      /\ \A i \in 1 .. n : segs[i] \in [state : S, start : Nat, end : Nat]
  <2>1. segs \in Seq([state : S, start : Nat, end : Nat])
    BY DEF StreamOK, Segments
  <2>2. n \in Nat /\ (segs # <<>> => n > 0) /\ (segs = <<>> => n = 0)
    BY <2>1, EmptySeq, LenProperties
  <2>3. \A i \in 1 .. n : segs[i] \in [state : S, start : Nat, end : Nat]
    BY <2>1, ElementOfSeq
  <2>4. QED
    BY <2>1, <2>2, <2>3 DEF Segments
<1>2. state \in S /\ time \in Nat /\ k \in Nat
  BY DEF TimesOrdered, TimesOK
<1>3. /\ longer \in Segments(S)
      /\ Len(longer) = IF grown THEN n + 1 ELSE n
      /\ \A i \in 1 .. n :
            /\ longer[i].state = segs[i].state
            /\ longer[i].start = segs[i].start
            /\ longer[i].end = IF i = n THEN time ELSE segs[i].end
      /\ grown => longer[n + 1] = Segment(state, time, time)
  BY <1>1, <1>2, Extended
<1>4. \A j \in seen : results[j].at \in Nat /\ results[j].at < time /\ j \in Nat
  BY DEF TimesOrdered, TimesOK
<1>5. \A i \in 1 .. n : segs[i].start \in Nat /\ segs[i].end \in Nat /\ segs[i].start < time /\ segs[i].end < time
  <2>1. \A i \in 1 .. n : segs[i].start < time
    BY <1>1, <1>2, <1>4 DEF StreamOK, Begun
  <2>2. \A i \in 1 .. n : segs[i].end < time
    <3>1. \A i \in 1 .. n - 1 : segs[i].end = segs[i + 1].start
      BY DEF StreamOK, Chained
    <3>2. n > 0 => segs[n].end < time
      BY <1>1, <1>4 DEF StreamOK, LastTold
    <3>3. \A i \in 1 .. n : i = n \/ (i \in 1 .. n - 1 /\ i + 1 \in 1 .. n)
      BY <1>1
    <3>4. QED
      BY <2>1, <3>1, <3>2, <3>3
  <2>3. QED
    BY <1>1, <2>1, <2>2
<1>6. grown => /\ longer[n + 1].state = state /\ longer[n + 1].start = time
               /\ longer[n + 1].end = time
  BY <1>3 DEF Segment
<1>7. \A j \in seen : n > 0 => results[j].at <= segs[n].end
  <2>1. \A j, l \in seen : j <= l => results[j].at <= results[l].at
    BY <1>4 DEF TimesOrdered
  <2>2. QED
    BY <1>1, <2>1 DEF StreamOK, LastTold
<1> HIDE DEF longer, n, state, time
<1>8. grown \/ n > 0
  BY <1>1
<1>9. Len(longer) \in Nat \ {0} /\ longer # <<>>
  BY <1>1, <1>3, <1>8, EmptySeq
<1>10. Chained(longer)
  <2> SUFFICES ASSUME NEW i \in 1 .. Len(longer) - 1
               PROVE  longer[i].end = longer[i + 1].start /\ longer[i].state # longer[i + 1].state
    BY DEF Chained
  <2>1. CASE i < n
    <3>1. i \in 1 .. n - 1 /\ i \in 1 .. n /\ i + 1 \in 1 .. n /\ i # n
      BY <1>1, <1>9, <2>1
    <3>2. segs[i].end = segs[i + 1].start /\ segs[i].state # segs[i + 1].state
      BY <3>1 DEF StreamOK, Chained, n
    <3>3. QED
      BY <1>3, <3>1, <3>2
  <2>2. CASE ~(i < n)
    <3>1. grown /\ i = n /\ i \in 1 .. n
      BY <1>1, <1>3, <1>9, <2>2
    <3>2. segs[n].state # state
      <4>1. segs # <<>>
        BY <1>1, <3>1
      <4>2. QED
        BY <3>1, <4>1
    <3>3. QED
      BY <1>3, <1>6, <3>1, <3>2
  <2>3. QED
    BY <2>1, <2>2
<1>11. Begun(longer, states, more)
  <2> SUFFICES ASSUME NEW i \in 1 .. Len(longer)
               PROVE  \E j \in more : longer[i].start = results[j].at /\ longer[i].state = states[j]
    BY DEF Begun
  <2>1. CASE i \in 1 .. n
    <3>1. \E j \in seen : segs[i].start = results[j].at /\ segs[i].state = states[j]
      BY <2>1 DEF StreamOK, Begun, n
    <3>2. QED
      BY <1>3, <2>1, <3>1
  <2>2. CASE i \notin 1 .. n
    <3>1. grown /\ i = n + 1
      BY <1>1, <1>3, <2>2
    <3>2. QED
      BY <1>6, <3>1 DEF state, time
  <2>3. QED
    BY <2>1, <2>2
<1>12. FirstBegun(longer, more)
  <2> SUFFICES ASSUME NEW j \in more PROVE longer[1].start <= results[j].at
    BY DEF FirstBegun
  <2>1. CASE n > 0
    <3>1. 1 \in 1 .. n /\ segs # <<>>
      BY <1>1, <2>1
    <3>2. \A l \in seen : segs[1].start <= results[l].at
      BY <3>1 DEF StreamOK, FirstBegun
    <3>3. segs[1].start < time
      BY <1>5, <3>1
    <3>4. segs[1].start <= results[j].at
      BY <1>2, <1>5, <3>1, <3>2, <3>3 DEF time
    <3>5. QED
      BY <1>3, <3>1, <3>4
  <2>2. CASE n = 0
    <3>1. segs = <<>> /\ seen = {}
      BY <1>1, <2>2 DEF StreamOK
    <3>2. longer[1].start = time /\ j = k
      BY <1>6, <2>2, <3>1
    <3>3. QED
      BY <1>2, <3>2 DEF time
  <2>3. QED
    BY <1>1, <2>1, <2>2
<1>13. Told(longer, states, more)
  <2> SUFFICES ASSUME NEW i \in 1 .. Len(longer), NEW j \in more,
                      results[j].at \in longer[i].start .. longer[i].end
               PROVE  \/ states[j] = longer[i].state
                      \/ i < Len(longer) /\ results[j].at = longer[i].end
    BY DEF Told
  <2>1. CASE i \in 1 .. n /\ j \in seen
    <3>1. results[j].at \in segs[i].start .. segs[i].end
      BY <1>1, <1>3, <1>4, <1>5, <1>7, <2>1
    <3>2. \/ states[j] = segs[i].state
          \/ i < n /\ results[j].at = segs[i].end
      BY <2>1, <3>1 DEF StreamOK, Told, n
    <3>3. QED
      BY <1>1, <1>3, <2>1, <3>2
  <2>2. CASE i \in 1 .. n /\ j = k
    <3>1. results[j].at = time /\ states[j] = state
      BY <2>2 DEF time, state
    <3>2. i = n
      BY <1>2, <1>3, <1>5, <2>2, <3>1
    <3>3. CASE grown
      BY <1>1, <1>3, <3>1, <3>2, <3>3
    <3>4. CASE ~grown
      BY <1>3, <2>2, <3>1, <3>2, <3>4
    <3>5. QED
      BY <3>3, <3>4
  <2>3. CASE i \notin 1 .. n
    <3>1. grown /\ i = n + 1
      BY <1>1, <1>3, <2>3
    <3>2. j = k
      BY <1>2, <1>4, <1>6, <3>1
    <3>3. QED
      BY <1>6, <3>1, <3>2 DEF state
  <2>4. QED
    BY <2>1, <2>2, <2>3
<1>14. LastTold(longer, states, more)
  <2>1. longer[Len(longer)].end = time /\ longer[Len(longer)].state = state
    BY <1>1, <1>3, <1>6, <1>8
  <2>2. \A j \in more : j <= k
    BY <1>2, <1>4
  <2>3. QED
    BY <2>1, <2>2 DEF LastTold, time, state
<1>15. QED
  BY <1>3, <1>9, <1>10, <1>11, <1>12, <1>13, <1>14 DEF StreamOK, longer, state, time

\* After each result of a stream the segments say what was seen.
LEMMA StreamTold ==
    ASSUME TimesOrdered, NEW S, NEW states, \A j \in DOMAIN results : states[j] \in S,
           NEW from, NEW to, NEW n \in 0 .. Len(results)
    PROVE  StreamOK(S, SegmentsAfter(states, from, to)[n], states, Seen(from, to, n))
<1> DEFINE segs == SegmentsAfter(states, from, to)
           OK(m) == StreamOK(S, segs[m], states, Seen(from, to, m))
           Bad == {m \in 0 .. Len(results) : ~OK(m)}
<1>0. Len(results) \in Nat /\ DOMAIN results = 1 .. Len(results)
  BY DEF TimesOrdered
<1>1. \A k \in 0 .. Len(results) : segs[k] = StreamStep(segs, states, from, to, k)
  BY <1>0, Stream
<1>2. InWindow(from, to) \subseteq 1 .. Len(results)
  BY <1>0 DEF InWindow
<1> HIDE DEF segs
<1>3. OK(0)
  <2>1. segs[0] = <<>>
    BY <1>0, <1>1 DEF StreamStep
  <2>2. Seen(from, to, 0) = {}
    BY <1>0, <1>2 DEF Seen
  <2>3. <<>> \in Segments(S) /\ Len(<<>>) = 0
    BY EmptySeq DEF Segments
  <2>4. QED
    BY <2>1, <2>2, <2>3 DEF StreamOK, Chained, Begun, FirstBegun, Told, LastTold
<1>4. ASSUME NEW k \in 1 .. Len(results), OK(k - 1) PROVE OK(k)
  <2>1. k \in DOMAIN results /\ k - 1 \in 0 .. Len(results) /\ k \in 0 .. Len(results)
    BY <1>0
  <2>2. CASE k \in InWindow(from, to)
    <3>1. segs[k] = Extend(segs[k - 1], states[k], results[k].at)
      BY <1>1, <2>1, <2>2 DEF StreamStep
    <3>2. Seen(from, to, k) = Seen(from, to, k - 1) \cup {k}
      BY <1>0, <1>2, <2>2 DEF Seen
    <3>3. Seen(from, to, k - 1) \subseteq DOMAIN results /\ \A j \in Seen(from, to, k - 1) : j < k
      BY <1>0, <1>2 DEF Seen
    <3>4. StreamOK(S, segs[k - 1], states, Seen(from, to, k - 1))
      BY <1>4
    <3>5. StreamOK(S, Extend(segs[k - 1], states[k], results[k].at), states, Seen(from, to, k - 1) \cup {k})
      <4> DEFINE before == segs[k - 1]
                 seen == Seen(from, to, k - 1)
      <4> HIDE DEF before, seen
      <4>1. StreamOK(S, before, states, seen) /\ seen \in SUBSET DOMAIN results /\ \A j \in seen : j < k
        BY <3>3, <3>4 DEF before, seen
      <4>2. StreamOK(S, Extend(before, states[k], results[k].at), states, seen \cup {k})
        BY <2>1, <4>1, StreamOneMore
      <4>3. QED
        BY <4>2 DEF before, seen
    <3>6. QED
      BY <3>1, <3>2, <3>5
  <2>3. CASE k \notin InWindow(from, to)
    <3>1. segs[k] = segs[k - 1]
      BY <1>0, <1>1, <2>1, <2>3 DEF StreamStep
    <3>2. Seen(from, to, k) = Seen(from, to, k - 1)
      BY <1>0, <1>2, <2>3 DEF Seen
    <3>3. QED
      BY <1>4, <3>1, <3>2
  <2>4. QED
    BY <2>2, <2>3
<1> HIDE DEF OK
<1>5. Bad = {}
  <2> SUFFICES ASSUME Bad # {} PROVE FALSE
    OBVIOUS
  <2>1. Bad \in SUBSET Nat
    BY <1>0
  <2>2. PICK m \in Bad : \A l \in Bad : m <= l
    <3> HIDE DEF Bad
    <3>1. QED
      BY <2>1, LeastNumber
  <2>3. m \in 1 .. Len(results) /\ ~OK(m)
    BY <1>0, <1>3
  <2>4. m - 1 \in 0 .. Len(results) /\ ~(m <= m - 1)
    BY <1>0, <2>3
  <2>5. OK(m - 1)
    BY <2>2, <2>4
  <2>6. QED
    BY <1>4, <2>3, <2>5
<1>6. OK(n)
  BY <1>5
<1>7. QED
  BY <1>6 DEF OK, segs

\* Once the last segment is stretched to the end of the window they explain it.
LEMMA SegmentsExplain ==
    ASSUME TimesOrdered, NEW S, NEW states, \A j \in DOMAIN results : states[j] \in S,
           NEW from, NEW to \in Nat
    PROVE  Explains(Collapse(states, from, to), states, from, to)
<1> DEFINE segs == SegmentsAfter(states, from, to)[Len(results)]
           closed == CloseAt(segs, to)
           n == Len(segs)
           observed == InWindow(from, to)
<1>1. /\ observed \subseteq DOMAIN results
      /\ \A j \in observed : results[j].at \in Nat /\ results[j].at <= to
      /\ \A j, l \in observed : j <= l => results[j].at <= results[l].at
  BY DEF TimesOrdered, TimesOK, InWindow
<1>2. StreamOK(S, segs, states, observed)
  <2>1. Len(results) \in 0 .. Len(results)
    BY DEF TimesOrdered
  <2>2. Seen(from, to, Len(results)) = observed
    BY DEF TimesOrdered, Seen, InWindow
  <2>3. QED
    BY <2>1, <2>2, StreamTold
<1>3. Collapse(states, from, to) = closed
  BY DEF Collapse
<1> HIDE DEF segs, observed
<1>4. n \in Nat /\ (segs # <<>> => n > 0) /\ (segs = <<>> => n = 0)
  <2>1. segs \in Seq([state : S, start : Nat, end : Nat])
    BY <1>2 DEF StreamOK, Segments
  <2>2. QED
    BY <2>1, EmptySeq, LenProperties
<1>5. /\ closed \in Segments(S) /\ Len(closed) = n
      /\ \A i \in 1 .. n :
            /\ closed[i].state = segs[i].state
            /\ closed[i].start = segs[i].start
            /\ closed[i].end = IF i = n THEN to ELSE segs[i].end
  BY <1>2, Closed DEF StreamOK
<1>6. DOMAIN closed = 1 .. n /\ (closed = <<>> <=> segs = <<>>)
  <2>1. closed \in Seq([state : S, start : Nat, end : Nat])
    BY <1>5 DEF Segments
  <2> HIDE DEF closed
  <2>2. QED
    BY <1>4, <1>5, <2>1, LenProperties, EmptySeq
<1>7. \A i \in 1 .. n : \E j \in observed : segs[i].start = results[j].at /\ segs[i].state = states[j]
  BY <1>2 DEF StreamOK, Begun
<1>8. \A i \in 1 .. n - 1 : segs[i].end = segs[i + 1].start /\ segs[i].state # segs[i + 1].state
  BY <1>2 DEF StreamOK, Chained
<1>9. \A j \in observed : n > 0 => results[j].at <= segs[n].end /\ segs[n].end \in Nat
  BY <1>1, <1>2, <1>4 DEF StreamOK, LastTold
<1>10. \A i \in 1 .. n, j \in observed :
        results[j].at \in segs[i].start .. segs[i].end =>
            \/ states[j] = segs[i].state
            \/ i < n /\ results[j].at = segs[i].end
  BY <1>2 DEF StreamOK, Told
<1>11. segs # <<>> => \A j \in observed : segs[1].start <= results[j].at
  BY <1>2 DEF StreamOK, FirstBegun
<1>12. segs = <<>> <=> observed = {}
  BY <1>2 DEF StreamOK
<1> HIDE DEF closed, n
<1>13. closed # <<>> => Last(closed).end = to /\ \A j \in observed : closed[1].start <= results[j].at
  <2> SUFFICES ASSUME closed # <<>>
               PROVE  Last(closed).end = to /\ \A j \in observed : closed[1].start <= results[j].at
    OBVIOUS
  <2>1. n \in 1 .. n /\ 1 \in 1 .. n
    BY <1>4, <1>6
  <2>2. Last(closed).end = to
    BY <1>5, <2>1 DEF Last
  <2>3. QED
    BY <1>5, <1>6, <1>11, <2>1, <2>2
<1>14. \A i \in 1 .. n - 1 :
        closed[i].end = closed[i + 1].start /\ closed[i].state # closed[i + 1].state
  <2> SUFFICES ASSUME NEW i \in 1 .. n - 1
               PROVE  closed[i].end = closed[i + 1].start /\ closed[i].state # closed[i + 1].state
    OBVIOUS
  <2>1. i \in 1 .. n /\ i + 1 \in 1 .. n /\ i # n
    BY <1>4
  <2>2. QED
    BY <1>5, <1>8, <2>1
<1>15. \A i \in 1 .. n :
        \E j \in observed : closed[i].start = results[j].at /\ closed[i].state = states[j]
  BY <1>5, <1>7
<1>16. ASSUME NEW i \in 1 .. n, NEW j \in observed, results[j].at \in closed[i].start .. closed[i].end
       PROVE  \/ states[j] = closed[i].state
              \/ i < n /\ results[j].at = closed[i].end
  <2>1. results[j].at \in segs[i].start .. segs[i].end
    BY <1>1, <1>4, <1>5, <1>7, <1>9, <1>16
  <2>2. QED
    BY <1>4, <1>5, <1>10, <2>1
<1>17. QED
  BY <1>3, <1>5, <1>6, <1>12, <1>13, <1>14, <1>15, <1>16 DEF Explains, observed

-----------------------------------------------------------------------------
(* The history *)

ResultRows == [at : Nat, up : {o.up : o \in Outcomes}, token : {o.token : o \in Outcomes},
               hops : {o.hops : o \in Outcomes}]

\* Every result has a time, later than those before it.
HistoryInv ==
    /\ results \in Seq(ResultRows)
    /\ \A j, k \in DOMAIN results : j < k => results[j].at < results[k].at

LEMMA InOrder == HistoryInv => TimesOrdered
<1> SUFFICES ASSUME HistoryInv PROVE TimesOrdered
  OBVIOUS
<1>1. Len(results) \in Nat /\ DOMAIN results = 1 .. Len(results)
  BY LenProperties DEF HistoryInv
<1>2. \A k \in DOMAIN results : results[k] \in ResultRows
  BY <1>1, ElementOfSeq DEF HistoryInv
<1>3. TimesOK
  BY <1>2 DEF TimesOK, ResultRows
<1>4. QED
  BY <1>1, <1>3 DEF HistoryInv, TimesOrdered

THEOREM HistorySafe == HistorySpec => []HistoryInv
<1>1. HistoryInit => HistoryInv
  BY DEF HistoryInit, HistoryInv
<1>2. HistoryInv /\ [HistoryNext]_historyVars => HistoryInv'
  <2> SUFFICES ASSUME HistoryInv, [HistoryNext]_historyVars PROVE HistoryInv'
    OBVIOUS
  <2>0. /\ Len(results) \in Nat /\ DOMAIN results = 1 .. Len(results)
        /\ \A j \in DOMAIN results : results[j].at \in Nat
        /\ \A j, k \in DOMAIN results : j < k => results[j].at < results[k].at
    BY InOrder DEF TimesOrdered, TimesOK
  <2>1. ASSUME NEW gap \in Gaps, NEW o \in Outcomes, InsertResult(gap, o) PROVE HistoryInv'
    <3> DEFINE new == [at |-> NextTime(gap), up |-> o.up, token |-> o.token, hops |-> o.hops]
               n == Len(results)
    <3>1. gap \in Nat \ {0}
      BY HistoryAssumption
    <3>2. NextTime(gap) \in Nat /\ \A j \in 1 .. n : results[j].at < NextTime(gap)
      <4>1. CASE results = <<>>
        BY <3>1, <4>1 DEF NextTime
      <4>2. CASE results # <<>>
        <5>1. n \in DOMAIN results /\ Last(results) = results[n]
          BY <2>0, <4>2, EmptySeq DEF HistoryInv, Last
        <5>2. NextTime(gap) = gap + results[n].at
          BY <4>2, <5>1 DEF NextTime
        <5>3. \A j \in 1 .. n : results[j].at \in Nat /\ results[j].at <= results[n].at
          BY <2>0, <5>1
        <5>4. QED
          BY <3>1, <5>1, <5>2, <5>3, <2>0
      <4>3. QED
        BY <4>1, <4>2
    <3>3. new \in ResultRows
      BY <3>2 DEF ResultRows
    <3>4. results' = Append(results, new)
      BY <2>1 DEF InsertResult
    <3>5. /\ results' \in Seq(ResultRows) /\ Len(results') = n + 1
          /\ \A j \in 1 .. n : results'[j] = results[j]
          /\ results'[n + 1].at = NextTime(gap)
      <4>1. new.at = NextTime(gap)
        OBVIOUS
      <4> HIDE DEF new
      <4>2. QED
        BY <3>3, <3>4, <4>1, AppendProperties DEF HistoryInv
    <3>6. DOMAIN results' = 1 .. n + 1
      BY <3>5, LenProperties
    <3>7. \A j, k \in 1 .. n + 1 : j < k => j \in 1 .. n /\ (k \in 1 .. n \/ k = n + 1)
      BY <2>0
    <3> HIDE DEF n
    <3>8. \A j, k \in 1 .. n + 1 : j < k => results'[j].at < results'[k].at
      BY <2>0, <3>2, <3>5, <3>7 DEF n
    <3>9. QED
      BY <3>5, <3>6, <3>8 DEF HistoryInv
  <2>2. CASE RollUp
    BY <2>2 DEF RollUp, HistoryInv
  <2>3. CASE UNCHANGED historyVars
    BY <2>3 DEF historyVars, HistoryInv
  <2>4. QED
    BY <2>1, <2>2, <2>3 DEF HistoryNext
<1>3. QED
  BY <1>1, <1>2, PTL DEF HistorySpec

\* Whatever window is asked for, in however many buckets and from whichever table, a
\* series has its results in the right buckets, and whole minutes give the same series
\* from the rollup as from the raw rows.
THEOREM SeriesAlwaysExact == HistorySpec => []SeriesExact
<1>1. HistoryInv => TimesOK
  BY InOrder DEF TimesOrdered
<1>2. QED
  BY <1>1, HistorySafe, AllSeriesExact, PTL

\* The segments of any window follow each other without a gap, begin where the state
\* changed and say what every result said, of the monitor and of each hop.
THEOREM SegmentsAlwaysExact == HistorySpec => []SegmentsExact
<1>1. TimesOrdered => SegmentsExact
  <2> SUFFICES ASSUME TimesOrdered, NEW w \in Windows
               PROVE  /\ Explains(GetStateSegments(w[1], w[2]), Tokens, w[1], w[2])
                      /\ \A hop \in Hops :
                          Explains(GetHopSegments(hop, w[1], w[2]), HopStates(hop), w[1], w[2])
    BY DEF SegmentsExact
  <2>1. w[2] \in Nat
    BY HistoryAssumption DEF Windows
  <2>2. ASSUME NEW states PROVE Explains(Collapse(states, w[1], w[2]), states, w[1], w[2])
    <3> DEFINE S == {states[j] : j \in DOMAIN results}
    <3>1. \A j \in DOMAIN results : states[j] \in S
      OBVIOUS
    <3> HIDE DEF S
    <3>2. QED
      BY <2>1, <3>1, SegmentsExplain
  <2>3. QED
    BY <2>2 DEF GetStateSegments, GetHopSegments
<1>2. HistoryInv => SegmentsExact
  BY <1>1, InOrder
<1>3. QED
  BY <1>2, HistorySafe, PTL
=============================================================================
