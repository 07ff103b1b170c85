------------------------------- MODULE ProbeProofs -------------------------------
(***************************************************************************)
(* The probes with a state of their own, proved of Border, PublicIp and    *)
(* Icmp for any number of tasks that run them at once, and of all parts of *)
(* MCProbes together.                                                      *)
(***************************************************************************)
EXTENDS MCProbes, TraceProofs

-----------------------------------------------------------------------------
(* The border probe's cache and its verdicts *)

Gateways == [local : Private \cup {NoAddr}, isp : Public \cup {NoAddr}]

\* What a cycle goes by, from the resolved gateways to the verdict.
ProberOK(p) ==
    /\ prober[p].at \in {"locked", "walked"} => prober[p].named \in Public \cup {NoAddr}
    /\ prober[p].at = "ping" =>
        prober[p].local \in Private \cup {NoAddr} /\ prober[p].isp \in Public \cup {NoAddr}
    /\ prober[p].at = "reported" =>
        /\ prober[p].localOk \in BOOLEAN /\ prober[p].upstreamOk \in BOOLEAN
        /\ prober[p].ispOk \in {"yes", "no", "unknown"}
        /\ prober[p].verdict = Classify(prober[p].localOk, prober[p].ispOk, prober[p].upstreamOk)

\* BorderTypeOK and WalksBounded with what they rest on: a walk uses up the expiry that
\* made the last attempt stale.
BorderInv ==
    /\ BorderTypeOK
    /\ DOMAIN prober = Probers
    /\ walks \in Nat
    /\ walks <= expiries + IF cache.fresh THEN 1 ELSE 0
    /\ \A p \in Probers : ProberOK(p)

\* What select_gateways finds are gateways: the target is never taken for one.
LEMMA Selected ==
    ASSUME NEW answers \in Replies
    PROVE  SelectGateways(answers) \in Gateways
<1> DEFINE outside == {i \in 1 .. WalkHops : answers[i] \in Public \cup {Target}}
           inside  == {i \in 1 .. WalkHops : /\ answers[i] \in Private
                                             /\ \A o \in outside : i < o}
           local   == {i \in inside : \A j \in inside : j <= i}
           isp     == {i \in outside : (\A o \in outside : i <= o) /\ IsRouter(answers[i])}
<1>1. CASE local = {}
  BY <1>1 DEF SelectGateways, Undetected, Gateways
<1>2. CASE local # {}
  <2>1. answers[CHOOSE i \in local : TRUE] \in Private
    BY <1>2
  <2>2. isp # {} => answers[CHOOSE i \in isp : TRUE] \in Public
    BY DEF IsRouter
  <2> HIDE DEF isp
  <2> DEFINE found == [local |-> answers[CHOOSE i \in local : TRUE],
                       isp |-> IF isp = {} THEN NoAddr ELSE answers[CHOOSE i \in isp : TRUE]]
  <2>3. found \in Gateways
    BY <2>1, <2>2 DEF Gateways
  <2>4. SelectGateways(answers) = found
    BY <1>2 DEF SelectGateways, isp
  <2>5. QED
    BY <2>3, <2>4
<1>3. QED
  BY <1>1, <1>2

\* A new detection keeps what the old one knew.
LEMMA Merged ==
    ASSUME NEW old \in Gateways, NEW new \in Gateways
    PROVE  /\ Merge(old, new) \in Gateways
           /\ old.local # NoAddr => Merge(old, new).local # NoAddr
BY DEF Merge, Gateways

\* Each step keeps the invariant.
LEMMA BorderStep == BorderInv /\ [BorderNext]_borderVars => BorderInv'
<1> SUFFICES ASSUME BorderInv, [BorderNext]_borderVars PROVE BorderInv'
  OBVIOUS
<1> USE BorderAssumption DEF BorderInv, BorderTypeOK, ProberOK
<1>1. ASSUME NEW p \in Probers, Lock(p) PROVE BorderInv'
  <2>1. PICK config \in Configs : StepTo(p, [at |-> "locked", named |-> config.isp])
    BY <1>1 DEF Lock
  <2>2. config.isp \in Public \cup {NoAddr}
    BY DEF Configs
  <2>3. QED
    BY <1>1, <2>1, <2>2 DEF Lock, StepTo
<1>2. ASSUME NEW p \in Probers, ResolveConfigured(p) PROVE BorderInv'
  <2>1. PICK config \in Configs :
          StepTo(p, [at |-> "ping", local |-> config.gateway, isp |-> config.isp])
    BY <1>2 DEF ResolveConfigured
  <2>2. config.gateway \in Private \cup {NoAddr} /\ config.isp \in Public \cup {NoAddr}
    BY DEF Configs
  <2>3. QED
    BY <1>2, <2>1, <2>2 DEF ResolveConfigured, StepTo
<1>3. ASSUME NEW p \in Probers, Walk(p) PROVE BorderInv'
  <2>1. PICK answers \in Replies :
          cache' = [fresh |-> TRUE, detected |-> Merge(cache.detected, SelectGateways(answers))]
    BY <1>3 DEF Walk
  <2>2. cache'.fresh = TRUE /\ cache'.detected \in Gateways
    BY <2>1, Selected, Merged DEF Gateways
  <2>3. QED
    BY <1>3, <2>2 DEF Walk, WalkNeeded, StepTo, Gateways
<1>4. ASSUME NEW p \in Probers, Resolve(p) PROVE BorderInv'
  BY <1>4 DEF Resolve, StepTo, IspGateway
<1>5. ASSUME NEW p \in Probers, Ping(p) PROVE BorderInv'
  BY <1>5 DEF Ping, StepTo
<1>6. ASSUME NEW p \in Probers, NoVerdict(p) PROVE BorderInv'
  BY <1>6 DEF NoVerdict, StepTo
<1>7. ASSUME NEW p \in Probers, NextCycle(p) PROVE BorderInv'
  BY <1>7 DEF NextCycle, StepTo
<1>8. CASE Expire
  <2>1. cache' = [fresh |-> FALSE, detected |-> cache.detected]
    BY <1>8 DEF Expire
  <2>2. cache' \in [fresh : BOOLEAN, detected : Gateways]
    BY <2>1 DEF Gateways
  <2>3. QED
    BY <1>8, <2>1, <2>2 DEF Expire, Gateways
<1>9. CASE UNCHANGED borderVars
  BY <1>9 DEF borderVars
<1>10. QED
  BY <1>1, <1>2, <1>3, <1>4, <1>5, <1>6, <1>7, <1>8, <1>9 DEF BorderNext

LEMMA BorderStart == BorderInit => BorderInv
<1> SUFFICES ASSUME BorderInit PROVE BorderInv
  OBVIOUS
<1>1. BorderTypeOK
  <2>1. cache.fresh = FALSE /\ cache \in [fresh : BOOLEAN, detected : Gateways]
    <3>1. Undetected \in Gateways
      BY DEF Undetected, Gateways
    <3>2. QED
      BY <3>1 DEF BorderInit
  <2>2. \A p \in Probers : prober[p].at = "idle" /\ holder # p
    BY BorderAssumption DEF BorderInit
  <2>3. QED
    BY <2>1, <2>2, BorderAssumption DEF BorderInit, BorderTypeOK, Gateways
<1>2. \A p \in Probers : ProberOK(p)
  BY DEF BorderInit, ProberOK
<1>3. QED
  BY <1>1, <1>2 DEF BorderInit, BorderInv

\* The variables have their types, and the lock is with the prober that is in
\* resolve_gateways.
THEOREM BorderTypes == BorderSpec => []BorderTypeOK
<1>1. BorderInv => BorderTypeOK
  BY DEF BorderInv
<1>2. QED
  BY <1>1, BorderStart, BorderStep, PTL DEF BorderSpec

\* However many border monitors probe, they walk once for each time the last attempt
\* grew stale.
THEOREM OneWalkEach == BorderSpec => []WalksBounded
<1>1. BorderInv => WalksBounded
  BY DEF BorderInv, BorderTypeOK, WalksBounded
<1>2. QED
  BY <1>1, BorderStart, BorderStep, PTL DEF BorderSpec

\* Nothing that was detected is forgotten, and a complete detection is never changed.
THEOREM Kept == BorderSpec => DetectionKept
<1> DEFINE Keeps == LET old == cache.detected
                        new == cache'.detected
                    IN  /\ old.isp # NoAddr => new = old
                        /\ old.local # NoAddr => new.local # NoAddr
<1>1. BorderInv /\ [BorderNext]_borderVars => [Keeps]_borderVars
  <2> SUFFICES ASSUME BorderInv, BorderNext PROVE Keeps
    OBVIOUS
  <2>1. CASE cache'.detected = cache.detected
    BY <2>1
  <2>2. ASSUME NEW p \in Probers, Walk(p) PROVE Keeps
    <3>1. PICK answers \in Replies :
            cache' = [fresh |-> TRUE, detected |-> Merge(cache.detected, SelectGateways(answers))]
      BY <2>2 DEF Walk
    <3>2. cache.detected \in Gateways
      BY DEF BorderInv, BorderTypeOK, Gateways
    <3>3. cache.detected.isp = NoAddr
      BY <2>2 DEF Walk, WalkNeeded, Complete
    <3>4. QED
      BY <3>1, <3>2, <3>3, Selected, Merged
  <2>3. CASE Expire
    BY <2>3 DEF Expire, BorderInv, BorderTypeOK
  <2>4. QED
    BY <2>1, <2>2, <2>3
       DEF BorderNext, ResolveConfigured, Lock, Resolve, Ping, NoVerdict, NextCycle
<1>2. QED
  BY <1>1, BorderStart, BorderStep, PTL DEF BorderSpec, DetectionKept
-----------------------------------------------------------------------------
(* Verdicts *)

LEMMA BlockingSizes ==
    ASSUME NEW S \in SUBSET {"local", "isp"}
    PROVE  Cardinality(S) = (IF "local" \in S THEN 1 ELSE 0) + (IF "isp" \in S THEN 1 ELSE 0)
<1>1. /\ Cardinality({}) = 0 /\ Cardinality({"local"}) = 1 /\ Cardinality({"isp"}) = 1
      /\ Cardinality({"local", "isp"}) = 2
  <2>1. IsFiniteSet({"isp"}) /\ Cardinality({"isp"}) = 1 /\ Cardinality({"local"}) = 1
    BY FS_Singleton
  <2>2. {"isp"} \cup {"local"} = {"local", "isp"}
    OBVIOUS
  <2>3. Cardinality({"local", "isp"}) = 2
    BY <2>1, <2>2, FS_AddElement
  <2>4. QED
    BY <2>1, <2>3, FS_EmptySet
<1>2. S = {} \/ S = {"local"} \/ S = {"isp"} \/ S = {"local", "isp"}
  OBVIOUS
<1>3. CASE S = {}
  BY <1>1, <1>3
<1>4. CASE S = {"local"}
  BY <1>1, <1>4
<1>5. CASE S = {"isp"}
  BY <1>1, <1>5
<1>6. CASE S = {"local", "isp"}
  BY <1>1, <1>6
<1>7. QED
  BY <1>2, <1>3, <1>4, <1>5, <1>6

\* The reported segment explains the pings, with the fewest gateways blocking.
LEMMA Explained ==
    ASSUME NEW r, r.localOk \in BOOLEAN, r.upstreamOk \in BOOLEAN,
           r.ispOk \in {"yes", "no", "unknown"},
           r.verdict = Classify(r.localOk, r.ispOk, r.upstreamOk)
    PROVE  \E blocking \in SUBSET {"local", "isp"} :
             /\ Fits(r, r.verdict, blocking)
             /\ \A broken \in {"ok", "lan_down", "isp_gw_down", "isp_down"},
                   other \in SUBSET {"local", "isp"} :
                  Fits(r, broken, other) => Cardinality(blocking) <= Cardinality(other)
<1> DEFINE NoneHeard(verdict) ==
             {h \in {"local", "isp"} :
                \/ h = "local" /\ ~r.localOk /\ verdict # "lan_down"
                \/ h = "isp" /\ r.ispOk = "no" /\ verdict \notin {"lan_down", "isp_gw_down"}}
           blocking == NoneHeard(r.verdict)
<1>1. blocking \in SUBSET {"local", "isp"}
  OBVIOUS
<1>2. Fits(r, r.verdict, blocking)
  BY DEF Fits, Classify
<1>3. ASSUME NEW broken \in {"ok", "lan_down", "isp_gw_down", "isp_down"},
             NEW other \in SUBSET {"local", "isp"}, Fits(r, broken, other)
      PROVE  Cardinality(blocking) <= Cardinality(other)
  <2>1. "local" \in blocking => "local" \in other
    BY <1>3 DEF Fits, Classify
  <2>2. "isp" \in blocking => "isp" \in other
    BY <1>3 DEF Fits, Classify
  <2> HIDE DEF blocking
  <2>3. QED
    BY <1>1, <2>1, <2>2, BlockingSizes
<1> HIDE DEF blocking
<1>4. QED
  BY <1>1, <1>2, <1>3

\* Every verdict of every cycle explains its pings.
THEOREM VerdictsExplain == BorderSpec => []VerdictExplains
<1>1. BorderInv => VerdictExplains
  <2> SUFFICES ASSUME BorderInv, NEW p \in Probers, prober[p].at = "reported"
               PROVE  \E blocking \in SUBSET {"local", "isp"} :
                        /\ Fits(prober[p], prober[p].verdict, blocking)
                        /\ \A broken \in {"ok", "lan_down", "isp_gw_down", "isp_down"},
                              other \in SUBSET {"local", "isp"} :
                             Fits(prober[p], broken, other) =>
                                 Cardinality(blocking) <= Cardinality(other)
    BY DEF VerdictExplains
  <2>1. ProberOK(p)
    BY DEF BorderInv
  <2>2. QED
    BY <2>1, Explained DEF ProberOK
<1>2. QED
  BY <1>1, BorderStart, BorderStep, PTL DEF BorderSpec
-----------------------------------------------------------------------------
(* The notes of the public-IP probe *)

Row == [stamp : Nat, ip : Ips \cup {NoIp}, note : Ips \cup {NoIp}, alone : BOOLEAN]

Reading ==
    {Rest} \cup [at : {"ask"}, service : Nat, alone : BOOLEAN]
           \cup [at : {"compare"}, ip : Ips, alone : BOOLEAN]
           \cup [at : {"store"}, row : Row, alone : BOOLEAN]

\* The rows there are and those that are about to be stored.
Storing(k) == readings[k].at = "store"
Pending(k) == readings[k].row

\* The rows a row of this stamp comes after, and the last of them.
Older(stamp) == {q \in ipRows : q.stamp < stamp}
LastBefore(q, stamp) == q \in Older(stamp) /\ \A h \in Older(stamp) : h.stamp <= q.stamp

\* NotesAreTrue of one row, stored or not.
TrueNote(r) ==
    /\ r.note # NoIp => r.note # r.ip /\ \E q \in Older(r.stamp) : q.ip = r.note
    /\ r.alone /\ r.ip # NoIp =>
        \A q \in ipRows : LastBefore(q, r.stamp) /\ q.ip # NoIp =>
            r.note = IF q.ip = r.ip THEN NoIp ELSE q.ip

IpTypes ==
    /\ address \in Ips
    /\ stamps \in Nat
    /\ ipRows \subseteq Row
    /\ readings \in [IpTasks -> Reading]

\* The clock has passed every stamp, no two rows have the same one, and if there are rows
\* one of them is the newest.
Stamps ==
    /\ \A r \in ipRows : r.stamp <= stamps
    /\ \A k \in IpTasks : Storing(k) => Pending(k).stamp <= stamps
    /\ \A q, r \in ipRows : q.stamp = r.stamp => q = r
    /\ \A k \in IpTasks, r \in ipRows : Storing(k) => Pending(k).stamp # r.stamp
    /\ \A j, k \in IpTasks : Storing(j) /\ Storing(k) /\ Pending(j).stamp = Pending(k).stamp => j = k
    /\ ipRows # {} => \E r \in ipRows : \A q \in ipRows : q.stamp <= r.stamp

\* Nobody is under way beside a probe that is alone, and nobody can still store a row
\* before one that was.
Alone ==
    /\ \A j, k \in IpTasks : j # k /\ readings[k].at # "rest" /\ readings[k].alone =>
           readings[j] = Rest
    /\ \A k \in IpTasks, r \in ipRows : Storing(k) /\ r.alone => r.stamp < Pending(k).stamp
    /\ \A j, k \in IpTasks : j # k /\ Storing(j) /\ Storing(k) /\ Pending(j).alone =>
           Pending(j).stamp < Pending(k).stamp

IpInv ==
    /\ IpTypes
    /\ Stamps
    /\ Alone
    /\ \A r \in ipRows : TrueNote(r)
    /\ \A k \in IpTasks : Storing(k) => TrueNote(Pending(k))

LEMMA RestIsNoReading ==
    /\ Rest.at = "rest"
    /\ \A x \in Reading : x.at \in {"rest", "ask", "compare", "store"} /\ (x.at = "rest" <=> x = Rest)
    /\ \A x \in Reading : x.at # "rest" => x.alone \in BOOLEAN
    /\ \A x \in Reading : x.at = "store" => x.row \in Row
    /\ \A x \in Reading : x.at = "compare" => x.ip \in Ips
BY DEF Reading, Rest

\* A probe that is stamped has a row that comes after all others and whose note is true.
LEMMA StampedKeeps ==
    ASSUME IpInv, NEW k \in IpTasks, readings[k].at \in {"ask", "compare"},
           NEW ip \in Ips \cup {NoIp}, NEW note \in Ips \cup {NoIp}, NEW sure \in BOOLEAN,
           Stamped(k, ip, note, sure), UNCHANGED <<ipRows, address>>,
           note # NoIp => note # ip /\ \E q \in ipRows : q.ip = note,
           sure /\ ip # NoIp =>
               \A q \in ipRows : (\A h \in ipRows : h.stamp <= q.stamp) /\ q.ip # NoIp =>
                   note = IF q.ip = ip THEN NoIp ELSE q.ip
    PROVE  IpInv'
<1> DEFINE alone == readings[k].alone
           row == [stamp |-> stamps + 1, ip |-> ip, note |-> note, alone |-> alone /\ sure]
<1>0. IpTypes /\ Stamps /\ Alone /\ stamps \in Nat
  BY DEF IpInv, IpTypes
<1>1. alone \in BOOLEAN
  BY <1>0, RestIsNoReading DEF IpTypes
<1>2. row \in Row
  BY <1>0, <1>1 DEF Row
<1>3. /\ readings' = [readings EXCEPT ![k] = [at |-> "store", alone |-> alone, row |-> row]]
      /\ stamps' = stamps + 1
  BY <1>0 DEF Stamped, IpTypes
<1>4. row.stamp = stamps + 1 /\ row.ip = ip /\ row.note = note /\ (row.alone => alone /\ sure)
  BY <1>1
<1> HIDE DEF row, alone
<1>5. /\ Storing(k)' /\ Pending(k)' = row
      /\ \A j \in IpTasks : j # k => (Storing(j)' <=> Storing(j)) /\ Pending(j)' = Pending(j)
  BY <1>0, <1>3 DEF IpTypes, Storing, Pending
<1>6. IpTypes'
  BY <1>0, <1>1, <1>2, <1>3 DEF IpTypes, Reading
<1>6a. \A r \in ipRows : r.stamp \in Nat
  BY <1>0 DEF IpTypes, Row
<1>6b. \A j \in IpTasks : Storing(j) => Pending(j).stamp \in Nat
  BY <1>0, RestIsNoReading DEF IpTypes, Storing, Pending, Row
<1>7. Stamps'
  BY <1>0, <1>3, <1>4, <1>5, <1>6a, <1>6b DEF Stamps
<1>8. Alone'
  <2>1. alone => \A j \in IpTasks : j # k => readings[j] = Rest /\ ~Storing(j)
    BY <1>0, RestIsNoReading DEF Alone, alone, Storing
  <2>2. ASSUME NEW i \in IpTasks, NEW j \in IpTasks, i # j, readings'[j].at # "rest", readings'[j].alone
        PROVE  readings'[i] = Rest
    <3>1. CASE j = k
      BY <1>0, <1>3, <2>1, <2>2, <3>1 DEF IpTypes
    <3>2. CASE j # k
      BY <1>0, <1>3, <2>2, <3>2 DEF IpTypes, Alone, Rest
    <3>3. QED
      BY <3>1, <3>2
  <2>3. \A j \in IpTasks, r \in ipRows : Storing(j)' /\ r.alone => r.stamp < Pending(j)'.stamp
    BY <1>0, <1>4, <1>5, <1>6a DEF Stamps, Alone
  <2>4. ASSUME NEW i \in IpTasks, NEW j \in IpTasks, i # j, Storing(i)', Storing(j)', Pending(i)'.alone
        PROVE  Pending(i)'.stamp < Pending(j)'.stamp
    <3>1. CASE i = k
      BY <1>4, <1>5, <2>1, <2>4, <3>1
    <3>2. CASE j = k
      BY <1>0, <1>4, <1>5, <1>6b, <2>4, <3>2 DEF Stamps
    <3>3. CASE i # k /\ j # k
      BY <1>0, <1>5, <2>4, <3>3 DEF Alone
    <3>4. QED
      BY <3>1, <3>2, <3>3
  <2>5. QED
    BY <2>2, <2>3, <2>4 DEF Alone
<1>9. Older(row.stamp) = ipRows
  BY <1>0, <1>4, <1>6a DEF Older, Stamps
<1>10. TrueNote(row)
  BY <1>4, <1>9 DEF TrueNote, LastBefore
<1>11. \A r : TrueNote(r)' <=> TrueNote(r)
  BY DEF TrueNote, LastBefore, Older
<1>12. QED
  BY <1>5, <1>6, <1>7, <1>8, <1>10, <1>11 DEF IpInv

\* A row that is stored comes after every row that was alone, so that no note is
\* contradicted by it.
LEMMA StoreKeeps == ASSUME IpInv, NEW k \in IpTasks, Store(k) PROVE IpInv'
<1> DEFINE row == readings[k].row
<1>0. IpTypes /\ Stamps /\ Alone
  BY DEF IpInv
<1>1. Storing(k) /\ Pending(k) = row /\ row \in Row /\ TrueNote(row)
  BY <1>0, RestIsNoReading DEF Store, Storing, Pending, IpTypes, IpInv
<1>2. readings' = [readings EXCEPT ![k] = Rest] /\ UNCHANGED <<address, begun, stamps>>
  BY DEF Store
<1>3. ipRows' = ipRows \/ ipRows' = ipRows \cup {row}
  BY DEF Store
<1>4. \A j \in IpTasks : Storing(j)' => j # k /\ Storing(j) /\ Pending(j)' = Pending(j)
  BY <1>0, <1>2, RestIsNoReading DEF IpTypes, Storing, Pending
<1>5. IpTypes'
  BY <1>0, <1>1, <1>2, <1>3 DEF IpTypes, Reading
<1>6. /\ stamps \in Nat /\ row.stamp \in Nat
      /\ \A r \in ipRows : r.stamp \in Nat
      /\ \A j \in IpTasks : Storing(j) => Pending(j).stamp \in Nat
  BY <1>0, <1>1, RestIsNoReading DEF IpTypes, Storing, Pending, Row
<1> HIDE DEF row
<1>7. Stamps'
  <2>1. CASE ipRows' = ipRows
    BY <1>0, <1>2, <1>4, <2>1 DEF Stamps
  <2>2. CASE ipRows' = ipRows \cup {row}
    <3>1. \E r \in ipRows' : \A q \in ipRows' : q.stamp <= r.stamp
      <4>1. CASE ipRows = {}
        BY <1>6, <2>2, <4>1
      <4>2. CASE ipRows # {}
        <5>1. PICK r \in ipRows : \A q \in ipRows : q.stamp <= r.stamp
          BY <1>0, <4>2 DEF Stamps
        <5>2. CASE row.stamp <= r.stamp
          BY <2>2, <5>1, <5>2
        <5>3. CASE r.stamp < row.stamp
          BY <1>6, <2>2, <5>1, <5>3
        <5>4. QED
          BY <1>6, <5>2, <5>3
      <4>3. QED
        BY <4>1, <4>2
    <3>2. \A r \in ipRows : r.stamp # row.stamp
      BY <1>0, <1>1 DEF Stamps
    <3>3. \A r \in ipRows' : r.stamp <= stamps
      BY <1>0, <1>1, <2>2 DEF Stamps
    <3>4. \A j \in IpTasks, r \in ipRows' : Storing(j)' => Pending(j)'.stamp # r.stamp
      BY <1>0, <1>1, <1>4, <2>2 DEF Stamps
    <3>5. \A q, r \in ipRows' : q.stamp = r.stamp => q = r
      BY <1>0, <2>2, <3>2 DEF Stamps
    <3>6. QED
      BY <1>0, <1>2, <1>4, <3>1, <3>3, <3>4, <3>5 DEF Stamps
  <2>3. QED
    BY <1>3, <2>1, <2>2
<1>8. Alone'
  <2>1. ASSUME NEW i \in IpTasks, NEW j \in IpTasks, i # j, readings'[j].at # "rest", readings'[j].alone
        PROVE  readings'[i] = Rest
    <3>1. j # k /\ readings'[j] = readings[j]
      BY <1>0, <1>2, <2>1, RestIsNoReading DEF IpTypes
    <3>2. readings[i] = Rest
      BY <1>0, <2>1, <3>1 DEF Alone
    <3>3. QED
      BY <1>0, <1>2, <3>2 DEF IpTypes
  <2>2. ASSUME NEW j \in IpTasks, NEW r \in ipRows', Storing(j)', r.alone
        PROVE  r.stamp < Pending(j)'.stamp
    <3>1. CASE r \in ipRows
      BY <1>0, <1>4, <2>2, <3>1 DEF Alone
    <3>2. CASE r = row
      BY <1>0, <1>1, <1>4, <2>2, <3>2 DEF Alone
    <3>3. QED
      BY <1>3, <3>1, <3>2
  <2>3. \A i, j \in IpTasks : i # j /\ Storing(i)' /\ Storing(j)' /\ Pending(i)'.alone =>
            Pending(i)'.stamp < Pending(j)'.stamp
    BY <1>0, <1>4 DEF Alone
  <2>4. QED
    BY <2>1, <2>2, <2>3 DEF Alone
\* The notes of the rows that are neither alone nor before the new one.
<1>9. ASSUME NEW r, r.stamp \in Nat, TrueNote(r), r.alone => r.stamp <= row.stamp
      PROVE  TrueNote(r)'
  <2>1. \A q \in Older(r.stamp) : q \in Older(r.stamp)'
    BY <1>3 DEF Older
  <2>2. r.alone => Older(r.stamp)' = Older(r.stamp)
    BY <1>3, <1>6, <1>9 DEF Older
  <2>3. r.alone => \A q \in ipRows' : LastBefore(q, r.stamp)' => q \in ipRows /\ LastBefore(q, r.stamp)
    BY <2>2 DEF LastBefore, Older
  <2>4. QED
    BY <1>9, <2>1, <2>3 DEF TrueNote
<1>10. ASSUME NEW r \in ipRows' PROVE TrueNote(r)'
  <2>1. CASE r \in ipRows
    <3>1. TrueNote(r) /\ (r.alone => r.stamp < row.stamp)
      BY <1>0, <1>1, <2>1 DEF IpInv, Alone
    <3>2. QED
      BY <1>6, <1>9, <2>1, <3>1
  <2>2. CASE r = row
    BY <1>1, <1>6, <1>9, <2>2
  <2>3. QED
    BY <1>3, <2>1, <2>2
<1>11. ASSUME NEW j \in IpTasks, Storing(j)' PROVE TrueNote(Pending(j))'
  <2>1. j # k /\ Storing(j) /\ Pending(j)' = Pending(j) /\ TrueNote(Pending(j))
    BY <1>4, <1>11 DEF IpInv
  <2>2. Pending(j).alone => Pending(j).stamp < row.stamp
    BY <1>0, <1>1, <2>1 DEF Alone
  <2> DEFINE other == Pending(j)
  <2>3. other.stamp \in Nat /\ TrueNote(other) /\ (other.alone => other.stamp <= row.stamp)
    BY <1>6, <2>1, <2>2
  <2> HIDE DEF other
  <2>4. \A r : r = other => TrueNote(r)'
    BY <1>9, <2>3
  <2>5. QED
    BY <2>1, <2>4 DEF other, TrueNote, LastBefore, Older
<1>12. QED
  BY <1>5, <1>7, <1>8, <1>10, <1>11 DEF IpInv

\* Steps that leave the rows alone, and what is about to be stored.
LEMMA OtherKeeps ==
    ASSUME IpInv, IpTypes', Alone', UNCHANGED <<ipRows, stamps>>,
           \A j \in IpTasks : Storing(j)' => Storing(j) /\ Pending(j)' = Pending(j)
    PROVE  IpInv'
<1>1. Stamps'
  BY DEF IpInv, Stamps
<1>2. \A r \in ipRows : TrueNote(r)'
  BY DEF IpInv, TrueNote, LastBefore, Older
<1>3. \A j \in IpTasks : Storing(j)' => TrueNote(Pending(j))'
  BY DEF IpInv, TrueNote, LastBefore, Older
<1>4. QED
  BY <1>1, <1>2, <1>3 DEF IpInv

LEMMA IpStep == IpInv /\ [PublicIpNext]_ipVars => IpInv'
<1> SUFFICES ASSUME IpInv, [PublicIpNext]_ipVars PROVE IpInv'
  OBVIOUS
<1>0. IpTypes /\ Stamps /\ Alone
  BY DEF IpInv
<1>1. ASSUME UNCHANGED <<ipRows, readings, stamps>>, address' \in Ips PROVE IpInv'
  BY <1>0, <1>1, OtherKeeps DEF IpTypes, Alone, Storing, Pending
<1>2. ASSUME NEW k \in IpTasks, Begin(k) PROVE IpInv'
  <2>1. UNCHANGED <<address, ipRows, stamps>> /\ readings[k] = Rest
    BY <1>2 DEF Begin
  <2>2. /\ readings'[k] = [at |-> "ask", service |-> 1, alone |-> \A h \in IpTasks : readings[h] = Rest]
        /\ \A j \in IpTasks : j # k /\ readings[j] = Rest => readings'[j] = Rest
        /\ \A j \in IpTasks : j # k /\ readings[j] # Rest =>
               readings'[j] = [readings[j] EXCEPT !.alone = FALSE]
    BY <1>2 DEF Begin
  <2>3. \A j \in IpTasks : readings[j] \in Reading
    BY <1>0 DEF IpTypes
  <2>4. \A x \in Reading : x # Rest =>
            [x EXCEPT !.alone = FALSE] \in Reading /\ [x EXCEPT !.alone = FALSE].alone = FALSE
    BY DEF Reading, Rest
  <2>5. \A j \in IpTasks : readings'[j] \in Reading
    <3>1. readings'[k] \in Reading
      BY <2>2 DEF Reading
    <3>2. Rest \in Reading
      BY DEF Reading
    <3>3. QED
      BY <2>2, <2>3, <2>4, <3>1, <3>2
  <2>6. readings' = [j \in IpTasks |-> readings'[j]]
    BY <1>2 DEF Begin
  <2>7. IpTypes'
    BY <1>0, <2>1, <2>5, <2>6 DEF IpTypes
  <2>8. \A j \in IpTasks : Storing(j)' => Storing(j) /\ Pending(j)' = Pending(j)
    <3>1. \A x \in Reading : x # Rest =>
              LET y == [x EXCEPT !.alone = FALSE]
              IN  y.at = x.at /\ (x.at = "store" => y.row = x.row)
      BY DEF Reading, Rest
    <3>2. readings'[k].at = "ask"
      BY <2>2
    <3>3. QED
      <4>1. ASSUME NEW j \in IpTasks, Storing(j)' PROVE Storing(j) /\ Pending(j)' = Pending(j)
        <5>1. j # k /\ readings[j] # Rest
          BY <2>2, <3>2, <4>1, RestIsNoReading DEF Storing
        <5>2. readings'[j] = [readings[j] EXCEPT !.alone = FALSE] /\ readings[j] \in Reading
          BY <2>2, <2>3, <5>1
        <5>3. QED
          BY <3>1, <4>1, <5>1, <5>2 DEF Storing, Pending
      <4>2. QED
        BY <4>1
  <2>9. ASSUME NEW i \in IpTasks, NEW j \in IpTasks, i # j, readings'[j].at # "rest", readings'[j].alone
        PROVE  readings'[i] = Rest
    <3>1. j = k
      BY <2>2, <2>3, <2>4, <2>9, RestIsNoReading
    <3>2. \A h \in IpTasks : readings[h] = Rest
      BY <2>2, <2>9, <3>1
    <3>3. QED
      BY <2>2, <2>9, <3>1, <3>2
  <2>10. Alone'
    BY <1>0, <2>1, <2>8, <2>9 DEF Alone
  <2>11. QED
    BY <2>1, <2>7, <2>8, <2>10, OtherKeeps
\* A probe that goes on to the next service, or has an answer.
<1>3. ASSUME NEW k \in IpTasks, UNCHANGED <<address, ipRows, stamps>>, readings[k].at = "ask",
             NEW next \in Reading, next.at \in {"ask", "compare"}, next.alone = readings[k].alone,
             readings' = [readings EXCEPT ![k] = next]
      PROVE  IpInv'
  <2>1. IpTypes'
    BY <1>0, <1>3 DEF IpTypes
  <2>2. \A j \in IpTasks : Storing(j)' => Storing(j) /\ Pending(j)' = Pending(j)
    BY <1>0, <1>3 DEF IpTypes, Storing, Pending
  <2>3. readings[k].at # "rest"
    BY <1>3
  <2>4. ASSUME NEW i \in IpTasks, NEW j \in IpTasks, i # j, readings'[j].at # "rest", readings'[j].alone
        PROVE  readings'[i] = Rest
    <3>1. readings[j].at # "rest" /\ readings[j].alone
      BY <1>0, <1>3, <2>4 DEF IpTypes
    <3>2. readings[i] = Rest
      BY <1>0, <2>4, <3>1 DEF Alone
    <3>3. QED
      BY <1>0, <1>3, <3>2, RestIsNoReading DEF IpTypes
  <2>5. Alone'
    BY <1>0, <1>3, <2>2, <2>4 DEF Alone
  <2>6. QED
    BY <1>3, <2>1, <2>2, <2>5, OtherKeeps
<1>4. ASSUME NEW k \in IpTasks, Answered(k) PROVE IpInv'
  <2> DEFINE next == [at |-> "compare", ip |-> address, alone |-> readings[k].alone]
  <2>1. readings' = [readings EXCEPT ![k] = next]
    BY <1>0, <1>4 DEF Answered, IpTypes
  <2>2. next \in Reading
    BY <1>0, <1>4, RestIsNoReading DEF Answered, IpTypes, Reading
  <2>3. QED
    BY <1>3, <1>4, <2>1, <2>2 DEF Answered
<1>5. ASSUME NEW k \in IpTasks, Unanswered(k) PROVE IpInv'
  <2>1. CASE readings[k].service < Services
    <3> DEFINE next == [readings[k] EXCEPT !.service = @ + 1]
    <3>1. readings[k] \in Reading /\ readings[k].at = "ask"
      BY <1>0, <1>5 DEF Unanswered, IpTypes
    <3>2. readings[k] \in [at : {"ask"}, service : Nat, alone : BOOLEAN]
      BY <3>1 DEF Reading, Rest
    <3>3. next \in Reading /\ next.at = "ask" /\ next.alone = readings[k].alone
      BY <3>2 DEF Reading
    <3>4. readings' = [readings EXCEPT ![k] = next]
      BY <1>5, <2>1 DEF Unanswered
    <3> HIDE DEF next
    <3>5. QED
      BY <1>3, <1>5, <2>1, <3>3, <3>4 DEF Unanswered
  <2>2. CASE ~(readings[k].service < Services)
    BY <1>5, <2>2, StampedKeeps DEF Unanswered
  <2>3. QED
    BY <2>1, <2>2
<1>6. ASSUME NEW k \in IpTasks, Compare(k) PROVE IpInv'
  <2> DEFINE ip == readings[k].ip
  <2>1. ip \in Ips /\ UNCHANGED <<ipRows, address>> /\ readings[k].at = "compare"
    BY <1>0, <1>6, RestIsNoReading DEF Compare, IpTypes
  <2>2. ipRows # {} => /\ Newest \in ipRows /\ \A q \in ipRows : q.stamp <= Newest.stamp
                       /\ \A q \in ipRows : (\A h \in ipRows : h.stamp <= q.stamp) => q = Newest
    <3>1. ipRows # {} => Newest \in ipRows /\ \A q \in ipRows : q.stamp <= Newest.stamp
      BY <1>0 DEF Stamps, Newest
    <3>2. \A r \in ipRows : r.stamp \in Nat
      BY <1>0 DEF IpTypes, Row
    <3> HIDE DEF Newest
    <3>3. QED
      BY <1>0, <3>1, <3>2 DEF Stamps
  <2>3. PriorIp \in Ips \cup {NoIp}
    BY <1>0, <2>2 DEF PriorIp, IpTypes, Row
  <2> HIDE DEF ip
  <2>4. Note(ip, PriorIp) \in Ips \cup {NoIp}
    BY <2>3 DEF Note
  <2>5. CASE Stamped(k, ip, Note(ip, PriorIp), TRUE)
    <3>1. Note(ip, PriorIp) # NoIp =>
              Note(ip, PriorIp) # ip /\ \E q \in ipRows : q.ip = Note(ip, PriorIp)
      BY <2>2 DEF Note, PriorIp
    <3>2. \A q \in ipRows : (\A h \in ipRows : h.stamp <= q.stamp) /\ q.ip # NoIp =>
              Note(ip, PriorIp) = IF q.ip = ip THEN NoIp ELSE q.ip
      BY <2>2 DEF Note, PriorIp
    <3>3. QED
      BY <2>1, <2>4, <2>5, <3>1, <3>2, StampedKeeps
  <2>6. CASE Stamped(k, ip, NoIp, FALSE)
    BY <2>1, <2>6, StampedKeeps
  <2>7. QED
    BY <1>6, <2>5, <2>6 DEF Compare, ip
<1>7. ASSUME NEW k \in IpTasks, Store(k) PROVE IpInv'
  BY <1>7, StoreKeeps
<1>8. QED
  BY <1>0, <1>1, <1>2, <1>4, <1>5, <1>6, <1>7 DEF PublicIpNext, AddressChanges, ipVars, IpTypes

LEMMA IpStart == PublicIpInit => IpInv
BY DEF PublicIpInit, IpInv, IpTypes, Stamps, Alone, Storing, Rest, Reading

\* The change note of every row is true: it names an address that was recorded before, and
\* between two rows next to each other it is there exactly if their addresses differ.
THEOREM Notes == PublicIpSpec => []NotesAreTrue
<1>1. IpInv => NotesAreTrue
  <2> SUFFICES ASSUME IpInv, NEW r \in ipRows PROVE TrueNote(r) =>
          /\ r.note # NoIp => r.note # r.ip /\ \E q \in Before(r) : q.ip = r.note
          /\ r.alone /\ r.ip # NoIp =>
              \A q \in ipRows : RightBefore(q, r) /\ q.ip # NoIp =>
                  r.note = IF q.ip = r.ip THEN NoIp ELSE q.ip
    BY DEF IpInv, NotesAreTrue
  <2>1. Before(r) = Older(r.stamp) /\ \A q : RightBefore(q, r) <=> LastBefore(q, r.stamp)
    BY DEF Before, Older, RightBefore, LastBefore
  <2>2. QED
    BY <2>1 DEF TrueNote
<1>2. QED
  BY <1>1, IpStart, IpStep, PTL DEF PublicIpSpec
-----------------------------------------------------------------------------
(* The tally of an ICMP cycle *)

\* Identifiers are echo numbers modulo Idents, and an answer on its way, or a pinger
\* that waits, is fewer than Idents echoes old: of those, the identifier names the echo.
Fresh(echo, sent) == echo \in 1 .. sent /\ sent - echo < Idents

Answer == [ident : Nat, to : Pingers, echo : Nat]

Statuses == {"none", "up", "down"}
Reasons == {"none", "", "partial_loss", "dns_error", "privilege_error", "error", "no_reply"}

PingState ==
    [at : {"next", "wait", "stopped"}, tried : Nat, received : Nat, errors : Nat, ident : Nat,
     echo : Nat, heard : Seq([to : Pingers, echo : Nat]), first : Nat, status : Statuses, reason : Reasons]

\* What a pinger's cycle has counted: answers to its own echoes, each once.
CycleOK(p, c, sent) ==
    /\ c.at = "next" => c.first <= sent + 1
    /\ c.at = "wait" => Fresh(c.echo, sent) /\ c.ident = c.echo % Idents /\ c.first <= c.echo
    /\ Len(c.heard) = c.received
    /\ \A k \in DOMAIN c.heard :
        /\ c.heard[k].to = p
        /\ c.first <= c.heard[k].echo /\ c.heard[k].echo <= sent
        /\ c.at = "wait" => c.heard[k].echo < c.echo
        /\ \A j \in DOMAIN c.heard : j # k => c.heard[j] # c.heard[k]
    /\ c.at = "stopped" => (c.status = "up" <=> c.heard # <<>>)

IcmpInv ==
    /\ sentCount \in Nat /\ ident = (sentCount + 1) % Idents
    /\ wire \subseteq Answer
    /\ pings \in [Pingers -> PingState]
    /\ \A a \in wire :
        /\ Fresh(a.echo, sentCount) /\ a.ident = a.echo % Idents
        /\ \A p \in Pingers : pings[p].at = "wait" /\ pings[p].echo = a.echo => a.to = p
    /\ \A p \in Pingers : CycleOK(p, pings[p], sentCount)

\* The remainder is the one number below n that leaves a multiple of n.
LEMMA Remainder ==
    ASSUME NEW n \in Nat \ {0}, NEW q \in Int, NEW r \in 0 .. n - 1
    PROVE  (n * q + r) % n = r
<1> DEFINE a == n * q + r
           d == q - (a \div n)
<1>1. a \in Int /\ d \in Int
  OBVIOUS
<1>2. a = n * (a \div n) + (a % n) /\ (a % n) \in 0 .. n - 1
  BY <1>1
<1>3. n * d = (a % n) - r
  BY <1>2
<1> HIDE DEF d
<1>4. CASE d <= -1
  <2>1. n * d <= -n
    BY <1>1, <1>4
  <2>2. QED
    BY <1>2, <1>3, <2>1
<1>5. CASE d >= 1
  <2>1. n * d >= n
    BY <1>1, <1>5
  <2>2. QED
    BY <1>2, <1>3, <2>1
<1>6. CASE d = 0
  BY <1>2, <1>3, <1>6
<1>7. QED
  BY <1>1, <1>4, <1>5, <1>6

\* The counter of identifiers goes on as the count of echoes does.
LEMMA NextRemainder ==
    ASSUME NEW a \in Nat, NEW n \in Nat \ {0}
    PROVE  ((a % n) + 1) % n = (a + 1) % n
<1> DEFINE q == a \div n
           r == a % n
<1>1. q \in Int /\ r \in 0 .. n - 1 /\ a = n * q + r
  OBVIOUS
<1> HIDE DEF q, r
<1>2. CASE r + 1 < n
  <2>1. (n * q + (r + 1)) % n = r + 1 /\ (n * 0 + (r + 1)) % n = r + 1
    BY <1>1, <1>2, Remainder
  <2>2. n * q + (r + 1) = a + 1 /\ n * 0 + (r + 1) = r + 1
    BY <1>1
  <2>3. QED
    BY <2>1, <2>2 DEF r
<1>3. CASE r + 1 = n
  <2>1. (n * (q + 1) + 0) % n = 0 /\ (n * 1 + 0) % n = 0
    BY <1>1, Remainder
  <2>2. n * (q + 1) + 0 = a + 1 /\ n * 1 + 0 = r + 1
    BY <1>1, <1>3
  <2>3. QED
    BY <2>1, <2>2 DEF r
<1>4. QED
  BY <1>1, <1>2, <1>3

\* Of numbers less than n apart no two have the same remainder.
LEMMA RemainderNames ==
    ASSUME NEW n \in Nat \ {0}, NEW s \in Nat, NEW a \in 1 .. s, NEW b \in 1 .. s,
           s - a < n, s - b < n, a % n = b % n
    PROVE  a = b
<1> DEFINE d == (b \div n) - (a \div n)
<1>1. a = n * (a \div n) + (a % n) /\ b = n * (b \div n) + (b % n)
  OBVIOUS
<1>2. n * d = b - a /\ d \in Int
  BY <1>1
<1> HIDE DEF d
<1>3. CASE d <= -1
  <2>1. n * d <= -n
    BY <1>2, <1>3
  <2>2. QED
    BY <1>2, <2>1
<1>4. CASE d >= 1
  <2>1. n * d >= n
    BY <1>2, <1>4
  <2>2. QED
    BY <1>2, <2>1
<1>5. CASE d = 0
  BY <1>2, <1>5
<1>6. QED
  BY <1>2, <1>3, <1>4, <1>5

\* A step of one pinger that sends nothing and does not begin to wait.
LEMMA OneMoves ==
    ASSUME IcmpInv, NEW p \in Pingers, NEW c \in PingState, CycleOK(p, c, sentCount), c.at # "wait",
           pings' = [pings EXCEPT ![p] = c], UNCHANGED <<ident, wire, sentCount>>
    PROVE  IcmpInv'
<1>1. pings' \in [Pingers -> PingState] /\ \A q \in Pingers : pings'[q] = IF q = p THEN c ELSE pings[q]
  BY DEF IcmpInv
<1>2. QED
  BY <1>1 DEF IcmpInv

\* What EXCEPT leaves of the record.
LEMMA ResultOf ==
    ASSUME NEW c \in PingState, NEW status \in Statuses, NEW reason \in Reasons
    PROVE  /\ Result(c, status, reason) \in PingState
           /\ Result(c, status, reason).at = "stopped" /\ Result(c, status, reason).status = status
           /\ Result(c, status, reason).heard = c.heard /\ Result(c, status, reason).received = c.received
           /\ Result(c, status, reason).first = c.first
BY DEF Result, PingState

\* A counted answer's echo is a number.
LEMMA HeardTypes ==
    ASSUME NEW c \in PingState
    PROVE  \A k \in DOMAIN c.heard : c.heard[k].echo \in Nat
<1>1. c.heard \in Seq([to : Pingers, echo : Nat])
  BY DEF PingState
<1>2. \A S : \A h \in Seq(S) : \A k \in DOMAIN h : h[k] \in S
  OBVIOUS
<1>3. \A k \in DOMAIN c.heard : c.heard[k] \in [to : Pingers, echo : Nat]
  BY <1>1, <1>2, Zenon
<1>4. QED
  BY <1>3

\* The inductive invariant of the ping cycles: an identifier that is waited for, or is on
\* its way back, is that of one echo only, so what was heard is the cycle's own.
THEOREM IcmpSafe == IcmpSpec => []IcmpInv
<1> USE IcmpAssumption
<1>0. /\ Cycle(0) \in PingState /\ \A n \in Nat : Cycle(n + 1) \in PingState
      /\ \A n \in Nat : /\ Cycle(n).at = "next" /\ Cycle(n).heard = <<>> /\ Cycle(n).first = n
                         /\ Cycle(n).received = 0
  BY DEF Cycle, PingState, Statuses, Reasons
<1>a. {"none", "up", "down"} \subseteq Statuses
      /\ {"none", "", "partial_loss", "dns_error", "privilege_error", "error", "no_reply"} \subseteq Reasons
  BY DEF Statuses, Reasons
<1>1. IcmpInit => IcmpInv
  <2> SUFFICES ASSUME IcmpInit PROVE IcmpInv
    OBVIOUS
  <2> DEFINE c == Result(Cycle(0), "none", "none")
  <2>1. c \in PingState /\ c.at = "stopped" /\ c.heard = <<>> /\ c.received = 0 /\ c.status = "none"
    <3>1. Cycle(0) \in PingState /\ "none" \in Statuses /\ "none" \in Reasons
      BY <1>0, <1>a
    <3>2. /\ c \in PingState /\ c.at = "stopped" /\ c.status = "none"
          /\ c.heard = Cycle(0).heard /\ c.received = Cycle(0).received
      BY ONLY <3>1, ResultOf, ZenonT(60)
    <3>3. QED
      BY <1>0, <3>2
  <2> HIDE DEF c
  <2>2. \A p \in Pingers : pings[p] = c /\ CycleOK(p, c, sentCount)
    <3>1. \A p \in Pingers : pings[p] = c
      BY DEF IcmpInit, c
    <3>2. \A p \in Pingers : CycleOK(p, c, sentCount)
      BY <2>1 DEF CycleOK
    <3>3. QED
      BY <3>1, <3>2
  <2>3. pings \in [Pingers -> PingState]
    BY <2>1 DEF IcmpInit, c
  <2>4. QED
    BY <2>2, <2>3 DEF IcmpInit, IcmpInv
<1>2. IcmpInv /\ [IcmpNext]_icmpVars => IcmpInv'
  <2> SUFFICES ASSUME IcmpInv, [IcmpNext]_icmpVars PROVE IcmpInv'
    OBVIOUS
  <2>0. /\ sentCount \in Nat
        /\ \A p \in Pingers : pings[p] \in PingState /\ CycleOK(p, pings[p], sentCount)
    BY DEF IcmpInv
  <2>1. ASSUME NEW p \in Pingers, BeginCycle(p) PROVE IcmpInv'
    <3>1. CycleOK(p, Cycle(sentCount + 1), sentCount)
      BY <1>0, <2>0 DEF CycleOK
    <3>2. QED
      <4>1. Cycle(sentCount + 1) \in PingState /\ Cycle(sentCount + 1).at # "wait"
        BY <1>0, <2>0
      <4>2. QED
        BY <2>1, <3>1, <4>1, OneMoves DEF BeginCycle
  <2>2. ASSUME NEW p \in Pingers, NoAddress(p) \/ NoPrivilege(p) PROVE IcmpInv'
    <3>1. ASSUME NEW reason \in Reasons, pings' = [pings EXCEPT ![p] = Result(Cycle(0), "down", reason)],
                 UNCHANGED <<ident, wire, sentCount>>
          PROVE  IcmpInv'
      <4> DEFINE c == Result(Cycle(0), "down", reason)
      <4>1. c \in PingState /\ c.at = "stopped" /\ c.heard = <<>> /\ c.received = 0 /\ c.status = "down"
        <5>1. Cycle(0) \in PingState /\ "down" \in Statuses /\ reason \in Reasons
          BY <1>0, <1>a
        <5>2. /\ c \in PingState /\ c.at = "stopped" /\ c.status = "down"
              /\ c.heard = Cycle(0).heard /\ c.received = Cycle(0).received
          BY ONLY <5>1, ResultOf, ZenonT(60)
        <5>3. QED
          BY <1>0, <5>2
      <4> HIDE DEF c
      <4>2. CycleOK(p, c, sentCount)
        BY <4>1 DEF CycleOK
      <4>3. pings' = [pings EXCEPT ![p] = c]
        BY <3>1 DEF c
      <4>4. QED
        BY <3>1, <4>1, <4>2, <4>3, OneMoves
    <3>2. QED
      BY <2>2, <3>1 DEF NoAddress, NoPrivilege, Reasons
  <2>3. ASSUME NEW p \in Pingers, SendEcho(p) PROVE IcmpInv'
    <3> USE <2>3 DEF SendEcho
    <3> DEFINE n == sentCount + 1
               c == Waiting(pings[p])
               older == {a \in wire : Recent(a.echo)}
               answer == [ident |-> ident, to |-> p, echo |-> n]
    <3>1. ident = n % Idents /\ ident \in Nat /\ n \in Nat
      BY DEF IcmpInv
    <3>2. ident' = (n + 1) % Idents /\ sentCount' = n
      BY <3>1, NextRemainder DEF NextIdent
    <3>3. pings' = [pings EXCEPT ![p] = c]
      OBVIOUS
    <3>4. /\ c.at = "wait" /\ c.ident = ident /\ c.echo = n /\ c.first = pings[p].first
          /\ c.heard = pings[p].heard /\ c.received = pings[p].received
          /\ c \in PingState
      <4>1. pings[p].tried + 1 \in Nat
        BY <2>0 DEF PingState
      <4>2. QED
        BY <2>0, <3>1, <4>1 DEF PingState, Waiting
    <3>5. wire' \in {older, older \cup {answer}} /\ older \subseteq wire
      OBVIOUS
    <3> HIDE DEF c
    <3>6. pings' \in [Pingers -> PingState] /\ \A q \in Pingers : pings'[q] = IF q = p THEN c ELSE pings[q]
      BY <3>3, <3>4 DEF IcmpInv
    <3>7. Fresh(n, n)
      <4>1. n \in 1 .. n /\ n - n < Idents
        BY <2>0
      <4>2. QED
        BY <4>1 DEF Fresh
    <3>8. \A echo : Fresh(echo, sentCount) /\ Recent(echo) => Fresh(echo, n) /\ echo # n
      BY <2>0 DEF Fresh, Recent
    <3>9. \A k \in DOMAIN pings[p].heard : pings[p].heard[k].echo < n /\ pings[p].heard[k].echo <= n
      BY <2>0, HeardTypes DEF CycleOK
    <3>10. CycleOK(p, c, n)
      <4>1. c.first <= n
        BY <2>0, <3>4 DEF CycleOK
      <4> HIDE DEF n
      <4>2. QED
        BY <2>0, <3>1, <3>4, <3>7, <3>9, <4>1 DEF CycleOK
    <3>11. ASSUME NEW q \in Pingers, q # p PROVE CycleOK(q, pings[q], n)
      <4>1. pings[q].first \in Nat /\ \A k \in DOMAIN pings[q].heard : pings[q].heard[k].echo \in Nat
        BY <2>0, HeardTypes DEF PingState
      <4>2. pings[q].at = "wait" => Fresh(pings[q].echo, n)
        BY <2>0, <3>8 DEF CycleOK
      <4>3. QED
        BY <2>0, <3>1, <4>1, <4>2 DEF CycleOK
    <3>12. wire' \subseteq Answer
      BY <3>1, <3>5 DEF IcmpInv, Answer
    <3>13. ASSUME NEW a \in wire'
           PROVE  /\ Fresh(a.echo, n) /\ a.ident = a.echo % Idents
                  /\ \A q \in Pingers : pings'[q].at = "wait" /\ pings'[q].echo = a.echo => a.to = q
      <4>1. CASE a \in older
        <5>1. a \in wire /\ Fresh(a.echo, n) /\ a.echo # n
          BY <3>8, <4>1 DEF IcmpInv
        <5>2. QED
          BY <3>4, <3>6, <5>1 DEF IcmpInv
      <4>2. CASE a = answer
        <5>1. a.ident = ident /\ a.to = p /\ a.echo = n
          BY <4>2
        <5>2. \A q \in Pingers : q # p /\ pings[q].at = "wait" => pings[q].echo # n
          BY <2>0, <3>8 DEF CycleOK
        <5>3. QED
          BY <3>1, <3>6, <3>7, <5>1, <5>2
      <4>3. QED
        BY <3>5, <4>1, <4>2
    <3>14. QED
      BY <3>1, <3>2, <3>6, <3>10, <3>11, <3>12, <3>13 DEF IcmpInv
  <2>4. ASSUME NEW p \in Pingers, NoReply(p) \/ OtherError(p) PROVE IcmpInv'
    <3>1. ASSUME NEW e \in Nat, pings[p].at = "wait",
                 pings' = [pings EXCEPT ![p] = [pings[p] EXCEPT !.at = "next", !.errors = e]],
                 UNCHANGED <<ident, wire, sentCount>>
          PROVE  IcmpInv'
      <4> DEFINE c == [pings[p] EXCEPT !.at = "next", !.errors = e]
      <4>1. /\ c \in PingState /\ c.at = "next" /\ c.first = pings[p].first
            /\ c.heard = pings[p].heard /\ c.received = pings[p].received
        BY <2>0 DEF PingState
      <4> HIDE DEF c
      <4>2. c.first <= sentCount + 1
        <5>1. pings[p].first \in Nat /\ pings[p].first <= pings[p].echo /\ pings[p].echo \in 1 .. sentCount
          BY <2>0, <3>1 DEF CycleOK, Fresh, PingState
        <5>2. QED
          BY <2>0, <4>1, <5>1
      <4>3. CycleOK(p, c, sentCount)
        BY <2>0, <4>1, <4>2 DEF CycleOK
      <4>4. pings' = [pings EXCEPT ![p] = c]
        BY <3>1 DEF c
      <4>5. QED
        BY <3>1, <4>1, <4>3, <4>4, OneMoves
    <3>2. pings[p].errors \in Nat /\ pings[p].errors + 1 \in Nat
      BY <2>0 DEF PingState
    <3>3. [pings[p] EXCEPT !.at = "next"] = [pings[p] EXCEPT !.at = "next", !.errors = pings[p].errors]
      BY <2>0 DEF PingState
    <3>4. QED
      BY <2>4, <3>1, <3>2, <3>3 DEF NoReply, OtherError
  <2>5. ASSUME NEW p \in Pingers, EndCycle(p) PROVE IcmpInv'
    <3>1. PICK status \in Statuses, reason \in Reasons :
            /\ Decide(pings[p]) = Result(pings[p], status, reason)
            /\ status = "up" <=> pings[p].received > 0
      <4>1. pings[p].received \in Nat
        BY <2>0 DEF PingState
      <4>2. CASE pings[p].received = Count
        <5>1. Decide(pings[p]) = Result(pings[p], "up", "") /\ pings[p].received > 0
          BY <4>2 DEF Decide
        <5>2. QED
          BY <1>a, <5>1
      <4>3. CASE pings[p].received # Count /\ pings[p].received > 0
        <5>1. Decide(pings[p]) = Result(pings[p], "up", "partial_loss")
          BY <4>3 DEF Decide
        <5>2. QED
          BY <1>a, <4>3, <5>1
      <4>4. CASE pings[p].received # Count /\ ~(pings[p].received > 0)
        <5>1. Decide(pings[p]) = Result(pings[p], "down", IF pings[p].errors = Count THEN "error" ELSE "no_reply")
          BY <4>4 DEF Decide
        <5>2. QED
          BY <1>a, <4>4, <5>1
      <4>5. QED
        BY <4>2, <4>3, <4>4
    <3> DEFINE c == Result(pings[p], status, reason)
    <3>2. /\ c \in PingState /\ c.at = "stopped" /\ c.heard = pings[p].heard
          /\ c.received = pings[p].received /\ c.status = status /\ c.first = pings[p].first
      BY <2>0, ResultOf
    <3> HIDE DEF c
    <3>3. pings[p].received > 0 <=> pings[p].heard # <<>>
      <4>1. pings[p].heard \in Seq([to : Pingers, echo : Nat])
        BY <2>0 DEF PingState
      <4>2. QED
        BY <2>0, <4>1, EmptySeq DEF CycleOK
    <3>4. CycleOK(p, c, sentCount)
      BY <2>0, <3>1, <3>2, <3>3 DEF CycleOK
    <3>5. QED
      BY <2>5, <3>1, <3>2, <3>4, OneMoves DEF EndCycle, c
  <2>6. ASSUME NEW answer \in wire, Deliver(answer) PROVE IcmpInv'
    <3> USE <2>6 DEF Deliver
    <3> DEFINE for(p) == pings[p].at = "wait" /\ pings[p].ident = answer.ident
               new == [to |-> answer.to, echo |-> answer.echo]
               c(p) == Counted(pings[p], answer)
    <3>1. /\ answer \in Answer /\ Fresh(answer.echo, sentCount) /\ answer.ident = answer.echo % Idents
          /\ \A p \in Pingers : pings[p].at = "wait" /\ pings[p].echo = answer.echo => answer.to = p
      BY DEF IcmpInv
    <3>2. new \in [to : Pingers, echo : Nat] /\ new.to = answer.to /\ new.echo = answer.echo
      BY <3>1 DEF Answer
    <3>3. ASSUME NEW p \in Pingers, for(p) PROVE pings[p].echo = answer.echo /\ answer.to = p
      <4>1. /\ pings[p].echo \in 1 .. sentCount /\ sentCount - pings[p].echo < Idents
            /\ pings[p].echo % Idents = pings[p].ident
        BY <2>0, <3>3 DEF CycleOK, Fresh
      <4>2. /\ answer.echo \in 1 .. sentCount /\ sentCount - answer.echo < Idents
            /\ answer.echo % Idents = pings[p].ident
        BY <3>1, <3>3 DEF Fresh
      <4>3. pings[p].echo = answer.echo
        BY <2>0, <4>1, <4>2, RemainderNames
      <4>4. QED
        BY <3>1, <3>3, <4>3
    <3>4. ASSUME NEW p \in Pingers, for(p)
          PROVE  c(p) \in PingState /\ c(p).at = "next" /\ CycleOK(p, c(p), sentCount)
      <4> DEFINE h == pings[p].heard
                 g == Append(h, new)
      <4>1. /\ h \in Seq([to : Pingers, echo : Nat]) /\ pings[p].received \in Nat
            /\ pings[p].first \in Nat /\ pings[p].echo \in Nat
        BY <2>0 DEF PingState
      <4>2. /\ g \in Seq([to : Pingers, echo : Nat]) /\ Len(g) = Len(h) + 1
            /\ DOMAIN g = 1 .. Len(h) + 1 /\ DOMAIN h = 1 .. Len(h) /\ Len(h) \in Nat
            /\ g[Len(h) + 1] = new /\ \A k \in 1 .. Len(h) : g[k] = h[k]
        <5>1. \A T : \A s \in Seq(T), x \in T :
                /\ Append(s, x) \in Seq(T) /\ Len(Append(s, x)) = Len(s) + 1 /\ Len(s) \in Nat
                /\ DOMAIN Append(s, x) = 1 .. Len(s) + 1 /\ DOMAIN s = 1 .. Len(s)
                /\ Append(s, x)[Len(s) + 1] = x /\ \A k \in 1 .. Len(s) : Append(s, x)[k] = s[k]
          OBVIOUS
        <5> HIDE DEF new, h
        <5>2. QED
          BY <3>2, <4>1, <5>1
      <4>3. /\ c(p) \in PingState /\ c(p).at = "next" /\ c(p).first = pings[p].first
            /\ c(p).heard = g /\ c(p).received = pings[p].received + 1
        <5>1. c(p) = [pings[p] EXCEPT !.at = "next", !.received = pings[p].received + 1, !.heard = g]
          BY DEF g, Counted
        <5>2. pings[p].received + 1 \in Nat
          BY <4>1
        <5> HIDE DEF g
        <5> HIDE DEF c
        <5>3. pings[p] \in PingState
          BY <2>0
        <5> DEFINE r == pings[p].received + 1
                   q == pings[p]
        <5> HIDE DEF r, q
        <5>4. q \in PingState /\ r \in Nat /\ g \in Seq([to : Pingers, echo : Nat])
              /\ c(p) = [q EXCEPT !.at = "next", !.received = r, !.heard = g]
          BY <4>2, <5>1, <5>2, <5>3 DEF q, r
        <5>5. c(p) \in PingState /\ c(p).at = "next" /\ c(p).first = q.first /\ c(p).heard = g /\ c(p).received = r
          BY <5>4 DEF PingState
        <5>6. QED
          BY <5>5 DEF q, r
      <4>4. /\ Len(h) = pings[p].received /\ pings[p].first <= sentCount /\ pings[p].first <= answer.echo
            /\ answer.echo <= sentCount
            /\ \A k \in DOMAIN h :
                /\ h[k].to = p /\ pings[p].first <= h[k].echo /\ h[k].echo <= sentCount
                /\ h[k].echo < answer.echo
                /\ \A j \in DOMAIN h : j # k => h[j] # h[k]
        BY <2>0, <3>1, <3>3, <3>4, <4>1 DEF CycleOK, Fresh
      <4>5. \A k \in DOMAIN h : h[k].echo \in Nat
        BY HeardTypes, <2>0
      <4> HIDE DEF c, g, h, new
      <4>6. \A k \in DOMAIN g :
              /\ g[k].to = p /\ pings[p].first <= g[k].echo /\ g[k].echo <= sentCount
              /\ \A j \in DOMAIN g : j # k => g[j] # g[k]
        <5>1. answer.echo \in Nat /\ answer.to = p
          BY <3>1, <3>3, <3>4 DEF Answer
        <5>2. \A k \in DOMAIN h : h[k] # new
          BY <3>2, <4>4, <4>5, <5>1
        <5>3. \A k \in DOMAIN g : k \in DOMAIN h \/ k = Len(h) + 1
          BY <4>2
        <5>4. \A k \in DOMAIN g :
                g[k].to = p /\ pings[p].first <= g[k].echo /\ g[k].echo <= sentCount
          BY <3>2, <4>2, <4>4, <5>1, <5>3
        <5>5. \A k, j \in DOMAIN g : j # k => g[j] # g[k]
          BY <4>2, <4>4, <5>2, <5>3
        <5>6. QED
          BY <5>4, <5>5
      <4>7. QED
        BY <2>0, <4>1, <4>2, <4>3, <4>4, <4>6 DEF CycleOK
    <3>5. \A p \in Pingers : pings'[p] = IF for(p) THEN c(p) ELSE pings[p]
      OBVIOUS
    <3>6. pings' = [p \in Pingers |-> pings'[p]]
      OBVIOUS
    <3> HIDE DEF c
    <3>7. pings' \in [Pingers -> PingState]
      BY <2>0, <3>4, <3>5, <3>6
    <3>8. \A p \in Pingers : CycleOK(p, pings'[p], sentCount) /\ (pings'[p].at = "wait" => pings'[p] = pings[p])
      BY <2>0, <3>4, <3>5
    <3>9. QED
      BY <3>7, <3>8 DEF IcmpInv
  <2>7. CASE UNCHANGED icmpVars
    BY <2>7 DEF IcmpInv, icmpVars
  <2>8. QED
    BY <2>1, <2>2, <2>3, <2>4, <2>5, <2>6, <2>7 DEF IcmpNext
<1>3. QED
  BY <1>1, <1>2, PTL DEF IcmpSpec

\* A cycle counts answers to its own echoes only, each once, although identifiers wrap
\* and answers of earlier cycles come late.
THEOREM TalliesOwn == IcmpSpec => []TallyOwn
<1>1. IcmpInv => TallyOwn
  <2> SUFFICES ASSUME IcmpInv, NEW p \in Pingers, CycleOK(p, pings[p], sentCount)
               PROVE  /\ Len(pings[p].heard) = pings[p].received
                      /\ \A k \in DOMAIN pings[p].heard :
                           /\ pings[p].heard[k].to = p
                           /\ pings[p].heard[k].echo >= pings[p].first
                           /\ \A j \in DOMAIN pings[p].heard : j # k => pings[p].heard[j] # pings[p].heard[k]
                      /\ pings[p].at = "stopped" => (pings[p].status = "up" <=> pings[p].heard # <<>>)
    BY DEF IcmpInv, TallyOwn
  <2>1. \A k \in DOMAIN pings[p].heard : pings[p].heard[k].echo \in Nat /\ pings[p].first \in Nat
    BY HeardTypes DEF IcmpInv, PingState
  <2>2. QED
    BY <2>1 DEF CycleOK
<1>2. QED
  BY <1>1, IcmpSafe, PTL
-----------------------------------------------------------------------------
(* All parts of the run together *)

\* A behaviour of MCProbes is one of each of its parts, so what is proved of a part
\* holds of the whole.
THEOREM PartsOfProbes ==
    ProbesSpec => Spec /\ WalkSpec /\ TraceSpec /\ BorderSpec /\ PublicIpSpec /\ IcmpSpec
<1>1. ProbesInit => Init /\ WalkInit /\ TraceInit /\ BorderInit /\ PublicIpInit /\ IcmpInit
  BY DEF ProbesInit
<1>2. [ProbesNext]_probeVars =>
        /\ [Next]_schedVars /\ [WalkNext]_walkVars /\ [TraceNext]_traceVars /\ [BorderNext]_borderVars
        /\ [PublicIpNext]_ipVars /\ [IcmpNext]_icmpVars
  BY Zenon DEF ProbesNext, Keep, probeVars
<1>3. QED
  BY <1>1, <1>2, PTL DEF ProbesSpec, Spec, WalkSpec, TraceSpec, BorderSpec, PublicIpSpec, IcmpSpec

\* The scheduler's and every probe's variables keep their types when they run together.
THEOREM ProbesTypes == ProbesSpec => []ProbesTypeOK
<1>1. WalkInv /\ TraceInv /\ BorderTypeOK => ProbesTypeOK
  BY DEF WalkInv, TraceInv, ProbesTypeOK
<1>2. QED
  BY <1>1, PartsOfProbes, WalkSafe, StoreSafe, BorderTypes, PTL
=============================================================================
