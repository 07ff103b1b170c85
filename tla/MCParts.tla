-------------------------------- MODULE MCParts --------------------------------
(***************************************************************************)
(* Parts that share no state with each other, checked in one run: a        *)
(* behaviour is one of one part, with the others in an initial state.      *)
(***************************************************************************)
EXTENDS Startup, Dashboard, EditForm, History, Settings

CONSTANTS h1, h2

VARIABLE part

\* A good result, one that blames the ISP, and one without a detail.
ProbeOutcomes ==
    {[up |-> TRUE, token |-> "ok", hops |-> [h \in Hops |-> TRUE]],
     [up |-> FALSE, token |-> "isp", hops |-> [h \in Hops \ {"isp"} |-> h = "local"]],
     [up |-> FALSE, token |-> NoToken, hops |-> <<>>]}

Blank(kind) ==
    [key \in {"kind", "intervalMs", "intervalSecs", "timeoutMs", "timeoutSecs", "hours",
              "oldMs", "oldSecs", "tries", "enabled"} |-> IF key = "kind" THEN kind ELSE Absent]

\* Both units, zeros, values below the floor, words that saturate, the retention keys
\* of a traceroute, and retentions beyond what chrono or a signed word can hold.
GivenSettings ==
    {[Blank(kind) EXCEPT !.intervalMs = i, !.intervalSecs = s, !.timeoutMs = t] :
        kind \in {"plain", "traceroute"}, i \in {Absent, 1, 5}, s \in {Absent, 20}, t \in {Absent, 0}}
    \cup {[Blank("traceroute") EXCEPT !.hours = h, !.oldMs = o, !.oldSecs = s] :
        h \in {Absent, 0, 2}, o \in {Absent, 0, 7}, s \in {Absent, 4}}
    \cup {[Blank("icmp") EXCEPT !.tries = t, !.enabled = e, !.hours = h] :
        t \in {0, 4}, e \in BOOLEAN, h \in {Absent, 14, 28}}

\* No defaults, ones below the floor in both units, and an interval that saturates.
ConfiguredDefaults ==
    {[intervalMs |-> i, intervalSecs |-> s, timeoutMs |-> Absent, timeoutSecs |-> t] :
        i \in {Absent, 1}, s \in {Absent, 20}, t \in {Absent, 0}}

vars == <<part, startupVars, dashVars, editVars, historyVars, settingsVars>>

\* Of the initial states of the parts that do not move, one is enough; of those of
\* the edit form, that of two monitors with different settings.
Init ==
    /\ part \in {"startup", "dashboard", "edit", "history", "settings"}
    /\ StartupInit /\ DashInit /\ EditInit /\ HistoryInit /\ SettingsInit
    /\ part # "startup" => config = "plain" /\ tomlFile = NoFile /\ untagged = {}
    /\ part # "dashboard" => mode = [i \in CardIds |-> "new"] /\ cards = Current
    /\ settings[1].hidden = h1 /\ settings[2].hidden = h2 /\ ~settings[2].enabled
    /\ part # "edit" => settings[1].enabled
    /\ part # "settings" => days = CHOOSE d \in RetentionDays : TRUE

Keep(moving) ==
    /\ UNCHANGED part
    /\ moving # "startup" => UNCHANGED startupVars
    /\ moving # "dashboard" => UNCHANGED dashVars
    /\ moving # "edit" => UNCHANGED editVars
    /\ moving # "history" => UNCHANGED historyVars
    /\ moving # "settings" => UNCHANGED settingsVars

Next ==
    \/ part = "startup" /\ StartupNext /\ Keep("startup")
    \/ part = "dashboard" /\ DashNext /\ Keep("dashboard")
    \/ part = "edit" /\ EditNext /\ Keep("edit")
    \/ part = "history" /\ HistoryNext /\ Keep("history")
    \/ part = "settings" /\ SettingsNext /\ Keep("settings")

Spec == Init /\ [][Next]_vars

\* DashFairness, with the other parts at rest.
PageFairness ==
    /\ WF_vars(part = "dashboard" /\ (\E r \in probes : StoreResult(r) \/ Broadcast(r)) /\ Keep("dashboard"))
    /\ WF_vars(part = "dashboard" /\ OnUpdate /\ Keep("dashboard"))
    /\ WF_vars(part = "dashboard" /\ PollStarts /\ Keep("dashboard"))
    /\ \A k \in 1 .. MaxPolls :
        WF_vars(part = "dashboard" /\ (PollReads(k) \/ PollEnds(k)) /\ Keep("dashboard"))
    /\ WF_vars(part = "dashboard" /\ (\E q \in requests : Handle(q) \/ RequestDone(q)) /\ Keep("dashboard"))

\* The program runs on, and is started again when it has ended.
FairSpec ==
    /\ Spec
    /\ WF_vars(part = "startup" /\ StartupStep /\ Keep("startup"))
    /\ PageFairness

\* Every part's variables have their types.
PartsTypeOK == StartupTypeOK /\ DashTypeOK /\ EditTypeOK

\* ServesInTheEnd of Startup, for the behaviours that are the program's start.
StartServesInTheEnd == part = "startup" => ServesInTheEnd

\* PageCatchesUp of Dashboard, for the behaviours that are the live view's.
PageCatchesUpInTheEnd == part = "dashboard" => PageCatchesUp
=============================================================================
