-------------------------------- MODULE EditForm --------------------------------
(***************************************************************************)
(* The dashboard's edit form (src/assets/app.js): it is filled from the    *)
(* stored configuration, shows part of it, and a save replaces the whole   *)
(* (src/src/api/mod.rs, update_monitor), while other clients change it.    *)
(*                                                                         *)
(* Of a configuration only what the form does not show is kept: the hidden *)
(* fields (headers, body, count, isp_gateway) as one value, and whether    *)
(* the monitor is enabled. The protocol cannot be changed in an edit.      *)
(***************************************************************************)
EXTENDS Integers

CONSTANTS
    Edited,         \* ids of the monitors
    Hidden,         \* values of the fields the form does not show
    MaxChanges,     \* bound: changes of the stored configurations
    MaxFetches      \* bound: clicks on "edit"

ASSUME EditFormAssumption == MaxChanges \in Nat /\ MaxFetches \in Nat

NoForm == [id |-> 0]

ASSUME EditedAssumption == Edited \subseteq Nat \ {0}

VARIABLES
    settings,   \* per id: the stored hidden fields and enabled, and since which change
    fetches,    \* reads of /api/monitors/config under way: the clicked id, and what was read
    form,       \* editingId with editingOriginal; no id: closed, or adding a monitor
    save,       \* the save under way ("submitting")
    changes,    \* changes so far
    clicks      \* clicks on "edit" so far

editVars == <<settings, fetches, form, save, changes, clicks>>

NoSave == [id |-> 0]

EditInit ==
    /\ settings \in [Edited -> [hidden : Hidden, enabled : BOOLEAN, since : {0}]]
    /\ fetches = {}
    /\ form = NoForm
    /\ save = NoSave
    /\ changes = 0 /\ clicks = 0

Change(i, hidden, enabled) ==
    /\ changes < MaxChanges
    /\ changes' = changes + 1
    /\ settings' = [settings EXCEPT ![i] =
                       [hidden |-> hidden, enabled |-> enabled, since |-> changes + 1]]

\* A toggle, or an edit in another tab or by the API.
ChangeElsewhere(i, hidden, enabled) ==
    /\ Change(i, hidden, enabled)
    /\ UNCHANGED <<fetches, form, save, clicks>>

\* openEdit, up to its await.
OpenEdit(i) ==
    /\ clicks < MaxFetches
    /\ clicks' = clicks + 1
    /\ fetches' = fetches \cup {[click |-> clicks, id |-> i, read |-> FALSE]}
    /\ UNCHANGED <<settings, form, save, changes>>

ReadConfigs(f) ==
    /\ ~f.read
    /\ fetches' = (fetches \ {f}) \cup
        {[click |-> f.click, id |-> f.id, read |-> TRUE, configs |-> settings]}
    /\ UNCHANGED <<settings, form, save, changes, clicks>>

\* Mutation: the id is taken from the newest click, its configuration from the answer.
FilledForLastClick(f) ==
    [id |-> (CHOOSE g \in fetches : \A h \in fetches : h.click <= g.click).id,
     original |-> f.configs[f.id]]

Filled(f) == [id |-> f.id, original |-> f.configs[f.id]]

\* The rest of openEdit, whatever is open by then.
FillForm(f) ==
    /\ f.read
    /\ form' = Filled(f)
    /\ fetches' = fetches \ {f}
    /\ UNCHANGED <<settings, save, changes, clicks>>

FetchFails(f) ==
    /\ fetches' = fetches \ {f}
    /\ UNCHANGED <<settings, form, save, changes, clicks>>

\* closeModal, by the user; openAdd leaves the same.
CloseForm ==
    /\ form' = NoForm
    /\ UNCHANGED <<settings, fetches, save, changes, clicks>>

\* What a save sends besides the fields shown. Without "enabled" the server takes
\* the monitor for enabled.
Body(original) == [hidden |-> original.hidden, enabled |-> original.enabled # FALSE]

Submit ==
    /\ save = NoSave
    /\ form # NoForm
    /\ save' = [id |-> form.id, body |-> Body(form.original), since |-> form.original.since,
                at |-> "sent"]
    /\ UNCHANGED <<settings, fetches, form, changes, clicks>>

\* update_monitor replaces the configuration.
Put ==
    /\ save # NoSave /\ save.at = "sent"
    /\ Change(save.id, save.body.hidden, save.body.enabled)
    /\ save' = [save EXCEPT !.at = "ok"]
    /\ UNCHANGED <<fetches, form, clicks>>

\* Saved: the form that is open by then is closed.
SaveDone ==
    /\ save # NoSave /\ save.at = "ok"
    /\ save' = NoSave /\ form' = NoForm
    /\ UNCHANGED <<settings, fetches, changes, clicks>>

\* Refused, or the request or its answer is lost: the form stays, to be tried again.
SaveRefused ==
    /\ save # NoSave
    /\ save' = NoSave
    /\ UNCHANGED <<settings, fetches, form, changes, clicks>>

EditNext ==
    \/ \E i \in Edited, hidden \in Hidden, enabled \in BOOLEAN : ChangeElsewhere(i, hidden, enabled)
    \/ \E i \in Edited : OpenEdit(i)
    \/ \E f \in fetches : ReadConfigs(f) \/ FillForm(f) \/ FetchFails(f)
    \/ CloseForm \/ Submit \/ Put \/ SaveDone \/ SaveRefused

EditSpec == EditInit /\ [][EditNext]_editVars
-----------------------------------------------------------------------------
(* Properties *)

EditTypeOK ==
    /\ settings \in [Edited -> [hidden : Hidden, enabled : BOOLEAN, since : 0 .. MaxChanges]]
    /\ form = NoForm \/ form.id \in Edited
    /\ save = NoSave \/ save.id \in Edited

\* "Carry over fields the form doesn't expose so an edit never silently drops them,
\* and keep a paused monitor paused": a save of a form that was filled from what is
\* still stored changes none of them, whichever forms were opened, closed and filled
\* late meanwhile, and however often the save was tried. (A monitor that is paused
\* after its form was filled is resumed by the save.)
EditKeeps ==
    [][\A i \in Edited :
        Put /\ save.id = i /\ save.since = settings[i].since =>
            /\ settings'[i].hidden = settings[i].hidden
            /\ settings'[i].enabled = settings[i].enabled]_editVars
=============================================================================
