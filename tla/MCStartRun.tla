----------------------------- MODULE MCStartRun -----------------------------
(* Either the dialog with two playbooks that nobody else changes, or one    *)
(* playbook without the dialog: two runs of it are made while it is saved   *)
(* or a field edited, or one run while it is edited more often.             *)
EXTENDS StartRun, TLC

CONSTANTS pbA, pbB, fieldA, fieldB, nameA, nameB, chan, editor, r1, r2, MaxSaves, MaxEdits, MaxEntries, MaxRetryEntries

VARIABLES watched, \* "dialog", "retries" (a dialog with two submissions), "runs" or "edits"
          changes  \* the saves and field edits of a playbook, or the entries in the dialog, so far

NewRow(mode, channel, newChannelOnly, named, made) ==
  [made |-> made, archived |-> FALSE, newChannelOnly |-> newChannelOnly,
   template |-> named, next |-> 1, channelMode |-> mode, channel |-> channel]

FieldNamed(id, name) == {[id |-> id, name |-> name]}

MCInit ==
  /\ \/ /\ watched = "dialog"
        /\ playbooks = (pbA :> NewRow("link", chan, FALSE, {nameA, SEQ}, TRUE)
                          @@ pbB :> NewRow("create", None, TRUE, {}, FALSE))
        /\ fields = (pbA :> FieldNamed(fieldA, nameA) @@ pbB :> FieldNamed(fieldB, nameB))
     \/ /\ watched = "retries"
        /\ playbooks = (pbA :> NewRow("create", None, FALSE, {}, TRUE)
                          @@ pbB :> NewRow("link", chan, FALSE, {nameB}, TRUE))
        /\ fields = (pbA :> {} @@ pbB :> FieldNamed(fieldB, nameB))
     \/ /\ watched \in {"runs", "edits"}
        /\ \E named \in IF watched = "runs" THEN {{SEQ}} ELSE {{SEQ}, {nameA, SEQ}, {nameB, SEQ}} :
             playbooks = (pbA :> NewRow("link", chan, FALSE, named, TRUE)
                            @@ pbB :> NewRow("create", None, TRUE, {}, FALSE))
        /\ fields = (pbA :> FieldNamed(fieldA, nameA) @@ pbB :> {})
  /\ Init
  /\ changes = 0
  /\ dialog.selected = IF watched = "retries" THEN pbA ELSE None

\* The dialog does not see how far the server is: it moves between its requests.
Busy == \E r \in Requests : creations[r].stage \notin {"unused", "received", "failed", "done"}

MCNext ==
  /\ watched' = watched
  /\ Next
  /\ changes' = IF \/ saving' \notin {saving, NotSaving}
                   \/ \E e \in Editors : editing[e] = NotEditing /\ editing'[e] # NotEditing
                   \/ dialog'.selected # dialog.selected
                   \/ form' # form /\ fetched' = fetched
                THEN changes + 1 ELSE changes
  /\ changes' <= CASE watched = "runs" -> MaxSaves
                   [] watched = "edits" -> MaxEdits
                   [] watched = "dialog" -> MaxEntries
                   [] watched = "retries" -> MaxRetryEntries
  /\ watched = "edits" => creations'[r2] = Idle
  /\ IF watched \in {"runs", "edits"} THEN UNCHANGED modalVars
     ELSE /\ Busy => UNCHANGED modalVars
          /\ dialog.mounted \/ submitting.requests # {}
          /\ UNCHANGED <<saving, editing>>
          /\ \A b \in Playbooks : playbooks'[b].archived = playbooks[b].archived
          /\ \A r \in Requests : creations[r] = Idle /\ creations'[r] # Idle =>
               r \in submitting'.requests /\ (r = r2 => watched = "retries" /\ creations[r1] # Idle)

MCSpec == MCInit /\ [][MCNext]_<<vars, watched, changes>>
MCFairSpec ==
  MCSpec /\ \A r \in Requests :
    /\ WF_vars((RunCreated(r) \/ SubmitFails(r)) /\ UNCHANGED <<watched, changes>>)
    /\ WF_vars(CreationStep(r) /\ UNCHANGED modalVars /\ UNCHANGED <<watched, changes>>)
=============================================================================
