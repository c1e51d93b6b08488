----------------------------- MODULE StartRun ------------------------------
(***************************************************************************)
(* The dialog that starts a run (RunPlaybookModal) over the server's       *)
(* RunCreation.  It fetches the picked playbook twice, by two hooks whose  *)
(* answers come in any order and are never cancelled; an effect sets the   *)
(* form up again whenever what was fetched changes; and the request of a   *)
(* submission may be answered after another playbook has been picked, or   *)
(* after the dialog was closed.                                            *)
(***************************************************************************)
EXTENDS RunCreation

CONSTANT CurrentChannel

ASSUME CurrentChannelAssumption == CurrentChannel \in Channels \cup {None}

VARIABLES
  dialog,    \* "step", "selected", "mounted", and "opened", the run it led to
  fetched,   \* what the two hooks hold: "playbook" and "rest"
  fetching,  \* their requests without an answer
  attributes,\* the property fields in the store, None for those not loaded
  form,      \* "name", "mode", "channel", "values"
  key,       \* initializedPlaybookIdRef: what the form was set up from
  submitting,\* "ref" and "state", and the request in flight
  template   \* the playbook being made from a template, before it is picked

modalVars == <<dialog, fetched, fetching, attributes, form, key, submitting, template>>
vars == <<serverVars, modalVars>>

Hooks == {"playbook", "rest"}
Picked == dialog.selected # None

\* An answer of GET /playbooks/{id}: the row as it is now.
Fetched(p) == [id |-> p, row |-> [playbooks[p] EXCEPT !.next = 0]]

\* playbookInitializationKey; isNewChannelOnly is of the second fetch.
NewChannelOnly(rest) == rest # None /\ rest.row.newChannelOnly
\* Mutant: the key leaves out what the second fetch says.
KeyOfPlaybook(f) ==
  IF f.playbook = None THEN None
  ELSE [id |-> f.playbook.id, template |-> f.playbook.row.template, mode |-> f.playbook.row.channelMode,
        channel |-> f.playbook.row.channel]

InitializationKey(f) ==
  IF f.playbook = None THEN None
  ELSE [id |-> f.playbook.id, template |-> f.playbook.row.template, mode |-> f.playbook.row.channelMode,
        channel |-> f.playbook.row.channel, newChannelOnly |-> NewChannelOnly(f.rest)]

IdOf(playbook) == IF playbook = None THEN None ELSE playbook.id

Blank == [name |-> "", mode |-> "", channel |-> None, values |-> {}]

FormOf(f) ==
  [name |-> IF f.playbook.row.template # {} THEN "template" ELSE "",
   mode |-> IF NewChannelOnly(f.rest) THEN "create" ELSE f.playbook.row.channelMode,
   channel |-> f.playbook.row.channel, values |-> {}]

\* The effect runs when the picked playbook, the fetched one or the key differ
\* from those of the previous rendering.
Changed(selected, f) ==
  \/ selected # dialog.selected
  \/ IdOf(f.playbook) # IdOf(fetched.playbook)
  \/ InitializationKey(f) # InitializationKey(fetched)

Loaded(selected, f) == f.playbook # None /\ f.playbook.id = selected

\* null is none of the keys.
Keys == [id : Playbooks, template : Templates, mode : {"link", "create"},
         channel : Channels \cup {None}, newChannelOnly : BOOLEAN]

ASSUME KeyAssumption == None \notin Keys

\* Mutant: the values are only cleared with the rest of the form.
InitializeLoadedForm(selected, f) ==
  /\ form' = IF ~Changed(selected, f) \/ ~Loaded(selected, f) \/ InitializationKey(f) = key
             THEN form ELSE FormOf(f)
  /\ key' = IF Changed(selected, f) /\ Loaded(selected, f) THEN InitializationKey(f) ELSE key
  /\ UNCHANGED submitting

\* Mutant: the button is enabled with the new form, while the ref still blocks it.
InitializeFormAndButton(selected, f) ==
  /\ form' = IF ~Changed(selected, f) THEN form
             ELSE IF ~Loaded(selected, f) THEN [form EXCEPT !.name = "", !.values = {}]
             ELSE IF InitializationKey(f) = key THEN [form EXCEPT !.values = {}]
             ELSE FormOf(f)
  /\ key' = IF ~Changed(selected, f) THEN key
            ELSE IF ~Loaded(selected, f) THEN None ELSE InitializationKey(f)
  /\ submitting' = IF Changed(selected, f) THEN [submitting EXCEPT !.state = FALSE] ELSE submitting

InitializeForm(selected, f) ==
  /\ form' = IF ~Changed(selected, f) THEN form
             ELSE IF ~Loaded(selected, f) THEN [form EXCEPT !.name = "", !.values = {}]
             ELSE IF InitializationKey(f) = key THEN [form EXCEPT !.values = {}]
             ELSE FormOf(f)
  /\ key' = IF ~Changed(selected, f) THEN key
            ELSE IF ~Loaded(selected, f) THEN None ELSE InitializationKey(f)
  /\ submitting' = IF Changed(selected, f) /\ ~submitting.ref
                   THEN [submitting EXCEPT !.state = FALSE] ELSE submitting

\* handleSelectPlaybook, and the hooks of which the argument has changed.
Select(p) ==
  /\ dialog' = [dialog EXCEPT !.selected = p, !.step = "details"]
  /\ fetching' = IF p = dialog.selected THEN fetching ELSE fetching \cup {<<h, p>> : h \in Hooks}
  /\ InitializeForm(p, fetched)
  /\ UNCHANGED <<fetched, attributes>>

\* PlaybookRow: archived playbooks are not listed.
SelectPlaybook(p) ==
  /\ dialog.mounted /\ dialog.step = "select" /\ p \in Made /\ ~playbooks[p].archived
  /\ Select(p)
  /\ UNCHANGED <<serverVars, template>>

\* TemplateRow.handleCreateFromTemplateAndRun: the playbook is made, and picked
\* when the answer comes, wherever the user has gone meanwhile.
CreateFromTemplate(p) ==
  /\ dialog.mounted /\ dialog.step = "select" /\ template = None /\ p \notin Made
  /\ playbooks' = [playbooks EXCEPT ![p].made = TRUE]
  /\ template' = p
  /\ UNCHANGED <<fields, creations, runs, saving, editing, dialog, fetched, fetching, attributes, form, key, submitting>>

SelectCreated ==
  /\ template # None
  /\ template' = None
  /\ IF dialog.mounted THEN Select(template)
     ELSE UNCHANGED <<dialog, fetched, fetching, attributes, form, key, submitting>>
  /\ UNCHANGED serverVars

Back ==
  /\ dialog.mounted /\ dialog.step = "details"
  /\ dialog' = [dialog EXCEPT !.step = "select"]
  /\ UNCHANGED <<serverVars, fetched, fetching, attributes, form, key, submitting, template>>

Hide ==
  /\ dialog.mounted
  /\ dialog' = [dialog EXCEPT !.mounted = FALSE]
  /\ UNCHANGED <<serverVars, fetched, fetching, attributes, form, key, submitting, template>>

\* useThing: any answer sets what the hook holds, that of an earlier argument
\* too; a failure sets it to null.
FetchEnds(h, p) ==
  /\ dialog.mounted /\ <<h, p>> \in fetching
  /\ fetching' = fetching \ {<<h, p>>}
  /\ \E answer \in {Fetched(p), None} : fetched' = [fetched EXCEPT ![h] = answer]
  /\ InitializeForm(dialog.selected, fetched')
  /\ UNCHANGED <<serverVars, dialog, attributes, template>>

\* usePlaybookAttributes: fetched into the store once.
AttributesArrive ==
  /\ dialog.mounted /\ Picked /\ attributes[dialog.selected] = None
  /\ attributes' = [attributes EXCEPT ![dialog.selected] = PropertyFields(dialog.selected)]
  /\ UNCHANGED <<serverVars, dialog, fetched, fetching, form, key, submitting, template>>
-----------------------------------------------------------------------------
Editing == dialog.mounted /\ dialog.step = "details" /\ Picked

TemplateShown == IF fetched.playbook = None THEN {} ELSE fetched.playbook.row.template
TemplateFieldNames == TemplateShown \ {SEQ}
AttributesOf(p) == IF p = None THEN {} ELSE IF attributes[p] = None THEN {} ELSE attributes[p]

\* templateFields: the template of the fetched playbook, the fields of the picked.
TemplateFields == {f \in AttributesOf(dialog.selected) : f.name \in TemplateFieldNames}

EditForm(edited) ==
  /\ Editing
  /\ form' = edited
  /\ UNCHANGED <<serverVars, dialog, fetched, fetching, attributes, key, submitting, template>>

\* RunNameSection: read-only when a template makes the name.
SetRunName == TemplateShown = {} /\ \E name \in {"", "typed"} : EditForm([form EXCEPT !.name = name])

\* PropertyFieldsSection: one field is filled in or emptied.
SetPropertyValue ==
  \E f \in TemplateFields : \E values \in {form.values \cup {f.id}, form.values \ {f.id}} :
    EditForm([form EXCEPT !.values = values])

\* handleSetChannelMode: linking starts from the channel the user is in.
HandleSetChannelMode(mode) ==
  /\ ~(NewChannelOnly(fetched.rest) /\ mode = "link")
  /\ EditForm([form EXCEPT !.mode = mode,
                           !.channel = IF /\ mode = "link" /\ @ = None
                                          /\ fetched.playbook # None
                                          /\ fetched.playbook.row.channelMode = "create"
                                       THEN CurrentChannel ELSE @])

SetChannelId(c) == form.mode = "link" /\ ~NewChannelOnly(fetched.rest) /\ EditForm([form EXCEPT !.channel = c])
-----------------------------------------------------------------------------
\* Attributes that have not come yet, or that the template names and the playbook
\* has not, keep the button disabled.
CreateNewChannel == form.mode = "create" \/ NewChannelOnly(fetched.rest)
IsFormValid ==
  /\ TemplateFieldNames # {} => attributes[dialog.selected] # None
  /\ TemplateShown = {} => form.name # ""
  /\ TemplateFieldNames \subseteq NamesOf({f \in AttributesOf(dialog.selected) : f.id \in form.values})
  /\ CreateNewChannel \/ form.channel # None

OnSubmit(r) ==
  /\ Editing /\ ~submitting.state
  /\ Loaded(dialog.selected, fetched) /\ ~submitting.ref /\ IsFormValid
  /\ submitting' = [ref |-> TRUE, state |-> TRUE, requests |-> submitting.requests \cup {r}]
  /\ Receive(r, Request(dialog.selected, form.name,
                        IF form.mode = "link" THEN form.channel ELSE None, form.values))
  /\ UNCHANGED <<dialog, fetched, fetching, attributes, form, key, template>>

ResetSubmitting(r) ==
  submitting' = [ref |-> FALSE, state |-> submitting.state /\ ~dialog.mounted,
                 requests |-> submitting.requests \ {r}]

\* The answer: the run is opened and the dialog goes, unless it had gone before.
RunCreated(r) ==
  /\ r \in submitting.requests /\ creations[r].stage = "done"
  /\ ResetSubmitting(r)
  /\ dialog' = IF dialog.mounted THEN [dialog EXCEPT !.opened = r, !.mounted = FALSE] ELSE dialog
  /\ UNCHANGED <<serverVars, fetched, fetching, attributes, form, key, template>>

\* Mutant: a failure is not for the form of another playbook.
SubmitOfFormFails(r) ==
  /\ r \in submitting.requests /\ creations[r].stage \in {"received", "failed", "done"}
  /\ creations[r].request.playbook = dialog.selected
  /\ ResetSubmitting(r)
  /\ UNCHANGED <<serverVars, dialog, fetched, fetching, attributes, form, key, template>>

\* A refusal, a failure, or an answer that never came.
SubmitFails(r) ==
  /\ r \in submitting.requests /\ creations[r].stage \in {"received", "failed", "done"}
  /\ ResetSubmitting(r)
  /\ UNCHANGED <<serverVars, dialog, fetched, fetching, attributes, form, key, template>>
-----------------------------------------------------------------------------
ModalInit ==
  /\ \E selected \in Made \cup {None} :
       /\ dialog = [step |-> IF selected = None THEN "select" ELSE "details",
                    selected |-> selected, mounted |-> TRUE, opened |-> None]
       /\ fetching = IF selected = None THEN {} ELSE {<<h, selected>> : h \in Hooks}
  /\ fetched = [h \in Hooks |-> None]
  /\ attributes = [p \in Playbooks |-> None]
  /\ form = Blank
  /\ key = None
  /\ submitting = [ref |-> FALSE, state |-> FALSE, requests |-> {}]
  /\ template = None

Init == ServerInit /\ ModalInit

Elsewhere ==
  /\ \/ \E r \in Requests : CreationStep(r) \/ StartElsewhere(r)
     \/ \E p \in Playbooks : BeginSave(p) \/ SavePlaybook(p) \/ ArchivePlaybook(p)
     \/ \E e \in Editors : FieldEdit(e)
  /\ UNCHANGED modalVars

Next ==
  \/ Elsewhere
  \/ \E p \in Playbooks : SelectPlaybook(p) \/ CreateFromTemplate(p)
  \/ \E h \in Hooks, p \in Playbooks : FetchEnds(h, p)
  \/ SelectCreated \/ Back \/ Hide \/ AttributesArrive
  \/ SetRunName \/ SetPropertyValue
  \/ \E mode \in {"link", "create"} : HandleSetChannelMode(mode)
  \/ \E c \in Channels \cup {None} : SetChannelId(c)
  \/ \E r \in Requests : OnSubmit(r) \/ RunCreated(r) \/ SubmitFails(r)

Spec == Init /\ [][Next]_vars

\* A browser's request is answered or fails; the server goes on with what it
\* has received.
FairSpec ==
  Spec /\ \A r \in Requests : /\ WF_vars(RunCreated(r) \/ SubmitFails(r))
                              /\ WF_vars(CreationStep(r) /\ UNCHANGED modalVars)
-----------------------------------------------------------------------------
\* The dialog has one request at a time, and its button tells the truth about
\* it: setting up the form for another playbook does not enable it while the
\* ref still blocks it (the two halves of isSubmitting).
OneRequestAtATime ==
  /\ \A r, s \in submitting.requests : r = s
  /\ submitting.ref = (submitting.requests # {})
  /\ dialog.mounted => submitting.state = submitting.ref

\* Whatever the order of the two answers, the form of a playbook that wants a new
\* channel for each run is never left on linking (isNewChannelOnly in the key).
ModeFitsPlaybook ==
  dialog.mounted /\ Loaded(dialog.selected, fetched) /\ NewChannelOnly(fetched.rest)
    => form.mode = "create"

\* The values sent are of fields of the picked playbook: none typed for another
\* one is left over (setPropertyValues({}) in the effect).
ValuesOfSelected ==
  dialog.mounted /\ Picked => form.values \subseteq IdsOf(AttributesOf(dialog.selected))

\* A submission ends, and the button can be used again, or the dialog is closed.
SubmissionEnds == submitting.state ~> (~submitting.state \/ ~dialog.mounted)
=============================================================================
