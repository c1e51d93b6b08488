---------------------------- MODULE RunCreation ----------------------------
(***************************************************************************)
(* How the server makes a run of a playbook: the REST handler reads the    *)
(* playbook and tries the name template on it, CreatePlaybookRun reads it  *)
(* again, takes the next run number and only then makes the channel and    *)
(* the row.  Each of these is a statement of its own, so creations of      *)
(* several users, saves of the playbook and edits of its property fields   *)
(* fall between them.                                                      *)
(*                                                                         *)
(* A template is the set of what it refers to: names of property fields,   *)
(* and the sequential identifier SEQ; the empty set stands for no template, *)
(* and a template that names something twice is left out.                  *)
(***************************************************************************)
EXTENDS Naturals

CONSTANTS Playbooks, Fields, Names, Requests, Channels, Editors, None

SEQ == "SEQ"
Templates == SUBSET (Names \cup {SEQ})

ASSUME NoneAssumption == None \notin Playbooks \cup Channels \cup Names

VARIABLES
  playbooks,   \* IR_Playbook: the rows, by playbook
  fields,      \* the property fields of each playbook, None the name of a deleted one
  creations,   \* the requests the server has received, and how far each is
  runs,        \* the runs stored
  saving,      \* a save of a playbook between its checks and its write
  editing      \* the requests that make, rename or delete a field, between their statements

serverVars == <<playbooks, fields, creations, runs, saving, editing>>

\* A field has an identifier, which values go by, and a name, which templates go by.
Field == [id : Fields, name : Names \cup {None}]
PropertyFields(p) == {f \in fields[p] : f.name # None}
NamesOf(S) == {f.name : f \in S}
IdsOf(S) == {f.id : f \in S}

\* The request of client.createPlaybookRun; "values" are the fields it fills in.
Request(p, name, channel, values) ==
  [playbook |-> p, name |-> name, channel |-> channel, values |-> values]

\* Run number 0 is that of a run without one (FormatSequentialID).
Idle == [stage |-> "unused", request |-> None, read |-> None, fields |-> {},
         template |-> {}, number |-> 0]
NotSaving == [stage |-> "none"]
NotEditing == [stage |-> "none"]
Made == {p \in Playbooks : playbooks[p].made}

\* A row of IR_Playbook; "made" is FALSE for one that is not there yet.
Row == [made : BOOLEAN, archived : BOOLEAN, newChannelOnly : BOOLEAN, template : Templates,
        next : Nat, channelMode : {"link", "create"}, channel : Channels \cup {None}]

ServerInit ==
  /\ playbooks \in [Playbooks -> Row]
  /\ \A p \in Playbooks :
       /\ ~playbooks[p].archived /\ playbooks[p].next = 1
       /\ playbooks[p].newChannelOnly => playbooks[p].channelMode = "create"
  /\ fields \in [Playbooks -> SUBSET Field]
  /\ \A p, q \in Playbooks : p # q => IdsOf(fields[p]) \cap IdsOf(fields[q]) = {}
  /\ \A p \in Playbooks : \A f, g \in PropertyFields(p) : f.id = g.id \/ f.name = g.name => f = g
  /\ creations = [r \in Requests |-> Idle]
  /\ runs = {}
  /\ saving = NotSaving
  /\ editing = [e \in Editors |-> NotEditing]

Receive(r, request) ==
  /\ creations[r] = Idle
  /\ creations' = [creations EXCEPT ![r].stage = "received", ![r].request = request]
  /\ UNCHANGED <<playbooks, fields, runs, saving, editing>>

MovesTo(r, stage) == creations' = [creations EXCEPT ![r].stage = stage]

Refused(r) == MovesTo(r, "failed")

ReadsPlaybook(r, stage) ==
  creations' = [creations EXCEPT ![r].stage = stage,
                                 ![r].read = playbooks[creations[r].request.playbook]]

\* createPlaybookRun of the API: the playbook is read, and what makes the
\* request impossible is told before anything is taken or made.
Read(r) ==
  LET request == creations[r].request
      pb == playbooks[request.playbook]
  IN /\ creations[r].stage = "received"
     /\ IF \/ pb.archived
           \/ request.name = "" /\ pb.template = {} /\ request.channel = None
        THEN Refused(r)
        ELSE ReadsPlaybook(r, "read")
     /\ UNCHANGED <<playbooks, fields, runs, saving, editing>>

\* loadTemplateFields: a statement of its own, made for a template only.
LoadTemplateFields(r) ==
  LET c == creations[r]
  IN /\ c.stage \in {"read", "reread"}
     /\ \/ creations' = [creations EXCEPT
             ![r].stage = IF @ = "read" THEN "try" ELSE "prepare",
             ![r].fields = IF c.read.template = {} THEN {} ELSE PropertyFields(c.request.playbook)]
        \/ Refused(r)
     /\ UNCHANGED <<playbooks, fields, runs, saving, editing>>

Cleaned(c) == c.read.template \cap (NamesOf(c.fields) \cup {SEQ})

\* prepareTemplate: what the template names and no field has is removed from it
\* in the row as well, unless the row's template is no longer the one read.
Prepared(c) ==
  LET row == playbooks[c.request.playbook]
  IN IF row.template = c.read.template /\ ~row.archived THEN Cleaned(c) ELSE c.read.template

\* Mutant: the cleaned template is written over whatever is there.
UpdateChannelNameTemplate(p, old, new) ==
  playbooks' = [playbooks EXCEPT ![p].template = new]

UpdateChannelNameTemplateIfUnchanged(p, old, new) ==
  playbooks' = IF playbooks[p].template = old /\ ~playbooks[p].archived
               THEN [playbooks EXCEPT ![p].template = new] ELSE playbooks

\* dryRunValidateTemplate: every field the template names is there and filled in.
DryRun(r, prepared) ==
  LET c == creations[r]
      filled == {f \in c.fields : f.id \in c.request.values}
  IN IF ~(prepared \subseteq NamesOf(filled) \cup {SEQ}) THEN Refused(r)
     ELSE creations' = [creations EXCEPT ![r].stage = IF @ = "try" THEN "tried" ELSE "number",
                                         ![r].template = prepared]

\* Before the creation ("try") and in the creation itself ("prepare").  Where the
\* cleaned template could not be written it is used all the same.
PrepareTemplate(r) ==
  LET c == creations[r]
      p == c.request.playbook
  IN /\ c.stage \in {"try", "prepare"}
     /\ \/ Cleaned(c) = c.read.template /\ DryRun(r, c.read.template) /\ UNCHANGED playbooks
        \/ /\ Cleaned(c) # c.read.template
           /\ \/ /\ UpdateChannelNameTemplateIfUnchanged(p, c.read.template, Cleaned(c))
                 /\ DryRun(r, Prepared(c))
              \/ DryRun(r, Cleaned(c)) /\ UNCHANGED playbooks
     /\ UNCHANGED <<fields, runs, saving, editing>>

\* normalizeAndValidateRunCreationParams on the playbook the handler read, then
\* the second reading of resolveAndAllocate.
Reread(r) ==
  LET c == creations[r]
  IN /\ c.stage = "tried"
     /\ IF c.read.newChannelOnly /\ c.request.channel # None THEN Refused(r)
        ELSE ReadsPlaybook(r, "reread")
     /\ UNCHANGED <<playbooks, fields, runs, saving, editing>>

\* One UPDATE ... RETURNING: no two creations can be given the same number.
IncrementRunNumber(r) ==
  LET p == creations[r].request.playbook
  IN /\ creations[r].stage = "number"
     /\ IF playbooks[p].archived
        THEN Refused(r) /\ UNCHANGED playbooks
        ELSE /\ creations' = [creations EXCEPT ![r].stage = "numbered", ![r].number = playbooks[p].next]
             /\ playbooks' = [playbooks EXCEPT ![p].next = @ + 1]
     /\ UNCHANGED <<fields, runs, saving, editing>>

\* resolveRunName, the channel and the row.  A run's name is what the template
\* resolves to, or the request's.
RunOf(r) ==
  LET c == creations[r]
  IN [request |-> r, playbook |-> c.request.playbook, number |-> c.number,
      channel |-> c.request.channel,
      name |-> IF c.template # {} THEN "resolved" ELSE c.request.name]

StoreRun(r) ==
  /\ creations[r].stage = "numbered"
  /\ \/ /\ runs' = runs \cup {RunOf(r)}
        /\ MovesTo(r, "stored")
     \/ Refused(r) /\ UNCHANGED runs
  /\ UNCHANGED <<playbooks, fields, saving, editing>>

\* Memberships, messages, the timeline: some of their failures end the request
\* with an error although the row is there.
FinishCreation(r) ==
  /\ creations[r].stage = "stored"
  /\ \/ MovesTo(r, "done")
     \/ Refused(r)
  /\ UNCHANGED <<playbooks, fields, runs, saving, editing>>

\* The playbook is saved by someone else while runs of it are being made: the
\* page has the row it loaded, the template is checked against the fields there
\* are, and then every column is written but the one that numbers the runs.
BeginSave(p) ==
  /\ saving = NotSaving /\ p \in Made /\ ~playbooks[p].archived
  /\ \E template \in SUBSET (NamesOf(PropertyFields(p)) \cup {SEQ}) :
       saving' = [stage |-> "checked", playbook |-> p,
                  row |-> [playbooks[p] EXCEPT !.template = template]]
  /\ UNCHANGED <<playbooks, fields, creations, runs, editing>>

\* Mutant: the number the page had loaded is written back with the rest.
EveryColumn(old, row) == row

Columns(old, row) == [row EXCEPT !.next = old.next]

SavePlaybook(p) ==
  /\ saving # NotSaving /\ saving.playbook = p
  /\ playbooks' = [playbooks EXCEPT ![p] = Columns(@, saving.row)]
  /\ saving' = NotSaving
  /\ UNCHANGED <<fields, creations, runs, editing>>

ArchivePlaybook(p) ==
  /\ p \in Made
  /\ playbooks' = [playbooks EXCEPT ![p].archived = TRUE]
  /\ UNCHANGED <<fields, creations, runs, saving, editing>>

-----------------------------------------------------------------------------
\* The handlers of property fields; each first reads the row of the playbook.
BeginFieldEdit(e, p) ==
  /\ editing[e] = NotEditing /\ p \in Made /\ ~playbooks[p].archived
  /\ editing' = [editing EXCEPT ![e] =
                   [stage |-> "row", playbook |-> p, template |-> playbooks[p].template]]
  /\ UNCHANGED <<playbooks, fields, creations, runs, saving>>

EndFieldEdit(e) == editing' = [editing EXCEPT ![e] = NotEditing]

\* A refusal, or a failure before anything is written.
FieldEditFails(e) ==
  /\ editing[e].stage \in {"row", "field", "checked"}
  /\ EndFieldEdit(e)
  /\ UNCHANGED <<playbooks, fields, creations, runs, saving>>

\* Two fields of a playbook have different names.
CreatePropertyField(e) ==
  LET p == editing[e].playbook
  IN /\ editing[e].stage = "row"
     /\ \E id \in Fields \ UNION {IdsOf(fields[q]) : q \in Playbooks},
           name \in Names \ NamesOf(PropertyFields(p)) :
          fields' = [fields EXCEPT ![p] = @ \cup {[id |-> id, name |-> name]}]
     /\ EndFieldEdit(e)
     /\ UNCHANGED <<playbooks, creations, runs, saving>>

\* deletePlaybookPropertyField: the row's template is checked against the fields
\* that would remain, and the field is deleted in a statement of its own.
CheckDeletion(e) ==
  LET edit == editing[e]
      all == PropertyFields(edit.playbook)
  IN /\ edit.stage = "row"
     /\ \E f \in all :
          /\ edit.template \subseteq NamesOf(all \ {f}) \cup {SEQ}
          /\ editing' = [editing EXCEPT ![e] = [stage |-> "checked", playbook |-> edit.playbook, id |-> f.id]]
     /\ UNCHANGED <<playbooks, fields, creations, runs, saving>>

\* A deleted field keeps its identifier, and no new name is seen on it.
Named(S, id, name) == {IF f.id = id /\ f.name # None THEN [f EXCEPT !.name = name] ELSE f : f \in S}

DeletePropertyField(e) ==
  /\ editing[e].stage = "checked"
  /\ fields' = [fields EXCEPT ![editing[e].playbook] = Named(@, editing[e].id, None)]
  /\ EndFieldEdit(e)
  /\ UNCHANGED <<playbooks, creations, runs, saving>>

\* updatePlaybookPropertyField with a new name: the template is written first.
ReadExistingField(e) ==
  LET edit == editing[e]
  IN /\ edit.stage = "row"
     /\ \E f \in PropertyFields(edit.playbook), name \in Names \ edit.template :
          /\ name # f.name
          /\ editing' = [editing EXCEPT ![e] =
               [stage |-> "field", playbook |-> edit.playbook, template |-> edit.template,
                id |-> f.id, old |-> f.name, name |-> name]]
     /\ UNCHANGED <<playbooks, fields, creations, runs, saving>>

ReplaceFieldInTemplate(edit) ==
  IF edit.old \in edit.template THEN (edit.template \ {edit.old}) \cup {edit.name} ELSE edit.template

WriteRenamedTemplate(e) ==
  LET edit == editing[e]
      row == playbooks[edit.playbook]
  IN /\ edit.stage = "field"
     /\ IF edit.old \in edit.template
        THEN UpdateChannelNameTemplateIfUnchanged(edit.playbook, edit.template, ReplaceFieldInTemplate(edit))
        ELSE UNCHANGED playbooks
     /\ editing' = [editing EXCEPT ![e].stage =
          IF edit.old \in edit.template /\ row.template = edit.template /\ ~row.archived
          THEN "written" ELSE "renaming"]
     /\ UNCHANGED <<fields, creations, runs, saving>>

\* What is done where the rename fails: what was written is to be taken back.
RenameFails(e) ==
  IF editing[e].stage = "written" THEN editing' = [editing EXCEPT ![e].stage = "reverting"]
  ELSE EndFieldEdit(e)

\* It fails for a name another field has, and may fail with the field renamed.
UpdatePropertyField(e) ==
  LET edit == editing[e]
      p == edit.playbook
  IN /\ edit.stage \in {"written", "renaming"}
     /\ \/ /\ edit.name \notin NamesOf(PropertyFields(p))
           /\ fields' = [fields EXCEPT ![p] = Named(@, edit.id, edit.name)]
           /\ EndFieldEdit(e) \/ RenameFails(e)
        \/ RenameFails(e) /\ UNCHANGED fields
     /\ UNCHANGED <<playbooks, creations, runs, saving>>

RevertTemplate(e) ==
  LET edit == editing[e]
  IN /\ edit.stage = "reverting"
     /\ \/ UpdateChannelNameTemplateIfUnchanged(edit.playbook, ReplaceFieldInTemplate(edit), edit.template)
        \/ UNCHANGED playbooks
     /\ EndFieldEdit(e)
     /\ UNCHANGED <<fields, creations, runs, saving>>

FieldEdit(e) ==
  \/ \E p \in Playbooks : BeginFieldEdit(e, p)
  \/ FieldEditFails(e) \/ CreatePropertyField(e)
  \/ CheckDeletion(e) \/ DeletePropertyField(e)
  \/ ReadExistingField(e) \/ WriteRenamedTemplate(e) \/ UpdatePropertyField(e) \/ RevertTemplate(e)
-----------------------------------------------------------------------------
\* A run of the playbook is started from another browser, or by a command.
StartElsewhere(r) ==
  \E p \in Made : \E values \in {{}, IdsOf(PropertyFields(p))} :
    Receive(r, Request(p, "typed", None, values))

CreationStep(r) ==
  \/ Read(r) \/ LoadTemplateFields(r) \/ PrepareTemplate(r) \/ Reread(r)
  \/ IncrementRunNumber(r) \/ StoreRun(r) \/ FinishCreation(r)
-----------------------------------------------------------------------------
Numbered == {r \in Requests : creations[r].number # 0}

\* No number is given twice in a playbook, nor one that a later creation can still
\* be given, whatever is saved over the playbook meanwhile (IncrementRunNumber;
\* Update writes every column but NextRunNumber).
NumbersAreUnique ==
  /\ \A r, s \in Numbered :
       /\ creations[r].request.playbook = creations[s].request.playbook
       /\ creations[r].number = creations[s].number
       => r = s
  /\ \A r \in Numbered : creations[r].number < playbooks[creations[r].request.playbook].next

\* Only a save edits a template.  A run's cleaning takes out names that no field
\* had when the run read the fields, and puts nothing back; a rename exchanges the
\* two names it is about.  So neither overwrites what was saved since it read the
\* row (UpdateChannelNameTemplateIfUnchanged).  A name given to a field after the
\* run read the fields is taken out too, that of a rename under way among them.
HealRemovesGhosts ==
  [][\A p \in Playbooks :
       LET gone == playbooks[p].template \ playbooks'[p].template
           came == playbooks'[p].template \ playbooks[p].template
       IN \/ gone = {} /\ came = {}
          \/ saving' # saving /\ saving.playbook = p
          \/ \E r \in Requests :
               /\ creations'[r] # creations[r] /\ creations[r].request.playbook = p
               /\ came = {} /\ gone \cap (NamesOf(creations[r].fields) \cup {SEQ}) = {}
          \/ \E e \in Editors :
               /\ editing'[e] # editing[e] /\ editing[e].playbook = p
               /\ gone \cup came = {editing[e].old, editing[e].name}]_serverVars
=============================================================================
