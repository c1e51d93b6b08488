-------------------------- MODULE StartRun_proofs ---------------------------
(***************************************************************************)
(* Run numbers, what may change a name template, and the dialog's one      *)
(* request and its form, for every number of playbooks, requests, saves    *)
(* and editors of property fields.                                         *)
(***************************************************************************)
EXTENDS StartRun, TLAPS

Stages == {"unused", "received", "read", "try", "tried", "reread", "prepare", "number",
           "numbered", "stored", "done", "failed"}

Reading == {"read", "try", "reread", "prepare"}

RequestSet == [playbook : Playbooks, name : {"", "typed", "template"},
               channel : Channels \cup {None}, values : SUBSET Fields]

Creation == [stage : Stages, request : RequestSet \cup {None}, read : Row \cup {None},
             fields : SUBSET Field, template : Templates, number : Nat]

SavingOK ==
  \/ saving = NotSaving
  \/ saving \in [stage : {"checked"}, playbook : Playbooks, row : Row]

(* An edit of a field: a rename is to a name the template has not.         *)
RenameSet == [stage : {"field", "written", "renaming", "reverting"}, playbook : Playbooks,
              template : Templates, id : Fields, old : Names, name : Names]

Edits ==
  {NotEditing} \cup [stage : {"row"}, playbook : Playbooks, template : Templates]
  \cup [stage : {"checked"}, playbook : Playbooks, id : Fields]
  \cup {x \in RenameSet : /\ x.name \notin x.template /\ x.name # x.old
                          /\ x.stage \in {"written", "reverting"} => x.old \in x.template}

EditingOK == editing \in [Editors -> Edits]

(* What is known of a creation by how far it is.                           *)
Carried(c) ==
  /\ c.stage # "unused" \/ c.number # 0 => c.request \in RequestSet
  /\ c.stage \in Reading => c.read \in Row

TypesOK ==
  /\ playbooks \in [Playbooks -> Row]
  /\ fields \in [Playbooks -> SUBSET Field]
  /\ creations \in [Requests -> Creation]
  /\ SavingOK /\ EditingOK
  /\ \A r \in Requests : Carried(creations[r])

NumbersInv == TypesOK /\ NumbersAreUnique /\ \A p \in Playbooks : playbooks[p].next # 0

LEMMA NumbersInit == ServerInit => NumbersInv
<1> SUFFICES ASSUME ServerInit PROVE NumbersInv
  OBVIOUS
<1>1. playbooks \in [Playbooks -> Row] /\ \A p \in Playbooks : playbooks[p].next = 1
  BY DEF ServerInit
<1>2. Idle \in Creation /\ Idle.number = 0 /\ Idle.stage = "unused"
  BY DEF Idle, Creation, Stages, Templates
<1>3. TypesOK
  BY <1>1, <1>2 DEF ServerInit, TypesOK, SavingOK, EditingOK, Edits, Carried, Reading
<1>4. NumbersAreUnique
  BY <1>2 DEF ServerInit, NumbersAreUnique, Numbered
<1> QED
  BY <1>1, <1>3, <1>4 DEF NumbersInv

(* Where no creation gets a number and no playbook's next one changes, the *)
(* numbers are as they were.                                               *)
LEMMA NumbersKept ==
  ASSUME NumbersInv, TypesOK',
         \A r \in Requests : /\ creations'[r].number = creations[r].number
                             /\ creations[r].number # 0 => creations'[r].request = creations[r].request,
         \A p \in Playbooks : playbooks'[p].next = playbooks[p].next
  PROVE  NumbersInv'
<1>1. Numbered' = Numbered /\ \A r \in Numbered : r \in Requests /\ creations[r].request \in RequestSet
  BY DEF Numbered, NumbersInv, TypesOK, Carried
<1>2. NumbersAreUnique'
  BY <1>1 DEF NumbersInv, NumbersAreUnique, Numbered, RequestSet
<1> QED
  BY <1>2 DEF NumbersInv

(* A creation that goes on without a number of its own.                    *)
LEMMA MoveKeeps ==
  ASSUME NumbersInv, NEW r \in Requests, NEW c \in Creation,
         c.number = creations[r].number, c.request = creations[r].request,
         creations[r].stage # "unused", Carried(c),
         creations' = [creations EXCEPT ![r] = c],
         playbooks' \in [Playbooks -> Row], UNCHANGED <<fields, saving, editing>>,
         \A p \in Playbooks : playbooks'[p].next = playbooks[p].next
  PROVE  NumbersInv'
<1>1. /\ creations' \in [Requests -> Creation]
      /\ \A s \in Requests : creations'[s] = IF s = r THEN c ELSE creations[s]
  BY DEF NumbersInv, TypesOK
<1>2. TypesOK'
  BY <1>1 DEF NumbersInv, TypesOK, SavingOK, EditingOK, Carried
<1> QED
  BY <1>1, <1>2, NumbersKept

(* A creation that only changes its stage, to one without a row to read.   *)
LEMMA StageKeeps ==
  ASSUME NumbersInv, NEW r \in Requests, NEW stage \in Stages \ Reading,
         MovesTo(r, stage), creations[r].stage # "unused", UNCHANGED <<playbooks, fields, saving, editing>>
  PROVE  NumbersInv'
<1> DEFINE c == [creations[r] EXCEPT !.stage = stage]
<1>1. creations[r] \in Creation /\ creations' = [creations EXCEPT ![r] = c]
  BY DEF MovesTo, NumbersInv, TypesOK
<1>2. c \in Creation /\ c.number = creations[r].number /\ c.request = creations[r].request
      /\ c.stage = stage
  BY <1>1 DEF Creation
<1>3. Carried(c)
  BY <1>2 DEF Carried, NumbersInv, TypesOK
<1>4. playbooks' \in [Playbooks -> Row] /\ \A p \in Playbooks : playbooks'[p].next = playbooks[p].next
  BY DEF NumbersInv, TypesOK
<1> HIDE DEF c
<1> QED
  BY <1>1, <1>2, <1>3, <1>4, MoveKeeps

(* The playbook is read, and read again.                                   *)
LEMMA ReadKeeps ==
  ASSUME NumbersInv, NEW r \in Requests, NEW stage \in {"read", "reread"},
         ReadsPlaybook(r, stage), creations[r].stage # "unused",
         UNCHANGED <<playbooks, fields, saving, editing>>
  PROVE  NumbersInv'
<1> DEFINE p == creations[r].request.playbook
           c == [creations[r] EXCEPT !.stage = stage, !.read = playbooks[p]]
<1>1. creations[r] \in Creation /\ creations[r].request \in RequestSet /\ p \in Playbooks
  BY DEF NumbersInv, TypesOK, Carried, RequestSet
<1>2. creations' = [creations EXCEPT ![r] = c]
  BY <1>1 DEF ReadsPlaybook, NumbersInv, TypesOK
<1>3. playbooks[p] \in Row
  BY <1>1 DEF NumbersInv, TypesOK
<1> HIDE DEF p
<1>4. c \in Creation /\ c.number = creations[r].number /\ c.request = creations[r].request
      /\ c.read = playbooks[p]
  BY <1>1, <1>3 DEF Creation, Stages
<1>5. Carried(c)
  BY <1>1, <1>3, <1>4 DEF Carried
<1>6. playbooks' \in [Playbooks -> Row] /\ \A b \in Playbooks : playbooks'[b].next = playbooks[b].next
  BY DEF NumbersInv, TypesOK
<1> HIDE DEF c
<1> QED
  BY <1>1, <1>2, <1>4, <1>5, <1>6, MoveKeeps

(* Its fields are read next.                                               *)
LEMMA LoadKeeps ==
  ASSUME NumbersInv, NEW r \in Requests, LoadTemplateFields(r)
  PROVE  NumbersInv'
<1> DEFINE stage == IF creations[r].stage = "read" THEN "try" ELSE "prepare"
           S == IF creations[r].read.template = {} THEN {} ELSE PropertyFields(creations[r].request.playbook)
           c == [creations[r] EXCEPT !.stage = stage, !.fields = S]
<1>1. /\ creations[r] \in Creation /\ creations[r].request \in RequestSet
      /\ creations[r].request.playbook \in Playbooks
      /\ creations[r].stage \in {"read", "reread"} /\ creations[r].read \in Row
  BY DEF LoadTemplateFields, NumbersInv, TypesOK, Carried, Reading, RequestSet
<1>2. UNCHANGED <<playbooks, fields, saving, editing>>
  BY DEF LoadTemplateFields
<1>3. CASE Refused(r)
  BY <1>1, <1>2, <1>3, StageKeeps DEF Refused, Stages, Reading
<1>4. CASE ~Refused(r)
  <2>1. creations' = [creations EXCEPT ![r] = c]
    BY <1>1, <1>4 DEF LoadTemplateFields, NumbersInv, TypesOK
  <2>2. S \in SUBSET Field
    BY <1>1 DEF PropertyFields, NumbersInv, TypesOK
  <2>3. stage \in Stages
    BY DEF Stages
  <2> HIDE DEF S, stage
  <2>4. c \in Creation /\ c.number = creations[r].number /\ c.request = creations[r].request
        /\ c.read = creations[r].read
    BY <1>1, <2>2, <2>3 DEF Creation
  <2>5. Carried(c)
    BY <1>1, <2>4 DEF Carried
  <2>6. playbooks' \in [Playbooks -> Row] /\ \A b \in Playbooks : playbooks'[b].next = playbooks[b].next
    BY <1>2 DEF NumbersInv, TypesOK
  <2> HIDE DEF c
  <2> QED
    BY <1>1, <1>2, <2>1, <2>4, <2>5, <2>6, MoveKeeps
<1> QED
  BY <1>3, <1>4

(* Cleaning a template leaves the number of its row alone.                 *)
LEMMA TemplateWritten ==
  ASSUME NumbersInv, NEW p \in Playbooks, NEW old, NEW new \in Templates,
         UpdateChannelNameTemplateIfUnchanged(p, old, new)
  PROVE  /\ playbooks' \in [Playbooks -> Row]
         /\ \A b \in Playbooks : playbooks'[b].next = playbooks[b].next
<1> DEFINE row == [playbooks[p] EXCEPT !.template = new]
<1>1. playbooks \in [Playbooks -> Row] /\ playbooks[p] \in Row
  BY DEF NumbersInv, TypesOK
<1>2. row \in Row /\ row.next = playbooks[p].next
  BY <1>1 DEF Row
<1>3. playbooks' = playbooks \/ playbooks' = [playbooks EXCEPT ![p] = row]
  BY <1>1 DEF UpdateChannelNameTemplateIfUnchanged
<1> HIDE DEF row
<1> QED
  BY <1>1, <1>2, <1>3

LEMMA PrepareKeeps ==
  ASSUME NumbersInv, NEW r \in Requests, PrepareTemplate(r)
  PROVE  NumbersInv'
<1> DEFINE c == creations[r]
           stage == IF c.stage = "try" THEN "tried" ELSE "number"
           d(t) == [c EXCEPT !.stage = stage, !.template = t]
<1>1. /\ c \in Creation /\ c.request \in RequestSet /\ c.read \in Row
      /\ c.request.playbook \in Playbooks /\ c.stage \in {"try", "prepare"}
  BY DEF PrepareTemplate, NumbersInv, TypesOK, Carried, Reading, RequestSet
<1>2. Cleaned(c) \in Templates /\ Prepared(c) \in Templates
  BY <1>1 DEF Cleaned, Prepared, Row, Templates
<1>3. /\ playbooks' \in [Playbooks -> Row]
      /\ \A b \in Playbooks : playbooks'[b].next = playbooks[b].next
  <2>1. CASE UNCHANGED playbooks
    BY <2>1 DEF NumbersInv, TypesOK
  <2>2. CASE UpdateChannelNameTemplateIfUnchanged(c.request.playbook, c.read.template, Cleaned(c))
    BY <1>1, <1>2, <2>2, TemplateWritten
  <2> QED
    BY <2>1, <2>2 DEF PrepareTemplate
<1>4. PICK prepared \in {Cleaned(c), Prepared(c)} : DryRun(r, prepared)
  <2>1. DryRun(r, Cleaned(c)) \/ DryRun(r, Prepared(c))
    BY DEF PrepareTemplate
  <2> QED
    BY <2>1
<1>5. \/ Refused(r)
      \/ creations' = [creations EXCEPT ![r] = d(prepared)]
  BY <1>1, <1>4 DEF DryRun, NumbersInv, TypesOK
<1>6. UNCHANGED <<fields, saving, editing>>
  BY DEF PrepareTemplate
<1>7. CASE Refused(r)
  <2> DEFINE e == [c EXCEPT !.stage = "failed"]
  <2>1. creations' = [creations EXCEPT ![r] = e]
    BY <1>1, <1>7 DEF Refused, MovesTo, NumbersInv, TypesOK
  <2>2. e \in Creation /\ e.number = c.number /\ e.request = c.request /\ e.stage = "failed"
    BY <1>1 DEF Creation, Stages
  <2>3. Carried(e)
    BY <1>1, <2>2 DEF Carried, Reading
  <2> HIDE DEF e
  <2> QED
    BY <1>1, <1>3, <1>6, <2>1, <2>2, <2>3, MoveKeeps
<1>8. CASE creations' = [creations EXCEPT ![r] = d(prepared)]
  <2> DEFINE e == d(prepared)
  <2>1. stage \in {"tried", "number"} /\ stage \in Stages
    BY DEF Stages
  <2> HIDE DEF stage
  <2>2. e \in Creation /\ e.number = c.number /\ e.request = c.request /\ e.stage = stage
    BY <1>1, <1>2, <1>4, <2>1 DEF Creation
  <2>3. Carried(e)
    BY <1>1, <2>1, <2>2 DEF Carried, Reading
  <2>4. creations' = [creations EXCEPT ![r] = e]
    BY <1>8
  <2> HIDE DEF e, d
  <2> QED
    BY <1>1, <1>3, <1>6, <2>4, <2>2, <2>3, MoveKeeps
<1> QED
  BY <1>5, <1>7, <1>8

(* The one step that gives a number: it is that of the row, which is one   *)
(* higher afterwards, so above every number given.                         *)
LEMMA IncrementKeeps ==
  ASSUME NumbersInv, NEW r \in Requests, IncrementRunNumber(r)
  PROVE  NumbersInv'
<1> DEFINE p == creations[r].request.playbook
           c == [creations[r] EXCEPT !.stage = "numbered", !.number = playbooks[p].next]
           row == [playbooks[p] EXCEPT !.next = @ + 1]
<1>1. creations[r] \in Creation /\ creations[r].request \in RequestSet /\ p \in Playbooks
  BY DEF IncrementRunNumber, NumbersInv, TypesOK, Carried, RequestSet
<1>2. CASE Refused(r) /\ UNCHANGED playbooks
  BY <1>2, StageKeeps DEF Refused, IncrementRunNumber, Stages, Reading
<1>3. CASE /\ creations' = [creations EXCEPT ![r] = c]
           /\ playbooks' = [playbooks EXCEPT ![p] = row]
  <2>1. playbooks \in [Playbooks -> Row] /\ playbooks[p] \in Row /\ playbooks[p].next \in Nat \ {0}
    BY <1>1 DEF NumbersInv, TypesOK, Row
  <2>2. row \in Row /\ row.next = playbooks[p].next + 1
    BY <2>1 DEF Row
  <2>3. c \in Creation /\ c.number = playbooks[p].next /\ c.request = creations[r].request
        /\ c.stage = "numbered"
    BY <1>1, <2>1 DEF Creation, Stages
  <2>4. Carried(c)
    BY <1>1, <2>3 DEF Carried, Reading
  <2>5. c.request.playbook = p
    BY <2>3
  <2> HIDE DEF c, row, p
  <2>6. \A s \in Requests : creations'[s] = IF s = r THEN c ELSE creations[s]
    BY <1>3 DEF NumbersInv, TypesOK
  <2>7. \A b \in Playbooks : playbooks'[b].next = IF b = p THEN playbooks[p].next + 1 ELSE playbooks[b].next
    BY <1>3, <2>1, <2>2
  <2>8. TypesOK'
    <3>1. playbooks' \in [Playbooks -> Row]
      BY <1>1, <1>3, <2>1, <2>2
    <3>2. creations' \in [Requests -> Creation] /\ \A s \in Requests : Carried(creations'[s])
      BY <1>3, <2>3, <2>4, <2>6 DEF NumbersInv, TypesOK
    <3>3. UNCHANGED <<fields, saving, editing>>
      BY DEF IncrementRunNumber
    <3> QED
      BY <3>1, <3>2, <3>3 DEF NumbersInv, TypesOK, SavingOK, EditingOK, Carried
  <2>9. \A s \in Numbered' \ {r} : s \in Numbered /\ creations'[s] = creations[s]
    BY <2>6 DEF Numbered
  <2>10. \A s \in Numbered : /\ creations[s].request.playbook \in Playbooks
                              /\ creations[s].number \in Nat
                              /\ creations[s].number < playbooks[creations[s].request.playbook].next
    BY DEF Numbered, NumbersInv, NumbersAreUnique, TypesOK, Carried, RequestSet, Creation
  <2>11. creations'[r].number = playbooks[p].next /\ creations'[r].request.playbook = p
    BY <2>3, <2>5, <2>6
  <2>12. \A b \in Playbooks : playbooks[b].next \in Nat
    BY <2>1 DEF Row
  <2>13. NumbersAreUnique'
    <3>1. \A s \in Numbered' : creations'[s].number < playbooks'[creations'[s].request.playbook].next
      BY <1>1, <2>1, <2>7, <2>9, <2>10, <2>11, <2>12
    <3>2. ASSUME NEW s \in Numbered', NEW t \in Numbered', s # t,
                 creations'[s].request.playbook = creations'[t].request.playbook,
                 creations'[s].number = creations'[t].number
          PROVE  FALSE
      <4>1. CASE s # r /\ t # r
        BY <3>2, <4>1, <2>9 DEF NumbersInv, NumbersAreUnique
      <4>2. CASE s = r
        BY <3>2, <4>2, <2>1, <2>9, <2>10, <2>11, <2>12
      <4>3. CASE t = r
        BY <3>2, <4>3, <2>1, <2>9, <2>10, <2>11, <2>12
      <4> QED
        BY <4>1, <4>2, <4>3
    <3> QED
      BY <3>1, <3>2 DEF NumbersAreUnique
  <2> QED
    BY <2>1, <2>7, <2>8, <2>12, <2>13 DEF NumbersInv
<1>4. CASE ~(Refused(r) /\ UNCHANGED playbooks)
  <2>1. /\ creations' = [creations EXCEPT ![r].stage = "numbered", ![r].number = playbooks[p].next]
        /\ playbooks' = [playbooks EXCEPT ![p].next = @ + 1]
    BY <1>4 DEF IncrementRunNumber
  <2>2. creations' = [creations EXCEPT ![r] = c]
    BY <1>1, <2>1 DEF NumbersInv, TypesOK
  <2>3. playbooks' = [playbooks EXCEPT ![p] = row]
    BY <1>1, <2>1 DEF NumbersInv, TypesOK
  <2> HIDE DEF c, row, p
  <2> QED
    BY <1>3, <2>2, <2>3
<1> HIDE DEF c, row, p
<1> QED
  BY <1>2, <1>3, <1>4

LEMMA ReceiveKeeps ==
  ASSUME NumbersInv, NEW r \in Requests, NEW request \in RequestSet, Receive(r, request)
  PROVE  NumbersInv'
<1> DEFINE c == [creations[r] EXCEPT !.stage = "received", !.request = request]
<1>0. Idle.number = 0
  BY DEF Idle
<1>1. creations[r] \in Creation /\ creations[r].number = 0
  BY <1>0 DEF Receive, NumbersInv, TypesOK
<1>2. creations' = [creations EXCEPT ![r] = c]
  BY <1>1 DEF Receive, NumbersInv, TypesOK
<1>3. c \in Creation /\ c.number = 0 /\ c.request = request /\ c.stage = "received"
  BY <1>1 DEF Creation, Stages
<1>4. Carried(c)
  BY <1>3 DEF Carried, Reading
<1> HIDE DEF c
<1>5. /\ creations' \in [Requests -> Creation]
      /\ \A s \in Requests : creations'[s] = IF s = r THEN c ELSE creations[s]
  BY <1>2, <1>3 DEF NumbersInv, TypesOK
<1>6. TypesOK'
  BY <1>4, <1>5 DEF Receive, NumbersInv, TypesOK, SavingOK, EditingOK, Carried
<1> QED
  BY <1>1, <1>3, <1>5, <1>6, NumbersKept DEF Receive

LEMMA NumbersUntouched ==
  ASSUME NumbersInv, UNCHANGED serverVars
  PROVE  NumbersInv'
<1>1. TypesOK'
  BY DEF serverVars, NumbersInv, TypesOK, SavingOK, EditingOK, Carried
<1> QED
  BY <1>1, NumbersKept DEF serverVars

LEMMA CreationKeeps ==
  ASSUME NumbersInv, NEW r \in Requests, CreationStep(r)
  PROVE  NumbersInv'
<1>1. CASE Read(r)
  BY <1>1, ReadKeeps, StageKeeps DEF Read, Refused, Stages, Reading
<1>2. CASE LoadTemplateFields(r)
  BY <1>2, LoadKeeps
<1>3. CASE PrepareTemplate(r)
  BY <1>3, PrepareKeeps
<1>4. CASE Reread(r)
  BY <1>4, ReadKeeps, StageKeeps DEF Reread, Refused, Stages, Reading
<1>5. CASE IncrementRunNumber(r)
  BY <1>5, IncrementKeeps
<1>6. CASE StoreRun(r)
  BY <1>6, StageKeeps DEF StoreRun, Refused, Stages, Reading
<1>7. CASE FinishCreation(r)
  BY <1>7, StageKeeps DEF FinishCreation, Refused, Stages, Reading
<1> QED
  BY <1>1, <1>2, <1>3, <1>4, <1>5, <1>6, <1>7 DEF CreationStep

(* The row a page has loaded is written without its number.                *)
LEMMA SaveKeeps ==
  ASSUME NumbersInv, NEW p \in Playbooks,
         BeginSave(p) \/ SavePlaybook(p) \/ ArchivePlaybook(p)
  PROVE  NumbersInv'
<1>1. playbooks \in [Playbooks -> Row] /\ playbooks[p] \in Row
  BY DEF NumbersInv, TypesOK
<1>2. CASE BeginSave(p)
  <2>1. PICK named \in SUBSET (NamesOf(PropertyFields(p)) \cup {SEQ}) :
          saving' = [stage |-> "checked", playbook |-> p, row |-> [playbooks[p] EXCEPT !.template = named]]
    BY <1>2 DEF BeginSave
  <2>2. named \in Templates
    BY DEF NumbersInv, TypesOK, Templates, NamesOf, PropertyFields, Field
  <2>3. [playbooks[p] EXCEPT !.template = named] \in Row
    BY <1>1, <2>2 DEF Row
  <2>4. SavingOK'
    BY <2>1, <2>3 DEF SavingOK
  <2>5. TypesOK'
    BY <1>2, <2>4 DEF BeginSave, NumbersInv, TypesOK, EditingOK, Carried
  <2> QED
    BY <1>2, <2>5, NumbersKept DEF BeginSave
<1>3. CASE SavePlaybook(p)
  <2>1. saving.row \in Row
    BY <1>3 DEF SavePlaybook, NumbersInv, TypesOK, SavingOK
  <2> DEFINE row == Columns(playbooks[p], saving.row)
  <2>2. row \in Row /\ row.next = playbooks[p].next
    BY <1>1, <2>1 DEF Columns, Row
  <2>3. playbooks' = [playbooks EXCEPT ![p] = row]
    BY <1>1, <1>3 DEF SavePlaybook
  <2> HIDE DEF row
  <2>4. playbooks' \in [Playbooks -> Row] /\ \A b \in Playbooks : playbooks'[b].next = playbooks[b].next
    BY <1>1, <2>2, <2>3
  <2>5. TypesOK'
    BY <1>3, <2>4 DEF SavePlaybook, NumbersInv, TypesOK, SavingOK, EditingOK, Carried
  <2> QED
    BY <1>3, <2>4, <2>5, NumbersKept DEF SavePlaybook
<1>4. CASE ArchivePlaybook(p)
  <2> DEFINE row == [playbooks[p] EXCEPT !.archived = TRUE]
  <2>2. row \in Row /\ row.next = playbooks[p].next
    BY <1>1 DEF Row
  <2>3. playbooks' = [playbooks EXCEPT ![p] = row]
    BY <1>1, <1>4 DEF ArchivePlaybook
  <2> HIDE DEF row
  <2>4. playbooks' \in [Playbooks -> Row] /\ \A b \in Playbooks : playbooks'[b].next = playbooks[b].next
    BY <1>1, <2>2, <2>3
  <2>5. TypesOK'
    BY <1>4, <2>4 DEF ArchivePlaybook, NumbersInv, TypesOK, SavingOK, EditingOK, Carried
  <2> QED
    BY <1>4, <2>4, <2>5, NumbersKept DEF ArchivePlaybook
<1> QED
  BY <1>2, <1>3, <1>4

(* An edit goes on, and leaves numbers and creations alone.                *)
LEMMA EditMoves ==
  ASSUME NumbersInv, NEW e \in Editors, NEW x \in Edits,
         editing' = [editing EXCEPT ![e] = x], UNCHANGED <<creations, saving>>,
         fields' \in [Playbooks -> SUBSET Field], playbooks' \in [Playbooks -> Row],
         \A p \in Playbooks : playbooks'[p].next = playbooks[p].next
  PROVE  NumbersInv'
<1>1. editing' \in [Editors -> Edits]
  BY DEF NumbersInv, TypesOK, EditingOK
<1>2. TypesOK'
  BY <1>1 DEF NumbersInv, TypesOK, SavingOK, EditingOK, Carried
<1> QED
  BY <1>2, NumbersKept

LEMMA EditEnds ==
  ASSUME NumbersInv, NEW e \in Editors, EndFieldEdit(e), UNCHANGED <<creations, saving>>,
         fields' \in [Playbooks -> SUBSET Field], playbooks' \in [Playbooks -> Row],
         \A p \in Playbooks : playbooks'[p].next = playbooks[p].next
  PROVE  NumbersInv'
<1>1. NotEditing \in Edits
  BY DEF Edits
<1> QED
  BY <1>1, EditMoves DEF EndFieldEdit

(* A rename by its parts, and at a later stage.                            *)
LEMMA RenameParts ==
  ASSUME NEW x \in Edits, x.stage \in {"field", "written", "renaming", "reverting"}
  PROVE  /\ x \in RenameSet /\ x.name \notin x.template /\ x.name # x.old
         /\ x.stage \in {"written", "reverting"} => x.old \in x.template
         /\ x.playbook \in Playbooks /\ ReplaceFieldInTemplate(x) \in Templates
<1>1. x \in RenameSet /\ x.name \notin x.template /\ x.name # x.old
      /\ (x.stage \in {"written", "reverting"} => x.old \in x.template)
  BY DEF Edits, NotEditing
<1>2. x.template \in Templates /\ x.name \in Names /\ x.playbook \in Playbooks
  BY <1>1 DEF RenameSet
<1> QED
  BY <1>1, <1>2 DEF ReplaceFieldInTemplate, Templates

LEMMA RenameGoesOn ==
  ASSUME NEW x \in RenameSet, x.name \notin x.template, x.name # x.old,
         NEW stage \in {"written", "renaming", "reverting"}, stage # "renaming" => x.old \in x.template
  PROVE  [x EXCEPT !.stage = stage] \in Edits
<1> DEFINE y == [x EXCEPT !.stage = stage]
<1>1. y \in RenameSet /\ y.name = x.name /\ y.old = x.old /\ y.template = x.template /\ y.stage = stage
  BY DEF RenameSet
<1> HIDE DEF y
<1>2. y \in Edits
  BY <1>1 DEF Edits
<1> QED
  BY <1>2 DEF y

(* Where a rename fails, numbers are as they were too.                     *)
LEMMA RenameFailsKeeps ==
  ASSUME NumbersInv, NEW e \in Editors, editing[e].stage \in {"written", "renaming"}, RenameFails(e),
         UNCHANGED <<playbooks, creations, saving>>, fields' \in [Playbooks -> SUBSET Field]
  PROVE  NumbersInv'
<1>1. playbooks' \in [Playbooks -> Row] /\ \A p \in Playbooks : playbooks'[p].next = playbooks[p].next
  BY DEF NumbersInv, TypesOK
<1>2. CASE EndFieldEdit(e)
  BY <1>1, <1>2, EditEnds
<1>3. CASE editing[e].stage = "written" /\ editing' = [editing EXCEPT ![e].stage = "reverting"]
  <2> DEFINE x == editing[e]
             y == [x EXCEPT !.stage = "reverting"]
  <2>1. x \in Edits
    BY DEF NumbersInv, TypesOK, EditingOK
  <2>2. y \in Edits
    BY <1>3, <2>1, RenameParts, RenameGoesOn
  <2>3. editing' = [editing EXCEPT ![e] = y]
    BY <1>3 DEF NumbersInv, TypesOK, EditingOK
  <2> HIDE DEF x, y
  <2> QED
    BY <1>1, <2>2, <2>3, EditMoves
<1> QED
  BY <1>2, <1>3 DEF RenameFails

(* What is done to fields leaves them fields.                              *)
LEMMA NamedFields ==
  ASSUME NEW S \in SUBSET Field, NEW id, NEW name \in Names \cup {None}
  PROVE  Named(S, id, name) \in SUBSET Field
<1> SUFFICES ASSUME NEW f \in S
             PROVE  (IF f.id = id /\ f.name # None THEN [f EXCEPT !.name = name] ELSE f) \in Field
  BY DEF Named
<1> QED
  BY DEF Field

LEMMA FieldEditKeeps ==
  ASSUME NumbersInv, NEW e \in Editors, FieldEdit(e)
  PROVE  NumbersInv'
<1> DEFINE x == editing[e]
           p == x.playbook
<1>0. /\ playbooks \in [Playbooks -> Row] /\ fields \in [Playbooks -> SUBSET Field]
      /\ editing \in [Editors -> Edits] /\ x \in Edits
  BY DEF NumbersInv, TypesOK, EditingOK
<1>1. ASSUME UNCHANGED playbooks
      PROVE  playbooks' \in [Playbooks -> Row] /\ \A b \in Playbooks : playbooks'[b].next = playbooks[b].next
  BY <1>0, <1>1
<1>2. ASSUME x.stage = "row" PROVE p \in Playbooks /\ x.template \in Templates
  BY <1>0, <1>2 DEF Edits, NotEditing, RenameSet
<1>3. ASSUME x.stage = "checked" PROVE p \in Playbooks
  BY <1>0, <1>3 DEF Edits, NotEditing, RenameSet
<1>4. ASSUME NEW q \in Playbooks, BeginFieldEdit(e, q) PROVE NumbersInv'
  <2> DEFINE y == [stage |-> "row", playbook |-> q, template |-> playbooks[q].template]
  <2>1. y \in Edits
    BY <1>0 DEF Edits, Row
  <2>2. editing' = [editing EXCEPT ![e] = y] /\ UNCHANGED <<playbooks, fields, creations, saving>>
    BY <1>4 DEF BeginFieldEdit
  <2> HIDE DEF y
  <2> QED
    BY <1>0, <1>1, <2>1, <2>2, EditMoves
<1>5. CASE FieldEditFails(e)
  BY <1>0, <1>1, <1>5, EditEnds DEF FieldEditFails
<1>6. CASE CreatePropertyField(e)
  <2>1. PICK id \in Fields, name \in Names :
          fields' = [fields EXCEPT ![p] = @ \cup {[id |-> id, name |-> name]}]
    BY <1>6 DEF CreatePropertyField
  <2>2. [id |-> id, name |-> name] \in Field
    BY DEF Field
  <2>3. fields' \in [Playbooks -> SUBSET Field]
    BY <1>0, <1>2, <1>6, <2>1, <2>2 DEF CreatePropertyField
  <2> QED
    BY <1>0, <1>1, <1>6, <2>3, EditEnds DEF CreatePropertyField
<1>7. CASE CheckDeletion(e)
  <2>1. PICK f \in PropertyFields(p) :
          editing' = [editing EXCEPT ![e] = [stage |-> "checked", playbook |-> p, id |-> f.id]]
    BY <1>7 DEF CheckDeletion
  <2>2. f.id \in Fields /\ p \in Playbooks
    BY <1>0, <1>2, <1>7 DEF CheckDeletion, PropertyFields, Field
  <2> DEFINE y == [stage |-> "checked", playbook |-> p, id |-> f.id]
  <2>3. y \in Edits
    BY <2>2 DEF Edits
  <2>4. UNCHANGED <<playbooks, fields, creations, saving>> /\ editing' = [editing EXCEPT ![e] = y]
    BY <1>7, <2>1 DEF CheckDeletion
  <2> HIDE DEF y
  <2> QED
    BY <1>0, <1>1, <2>3, <2>4, EditMoves
<1>8. CASE DeletePropertyField(e)
  <2>1. p \in Playbooks
    BY <1>3, <1>8 DEF DeletePropertyField
  <2>2. Named(fields[p], x.id, None) \in SUBSET Field
    BY <1>0, <2>1, NamedFields
  <2>3. fields' \in [Playbooks -> SUBSET Field]
    BY <1>0, <1>8, <2>1, <2>2 DEF DeletePropertyField
  <2> QED
    BY <1>0, <1>1, <1>8, <2>3, EditEnds DEF DeletePropertyField
<1>9. CASE ReadExistingField(e)
  <2>1. PICK f \in PropertyFields(p), name \in Names \ x.template :
          /\ name # f.name
          /\ editing' = [editing EXCEPT ![e] =
               [stage |-> "field", playbook |-> p, template |-> x.template,
                id |-> f.id, old |-> f.name, name |-> name]]
    BY <1>9 DEF ReadExistingField
  <2>2. f.id \in Fields /\ f.name \in Names /\ p \in Playbooks /\ x.template \in Templates
    BY <1>0, <1>2, <1>9 DEF ReadExistingField, PropertyFields, Field
  <2> DEFINE y == [stage |-> "field", playbook |-> p, template |-> x.template,
                   id |-> f.id, old |-> f.name, name |-> name]
  <2>3. y \in Edits
    BY <2>1, <2>2 DEF Edits, RenameSet
  <2>4. UNCHANGED <<playbooks, fields, creations, saving>> /\ editing' = [editing EXCEPT ![e] = y]
    BY <1>9, <2>1 DEF ReadExistingField
  <2> HIDE DEF y
  <2> QED
    BY <1>0, <1>1, <2>3, <2>4, EditMoves
<1>10. CASE WriteRenamedTemplate(e)
  <2> DEFINE stage == IF /\ x.old \in x.template /\ playbooks[p].template = x.template
                         /\ ~playbooks[p].archived THEN "written" ELSE "renaming"
             y == [x EXCEPT !.stage = stage]
  <2>1. /\ x \in RenameSet /\ x.name \notin x.template /\ x.name # x.old
        /\ p \in Playbooks /\ ReplaceFieldInTemplate(x) \in Templates
    BY <1>0, <1>10, RenameParts DEF WriteRenamedTemplate
  <2>2. y \in Edits
    <3>1. stage \in {"written", "renaming"} /\ (stage # "renaming" => x.old \in x.template)
      OBVIOUS
    <3> HIDE DEF stage
    <3> QED
      BY <2>1, <3>1, RenameGoesOn
  <2>3. editing' = [editing EXCEPT ![e] = y] /\ UNCHANGED <<fields, creations, saving>>
    BY <1>0, <1>10 DEF WriteRenamedTemplate
  <2>4. \/ UNCHANGED playbooks
        \/ UpdateChannelNameTemplateIfUnchanged(p, x.template, ReplaceFieldInTemplate(x))
    BY <1>10 DEF WriteRenamedTemplate
  <2>5. playbooks' \in [Playbooks -> Row] /\ \A b \in Playbooks : playbooks'[b].next = playbooks[b].next
    BY <1>1, <2>1, <2>4, TemplateWritten
  <2> HIDE DEF y, stage
  <2> QED
    BY <1>0, <2>2, <2>3, <2>5, EditMoves
<1>11. CASE UpdatePropertyField(e)
  <2>1. x \in RenameSet /\ p \in Playbooks /\ x.stage \in {"written", "renaming"}
    BY <1>0, <1>11, RenameParts DEF UpdatePropertyField
  <2>2. Named(fields[p], x.id, x.name) \in SUBSET Field
    BY <1>0, <2>1, NamedFields DEF RenameSet
  <2>3. fields' \in [Playbooks -> SUBSET Field]
    BY <1>0, <1>11, <2>1, <2>2 DEF UpdatePropertyField
  <2>4. UNCHANGED <<playbooks, creations, saving>> /\ (EndFieldEdit(e) \/ RenameFails(e))
    BY <1>11 DEF UpdatePropertyField
  <2> QED
    BY <1>1, <2>1, <2>3, <2>4, EditEnds, RenameFailsKeeps
<1>12. CASE RevertTemplate(e)
  <2>1. x \in RenameSet /\ p \in Playbooks
    BY <1>0, <1>12, RenameParts DEF RevertTemplate
  <2>2. x.template \in Templates
    BY <2>1 DEF RenameSet
  <2>3. \/ UNCHANGED playbooks
        \/ UpdateChannelNameTemplateIfUnchanged(p, ReplaceFieldInTemplate(x), x.template)
    BY <1>12 DEF RevertTemplate
  <2>4. playbooks' \in [Playbooks -> Row] /\ \A b \in Playbooks : playbooks'[b].next = playbooks[b].next
    BY <1>1, <2>1, <2>2, <2>3, TemplateWritten
  <2> QED
    BY <1>0, <1>12, <2>4, EditEnds DEF RevertTemplate
<1> QED
  BY <1>4, <1>5, <1>6, <1>7, <1>8, <1>9, <1>10, <1>11, <1>12 DEF FieldEdit
-----------------------------------------------------------------------------
FetchedSet == [id : Playbooks, row : Row]

FormSet == [name : {"", "typed", "template"}, mode : {"", "create", "link"},
            channel : Channels \cup {None}, values : SUBSET Fields]

DialogSet == [step : {"select", "details"}, selected : Playbooks \cup {None},
              mounted : BOOLEAN, opened : Requests \cup {None}]

SubmittingSet == [ref : BOOLEAN, state : BOOLEAN, requests : SUBSET Requests]

ModalOK ==
  /\ dialog \in DialogSet
  /\ fetched \in [Hooks -> FetchedSet \cup {None}]
  /\ attributes \in [Playbooks -> (SUBSET Field) \cup {None}]
  /\ form \in FormSet
  /\ submitting \in SubmittingSet
  /\ template \in Playbooks \cup {None}

Inv == NumbersInv /\ ModalOK /\ OneRequestAtATime

LEMMA ModalInitOK == Init => Inv
<1> SUFFICES ASSUME Init PROVE Inv
  OBVIOUS
<1>1. NumbersInv
  BY NumbersInit DEF Init
<1>2. ModalOK
  <2>1. dialog \in DialogSet
    BY DEF Init, ModalInit, DialogSet, Made
  <2>2. /\ fetched \in [Hooks -> FetchedSet \cup {None}]
        /\ attributes \in [Playbooks -> (SUBSET Field) \cup {None}]
    BY DEF Init, ModalInit
  <2>3. form \in FormSet
    BY DEF Init, ModalInit, FormSet, Blank
  <2>4. submitting \in SubmittingSet /\ template \in Playbooks \cup {None}
    BY DEF Init, ModalInit, SubmittingSet
  <2> QED
    BY <2>1, <2>2, <2>3, <2>4 DEF ModalOK
<1>3. OneRequestAtATime
  BY DEF Init, ModalInit, OneRequestAtATime
<1> QED
  BY <1>1, <1>2, <1>3 DEF Inv

(* The effect: a form of the right kind, and a button that stays disabled  *)
(* while the ref blocks it.                                                *)
LEMMA EffectOK ==
  ASSUME ModalOK, OneRequestAtATime, NEW selected, NEW f \in [Hooks -> FetchedSet \cup {None}],
         InitializeForm(selected, f), dialog'.mounted = dialog.mounted
  PROVE  form' \in FormSet /\ submitting' \in SubmittingSet /\ OneRequestAtATime'
<1>1. form \in FormSet /\ submitting \in SubmittingSet
  BY DEF ModalOK
<1>2. form' \in FormSet
  <2>1. [form EXCEPT !.name = "", !.values = {}] \in FormSet /\ [form EXCEPT !.values = {}] \in FormSet
    BY <1>1 DEF FormSet
  <2>2. ASSUME Loaded(selected, f) PROVE FormOf(f) \in FormSet
    <3>1. f.playbook \in FetchedSet
      BY <2>2 DEF Loaded, Hooks
    <3>2. f.playbook.row.channelMode \in {"link", "create"} /\ f.playbook.row.channel \in Channels \cup {None}
      BY <3>1 DEF FetchedSet, Row
    <3> QED
      BY <3>2 DEF FormOf, FormSet
  <2> QED
    BY <1>1, <2>1, <2>2 DEF InitializeForm
<1>3. submitting' = submitting \/ (~submitting.ref /\ submitting' = [submitting EXCEPT !.state = FALSE])
  BY DEF InitializeForm
<1>4. /\ submitting' \in SubmittingSet /\ submitting'.ref = submitting.ref
      /\ submitting'.requests = submitting.requests
      /\ submitting'.state = submitting.state \/ (~submitting.ref /\ submitting'.state = FALSE)
  BY <1>1, <1>3 DEF SubmittingSet
<1>5. submitting.ref \in BOOLEAN
  BY <1>1 DEF SubmittingSet
<1> QED
  BY <1>2, <1>4, <1>5 DEF OneRequestAtATime

LEMMA SelectOK ==
  ASSUME ModalOK, OneRequestAtATime, NEW p \in Playbooks, Select(p), template' \in Playbooks \cup {None}
  PROVE  ModalOK' /\ OneRequestAtATime'
<1>1. dialog \in DialogSet /\ fetched \in [Hooks -> FetchedSet \cup {None}]
  BY DEF ModalOK
<1>2. dialog' \in DialogSet /\ dialog'.mounted = dialog.mounted
  BY <1>1 DEF Select, DialogSet
<1>3. form' \in FormSet /\ submitting' \in SubmittingSet /\ OneRequestAtATime'
  BY <1>1, <1>2, EffectOK DEF Select
<1> QED
  BY <1>1, <1>2, <1>3 DEF ModalOK, Select

(* Closing the dialog or turning its pages.                                *)
LEMMA DialogOK ==
  ASSUME ModalOK, OneRequestAtATime, dialog' \in DialogSet, dialog'.mounted => dialog.mounted,
         UNCHANGED <<fetched, attributes, form, submitting>>, template' \in Playbooks \cup {None}
  PROVE  ModalOK' /\ OneRequestAtATime'
BY DEF ModalOK, OneRequestAtATime

LEMMA FetchOK ==
  ASSUME NumbersInv, ModalOK, OneRequestAtATime, NEW h \in Hooks, NEW p \in Playbooks, FetchEnds(h, p)
  PROVE  ModalOK' /\ OneRequestAtATime'
<1>1. Fetched(p) \in FetchedSet
  <2>1. playbooks[p] \in Row
    BY DEF NumbersInv, TypesOK
  <2>2. [playbooks[p] EXCEPT !.next = 0] \in Row
    BY <2>1 DEF Row
  <2> QED
    BY <2>2 DEF Fetched, FetchedSet
<1>2. fetched' \in [Hooks -> FetchedSet \cup {None}]
  BY <1>1 DEF FetchEnds, ModalOK
<1>3. InitializeForm(dialog.selected, fetched') /\ UNCHANGED <<dialog, attributes, template>>
  BY DEF FetchEnds
<1> DEFINE f == fetched'
<1>4. f \in [Hooks -> FetchedSet \cup {None}] /\ InitializeForm(dialog.selected, f)
  BY <1>2, <1>3
<1> HIDE DEF f
<1>5. form' \in FormSet /\ submitting' \in SubmittingSet /\ OneRequestAtATime'
  BY <1>3, <1>4, EffectOK
<1> QED
  BY <1>2, <1>3, <1>5 DEF ModalOK

(* What the user enters.                                                   *)
LEMMA EntryOK ==
  ASSUME ModalOK, OneRequestAtATime,
         SetRunName \/ SetPropertyValue \/ (\E mode \in {"link", "create"} : HandleSetChannelMode(mode))
           \/ (\E c \in Channels \cup {None} : SetChannelId(c))
  PROVE  ModalOK' /\ OneRequestAtATime'
<1>1. form \in FormSet
  BY DEF ModalOK
<1>2. /\ form' \in FormSet
      /\ UNCHANGED <<dialog, fetched, attributes, submitting, template>>
  <2>1. CASE SetRunName
    BY <1>1, <2>1 DEF SetRunName, EditForm, FormSet
  <2>2. CASE SetPropertyValue
    <3>1. PICK f \in TemplateFields : \E values \in {form.values \cup {f.id}, form.values \ {f.id}} :
            EditForm([form EXCEPT !.values = values])
      BY <2>2 DEF SetPropertyValue
    <3>2. f.id \in Fields
      <4>1. dialog.selected # None /\ attributes[dialog.selected] # None /\ f \in attributes[dialog.selected]
        BY DEF TemplateFields, AttributesOf
      <4>2. dialog.selected \in Playbooks
        BY <4>1 DEF ModalOK, DialogSet
      <4> QED
        BY <4>1, <4>2 DEF ModalOK, Field
    <3>3. form.values \subseteq Fields
      BY <1>1 DEF FormSet
    <3> QED
      BY <1>1, <3>1, <3>2, <3>3 DEF EditForm, FormSet
  <2>3. ASSUME NEW mode \in {"link", "create"}, HandleSetChannelMode(mode)
        PROVE  form' \in FormSet /\ UNCHANGED <<dialog, fetched, attributes, submitting, template>>
    BY <1>1, <2>3, CurrentChannelAssumption DEF HandleSetChannelMode, EditForm, FormSet
  <2>4. ASSUME NEW c \in Channels \cup {None}, SetChannelId(c)
        PROVE  form' \in FormSet /\ UNCHANGED <<dialog, fetched, attributes, submitting, template>>
    BY <1>1, <2>4 DEF SetChannelId, EditForm, FormSet
  <2> QED
    BY <2>1, <2>2, <2>3, <2>4
<1> QED
  BY <1>2 DEF ModalOK, OneRequestAtATime

(* What a submission sends is a request of the picked playbook.            *)
LEMMA SubmittedRequest ==
  ASSUME Inv, NEW r \in Requests, OnSubmit(r)
  PROVE  Request(dialog.selected, form.name,
                 IF form.mode = "link" THEN form.channel ELSE None, form.values) \in RequestSet
<1>1. Loaded(dialog.selected, fetched)
  BY DEF OnSubmit
<1>2. fetched.playbook \in FetchedSet /\ fetched.playbook.id = dialog.selected
  BY <1>1 DEF Inv, ModalOK, Loaded, Hooks
<1>3. form \in FormSet /\ dialog.selected \in Playbooks
  BY <1>2 DEF Inv, ModalOK, FetchedSet
<1> QED
  BY <1>3 DEF Request, RequestSet, FormSet

(* A submission is made when the ref lets it, and sets both halves.        *)
LEMMA SubmitOK ==
  ASSUME Inv, NEW r \in Requests, OnSubmit(r)
  PROVE  Inv'
<1>1. submitting \in SubmittingSet
  BY DEF Inv, ModalOK
<1> DEFINE request == Request(dialog.selected, form.name,
                              IF form.mode = "link" THEN form.channel ELSE None, form.values)
<1>2. request \in RequestSet
  BY SubmittedRequest
<1>3. Receive(r, request)
  BY DEF OnSubmit
<1> HIDE DEF request
<1>4. NumbersInv'
  BY <1>2, <1>3, ReceiveKeeps DEF Inv
<1>5. submitting.requests = {} /\ submitting' = [ref |-> TRUE, state |-> TRUE, requests |-> {r}]
  BY <1>1 DEF OnSubmit, Inv, OneRequestAtATime, SubmittingSet
<1>6. ModalOK'
  BY <1>5 DEF OnSubmit, Inv, ModalOK, SubmittingSet
<1>7. OneRequestAtATime'
  BY <1>5 DEF OneRequestAtATime
<1> QED
  BY <1>4, <1>6, <1>7 DEF Inv

(* The answer frees the ref, and the button where it is still shown.       *)
LEMMA AnswerOK ==
  ASSUME ModalOK, OneRequestAtATime, NEW r \in Requests, RunCreated(r) \/ SubmitFails(r)
  PROVE  ModalOK' /\ OneRequestAtATime'
<1>1. submitting \in SubmittingSet /\ dialog \in DialogSet
  BY DEF ModalOK
<1>2. r \in submitting.requests /\ ResetSubmitting(r) /\ UNCHANGED <<fetched, attributes, form, template>>
  BY DEF RunCreated, SubmitFails
<1>3. submitting.requests \ {r} = {} /\ submitting.ref = TRUE
  BY <1>1, <1>2 DEF OneRequestAtATime, SubmittingSet
<1>4. submitting' = [ref |-> FALSE, state |-> submitting.state /\ ~dialog.mounted, requests |-> {}]
  BY <1>2, <1>3 DEF ResetSubmitting
<1>5. dialog' \in DialogSet /\ (dialog'.mounted => dialog.mounted)
  BY <1>1 DEF RunCreated, SubmitFails, DialogSet
<1>6. submitting' \in SubmittingSet
  BY <1>1, <1>4 DEF SubmittingSet, DialogSet
<1>7. OneRequestAtATime'
  BY <1>1, <1>4, <1>5 DEF OneRequestAtATime, SubmittingSet, DialogSet
<1> QED
  BY <1>2, <1>5, <1>6, <1>7 DEF ModalOK

LEMMA InvStep ==
  ASSUME Inv, Next
  PROVE  Inv'
<1>0. NumbersInv /\ ModalOK /\ OneRequestAtATime
  BY DEF Inv
<1>1. CASE Elsewhere
  <2>1. ModalOK' /\ OneRequestAtATime'
    BY <1>0, <1>1 DEF Elsewhere, modalVars, ModalOK, OneRequestAtATime
  <2>2. ASSUME NEW r \in Requests, CreationStep(r) PROVE NumbersInv'
    BY <1>0, <2>2, CreationKeeps
  <2>3. ASSUME NEW r \in Requests, StartElsewhere(r) PROVE NumbersInv'
    <3>0. PICK p \in Made : \E v \in {{}, IdsOf(PropertyFields(p))} : Receive(r, Request(p, "typed", None, v))
      BY <2>3 DEF StartElsewhere
    <3>1. PICK values \in {{}, IdsOf(PropertyFields(p))} : Receive(r, Request(p, "typed", None, values))
      BY <3>0
    <3>2. p \in Playbooks /\ values \subseteq Fields
      BY <1>0 DEF Made, IdsOf, PropertyFields, Field, NumbersInv, TypesOK
    <3>3. Request(p, "typed", None, values) \in RequestSet
      BY <3>2 DEF Request, RequestSet
    <3> QED
      BY <1>0, <3>1, <3>3, ReceiveKeeps
  <2>4. ASSUME NEW p \in Playbooks,
               BeginSave(p) \/ SavePlaybook(p) \/ ArchivePlaybook(p)
        PROVE  NumbersInv'
    BY <1>0, <2>4, SaveKeeps
  <2>5. ASSUME NEW e \in Editors, FieldEdit(e) PROVE NumbersInv'
    BY <1>0, <2>5, FieldEditKeeps
  <2> QED
    BY <1>1, <2>1, <2>2, <2>3, <2>4, <2>5 DEF Elsewhere, Inv
<1>2. ASSUME NEW p \in Playbooks, SelectPlaybook(p) PROVE Inv'
  <2>1. ModalOK' /\ OneRequestAtATime'
    BY <1>0, <1>2, SelectOK DEF SelectPlaybook, ModalOK
  <2> QED
    BY <1>0, <1>2, <2>1, NumbersUntouched DEF SelectPlaybook, Inv
<1>3. ASSUME NEW p \in Playbooks, CreateFromTemplate(p) PROVE Inv'
  <2>1. ModalOK' /\ OneRequestAtATime'
    BY <1>0, <1>3 DEF CreateFromTemplate, ModalOK, OneRequestAtATime
  <2>2. NumbersInv'
    <3> DEFINE row == [playbooks[p] EXCEPT !.made = TRUE]
    <3>1. playbooks \in [Playbooks -> Row] /\ playbooks[p] \in Row
      BY <1>0 DEF NumbersInv, TypesOK
    <3>2. row \in Row /\ row.next = playbooks[p].next
      BY <3>1 DEF Row
    <3>3. playbooks' = [playbooks EXCEPT ![p] = row]
      BY <1>3, <3>1 DEF CreateFromTemplate
    <3> HIDE DEF row
    <3>4. playbooks' \in [Playbooks -> Row] /\ \A b \in Playbooks : playbooks'[b].next = playbooks[b].next
      BY <3>1, <3>2, <3>3
    <3>5. TypesOK'
      BY <1>0, <1>3, <3>4 DEF CreateFromTemplate, NumbersInv, TypesOK, SavingOK, EditingOK, Carried
    <3> QED
      BY <1>0, <1>3, <3>4, <3>5, NumbersKept DEF CreateFromTemplate
  <2> QED
    BY <2>1, <2>2 DEF Inv
<1>4. ASSUME NEW h \in Hooks, NEW p \in Playbooks, FetchEnds(h, p) PROVE Inv'
  BY <1>0, <1>4, FetchOK, NumbersUntouched DEF FetchEnds, Inv
<1>5. CASE SelectCreated
  <2>1. CASE dialog.mounted
    BY <1>0, <1>5, <2>1, SelectOK, NumbersUntouched DEF SelectCreated, ModalOK, Inv
  <2>2. CASE ~dialog.mounted
    <3>1. ModalOK' /\ OneRequestAtATime'
      BY <1>0, <1>5, <2>2 DEF SelectCreated, ModalOK, OneRequestAtATime
    <3> QED
      BY <1>0, <1>5, <3>1, NumbersUntouched DEF SelectCreated, Inv
  <2> QED
    BY <2>1, <2>2
<1>6. CASE Back \/ Hide
  <2>1. dialog \in DialogSet /\ template \in Playbooks \cup {None}
    BY <1>0 DEF ModalOK
  <2>2. dialog' \in DialogSet /\ (dialog'.mounted => dialog.mounted)
    BY <1>6, <2>1 DEF Back, Hide, DialogSet
  <2>3. UNCHANGED <<serverVars, fetched, attributes, form, submitting, template>>
    BY <1>6 DEF Back, Hide
  <2> QED
    BY <1>0, <2>1, <2>2, <2>3, DialogOK, NumbersUntouched DEF Inv
<1>7. CASE AttributesArrive
  <2>1. ModalOK' /\ OneRequestAtATime'
    <3>1. PropertyFields(dialog.selected) \in SUBSET Field
      BY <1>0, <1>7 DEF AttributesArrive, Picked, ModalOK, DialogSet, PropertyFields, NumbersInv, TypesOK
    <3> QED
      BY <1>0, <1>7, <3>1 DEF AttributesArrive, ModalOK, OneRequestAtATime
  <2> QED
    BY <1>0, <1>7, <2>1, NumbersUntouched DEF AttributesArrive, Inv
<1>8. CASE \/ SetRunName \/ SetPropertyValue
           \/ \E mode \in {"link", "create"} : HandleSetChannelMode(mode)
           \/ \E c \in Channels \cup {None} : SetChannelId(c)
  <2>1. UNCHANGED serverVars
    BY <1>8 DEF SetRunName, SetPropertyValue, HandleSetChannelMode, SetChannelId, EditForm
  <2> QED
    BY <1>0, <1>8, <2>1, EntryOK, NumbersUntouched DEF Inv
<1>9. ASSUME NEW r \in Requests, OnSubmit(r) PROVE Inv'
  BY <1>9, SubmitOK
<1>10. ASSUME NEW r \in Requests, RunCreated(r) \/ SubmitFails(r) PROVE Inv'
  <2>1. UNCHANGED serverVars
    BY <1>10 DEF RunCreated, SubmitFails
  <2> QED
    BY <1>0, <1>10, <2>1, AnswerOK, NumbersUntouched DEF Inv
<1> QED
  BY <1>1, <1>2, <1>3, <1>4, <1>5, <1>6, <1>7, <1>8, <1>9, <1>10 DEF Next

LEMMA Invariance == Spec => []Inv
<1>1. Inv /\ UNCHANGED vars => Inv'
  <2> SUFFICES ASSUME Inv, UNCHANGED vars PROVE Inv'
    OBVIOUS
  <2>1. ModalOK' /\ OneRequestAtATime'
    BY DEF Inv, vars, modalVars, ModalOK, OneRequestAtATime
  <2> QED
    BY <2>1, NumbersUntouched DEF vars, Inv
<1>2. Inv /\ [Next]_vars => Inv'
  BY <1>1, InvStep
<1> QED
  BY <1>2, ModalInitOK, PTL DEF Spec

(* However many runs of a playbook are made at a time, and whatever is     *)
(* saved meanwhile, no two get the same number.                            *)
THEOREM NumbersNeverRepeat == Spec => []NumbersAreUnique
<1>1. Inv => NumbersAreUnique
  BY DEF Inv, NumbersInv
<1> QED
  BY <1>1, Invariance, PTL

(* The dialog has one request at a time, whatever is picked meanwhile, and *)
(* its button is enabled only where the ref lets a submission through.     *)
THEOREM OneRequest == Spec => []OneRequestAtATime
<1>1. Inv => OneRequestAtATime
  BY DEF Inv
<1> QED
  BY <1>1, Invariance, PTL
-----------------------------------------------------------------------------
(* What a step other than a save may do to the template of a playbook.     *)
Gone(p) == playbooks[p].template \ playbooks'[p].template
Came(p) == playbooks'[p].template \ playbooks[p].template

EditKept(p) ==
  \/ Gone(p) = {} /\ Came(p) = {}
  \/ saving' # saving /\ saving.playbook = p
  \/ \E r \in Requests :
       /\ creations'[r] # creations[r] /\ creations[r].request.playbook = p
       /\ Came(p) = {} /\ Gone(p) \cap (NamesOf(creations[r].fields) \cup {SEQ}) = {}
  \/ \E e \in Editors :
       /\ editing'[e] # editing[e] /\ editing[e].playbook = p
       /\ Gone(p) \cup Came(p) = {editing[e].old, editing[e].name}

EditsKept == \A p \in Playbooks : EditKept(p)

LEMMA SameTemplates ==
  ASSUME \A p \in Playbooks : playbooks'[p].template = playbooks[p].template
  PROVE  EditsKept
BY DEF EditsKept, EditKept, Gone, Came

(* A row of which only other columns change.                               *)
LEMMA OtherColumns ==
  ASSUME Inv, NEW p \in Playbooks, NEW row, row.template = playbooks[p].template,
         playbooks' = [playbooks EXCEPT ![p] = row]
  PROVE  EditsKept
<1>1. playbooks \in [Playbooks -> Row]
  BY DEF Inv, NumbersInv, TypesOK
<1> QED
  BY <1>1, SameTemplates

(* The conditional write: nothing, or the new template where the old was.  *)
LEMMA WrittenIfUnchanged ==
  ASSUME Inv, NEW p \in Playbooks, NEW old, NEW new,
         UpdateChannelNameTemplateIfUnchanged(p, old, new)
  PROVE  /\ \A q \in Playbooks \ {p} : Gone(q) = {} /\ Came(q) = {}
         /\ \/ Gone(p) = {} /\ Came(p) = {}
            \/ Gone(p) = old \ new /\ Came(p) = new \ old
<1>1. playbooks \in [Playbooks -> Row]
  BY DEF Inv, NumbersInv, TypesOK
<1>2. CASE UNCHANGED playbooks
  BY <1>2 DEF Gone, Came
<1>3. CASE ~UNCHANGED playbooks
  <2> DEFINE row == [playbooks[p] EXCEPT !.template = new]
  <2>1. playbooks[p].template = old /\ playbooks' = [playbooks EXCEPT ![p] = row]
    BY <1>1, <1>3 DEF UpdateChannelNameTemplateIfUnchanged
  <2>2. row.template = new
    BY <1>1 DEF Row
  <2> HIDE DEF row
  <2> QED
    BY <1>1, <2>1, <2>2 DEF Gone, Came
<1> QED
  BY <1>2, <1>3

(* The cleaning: its creation goes on with it.                             *)
LEMMA CleaningKeepsEdits ==
  ASSUME Inv, NEW r \in Requests, PrepareTemplate(r)
  PROVE  EditsKept
<1> DEFINE c == creations[r]
           p == c.request.playbook
<1>1. /\ creations \in [Requests -> Creation] /\ c \in Creation /\ p \in Playbooks
      /\ c.stage \in {"try", "prepare"}
  BY DEF PrepareTemplate, Inv, NumbersInv, TypesOK, Carried, Reading, RequestSet
<1>2. CASE UNCHANGED playbooks
  BY <1>2, SameTemplates
<1>3. CASE UpdateChannelNameTemplateIfUnchanged(p, c.read.template, Cleaned(c))
  <2>1. (c.read.template \ Cleaned(c)) \cap (NamesOf(c.fields) \cup {SEQ}) = {}
        /\ Cleaned(c) \ c.read.template = {}
    BY DEF Cleaned
  <2>2. PICK prepared : DryRun(r, prepared)
    BY DEF PrepareTemplate
  <2>3. creations'[r] # c
    <3>1. PICK stage \in {"tried", "number", "failed"} : creations'[r].stage = stage
      BY <1>1, <2>2 DEF DryRun, Refused, MovesTo, Creation
    <3> QED
      BY <1>1, <3>1
  <2>4. /\ \A q \in Playbooks \ {p} : Gone(q) = {} /\ Came(q) = {}
        /\ \/ Gone(p) = {} /\ Came(p) = {}
           \/ Gone(p) = c.read.template \ Cleaned(c) /\ Came(p) = Cleaned(c) \ c.read.template
    BY <1>1, <1>3, WrittenIfUnchanged
  <2>5. EditKept(p)
    <3>1. CASE Gone(p) = {} /\ Came(p) = {}
      BY <3>1 DEF EditKept
    <3>2. CASE Came(p) = {} /\ Gone(p) \cap (NamesOf(c.fields) \cup {SEQ}) = {}
      BY <2>3, <3>2 DEF EditKept
    <3> QED
      BY <2>1, <2>4, <3>1, <3>2
  <2> QED
    BY <2>4, <2>5 DEF EditsKept, EditKept
<1> QED
  BY <1>2, <1>3 DEF PrepareTemplate

(* A rename's exchange of the two names, and its taking back.              *)
LEMMA RenameKeepsEdits ==
  ASSUME Inv, NEW e \in Editors, WriteRenamedTemplate(e) \/ RevertTemplate(e)
  PROVE  EditsKept
<1> DEFINE x == editing[e]
           p == x.playbook
           new == ReplaceFieldInTemplate(x)
<1>1. editing \in [Editors -> Edits] /\ x \in Edits
  BY DEF Inv, NumbersInv, TypesOK, EditingOK
<1>2. /\ x \in RenameSet /\ x.name \notin x.template /\ x.name # x.old
      /\ x.stage \in {"written", "reverting"} => x.old \in x.template
      /\ p \in Playbooks /\ x.stage \in {"field", "reverting"}
  BY <1>1, RenameParts DEF WriteRenamedTemplate, RevertTemplate
<1>3. CASE UNCHANGED playbooks
  BY <1>3, SameTemplates
<1>4. CASE ~UNCHANGED playbooks
  <2>1. /\ x.old \in x.template
        /\ \/ UpdateChannelNameTemplateIfUnchanged(p, x.template, new)
           \/ UpdateChannelNameTemplateIfUnchanged(p, new, x.template)
    BY <1>2, <1>4 DEF WriteRenamedTemplate, RevertTemplate
  <2>2. x.template \ new = {x.old} /\ new \ x.template = {x.name}
    BY <1>2, <2>1 DEF ReplaceFieldInTemplate
  <2> HIDE DEF new
  <2>3. /\ \A q \in Playbooks \ {p} : Gone(q) = {} /\ Came(q) = {}
        /\ \/ Gone(p) = {} /\ Came(p) = {}
           \/ Gone(p) \cup Came(p) = {x.old, x.name}
    BY <1>2, <2>1, <2>2, WrittenIfUnchanged
  <2>4. editing'[e] # x
    <3>1. CASE WriteRenamedTemplate(e)
      <4>1. x.stage = "field" /\ editing'[e].stage \in {"written", "renaming"}
        BY <1>1, <1>2, <3>1 DEF WriteRenamedTemplate, RenameSet
      <4> QED
        BY <4>1
    <3>2. CASE RevertTemplate(e)
      <4>1. x.stage = "reverting" /\ editing'[e] = NotEditing
        BY <1>1, <3>2 DEF RevertTemplate, EndFieldEdit
      <4> QED
        BY <4>1 DEF NotEditing
    <3> QED
      BY <3>1, <3>2
  <2> QED
    BY <2>3, <2>4 DEF EditsKept, EditKept
<1> QED
  BY <1>3, <1>4

LEMMA SaveKeepsEdits ==
  ASSUME Inv, NEW p \in Playbooks, SavePlaybook(p)
  PROVE  EditsKept
<1>1. saving' # saving /\ saving.playbook = p
  BY DEF SavePlaybook
<1>2. \A q \in Playbooks \ {p} : playbooks'[q] = playbooks[q]
  BY DEF SavePlaybook, Inv, NumbersInv, TypesOK
<1> QED
  BY <1>1, <1>2 DEF EditsKept, EditKept, Gone, Came

LEMMA StepKeepsEdits ==
  ASSUME Inv, Next
  PROVE  EditsKept
<1>0. playbooks \in [Playbooks -> Row]
  BY DEF Inv, NumbersInv, TypesOK
<1>1. ASSUME UNCHANGED playbooks PROVE EditsKept
  BY <1>1, SameTemplates
<1>2. CASE Elsewhere
  <2>1. ASSUME NEW r \in Requests, CreationStep(r) PROVE EditsKept
    <3>1. CASE PrepareTemplate(r)
      BY <3>1, CleaningKeepsEdits
    <3>2. CASE IncrementRunNumber(r)
      <4> DEFINE p == creations[r].request.playbook
                 row == [playbooks[p] EXCEPT !.next = @ + 1]
      <4>1. p \in Playbooks
        BY <3>2 DEF IncrementRunNumber, Inv, NumbersInv, TypesOK, Carried, RequestSet
      <4>2. UNCHANGED playbooks \/ playbooks' = [playbooks EXCEPT ![p] = row]
        BY <1>0, <3>2, <4>1 DEF IncrementRunNumber
      <4>3. row.template = playbooks[p].template
        BY <1>0, <4>1 DEF Row
      <4> HIDE DEF row, p
      <4> QED
        BY <1>1, <4>1, <4>2, <4>3, OtherColumns
    <3>3. CASE Read(r) \/ LoadTemplateFields(r) \/ Reread(r) \/ StoreRun(r) \/ FinishCreation(r)
      BY <1>1, <3>3 DEF Read, LoadTemplateFields, Reread, StoreRun, FinishCreation
    <3> QED
      BY <2>1, <3>1, <3>2, <3>3 DEF CreationStep
  <2>2. ASSUME NEW p \in Playbooks, ArchivePlaybook(p) PROVE EditsKept
    <3> DEFINE row == [playbooks[p] EXCEPT !.archived = TRUE]
    <3>1. playbooks' = [playbooks EXCEPT ![p] = row]
      BY <1>0, <2>2 DEF ArchivePlaybook
    <3>2. row.template = playbooks[p].template
      BY <1>0 DEF Row
    <3> HIDE DEF row
    <3> QED
      BY <3>1, <3>2, OtherColumns
  <2>3. ASSUME NEW p \in Playbooks, SavePlaybook(p) PROVE EditsKept
    BY <2>3, SaveKeepsEdits
  <2>4. ASSUME NEW p \in Playbooks, BeginSave(p) PROVE EditsKept
    BY <1>1, <2>4 DEF BeginSave
  <2>5. ASSUME NEW r \in Requests, StartElsewhere(r) PROVE EditsKept
    BY <1>1, <2>5 DEF StartElsewhere, Receive
  <2>6. ASSUME NEW e \in Editors, FieldEdit(e) PROVE EditsKept
    <3>1. CASE WriteRenamedTemplate(e) \/ RevertTemplate(e)
      BY <3>1, RenameKeepsEdits
    <3>2. CASE ~(WriteRenamedTemplate(e) \/ RevertTemplate(e))
      BY <1>1, <2>6, <3>2 DEF FieldEdit, BeginFieldEdit, FieldEditFails, CreatePropertyField, CheckDeletion,
           DeletePropertyField, ReadExistingField, UpdatePropertyField
    <3> QED
      BY <3>1, <3>2
  <2> QED
    BY <1>2, <2>1, <2>2, <2>3, <2>4, <2>5, <2>6 DEF Elsewhere
<1>3. ASSUME NEW p \in Playbooks, CreateFromTemplate(p) PROVE EditsKept
  <2> DEFINE row == [playbooks[p] EXCEPT !.made = TRUE]
  <2>1. playbooks' = [playbooks EXCEPT ![p] = row]
    BY <1>0, <1>3 DEF CreateFromTemplate
  <2>2. row.template = playbooks[p].template
    BY <1>0 DEF Row
  <2> HIDE DEF row
  <2> QED
    BY <2>1, <2>2, OtherColumns
<1>4. CASE ~Elsewhere /\ ~(\E p \in Playbooks : CreateFromTemplate(p))
  BY <1>1, <1>4 DEF Next, serverVars, SelectPlaybook, FetchEnds, SelectCreated, Back, Hide, AttributesArrive,
       SetRunName, SetPropertyValue, HandleSetChannelMode, SetChannelId, EditForm, OnSubmit, Receive,
       RunCreated, SubmitFails
<1> QED
  BY <1>2, <1>3, <1>4

(* However many runs, saves and edits of fields overlap, neither the       *)
(* cleaning of a template nor a rename overwrites what was saved since the *)
(* row was read, and the cleaning takes out no name that a field had when  *)
(* the run read the fields.                                                *)
THEOREM CleaningIsSafe == Spec => HealRemovesGhosts
<1>1. Inv /\ [Next]_vars => [EditsKept]_serverVars
  BY StepKeepsEdits DEF vars
<1>2. Spec => [][EditsKept]_serverVars
  BY <1>1, Invariance, PTL DEF Spec
<1> QED
  BY <1>2 DEF EditsKept, EditKept, Gone, Came, HealRemovesGhosts
-----------------------------------------------------------------------------
(* The form goes with what the dialog shows: its key is that of the loaded *)
(* playbook, and none before it is loaded; it links no channel where that  *)
(* is not allowed; and its values are of the picked playbook's fields.     *)
KeyShown ==
  /\ key = IF Loaded(dialog.selected, fetched) THEN InitializationKey(fetched) ELSE None
  /\ Loaded(dialog.selected, fetched) /\ NewChannelOnly(fetched.rest) => form.mode = "create"

ValuesShown == form.values \subseteq IdsOf(AttributesOf(dialog.selected))

FormInv == Inv /\ KeyShown /\ ValuesShown

(* Two fetched playbooks with the same key are the same one, and want the  *)
(* same kind of channel; and no key is null.                               *)
LEMMA KeyTells ==
  ASSUME NEW f \in [Hooks -> FetchedSet \cup {None}], NEW g \in [Hooks -> FetchedSet \cup {None}],
         f.playbook # None
  PROVE  /\ InitializationKey(f) # None
         /\ g.playbook # None /\ InitializationKey(f) = InitializationKey(g) =>
              f.playbook.id = g.playbook.id /\ NewChannelOnly(f.rest) = NewChannelOnly(g.rest)
<1>1. f.playbook \in FetchedSet /\ (f.rest = None \/ f.rest \in FetchedSet)
  BY DEF Hooks
<1>2. InitializationKey(f) \in Keys
  BY <1>1 DEF InitializationKey, Keys, FetchedSet, Row, NewChannelOnly
<1>3. InitializationKey(f) # None
  BY <1>2, KeyAssumption
<1>4. ASSUME g.playbook # None, InitializationKey(f) = InitializationKey(g)
      PROVE  f.playbook.id = g.playbook.id /\ NewChannelOnly(f.rest) = NewChannelOnly(g.rest)
  BY <1>4 DEF InitializationKey
<1> QED
  BY <1>3, <1>4

LEMMA RecordParts ==
  ASSUME NEW N, NEW M, NEW C, NEW V, NEW g \in [name : N, mode : M, channel : C, values : V], NEW n
  PROVE  /\ [g EXCEPT !.name = n, !.values = {}].mode = g.mode
         /\ [g EXCEPT !.name = n, !.values = {}].values = {}
         /\ [g EXCEPT !.values = {}].mode = g.mode
         /\ [g EXCEPT !.values = {}].values = {}
OBVIOUS

(* What the effect leaves of the form.                                     *)
LEMMA EffectForm ==
  ASSUME ModalOK, NEW selected, NEW f, InitializeForm(selected, f)
  PROVE  \/ ~Changed(selected, f) /\ form' = form /\ key' = key
         \/ /\ Changed(selected, f) /\ ~Loaded(selected, f)
            /\ form'.values = {} /\ key' = None
         \/ /\ Changed(selected, f) /\ Loaded(selected, f) /\ InitializationKey(f) = key
            /\ form'.mode = form.mode /\ form'.values = {} /\ key' = key
         \/ /\ Changed(selected, f) /\ Loaded(selected, f)
            /\ form' = FormOf(f) /\ key' = InitializationKey(f)
<1>1. PICK n : form' = IF ~Changed(selected, f) THEN form
                       ELSE IF ~Loaded(selected, f) THEN [form EXCEPT !.name = n, !.values = {}]
                       ELSE IF InitializationKey(f) = key THEN [form EXCEPT !.values = {}]
                       ELSE FormOf(f)
  BY Zenon DEF InitializeForm
<1>2. key' = IF ~Changed(selected, f) THEN key
             ELSE IF ~Loaded(selected, f) THEN None ELSE InitializationKey(f)
  BY DEF InitializeForm
<1>3. \E N, M, C, V : form \in [name : N, mode : M, channel : C, values : V]
  BY Zenon DEF ModalOK, FormSet
<1>4. /\ [form EXCEPT !.name = n, !.values = {}].values = {}
      /\ [form EXCEPT !.values = {}].mode = form.mode
      /\ [form EXCEPT !.values = {}].values = {}
  BY <1>3, RecordParts
<1> QED
  BY <1>1, <1>2, <1>4

LEMMA FormOfParts ==
  ASSUME NEW f
  PROVE  FormOf(f).values = {} /\ (NewChannelOnly(f.rest) => FormOf(f).mode = "create")
BY Zenon DEF FormOf

(* The effect, whatever the new selection and the answer that came.        *)
LEMMA EffectKeepsForm ==
  ASSUME Inv, KeyShown, ValuesShown, NEW selected, NEW f \in [Hooks -> FetchedSet \cup {None}],
         InitializeForm(selected, f), dialog'.selected = selected, fetched' = f, UNCHANGED attributes
  PROVE  KeyShown' /\ ValuesShown'
<1>1. ModalOK /\ fetched \in [Hooks -> FetchedSet \cup {None}]
  BY DEF Inv, ModalOK
<1>2. CASE ~Changed(selected, f) /\ form' = form /\ key' = key
  <2>1. selected = dialog.selected /\ IdOf(f.playbook) = IdOf(fetched.playbook)
        /\ InitializationKey(f) = InitializationKey(fetched)
    BY <1>2 DEF Changed
  <2>2. ValuesShown'
    BY <1>2, <2>1 DEF ValuesShown, AttributesOf
  <2>3. (f.playbook = None) = (fetched.playbook = None)
    BY <1>1, <2>1, KeyTells DEF InitializationKey
  <2>4. Loaded(selected, f) = Loaded(dialog.selected, fetched)
    BY <2>1, <2>3 DEF IdOf, Loaded
  <2>5. Loaded(selected, f) => NewChannelOnly(f.rest) = NewChannelOnly(fetched.rest)
    BY <1>1, <2>1, <2>3, KeyTells DEF Loaded
  <2> QED
    BY <1>2, <2>1, <2>2, <2>4, <2>5 DEF KeyShown
<1>3. CASE ~Loaded(selected, f) /\ form'.values = {} /\ key' = None
  BY <1>3 DEF KeyShown, ValuesShown
<1>4. CASE /\ Loaded(selected, f) /\ InitializationKey(f) = key
           /\ form'.mode = form.mode /\ form'.values = {} /\ key' = key
  <2>1. key # None
    BY <1>4, KeyTells DEF Loaded
  <2>2. Loaded(dialog.selected, fetched) /\ InitializationKey(fetched) = InitializationKey(f)
    BY <1>4, <2>1 DEF KeyShown
  <2>3. NewChannelOnly(f.rest) = NewChannelOnly(fetched.rest)
    BY <1>1, <1>4, <2>2, KeyTells DEF Loaded
  <2> QED
    BY <1>4, <2>2, <2>3 DEF KeyShown, ValuesShown
<1>5. CASE Loaded(selected, f) /\ form' = FormOf(f) /\ key' = InitializationKey(f)
  BY <1>5, FormOfParts DEF KeyShown, ValuesShown
<1> QED
  BY <1>1, <1>2, <1>3, <1>4, <1>5, EffectForm

(* Where neither the selection, nor what was fetched, nor the form changes. *)
LEMMA FormUntouched ==
  ASSUME KeyShown, ValuesShown, dialog'.selected = dialog.selected,
         UNCHANGED <<fetched, attributes, form, key>>
  PROVE  KeyShown' /\ ValuesShown'
BY DEF KeyShown, ValuesShown, AttributesOf

LEMMA SelectKeepsForm ==
  ASSUME Inv, KeyShown, ValuesShown, NEW p \in Playbooks, Select(p)
  PROVE  KeyShown' /\ ValuesShown'
<1>1. fetched \in [Hooks -> FetchedSet \cup {None}] /\ dialog \in DialogSet
  BY DEF Inv, ModalOK
<1>2. dialog'.selected = p /\ fetched' = fetched /\ attributes' = attributes /\ InitializeForm(p, fetched)
  BY <1>1 DEF Select, DialogSet
<1> QED
  BY <1>1, <1>2, EffectKeepsForm

LEMMA FetchKeepsForm ==
  ASSUME Inv, KeyShown, ValuesShown, NEW h \in Hooks, NEW p \in Playbooks, FetchEnds(h, p)
  PROVE  KeyShown' /\ ValuesShown'
<1> DEFINE f == fetched'
<1>1. f \in [Hooks -> FetchedSet \cup {None}]
  BY FetchOK DEF Inv, ModalOK
<1>2. InitializeForm(dialog.selected, f) /\ UNCHANGED <<dialog, attributes>> /\ fetched' = f
  BY DEF FetchEnds
<1> HIDE DEF f
<1> QED
  BY <1>1, <1>2, EffectKeepsForm

(* What the user enters: a value is of a field of the picked playbook, and *)
(* linking is refused where only new channels are wanted.                  *)
LEMMA EntryKeepsForm ==
  ASSUME Inv, KeyShown, ValuesShown,
         SetRunName \/ SetPropertyValue \/ (\E mode \in {"link", "create"} : HandleSetChannelMode(mode))
           \/ (\E c \in Channels \cup {None} : SetChannelId(c))
  PROVE  KeyShown' /\ ValuesShown'
<1>1. PICK N, M, C, V : form \in [name : N, mode : M, channel : C, values : V]
  BY Zenon DEF Inv, ModalOK, FormSet
<1>2. UNCHANGED <<dialog, fetched, attributes, key>>
  BY DEF SetRunName, SetPropertyValue, HandleSetChannelMode, SetChannelId, EditForm
<1>3. /\ form'.values \subseteq form.values \cup IdsOf(AttributesOf(dialog.selected))
      /\ form'.mode = form.mode \/ (NewChannelOnly(fetched.rest) => form'.mode = "create")
  <2>1. CASE SetRunName
    <3>1. PICK n : form' = [form EXCEPT !.name = n]
      BY <2>1, Zenon DEF SetRunName, EditForm
    <3> QED
      BY <1>1, <3>1
  <2>2. CASE SetPropertyValue
    <3>1. PICK v \in TemplateFields :
            \/ form' = [form EXCEPT !.values = form.values \cup {v.id}]
            \/ form' = [form EXCEPT !.values = form.values \ {v.id}]
      BY <2>2 DEF SetPropertyValue, EditForm
    <3>2. v.id \in IdsOf(AttributesOf(dialog.selected))
      BY DEF TemplateFields, IdsOf
    <3> QED
      BY <1>1, <3>1, <3>2
  <2>3. ASSUME NEW mode \in {"link", "create"}, HandleSetChannelMode(mode)
        PROVE  form'.values = form.values /\ (NewChannelOnly(fetched.rest) => form'.mode = "create")
    <3>1. PICK c : form' = [form EXCEPT !.mode = mode, !.channel = c]
      BY <2>3 DEF HandleSetChannelMode, EditForm
    <3>2. NewChannelOnly(fetched.rest) => mode = "create"
      BY <2>3 DEF HandleSetChannelMode
    <3> QED
      BY <1>1, <3>1, <3>2
  <2>4. ASSUME NEW c \in Channels \cup {None}, SetChannelId(c)
        PROVE  form'.values = form.values /\ form'.mode = form.mode
    BY <1>1, <2>4 DEF SetChannelId, EditForm
  <2> QED
    BY <2>1, <2>2, <2>3, <2>4
<1> QED
  BY <1>2, <1>3 DEF KeyShown, ValuesShown, AttributesOf

LEMMA FormStep ==
  ASSUME FormInv, Next
  PROVE  KeyShown' /\ ValuesShown'
<1>0. Inv /\ KeyShown /\ ValuesShown /\ dialog \in DialogSet
  BY DEF FormInv, Inv, ModalOK
<1>1. CASE Elsewhere
  BY <1>0, <1>1, FormUntouched DEF Elsewhere, modalVars
<1>2. ASSUME NEW p \in Playbooks, SelectPlaybook(p) PROVE KeyShown' /\ ValuesShown'
  BY <1>0, <1>2, SelectKeepsForm DEF SelectPlaybook
<1>3. CASE SelectCreated
  <2>1. template \in Playbooks
    BY <1>0, <1>3 DEF SelectCreated, Inv, ModalOK
  <2>2. CASE dialog.mounted
    BY <1>0, <1>3, <2>1, <2>2, SelectKeepsForm DEF SelectCreated
  <2>3. CASE ~dialog.mounted
    BY <1>0, <1>3, <2>3, FormUntouched DEF SelectCreated
  <2> QED
    BY <2>2, <2>3
<1>4. ASSUME NEW h \in Hooks, NEW p \in Playbooks, FetchEnds(h, p) PROVE KeyShown' /\ ValuesShown'
  BY <1>0, <1>4, FetchKeepsForm
<1>5. CASE AttributesArrive
  <2>1. IdsOf(AttributesOf(dialog.selected)) = {}
    BY <1>5 DEF AttributesArrive, AttributesOf, IdsOf
  <2>2. KeyShown'
    BY <1>0, <1>5 DEF AttributesArrive, KeyShown
  <2>3. form.values = {} /\ form' = form
    BY <1>0, <1>5, <2>1 DEF AttributesArrive, ValuesShown
  <2> QED
    BY <2>2, <2>3 DEF ValuesShown
<1>6. CASE \/ SetRunName \/ SetPropertyValue
           \/ \E mode \in {"link", "create"} : HandleSetChannelMode(mode)
           \/ \E c \in Channels \cup {None} : SetChannelId(c)
  BY <1>0, <1>6, EntryKeepsForm
<1>7. CASE \/ Back \/ Hide
           \/ \E p \in Playbooks : CreateFromTemplate(p)
           \/ \E r \in Requests : OnSubmit(r) \/ RunCreated(r) \/ SubmitFails(r)
  <2>1. dialog'.selected = dialog.selected
    BY <1>0, <1>7 DEF Back, Hide, CreateFromTemplate, OnSubmit, RunCreated, SubmitFails, DialogSet
  <2>2. UNCHANGED <<fetched, attributes, form, key>>
    BY <1>7 DEF Back, Hide, CreateFromTemplate, OnSubmit, RunCreated, SubmitFails
  <2> QED
    BY <1>0, <2>1, <2>2, FormUntouched
<1> QED
  BY <1>1, <1>2, <1>3, <1>4, <1>5, <1>6, <1>7 DEF Next

LEMMA FormInit == Init => KeyShown /\ ValuesShown
<1> SUFFICES ASSUME Init PROVE KeyShown /\ ValuesShown
  OBVIOUS
<1>1. fetched.playbook = None /\ key = None
  BY DEF Init, ModalInit, Hooks
<1>2. form.values = {}
  BY Zenon DEF Init, ModalInit, Blank
<1> QED
  BY <1>1, <1>2 DEF KeyShown, ValuesShown, Loaded

LEMMA FormInvariance == Spec => []FormInv
<1>1. FormInv /\ UNCHANGED vars => KeyShown' /\ ValuesShown'
  BY FormUntouched DEF FormInv, vars, modalVars
<1>2. FormInv /\ [Next]_vars => KeyShown' /\ ValuesShown'
  BY <1>1, FormStep
<1>3. FormInv <=> Inv /\ KeyShown /\ ValuesShown
  BY DEF FormInv
<1> QED
  BY <1>2, <1>3, FormInit, Invariance, PTL DEF Spec

(* Whatever order the two fetches are answered in, and whatever is picked  *)
(* meanwhile, a run of a playbook that wants a channel of its own is never *)
(* offered with a linked one.                                              *)
THEOREM ModeFits == Spec => []ModeFitsPlaybook
<1>1. FormInv => ModeFitsPlaybook
  BY DEF FormInv, KeyShown, ModeFitsPlaybook
<1> QED
  BY <1>1, FormInvariance, PTL

(* No value that was typed for one playbook is sent with a run of another. *)
THEOREM ValuesGoWithPlaybook == Spec => []ValuesOfSelected
<1>1. FormInv => ValuesOfSelected
  BY DEF FormInv, ValuesShown, ValuesOfSelected
<1> QED
  BY <1>1, FormInvariance, PTL
=============================================================================
