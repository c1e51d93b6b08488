------------------------------- MODULE TaskRow -------------------------------
(* A task of a running checklist as one browser shows it: the row keeps its *)
(* own copy of every field, which it changes at once when the user does,    *)
(* before the request is answered, and overwrites with each field that a    *)
(* message changes.  "title" stands for title and description; messages     *)
(* come in the order of the writes, but a reconnection may skip some.       *)
EXTENDS SequencesExt, Integers

CONSTANTS
    Values,       \* of a field, users among them, 0 the empty one
    Roles,        \* of the run: its owner, its creator
    Properties,   \* of the run that hold a user
    Unchosen,     \* no choice
    MaxEvents,    \* bound: clicks and saves of the user
    MaxOthers,    \* bound: changes by others
    MaxFailures   \* bound: failing requests

Direct == {"command", "dueDate", "taskActions"}   \* sent when they are chosen
AssigneeFields == {"assigneeID", "assigneeType", "assigneeFieldID"}
Fields == Direct \cup {"title", "state"} \cup AssigneeFields

VARIABLES
    stored,       \* the versions of the checklist, the last is in the database
    seen,         \* the version the browser has
    shown,        \* the row's copy of the task
    editing,      \* the task's form is open
    typed,        \* the title typed in it, if any
    requests,     \* the user's requests that are not answered
    sent,         \* the number of requests so far
    callSeq,      \* the last request for an assignee
    events, others, failures,
    choice,       \* what the user chose last for each field
    lost,         \* how a choice may have been lost
    behind        \* why a field may differ from the browser's task

vars == <<stored, seen, shown, editing, typed, requests, sent, callSeq, events, others,
          failures, choice, lost, behind>>

Task(version) == stored[version].task
Prop == Task(seen)                    \* props.checklistItem
Position == CHOOSE i \in 1..3 : stored[seen].order[i] = "mine"   \* itemNum
isSkipped == Prop.state = "skipped"

\* The row's copy of a task: of the state it has the tick only.
Local(task) == [f \in Fields |-> IF f = "state" THEN task[f] = "closed" ELSE task[f]]

\* An assignee is a user, or a role or a property of the run: which user that
\* is the server finds out.
Assignee(id, type, fieldID) ==
    [f \in AssigneeFields |-> CASE f = "assigneeID"   -> id
                               [] f = "assigneeType" -> type
                               [] OTHER              -> fieldID]
Assignees == {Assignee(id, "", 0) : id \in Values}
    \cup {Assignee(Unchosen, role, 0) : role \in Roles}
    \cup {Assignee(Unchosen, "property_user", fieldID) : fieldID \in Properties}

\* What a field is when that is chosen for it and the server finds id.
Resolved(v, id) == IF v = Unchosen THEN id ELSE v

\* The title that is saved for what was typed: 'Untitled task' for nothing.
\* Titles that differ in the blanks around them are the same here.
Untitled == 1
finalTitle(v) == IF v = 0 THEN Untitled ELSE v

Init ==
    /\ stored = << [order |-> <<"above", "mine", "below">>,
                    task |-> [f \in Fields |-> IF f = "state" THEN "open"
                                               ELSE IF f = "assigneeType" THEN "" ELSE 0]] >>
    /\ seen = 1 /\ shown = Local(Prop) /\ editing = FALSE /\ typed = Unchosen
    /\ requests = {} /\ sent = 0 /\ callSeq = 0
    /\ events = 0 /\ others = 0 /\ failures = 0
    /\ choice = [f \in Fields |-> Unchosen] /\ lost = {} /\ behind = {}

Request(kind, id, changes) ==
    [kind |-> kind, id |-> id, changes |-> changes, position |-> Position,
     before |-> [f \in AssigneeFields \cup {"state"} |-> shown[f]],
     disturbed |-> FALSE, answer |-> "none"]

\* A new request about the fields of changes, and what the user wants them to be.
Send(kind, changes) ==
    /\ events < MaxEvents /\ events' = events + 1
    /\ sent' = sent + 1
    /\ requests' = requests \cup {Request(kind, sent + 1, changes)}

Choose(f, v) ==
    /\ choice' = [choice EXCEPT ![f] = v]
    /\ lost' = {l \in lost : l[1] # f}

\* useUpdateEffect on every field: it follows the task when that changes.
\* The one for the task actions sets them to what they were.
Followed == Fields \ {"taskActions"}
Follow(old, new) ==
    [f \in Fields |-> IF f \in Followed /\ new[f] # old[f] THEN Local(new)[f] ELSE shown[f]]

-----------------------------------------------------------------------------
(* The user. *)

\* A role or a property is shown without a user.
AssigneeChange(a) ==
    /\ editing \/ ~isSkipped
    /\ a["assigneeType"] = "" => \E f \in AssigneeFields : shown[f] # a[f]
    /\ shown' = [f \in Fields |-> IF f \in AssigneeFields THEN Resolved(a[f], 0) ELSE shown[f]]
    /\ Send("assignee", a)
    /\ choice' = [f \in Fields |-> IF f \in AssigneeFields THEN a[f] ELSE choice[f]]
    /\ lost' = {l \in lost : l[1] \notin AssigneeFields}
    /\ callSeq' = sent + 1
    /\ UNCHANGED <<stored, seen, editing, typed, others, failures, behind>>

\* Outside the form a date can always be set, the others only if there are some.
DirectChange(f, v) ==
    /\ f \in Direct
    /\ editing \/ (~isSkipped /\ (f = "dueDate" \/ shown[f] # 0))
    /\ shown' = [shown EXCEPT ![f] = v]
    /\ Send("direct", [g \in {f} |-> v]) /\ Choose(f, v)
    /\ UNCHANGED <<stored, seen, editing, typed, callSeq, others, failures, behind>>

\* Another click does not wait for the answer to the first.
ClickCheckbox ==
    LET newState == IF shown.state THEN "open" ELSE "closed"
        disturb == [r \in requests |-> IF r.kind = "checkbox" THEN [r EXCEPT !.disturbed = TRUE] ELSE r]
    IN  /\ ~isSkipped
        /\ events < MaxEvents /\ events' = events + 1
        /\ shown' = [shown EXCEPT !.state = ~shown.state]
        /\ sent' = sent + 1
        /\ requests' = {disturb[r] : r \in requests}
                         \cup {Request("checkbox", sent + 1, [f \in {"state"} |-> newState])}
        /\ Choose("state", newState)
        /\ UNCHANGED <<stored, seen, editing, typed, callSeq, others, failures, behind>>

\* The menu sends one click to two endpoints.
SkipOrRestore ==
    LET newState == [f \in {"state"} |-> IF isSkipped THEN "open" ELSE "skipped"]
    IN  /\ ~editing
        /\ events < MaxEvents /\ events' = events + 1
        /\ sent' = sent + 2
        /\ requests' = requests \cup {Request("skip", sent + 1, newState), Request("skip", sent + 2, newState)}
        /\ Choose("state", newState.state)
        /\ UNCHANGED <<stored, seen, shown, editing, typed, callSeq, others, failures, behind>>

Edit ==
    /\ ~editing /\ editing' = TRUE
    /\ UNCHANGED <<stored, seen, shown, typed, requests, sent, callSeq, events, others, failures, choice,
                   lost, behind>>

Type(v) ==
    /\ editing /\ v # shown.title
    /\ shown' = [shown EXCEPT !.title = v] /\ typed' = v
    /\ UNCHANGED <<stored, seen, editing, requests, sent, callSeq, events, others, failures, choice,
                   lost, behind>>

\* The form is sent whole, with what a message put into it in the meantime.
\* What was typed is the user's choice then.
Save(form) ==
    LET wanted == [choice EXCEPT !.title = IF typed = Unchosen THEN @ ELSE finalTitle(typed)]
    IN  /\ editing /\ editing' = FALSE /\ typed' = Unchosen
        /\ Send("save", [f \in {"title", "command"} |-> IF f = "title" THEN finalTitle(form[f]) ELSE form[f]])
        /\ choice' = wanted
        /\ lost' = {l \in lost : l[1] # "title" \/ typed = Unchosen}
             \cup {<<f, "replaced">> : f \in {g \in {"title", "command"} :
                    (IF g = "title" THEN finalTitle(shown[g]) ELSE shown[g]) # wanted[g]}}
        /\ UNCHANGED <<stored, seen, callSeq, others, failures, behind>>

\* Mutant: the form is reset, as by onCancel, before it is sent.
SaveAfterReset ==
    /\ Save(Prop)
    /\ shown' = [shown EXCEPT !.title = Prop.title, !.command = Prop.command]

\* The row goes on showing what was typed.
handleSave == Save(shown) /\ UNCHANGED shown

onCancel ==
    /\ editing /\ editing' = FALSE /\ typed' = Unchosen
    /\ shown' = [shown EXCEPT !.title = Prop.title]
    /\ UNCHANGED <<stored, seen, requests, sent, callSeq, events, others, failures, choice, lost, behind>>

-----------------------------------------------------------------------------
(* The server, others, and what the browser hears of them. *)

Answer(r, answer) == requests' = (requests \ {r}) \cup {[r EXCEPT !.answer = answer]}
Marked(r, reason) == {<<f, reason>> : f \in DOMAIN r.changes}

\* A handler changes the task at the position; a value that is there already
\* makes no new version.  A role may be held by the user who has the task.
Handle(r) ==
    \E id \in Values :
      LET last == Last(stored)
          task == [f \in Fields |-> IF f \in DOMAIN r.changes THEN Resolved(r.changes[f], id)
                                                               ELSE last.task[f]]
          earlier == UNION {DOMAIN q.changes : q \in {p \in requests : p.answer = "none" /\ p.id < r.id}}
          hit == r.position <= Len(last.order) /\ last.order[r.position] = "mine"
          same == {f \in DOMAIN r.changes : r.changes[f] = Unchosen /\ task[f] = last.task[f]}
      IN  /\ r.answer = "none"
          /\ Answer(r, IF r.position <= Len(last.order) THEN "ok" ELSE "error")
          /\ stored' = IF hit /\ task # last.task THEN Append(stored, [last EXCEPT !.task = task]) ELSE stored
          /\ lost' = lost \cup (IF hit THEN {} ELSE Marked(r, "shifted"))
                          \cup {<<f, "overtaken">> : f \in earlier \cap DOMAIN r.changes}
          /\ behind' = behind \cup (IF hit THEN {<<f, "resolved">> : f \in same} ELSE Marked(r, "shifted"))
          /\ UNCHANGED <<seen, shown, editing, typed, sent, callSeq, events, others, failures, choice>>

Fail(r) ==
    /\ failures < MaxFailures /\ failures' = failures + 1
    /\ r.answer = "none" /\ Answer(r, "error")
    /\ lost' = lost \cup Marked(r, "failed")
    /\ UNCHANGED <<stored, seen, shown, editing, typed, sent, callSeq, events, others, choice, behind>>

\* Mutant: the assignee goes back to what it was before the click, as the tick does.
TakenBackToClick(r) ==
    IF r.answer = "error" /\ r.kind \in {"assignee", "checkbox"}
    THEN [f \in Fields |-> IF f \in DOMAIN r.changes THEN r.before[f] ELSE shown[f]]
    ELSE shown

\* Only an assignee and a tick are taken back when the request fails: the
\* assignee to what the browser has now, unless another was chosen since,
\* the tick to what it was before the click.
TakenBack(r) ==
    IF r.answer = "ok" THEN shown
    ELSE IF r.kind = "assignee" /\ callSeq = r.id
         THEN [f \in Fields |-> IF f \in AssigneeFields THEN Prop[f] ELSE shown[f]]
    ELSE IF r.kind = "checkbox" THEN [shown EXCEPT !.state = r.before.state]
    ELSE shown

Answered(r) ==
    /\ r.answer # "none"
    /\ requests' = requests \ {r}
    /\ shown' = TakenBack(r)
    /\ behind' = behind \cup
         (IF r.answer = "error" /\ r.kind \in {"direct", "save"} THEN Marked(r, "failed")
          ELSE IF r.answer = "error" /\ r.disturbed THEN Marked(r, "revertedLate") ELSE {})
    /\ UNCHANGED <<stored, seen, editing, typed, sent, callSeq, events, others, failures, choice, lost>>

OthersChange(f, v) ==
    /\ others < MaxOthers /\ others' = others + 1
    /\ Last(stored).task[f] # v
    /\ stored' = Append(stored, [Last(stored) EXCEPT !.task[f] = v])
    /\ lost' = lost \cup {<<f, "others">>}
    /\ UNCHANGED <<seen, shown, editing, typed, requests, sent, callSeq, events, failures, choice, behind>>

\* Somebody else assigns the task, or becomes the one it is assigned to.
OthersAssign(a, id) ==
    LET task == [f \in Fields |-> IF f \in AssigneeFields THEN Resolved(a[f], id) ELSE Last(stored).task[f]]
    IN  /\ others < MaxOthers /\ others' = others + 1
        /\ task # Last(stored).task
        /\ stored' = Append(stored, [Last(stored) EXCEPT !.task = task])
        /\ lost' = lost \cup {<<f, "others">> : f \in AssigneeFields}
        /\ UNCHANGED <<seen, shown, editing, typed, requests, sent, callSeq, events, failures, choice, behind>>

OthersDelete ==
    /\ others < MaxOthers /\ others' = others + 1
    /\ Head(Last(stored).order) = "above"
    /\ stored' = Append(stored, [Last(stored) EXCEPT !.order = Tail(@)])
    /\ UNCHANGED <<seen, shown, editing, typed, requests, sent, callSeq, events, failures, choice, lost, behind>>

\* The next message, or the newest run after a reconnection.
Deliver(n) ==
    LET changed == {f \in Fields : Task(n)[f] # Prop[f]}
        cameBack == {f \in Fields \ changed : \E i \in seen..n : Task(i)[f] # Prop[f]}
        disturb == [r \in requests |-> IF r.kind = "checkbox" /\ "state" \in changed
                                       THEN [r EXCEPT !.disturbed = TRUE] ELSE r]
    IN  /\ n \in {seen + 1, Len(stored)} /\ seen < n /\ n <= Len(stored)
        /\ seen' = n
        /\ shown' = Follow(Prop, Task(n))
        /\ requests' = {disturb[r] : r \in requests}
        /\ behind' = {b \in behind : b[1] \notin changed}
                       \cup {<<f, "cameBack">> : f \in cameBack}
                       \cup {<<f, "unfollowed">> : f \in changed \ Followed}
        /\ UNCHANGED <<stored, editing, typed, sent, callSeq, events, others, failures, choice, lost>>

ValuesOf(f) == IF f = "state" THEN {"open", "closed", "skipped"} ELSE Values

Next ==
    \/ \E a \in Assignees : AssigneeChange(a) \/ \E id \in Values : OthersAssign(a, id)
    \/ \E v \in Values : Type(v)
    \/ \E f \in Direct, v \in Values : DirectChange(f, v)
    \/ ClickCheckbox \/ SkipOrRestore \/ Edit \/ handleSave \/ onCancel
    \/ \E r \in requests : Handle(r) \/ Fail(r) \/ Answered(r)
    \/ \E f \in Fields \ AssigneeFields : \E v \in ValuesOf(f) : OthersChange(f, v)
    \/ OthersDelete
    \/ \E n \in 1..Len(stored) : Deliver(n)

Spec == Init /\ [][Next]_vars

-----------------------------------------------------------------------------
Quiet == ~editing /\ requests = {} /\ seen = Len(stored)

\* How the code lets a field of the row stay behind, until the task's changes again.
BehindIn(f) ==
    CASE f = "assigneeID"                     -> {"shifted", "cameBack", "resolved"}
      [] f \in AssigneeFields \ {"assigneeID"} -> {"shifted", "cameBack"}
      [] f = "state"                          -> {"shifted", "cameBack", "revertedLate"}
      [] f = "taskActions"                    -> {"shifted", "cameBack", "failed", "unfollowed"}
      [] OTHER                                -> {"shifted", "cameBack", "failed"}

(* Once everything is answered and delivered the row shows the task of the  *)
(* database, whatever requests failed, overtook each other or met the       *)
(* changes of others (checklist_item.tsx:257-302, inputs.tsx:36-47), except *)
(* for the ways of BehindIn, and for an empty title, which was saved as     *)
(* 'Untitled task'.                                                         *)
RowShowsTask ==
    Quiet => \A f \in Fields :
        \/ shown[f] = Local(Prop)[f]
        \/ f = "title" /\ shown[f] = 0 /\ Prop[f] = Untitled
        \/ \E reason \in BehindIn(f) : <<f, reason>> \in behind

(* What the user chose last for a field is in the database once all is      *)
(* answered, unless its request failed, hit another task or was overtaken   *)
(* by a later one, somebody else changed the field, or a message replaced   *)
(* it in the form before that was saved (checklist_item.tsx:516-520).       *)
ChoicesStored ==
    Quiet => \A f \in Fields :
        \/ choice[f] \in {Unchosen, Prop[f]}
        \/ \E reason \in {"failed", "shifted", "overtaken", "others", "replaced"} : <<f, reason>> \in lost
=============================================================================
