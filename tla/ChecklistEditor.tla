--------------------------- MODULE ChecklistEditor ---------------------------
(***************************************************************************)
(* The checklist editor of a playbook on its page: the checklists as they  *)
(* are shown, which every edit replaces, and the saves that follow.  What  *)
(* is shown (value) is sent in the next tick; it follows the query's       *)
(* result (prop) unless an edit was not sent yet (value # check).  The     *)
(* query is repeated after every save.  A new condition is created on the  *)
(* server first and then put into the checklists of the moment it was      *)
(* asked for.                                                              *)
(*                                                                         *)
(* One user edits; the playbook is not archived.                           *)
(***************************************************************************)
EXTENDS ChecklistEdits, FiniteSets

CONSTANTS
    Templates,      \* checklists the playbook may have at first
    MaxEdits,       \* bound: edits
    MaxMoves,       \* bound: edits that move, add or remove something
    MaxTasks,       \* bound: tasks in the playbook
    MaxCreated,     \* bound: conditions created
    MaxSelected,    \* bound: tasks selected for a bulk action
    MaxTrouble      \* bound: requests that fail

ASSUME EditorAssumption ==
    /\ Templates \subseteq Seq(Seq(Task))
    /\ \A lists \in Templates : Used(lists) \subseteq 1..9     \* those created come after
    /\ MaxEdits \in Nat /\ MaxMoves \in Nat /\ MaxTrouble \in Nat /\ MaxCreated \in Nat

VARIABLES
    server,         \* the checklists in the database
    conditions,     \* the conditions in the database
    known,          \* the conditions in the store of the webapp
    prop,           \* the last result of the query
    value,          \* what is shown
    check,          \* what was sent or received last
    due,            \* an edit is to be sent
    saves,          \* mutations under way
    refetch,        \* the query under way
    creating,       \* requests for a new condition under way
    deleting,       \* requests to delete a condition under way
    used,           \* what is used up of the bounds
    stored,         \* history: the last save that was stored
    why             \* history: how things may have gone wrong

vars == <<server, conditions, known, prop, value, check, due, saves, refetch,
          creating, deleting, used, stored, why>>

Step(set, r, next) == (set \ {r}) \cup {[r EXCEPT !.step = next]}

Quiet == /\ ~due /\ saves = {} /\ refetch.step = "none"
         /\ creating = {} /\ deleting = {}

Fresh == 100 * (used.edits + 1)     \* tasks of the next edit are numbered from here

-----------------------------------------------------------------------------
(* Edits.  An edit of a value that lacks earlier edits undoes them. *)

Set(lists, edits, reasons) ==
    /\ used' = [used EXCEPT !.edits = @ + 1, !.moves = @ + (IF lists = value.lists THEN 0 ELSE 1)]
    /\ value' = [lists |-> lists, edits |-> edits \cup {used'.edits}]
    /\ due' = TRUE
    /\ why' = why \cup reasons
    /\ UNCHANGED <<server, conditions, prop, check, saves, refetch, stored>>

(* Mutant: edits are made to the result of the query. *)
EditOfProp(lists, reasons) ==
    /\ used.edits < MaxEdits
    /\ lists = value.lists \/ used.moves < MaxMoves
    /\ Set(lists, prop.edits,
           reasons \cup (IF value.edits = 1..used.edits THEN {} ELSE {"reverted"}))

Edit(lists, reasons) ==
    /\ used.edits < MaxEdits
    /\ lists = value.lists \/ used.moves < MaxMoves
    /\ Set(lists, value.edits,
           reasons \cup (IF value.edits = 1..used.edits THEN {} ELSE {"reverted"}))

Rearrange(lists, reasons) == Edit(lists, reasons) /\ UNCHANGED <<known, creating, deleting>>

OnChecklist(c, items) == [value.lists EXCEPT ![c] = items]

(* Titles, assignees, due dates, one or many: the tasks stay where they are. *)
UpdateItems == Rearrange(value.lists, {})

OnAddChecklistItem(c) ==
    /\ Cardinality(Tasks(value.lists)) < MaxTasks
    /\ Rearrange(OnChecklist(c, AddItem(value.lists[c], Fresh)), {})

OnDuplicateChecklistItem(c, i) ==
    /\ Cardinality(Tasks(value.lists)) < MaxTasks
    /\ Rearrange(OnChecklist(c, DuplicateItem(value.lists[c], i, Fresh)), {})

OnDeleteChecklistItem(c, i) == Rearrange(OnChecklist(c, RemoveAt(value.lists[c], i)), {})

OnDragItem(from, i, to, at) ==
    /\ from = to => at # i /\ at <= Len(value.lists[to])
    /\ Rearrange(DragItem(value.lists, from, i, to, at), {})

OnDragChecklist(from, to) == from # to /\ Rearrange(Move(value.lists, from, to), {})

OnAddChecklist == Rearrange(Append(value.lists, <<>>), {})

OnDuplicateChecklist(c) ==
    /\ Cardinality(Tasks(value.lists)) + Len(value.lists[c]) <= MaxTasks
    /\ Rearrange(DuplicateChecklist(value.lists, c, Fresh), {})

OnDeleteChecklist(c) == Rearrange(RemoveAt(value.lists, c), {})

(* Offered are the conditions that are known and have tasks. *)
Available == known \cap Used(value.lists)

OnMoveItemToCondition(c, i, cond) ==
    /\ cond \in Available \ {value.lists[c][i].cond}
    /\ Rearrange(MoveItemToCondition(value.lists, c, i, cond), {})

HandleBulkDelete(selected) == Rearrange(BulkDelete(value.lists, selected), {})

(* Where the condition has no task yet the first one joins in its place,   *)
(* which may be between two tasks of another condition.                    *)
HandleBulkAddToCondition(selected, cond) ==
    /\ cond \in Available
    /\ Rearrange(BulkAddToCondition(value.lists, selected, cond),
                 IF \E p \in selected : cond \notin UsedIn(value.lists[p[1]])
                 THEN {"addedInPlace"} ELSE {})

-----------------------------------------------------------------------------
(* Conditions. *)

(* Mutant: the checklists of the others keep the condition. *)
ClearingHere(cond) ==
    /\ Edit([value.lists EXCEPT ![1] = ClearCondition(<<@>>, cond)[1]], {})
    /\ deleting' = deleting \cup {[cond |-> cond, step |-> "sent"]}
    /\ UNCHANGED <<known, creating>>

(* Taken off all tasks and deleted, at the same time. *)
OnDeleteCondition(cond) ==
    /\ Edit(ClearCondition(value.lists, cond), {})
    /\ deleting' = deleting \cup {[cond |-> cond, step |-> "sent"]}
    /\ UNCHANGED <<known, creating>>

DeleteStored(d) ==
    /\ d.step = "sent"
    /\ conditions' = conditions \ {d.cond}
    /\ deleting' = Step(deleting, d, "stored")
    /\ UNCHANGED <<server, known, prop, value, check, due, saves, refetch, creating, used, stored, why>>

DeleteAnswered(d) ==
    /\ d.step = "stored"
    /\ known' = known \ {d.cond}
    /\ deleting' = deleting \ {d}
    /\ UNCHANGED <<server, conditions, prop, value, check, due, saves, refetch, creating, used, stored, why>>

(* A condition that is left without a task in this checklist is deleted,   *)
(* for all checklists.  The last task of a group is put one place too far. *)
OnRemoveFromCondition(c, i) ==
    LET items == value.lists[c]
        cond == items[i].cond
        last == LastOf(items, cond)
    IN  /\ cond # NoCondition
        /\ IF \E j \in DOMAIN items \ {i} : items[j].cond = cond
           THEN Rearrange(OnChecklist(c, LeaveGroup(items, i)),
                          IF i = last /\ last < Len(items) THEN {"leftLast"} ELSE {})
           ELSE OnDeleteCondition(cond)

(* Only a task without a condition is offered a new one. *)
OnCreateCondition(c, i) ==
    /\ value.lists[c][i].cond = NoCondition
    /\ used.edits < MaxEdits /\ used.created < MaxCreated
    /\ used' = [used EXCEPT !.created = @ + 1]
    /\ creating' = creating \cup
           {[ cond |-> 10 + used.created, list |-> c, item |-> i, shown |-> value, step |-> "sent" ]}
    /\ UNCHANGED <<server, conditions, known, prop, value, check, due, saves, refetch,
                   deleting, stored, why>>

CreateStored(k) ==
    /\ k.step = "sent"
    /\ conditions' = conditions \cup {k.cond}
    /\ creating' = Step(creating, k, "stored")
    /\ UNCHANGED <<server, known, prop, value, check, due, saves, refetch, deleting, used, stored, why>>

(* The task gets it in the checklists that were shown when it was asked    *)
(* for, and these replace what is shown now.                               *)
CreateAnswered(k) ==
    /\ k.step = "stored"
    /\ known' = known \cup {k.cond}
    /\ creating' = creating \ {k}
    /\ Set([k.shown.lists EXCEPT ![k.list][k.item].cond = k.cond], k.shown.edits,
           IF k.shown.edits = 1..used.edits THEN {} ELSE {"closure"})
    /\ UNCHANGED deleting

ConditionFails ==
    /\ used.trouble < MaxTrouble
    /\ used' = [used EXCEPT !.trouble = @ + 1]
    /\ \/ \E k \in creating : creating' = creating \ {k} /\ UNCHANGED deleting
       \/ \E d \in deleting : deleting' = deleting \ {d} /\ UNCHANGED creating
    /\ UNCHANGED <<server, conditions, known, prop, value, check, due, saves, refetch, stored, why>>

-----------------------------------------------------------------------------
(* Saving. *)

(* In the next tick, and once for all edits of a tick. *)
Send ==
    /\ due
    /\ due' = FALSE
    /\ check' = value
    /\ saves' = saves \cup {[id |-> used.edits, doc |-> value, step |-> "sent"]}
    /\ UNCHANGED <<server, conditions, known, prop, value, refetch, creating, deleting, used, stored, why>>

Stored(s) ==
    /\ s.step = "sent"
    /\ server' = s.doc
    /\ stored' = s.id
    /\ saves' = (saves \ {s}) \cup {[id |-> s.id, doc |-> s.doc, step |-> "stored"]}
    /\ why' = IF stored > s.id THEN why \cup {"reordered"} ELSE why
    /\ UNCHANGED <<conditions, known, prop, value, check, due, refetch, creating, deleting, used>>

(* The query is repeated; an answer to an earlier one no longer counts. *)
Saved(s) ==
    /\ s.step = "stored"
    /\ saves' = saves \ {s}
    /\ refetch' = [step |-> "asked", doc |-> prop]
    /\ UNCHANGED <<server, conditions, known, prop, value, check, due, creating, deleting, used, stored, why>>

(* Nothing is undone and nothing is repeated. *)
SaveFails(s) ==
    /\ used.trouble < MaxTrouble
    /\ used' = [used EXCEPT !.trouble = @ + 1]
    /\ saves' = saves \ {s}
    /\ why' = why \cup {"failed"}
    /\ UNCHANGED <<server, conditions, known, prop, value, check, due, refetch, creating, deleting, stored>>

QueryRead ==
    /\ refetch.step = "asked"
    /\ refetch' = [step |-> "read", doc |-> server]
    /\ UNCHANGED <<server, conditions, known, prop, value, check, due, saves, creating, deleting, used, stored, why>>

(* Mutant: what is shown follows the query even before it was sent. *)
QueryAnsweredAlways ==
    /\ refetch.step = "read"
    /\ refetch' = [step |-> "none", doc |-> refetch.doc]
    /\ prop' = refetch.doc
    /\ IF prop' # prop
       THEN value' = prop' /\ check' = prop'
       ELSE UNCHANGED <<value, check>>
    /\ UNCHANGED <<server, conditions, known, due, saves, creating, deleting, used, stored, why>>

QueryAnswered ==
    /\ refetch.step = "read"
    /\ refetch' = [step |-> "none", doc |-> refetch.doc]
    /\ prop' = refetch.doc
    /\ IF prop' # prop /\ value = check
       THEN value' = prop' /\ check' = prop'
       ELSE UNCHANGED <<value, check>>
    /\ UNCHANGED <<server, conditions, known, due, saves, creating, deleting, used, stored, why>>

-----------------------------------------------------------------------------
Init ==
    /\ \E lists \in Templates : server = [lists |-> lists, edits |-> {}]
    /\ conditions = Used(server.lists)
    /\ known = conditions
    /\ prop = server /\ value = server /\ check = server
    /\ due = FALSE
    /\ saves = {} /\ creating = {} /\ deleting = {}
    /\ refetch = [step |-> "none", doc |-> server]
    /\ used = [edits |-> 0, moves |-> 0, created |-> 0, trouble |-> 0]
    /\ stored = 0
    /\ why = {}

Selections == UNION {kSubset(k, Positions(value.lists)) : k \in 1..MaxSelected}

ItemEdit ==
    \/ UpdateItems
    \/ \E c \in DOMAIN value.lists :
          \/ OnAddChecklistItem(c)
          \/ \E i \in DOMAIN value.lists[c] :
                \/ OnDuplicateChecklistItem(c, i)
                \/ OnDeleteChecklistItem(c, i)
                \/ OnCreateCondition(c, i)
                \/ OnRemoveFromCondition(c, i)
                \/ \E cond \in Available : OnMoveItemToCondition(c, i, cond)
                \/ \E to \in DOMAIN value.lists : \E at \in 1..Len(value.lists[to]) + 1 :
                      OnDragItem(c, i, to, at)

ChecklistEdit ==
    \/ OnAddChecklist
    \/ \E c \in DOMAIN value.lists :
          \/ OnDuplicateChecklist(c)
          \/ OnDeleteChecklist(c)
          \/ \E to \in DOMAIN value.lists : OnDragChecklist(c, to)

BulkEdit ==
    \E selected \in Selections :
        \/ HandleBulkDelete(selected)
        \/ \E cond \in Available : HandleBulkAddToCondition(selected, cond)

Next ==
    \/ ItemEdit \/ ChecklistEdit \/ BulkEdit
    \/ \E cond \in Used(value.lists) : OnDeleteCondition(cond)
    \/ \E d \in deleting : DeleteStored(d) \/ DeleteAnswered(d)
    \/ \E k \in creating : CreateStored(k) \/ CreateAnswered(k)
    \/ ConditionFails
    \/ Send
    \/ \E s \in saves : Stored(s) \/ Saved(s) \/ SaveFails(s)
    \/ QueryRead
    \/ QueryAnswered

Spec == Init /\ [][Next]_vars

-----------------------------------------------------------------------------
(* Properties. *)

(* What is shown and not sent is still to be sent: a result of the query   *)
(* never takes its place before.                                           *)
UnsentIsDue == value # check <=> due

(* When all is answered every edit is stored and shown, unless a save      *)
(* failed, two saves were stored in the other order, an edit was made      *)
(* while an older result of the query was shown, or a new condition        *)
(* brought back the checklists of the moment it was asked for.             *)
EditsAreStored ==
    Quiet /\ why \cap {"failed", "reordered", "reverted", "closure"} = {}
        => server.edits = 1..used.edits /\ value = server

(* Tasks do not refer to conditions that were deleted: the checklists and  *)
(* the conditions are saved by requests that know nothing of each other.   *)
NoConditionIsMissing ==
    Quiet /\ why \cap {"failed", "reordered", "reverted", "closure"} = {}
        => Used(server.lists) \subseteq conditions \cap known

(* The tasks of a condition stand together, whatever is moved, joined,     *)
(* removed or duplicated, unless the last task of a group left it or tasks *)
(* joined a condition in bulk in a checklist that had none of its tasks.   *)
GroupsStayTogether ==
    why \cap {"leftLast", "addedInPlace"} = {} => Together(value.lists)
=============================================================================
