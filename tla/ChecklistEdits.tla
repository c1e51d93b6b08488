---------------------------- MODULE ChecklistEdits ----------------------------
(***************************************************************************)
(* What the checklist editor of the webapp does to the checklists of a     *)
(* playbook.  A checklist is the sequence of its tasks; of a task only its *)
(* identity and the condition it belongs to matter, 0 for none.  The tasks *)
(* of a condition are shown under one header, so they stand together.      *)
(* Positions count from 1 here and from 0 in the code.                     *)
(***************************************************************************)
EXTENDS Integers, SequencesExt

NoCondition == 0

Task == [task : Nat, cond : Nat]

UsedIn(items) == {items[i].cond : i \in DOMAIN items} \ {NoCondition}
Used(lists)   == UNION {UsedIn(lists[c]) : c \in DOMAIN lists}
Tasks(lists)  == UNION {{lists[c][i].task : i \in DOMAIN lists[c]} : c \in DOMAIN lists}
Positions(lists) == UNION {{c} \X DOMAIN lists[c] : c \in DOMAIN lists}

LastOf(items, cond) == SelectLastInSeq(items, LAMBDA t : t.cond = cond)

Move(s, from, to) == InsertAt(RemoveAt(s, from), to, s[from])

-----------------------------------------------------------------------------
(* Tasks of one checklist. *)

AddItem(items, task) == Append(items, [task |-> task, cond |-> NoCondition])

DuplicateItem(items, i, task) == InsertAt(items, i + 1, [items[i] EXCEPT !.task = task])

(* Task i goes where the last task of the condition is or, from below,     *)
(* after it.                                                               *)
AfterGroup(items, i, cond, t) ==
    LET last == LastOf(items, cond)
    IN  IF last = 0 THEN ReplaceAt(items, i, t)
        ELSE InsertAt(RemoveAt(items, i), IF i < last THEN last ELSE last + 1, t)

JoinGroup(items, i, cond) == AfterGroup(items, i, cond, [items[i] EXCEPT !.cond = cond])

(* The last task of a group is put behind its successor. *)
LeaveGroup(items, i) ==
    IF \E j \in DOMAIN items \ {i} : items[j].cond = items[i].cond
    THEN LET last == LastOf(items, items[i].cond)
             t == [items[i] EXCEPT !.cond = NoCondition]
             at == IF i < last THEN last ELSE last + 1
         IN  IF at > Len(items) THEN Append(RemoveAt(items, i), t)
             ELSE InsertAt(RemoveAt(items, i), at, t)
    ELSE [items EXCEPT ![i].cond = NoCondition]

(* Mutant: between two tasks of a condition a task stays what it was. *)
DroppedBetween(rest, at, t, sameChecklist) ==
    LET prev == IF at > 1 THEN rest[at - 1].cond ELSE NoCondition
        next == IF at <= Len(rest) THEN rest[at].cond ELSE NoCondition
    IN  IF sameChecklist /\ t.cond \in {prev, next} THEN t
        ELSE [t EXCEPT !.cond = NoCondition]

(* Between two tasks of a condition a dropped task joins them.  Otherwise  *)
(* it keeps its condition only next to a task of it, in its own checklist. *)
Dropped(rest, at, t, sameChecklist) ==
    LET prev == IF at > 1 THEN rest[at - 1].cond ELSE NoCondition
        next == IF at <= Len(rest) THEN rest[at].cond ELSE NoCondition
    IN  IF prev # NoCondition /\ prev = next THEN [t EXCEPT !.cond = prev]
        ELSE IF sameChecklist /\ t.cond \in {prev, next} THEN t
        ELSE [t EXCEPT !.cond = NoCondition]

-----------------------------------------------------------------------------
(* Checklists. *)

DragItem(lists, from, i, to, at) ==
    LET t == lists[from][i]
        rest == RemoveAt(lists[from], i)
    IN  IF from = to
        THEN [lists EXCEPT ![from] = InsertAt(rest, at, Dropped(rest, at, t, TRUE))]
        ELSE [lists EXCEPT ![from] = rest,
                           ![to] = InsertAt(@, at, Dropped(@, at, t, FALSE))]

LastListWith(lists, cond) == SelectLastInSeq(lists, LAMBDA items : cond \in UsedIn(items))

(* To the last group of the condition in the last checklist that has one.  *)
MoveItemToCondition(lists, c, i, cond) ==
    LET target == LastListWith(lists, cond)
    IN  IF target \in {0, c}
        THEN [lists EXCEPT ![c] = JoinGroup(@, i, cond)]
        ELSE [lists EXCEPT
                ![c] = RemoveAt(@, i),
                ![target] = InsertAt(@, LastOf(@, cond) + 1, [lists[c][i] EXCEPT !.cond = cond])]

ClearCondition(lists, cond) ==
    [c \in DOMAIN lists |->
        [i \in DOMAIN lists[c] |->
            IF lists[c][i].cond = cond THEN [lists[c][i] EXCEPT !.cond = NoCondition]
            ELSE lists[c][i]]]

(* The copies get numbers of their own. *)
DuplicateChecklist(lists, c, task) ==
    Append(lists, [i \in DOMAIN lists[c] |-> [lists[c][i] EXCEPT !.task = task + i]])

(* The tasks at the selected positions are filtered out; stated as removals *)
(* from the last position up, which gives the same.                         *)
Without(items, gone) ==
    LET after[k \in 0..Len(items)] ==
            LET i == Len(items) + 1 - k
            IN  IF k = 0 THEN items
                ELSE IF i \in gone THEN RemoveAt(after[k - 1], i) ELSE after[k - 1]
    IN  after[Len(items)]

(* From the last selected position up; positions are not adjusted to the    *)
(* moves already made.                                                      *)
Joined(items, joining, cond) ==
    LET after[k \in 0..Len(items)] ==
            LET i == Len(items) + 1 - k
            IN  IF k = 0 THEN items
                ELSE IF i \in joining /\ after[k - 1][i].cond # cond
                THEN JoinGroup(after[k - 1], i, cond) ELSE after[k - 1]
    IN  after[Len(items)]

SelectedIn(selected, c) == {p[2] : p \in {q \in selected : q[1] = c}}

BulkDelete(lists, selected) ==
    [c \in DOMAIN lists |-> Without(lists[c], SelectedIn(selected, c))]

BulkAddToCondition(lists, selected, cond) ==
    [c \in DOMAIN lists |-> Joined(lists[c], SelectedIn(selected, c), cond)]

-----------------------------------------------------------------------------
(* Tasks of a condition stand together in every checklist. *)
Together(lists) ==
    \A c \in DOMAIN lists : \A i, j, k \in DOMAIN lists[c] :
        i < j /\ j < k /\ lists[c][i].cond = lists[c][k].cond /\ lists[c][i].cond # NoCondition
            => lists[c][j].cond = lists[c][i].cond
=============================================================================
