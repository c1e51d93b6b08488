-------------------------- MODULE MCChecklistEditor --------------------------
(* Either three edits of a playbook with groups of tasks, before anything   *)
(* is saved, or edits of a small one with everything that saving may do.    *)
EXTENDS ChecklistEditor

VARIABLE saving

T(task, cond) == [task |-> task, cond |-> cond]

(* A checklist with two groups next to each other, one with the first of   *)
(* the groups again, as after the checklist was duplicated.                *)
GroupTemplates == {<< <<T(1, 1), T(2, 1), T(3, 2), T(4, 2)>>, <<T(5, 1), T(6, 0)>> >>}

(* A condition used in two checklists. *)
SaveTemplates == {<< <<T(1, 1)>>, <<T(2, 1), T(3, 0)>> >>}

BothTemplates == GroupTemplates \cup SaveTemplates

MCInit == Init /\ saving = (value.lists \in SaveTemplates)

OnlyEdits ==
    /\ ItemEdit \/ ChecklistEdit \/ BulkEdit
        \/ \E cond \in Used(value.lists) : OnDeleteCondition(cond)
    /\ creating' = {}

MCNext ==
    /\ saving' = saving
    /\ IF saving THEN Next /\ used'.moves <= 1 ELSE OnlyEdits

MCSpec == MCInit /\ [][MCNext]_<<vars, saving>>
=============================================================================
