------------------------------ MODULE Checklists ------------------------------
(***************************************************************************)
(* The checklists of a playbook run and what each operation of             *)
(* server/app/playbook_run_service.go does to them.  Requests name a       *)
(* checklist and an item by their position; a position is counted from 1   *)
(* here and from 0 in the code.                                            *)
(*                                                                         *)
(* An item keeps its identifier, its state, one stamp, detail, that stands *)
(* for the fields a request sets as a whole (title, description, command,  *)
(* assignee, due date, task actions, times of the last skip and of the     *)
(* last command) and its UpdateAt.  A checklist keeps its identifier, its  *)
(* title, a stamp too, its UpdateAt and its items; ItemsOrder is left out: *)
(* the store computes it from the items.                                   *)
(***************************************************************************)
EXTENDS Naturals, Sequences, SequencesExt

(* An identifier is empty until the store assigns it.  model.NewId draws a *)
(* new one each time: the stamp of the write that needs it and the place   *)
(* of the element in that write name it.                                   *)
NoID == <<0, 0, 0>>
NewId(stamp, c, i) == <<stamp, c, i>>

StateOpen    == "open"
StateClosed  == "closed"
StateSkipped == "skipped"

NewItem(stamp) ==
    [id |-> NoID, state |-> StateOpen, detail |-> stamp, updateAt |-> stamp]
(* updateAllChecklistsAndItemsTimestamps stamps a copy of the checklist. *)
NewChecklist(stamp) ==
    [id |-> NoID, title |-> stamp, updateAt |-> 0, items |-> <<>>]

ItemsOrder(items)          == [i \in DOMAIN items |-> items[i].id]
ChecklistsOrder(checklists) == [c \in DOMAIN checklists |-> checklists[c].id]

(* Assigns the missing identifiers when a run is written. *)
PopulateChecklistIDs(checklists, stamp) ==
    [c \in DOMAIN checklists |->
        [checklists[c] EXCEPT
            !.id    = IF @ = NoID THEN NewId(stamp, c, 0) ELSE @,
            !.items = [i \in DOMAIN @ |->
                          IF @[i].id = NoID
                          THEN [@[i] EXCEPT !.id = NewId(stamp, c, i)]
                          ELSE @[i]]]]

-----------------------------------------------------------------------------
(* Operations on one item. *)

ModifyCheckedState(checklists, c, i, state, stamp) ==
    [checklists EXCEPT ![c].items[i].state    = state,
                       ![c].items[i].updateAt = stamp,
                       ![c].updateAt          = stamp]

(* SetAssignee, EditChecklistItem, SetCommandToChecklistItem, SetDueDate,  *)
(* SetTaskActionsToChecklistItem and the end of                            *)
(* RunChecklistItemSlashCommand: one or more fields are set.               *)
SetItemDetail(checklists, c, i, stamp) ==
    [checklists EXCEPT ![c].items[i].detail   = stamp,
                       ![c].items[i].updateAt = stamp,
                       ![c].updateAt          = stamp]

SkipChecklistItem(checklists, c, i, stamp) ==
    [checklists EXCEPT ![c].items[i].state    = StateSkipped,
                       ![c].items[i].detail   = stamp,
                       ![c].items[i].updateAt = stamp,
                       ![c].updateAt          = stamp]

RestoreChecklistItem(checklists, c, i, stamp) ==
    [checklists EXCEPT ![c].items[i].state    = StateOpen,
                       ![c].items[i].updateAt = stamp,
                       ![c].updateAt          = stamp]

(* The copy loses its identifier and follows the original. *)
DuplicateChecklistItem(checklists, c, i, stamp) ==
    LET copy == [checklists[c].items[i] EXCEPT !.id = NoID, !.updateAt = stamp]
    IN  [checklists EXCEPT ![c].items    = InsertAt(@, i + 1, copy),
                           ![c].updateAt = stamp]

AddChecklistItem(checklists, c, stamp) ==
    [checklists EXCEPT ![c].items    = Append(@, NewItem(stamp)),
                       ![c].updateAt = stamp]

RemoveChecklistItem(checklists, c, i, stamp) ==
    [checklists EXCEPT ![c].items    = RemoveAt(@, i),
                       ![c].updateAt = stamp]

(* An item may be put after the last item of another checklist, but of its *)
(* own checklist only at a position that is taken.                         *)
ValidDestItem(checklists, c, toC, toI) ==
    /\ toC \in DOMAIN checklists
    /\ toI \in 1 .. (IF c = toC THEN Len(checklists[toC].items)
                                ELSE Len(checklists[toC].items) + 1)

MoveChecklistItem(checklists, c, i, toC, toI, stamp) ==
    LET item == [checklists[c].items[i] EXCEPT !.updateAt = stamp]
        rest == RemoveChecklistItem(checklists, c, i, stamp)
    IN  [rest EXCEPT ![toC].items    = InsertAt(@, toI, item),
                     ![toC].updateAt = stamp]

-----------------------------------------------------------------------------
(* Operations on a whole checklist.  Only RenameChecklist and MoveChecklist *)
(* stamp the checklist itself.                                             *)

AddChecklist(checklists, stamp) == Append(checklists, NewChecklist(stamp))

(* The copy is appended; it and its items lose their identifiers. *)
DuplicateChecklist(checklists, c, stamp) ==
    Append(checklists,
           [checklists[c] EXCEPT
               !.id    = NoID,
               !.items = [i \in DOMAIN @ |->
                             [@[i] EXCEPT !.id = NoID, !.updateAt = stamp]]])

RemoveChecklist(checklists, c) == RemoveAt(checklists, c)

RenameChecklist(checklists, c, stamp) ==
    [checklists EXCEPT ![c].title = stamp, ![c].updateAt = stamp]

SkipChecklist(checklists, c, stamp) ==
    [checklists EXCEPT ![c].items =
        [i \in DOMAIN @ |-> [@[i] EXCEPT !.state    = StateSkipped,
                                         !.detail   = stamp,
                                         !.updateAt = stamp]]]

RestoreChecklist(checklists, c, stamp) ==
    [checklists EXCEPT ![c].items =
        [i \in DOMAIN @ |-> [@[i] EXCEPT !.state    = StateOpen,
                                         !.updateAt = stamp]]]

MoveChecklist(checklists, c, toC, stamp) ==
    InsertAt(RemoveAt(checklists, c), toC,
             [checklists[c] EXCEPT !.updateAt = stamp])
=============================================================================
