------------------------------ MODULE RunUpdates ------------------------------
(***************************************************************************)
(* The incremental update of a run: DetectChangedFields and                *)
(* sendPlaybookRunObjectUpdatedWS (server/app) compute it from two         *)
(* versions of the run, applyIncrementalUpdate (webapp                     *)
(* utils/playbook_run_updates.ts) applies it to the client's copy.  Of the *)
(* run's fields the model keeps its checklists, with their order, and its  *)
(* timeline events, which are a set: the client sorts them by time.        *)
(***************************************************************************)
EXTENDS Checklists

HasID(elements, id) == \E k \in DOMAIN elements : elements[k].id = id
ByID(elements, id) == elements[CHOOSE k \in DOMAIN elements : elements[k].id = id]
IDs(elements) == {elements[k].id : k \in DOMAIN elements}

(* The elements at some of the positions, in their order. *)
Nth(positions, n) ==
    CHOOSE p \in positions : Cardinality({q \in positions : q < p}) = n - 1
At(s, positions) == [n \in 1 .. Cardinality(positions) |-> s[Nth(positions, n)]]

Without(elements, ids) ==
    At(elements, {k \in DOMAIN elements : elements[k].id \notin ids})

-----------------------------------------------------------------------------
(* The server computes the update. *)

ItemFields == {"state", "detail", "updateAt"}

(* Mutant: a change of an item's state alone is not noticed. *)
ChangedFieldsButState(previous, current) ==
    {f \in ItemFields \ {"state"} : previous[f] # current[f]}

ChangedItemFields(previous, current) ==
    {f \in ItemFields : previous[f] # current[f]}

(* The items of both versions that differ, the identifiers only the        *)
(* previous one has, and the items only the current one has, in order.     *)
GetChecklistItemUpdates(previous, current) ==
    LET changed == {pq \in ToSet(previous) \X ToSet(current) :
                        pq[1].id = pq[2].id /\ ChangedItemFields(pq[1], pq[2]) # {}}
    IN  [ updates |-> {[ id     |-> pq[2].id,
                         fields |-> [f \in ChangedItemFields(pq[1], pq[2])
                                        |-> pq[2][f]] ] : pq \in changed},
          deletes |-> IDs(previous) \ IDs(current),
          inserts |-> Without(current, IDs(previous)) ]

(* Titles and times are stamps from 1 on: 0 is "not in the update", and in *)
(* a checklist "not set".  items_order is left out of the message when it  *)
(* is empty.                                                               *)
Changed(previous, current) == IF previous = current THEN 0 ELSE current

UpdateOfChecklist(previous, current) ==
    LET items == GetChecklistItemUpdates(previous.items, current.items)
        order == ItemsOrder(current.items)
    IN  [ id         |-> current.id,
          title      |-> Changed(previous.title, current.title),
          updateAt   |-> Changed(previous.updateAt, current.updateAt),
          itemsOrder |-> IF ItemsOrder(previous.items) = order THEN <<>> ELSE order,
          updates    |-> items.updates,
          deletes    |-> items.deletes,
          inserts    |-> items.inserts ]

UpdateOfNewChecklist(current) ==
    [ id         |-> current.id,
      title      |-> current.title,
      updateAt   |-> 0,
      itemsOrder |-> <<>>,
      updates    |-> {},
      deletes    |-> {},
      inserts    |-> current.items ]

IsEmpty(update) ==
    /\ update.title = 0
    /\ update.updateAt = 0
    /\ update.itemsOrder = <<>>
    /\ update.updates = {}
    /\ update.deletes = {}
    /\ update.inserts = <<>>

GetChecklistUpdates(previous, current) ==
    LET update(c) == IF HasID(previous, current[c].id)
                     THEN UpdateOfChecklist(ByID(previous, current[c].id), current[c])
                     ELSE UpdateOfNewChecklist(current[c])
    IN  At([c \in DOMAIN current |-> update(c)],
           {c \in DOMAIN current : ~HasID(previous, current[c].id) \/ ~IsEmpty(update(c))})

(* The message for the client.  An order that did not change, or that is   *)
(* null because no checklist is left, is <<>>.                             *)
DetectChangedFields(previous, current) ==
    [ updateAt   |-> current.updateAt,
      deletes    |-> IDs(previous.checklists) \ IDs(current.checklists),
      checklists |-> GetChecklistUpdates(previous.checklists, current.checklists),
      itemsOrder |-> IF ChecklistsOrder(previous.checklists)
                          = ChecklistsOrder(current.checklists)
                     THEN <<>> ELSE ChecklistsOrder(current.checklists),
      events     |-> current.events \ previous.events ]

NothingChanged(update) ==
    /\ update.deletes = {}
    /\ update.checklists = <<>>
    /\ update.itemsOrder = <<>>
    /\ update.events = {}

-----------------------------------------------------------------------------
(* The client applies it. *)

(* The run as the client keeps it: what the server's JSON holds, where     *)
(* items_order is computed from the checklists.                            *)
ClientRun(run) ==
    [ updateAt   |-> run.updateAt,
      itemsOrder |-> ChecklistsOrder(run.checklists),
      checklists |-> run.checklists,
      events     |-> run.events ]

(* Mutant: an inserted item that is there already is appended again. *)
InsertAgain(items, inserts) == items \o inserts

InsertNewItems(items, inserts) ==
    items \o Without(inserts, IDs(items))

ApplyItemUpdates(items, update) ==
    LET change(item) ==
            [f \in DOMAIN item |->
                LET new == {u \in update.updates :
                                u.id = item.id /\ f \in DOMAIN u.fields}
                IN  IF new = {} THEN item[f] ELSE (CHOOSE u \in new : TRUE).fields[f]]
        changed == [i \in DOMAIN items |-> change(items[i])]
    IN  InsertNewItems(Without(changed, update.deletes), update.inserts)

(* Items the order does not name keep their place after the others. *)
ReorderItemsByOrder(items, order) ==
    LET known == At(order, {k \in DOMAIN order : HasID(items, order[k])})
    IN  [k \in DOMAIN known |-> ByID(items, known[k])] \o Without(items, ToSet(order))

(* A checklist the client made from an update may have no update_at, and   *)
(* only fields that are there are set.                                     *)
ApplyUpdateToChecklist(checklist, update) ==
    LET items == ApplyItemUpdates(checklist.items, update)
    IN  [checklist EXCEPT
            !.title    = IF update.title = 0 THEN @ ELSE update.title,
            !.updateAt = IF @ = 0 \/ update.updateAt = 0 THEN @ ELSE update.updateAt,
            !.items    = IF update.itemsOrder = <<>> THEN items
                         ELSE ReorderItemsByOrder(items, update.itemsOrder)]

(* An update of a checklist the client has not been told of makes one, with *)
(* what the update holds: it may have no title and lack items.             *)
CreateNewChecklist(update) ==
    [ id       |-> update.id,
      title    |-> update.title,
      updateAt |-> update.updateAt,
      items    |-> update.inserts ]

(* Known checklists keep the client's order, new ones follow; the run's    *)
(* items_order is kept beside them and orders nothing.                     *)
ApplyChecklistUpdates(checklists, updates) ==
    LET new == Without(updates, IDs(checklists))
    IN  [c \in DOMAIN checklists |->
            IF HasID(updates, checklists[c].id)
            THEN ApplyUpdateToChecklist(checklists[c],
                                        ByID(updates, checklists[c].id))
            ELSE checklists[c]]
        \o [k \in DOMAIN new |-> CreateNewChecklist(new[k])]

ApplyChangedFields(run, update) ==
    [ updateAt   |-> update.updateAt,
      itemsOrder |-> IF update.itemsOrder = <<>> THEN run.itemsOrder
                                                 ELSE update.itemsOrder,
      checklists |-> ApplyChecklistUpdates(
                         Without(run.checklists, update.deletes), update.checklists),
      events     |-> run.events \cup update.events ]

IsOlder(update, run) == run.updateAt > update.updateAt

ApplyIncrementalUpdate(run, update) ==
    IF IsOlder(update, run) THEN run ELSE ApplyChangedFields(run, update)
=============================================================================
