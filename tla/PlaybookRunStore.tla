--------------------------- MODULE PlaybookRunStore ---------------------------
(***************************************************************************)
(* The lifecycle columns of one row of IR_Incident and the statements of   *)
(* server/sqlstore/playbook_run.go that write them.  A handler reads the   *)
(* row into a copy, changes the copy and writes it back; no statement      *)
(* compares a version, so what a stale copy may overwrite is decided only  *)
(* by the columns each statement sets.                                     *)
(***************************************************************************)
EXTENDS Naturals

StatusInProgress == "InProgress"
StatusFinished   == "Finished"

(* Times are the stamps of a logical clock; 0 is "never".  Timestamps that *)
(* are only compared with 0 are kept as Booleans: ended is EndAt # 0,      *)
(* reminderTimer is PreviousReminder # 0 and retrospectivePublished is     *)
(* RetrospectivePublishedAt # 0.  Reminder posts are numbered from 1.      *)
PlaybookRun ==
    [ currentStatus            : {StatusInProgress, StatusFinished},
      ended                    : BOOLEAN,
      lastStatusUpdateAt       : Nat,
      reminderPostID           : Nat,
      reminderTimer            : BOOLEAN,
      statusUpdateEnabled      : BOOLEAN,
      retrospectiveEnabled     : BOOLEAN,
      retrospectivePublished   : BOOLEAN,
      retrospectiveWasCanceled : BOOLEAN,
      autoArchivedChannel      : BOOLEAN ]

(* A run as CreatePlaybookRun inserts it: active, nothing posted or        *)
(* archived.  A run of a playbook starts with the playbook's timer, a      *)
(* channel checklist with none.                                            *)
NewPlaybookRun(timer, retrospective) ==
    [ currentStatus            |-> StatusInProgress,
      ended                    |-> FALSE,
      lastStatusUpdateAt       |-> 0,
      reminderPostID           |-> 0,
      reminderTimer            |-> timer,
      statusUpdateEnabled      |-> TRUE,
      retrospectiveEnabled     |-> retrospective,
      retrospectivePublished   |-> FALSE,
      retrospectiveWasCanceled |-> FALSE,
      autoArchivedChannel      |-> FALSE ]

(* Mutant: the whole row is written, CurrentStatus and EndAt with it. *)
UpdateAllColumns(stored, copy) == copy

(* UPDATE of every column of the copy except CurrentStatus and EndAt. *)
UpdatePlaybookRun(stored, copy) ==
    [copy EXCEPT !.currentStatus = stored.currentStatus,
                 !.ended         = stored.ended]

(* UPDATE of CurrentStatus and EndAt alone. *)
FinishPlaybookRun(stored) ==
    [stored EXCEPT !.currentStatus = StatusFinished,
                   !.ended         = TRUE]

(* UPDATE of CurrentStatus, EndAt and LastStatusUpdateAt alone. *)
RestorePlaybookRun(stored, restoredAt) ==
    [stored EXCEPT !.currentStatus      = StatusInProgress,
                   !.ended              = FALSE,
                   !.lastStatusUpdateAt = restoredAt]
=============================================================================
