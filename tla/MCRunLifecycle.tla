--------------------------- MODULE MCRunLifecycle ---------------------------
(***************************************************************************)
(* RunLifecycle for TLC.  The goroutines that serve requests are           *)
(* interchangeable.                                                        *)
(***************************************************************************)
EXTENDS RunLifecycle, TLC

VARIABLE plain  \* history: so far only finishes, reports, snoozes and edits

WorkerSymmetry == Permutations(Workers)

Plain == {"none", "finish", "updateStatus", "updateAndFinish", "resetReminder", "edit"}

MCInit == Init /\ plain = TRUE

MCNext ==
    /\ Next
    /\ plain' = (plain /\ op' \in [Actors -> Plain] /\ ~ArchiveByUser /\ ~UnarchiveByUser)

MCSpec == MCInit /\ [][MCNext]_<<vars, plain>>
MCFairSpec == MCSpec /\ Fairness

(* Once someone has reported or snoozed, an active run that was never      *)
(* restored and shows a countdown has its next reminder scheduled or       *)
(* posted (SetNewReminder, UpdateStatus).                                  *)
ReportSchedulesNext == plain => PromptIsPending

(* A first finish ends with the channel archived, whatever came before it  *)
(* (FinishPlaybookRun).                                                    *)
FirstFinishArchives == plain => FinishArchives
=============================================================================
