----------------------------- MODULE ArchiveMarker -----------------------------
(***************************************************************************)
(* What the auto-archive feature promises about a run's channel, without   *)
(* handlers, copies or failures (the comments of                           *)
(* autoArchiveChannelOnFinish and RestorePlaybookRun in                    *)
(* server/app/playbook_run_service.go).  The marker is a write-ahead       *)
(* record: it is on before the plugin archives the channel, and it goes    *)
(* off only when the channel is not (or no longer) archived by the plugin. *)
(***************************************************************************)
VARIABLES
    finished,   \* the run is finished
    marked,     \* AutoArchivedChannel
    archived    \* the channel is archived and the plugin did it

vars == <<finished, marked, archived>>

Init == ~finished /\ ~marked /\ ~archived

Finish    == ~finished /\ finished' = TRUE /\ UNCHANGED <<marked, archived>>
Restore   == finished /\ finished' = FALSE /\ UNCHANGED <<marked, archived>>
Mark      == finished /\ ~archived /\ marked' = TRUE /\ UNCHANGED <<finished, archived>>
Archive   == finished /\ marked /\ archived' = TRUE /\ UNCHANGED <<finished, marked>>
Unmark    == ~archived /\ marked' = FALSE /\ UNCHANGED <<finished, archived>>
(* By a restore, or by a user at any time. *)
Unarchive == archived' = FALSE /\ UNCHANGED <<finished, marked>>

Next == Finish \/ Restore \/ Mark \/ Archive \/ Unmark \/ Unarchive

Spec == Init /\ [][Next]_vars
=============================================================================
