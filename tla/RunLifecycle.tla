----------------------------- MODULE RunLifecycle -----------------------------
(***************************************************************************)
(* One playbook run of the Playbooks server over its life: the HTTP        *)
(* handlers that finish, restore, toggle, report on and close it           *)
(* (server/app/playbook_run_service.go), the reminder callbacks            *)
(* (server/app/reminder.go), the run's row, its channel and its scheduled  *)
(* jobs.  Every handler is a sequence of steps, one per access to state    *)
(* another goroutine can see: read the row into a copy, write the copy     *)
(* back, cancel or schedule a job, archive the channel.  Nothing locks the *)
(* run, so the steps of two handlers interleave, a handler may stop at any *)
(* failed call, and the process may die between any two steps.             *)
(***************************************************************************)
EXTENDS PlaybookRunStore, JobScheduler

CONSTANTS
    Workers,            \* goroutines that serve HTTP requests
    Requests,           \* the kinds of request clients send
    Fallible,           \* the external calls that may return an error
    Serial,             \* TRUE: a handler or callback starts only when none is running
    RetrospectiveAllowed, \* the licence includes retrospectives
    RetroRecurs,        \* RetrospectiveReminderIntervalSeconds # 0
    AutoArchive,        \* AutoArchiveChannel /\ ChannelCreatedByRun, fixed at creation
    ManualChannelOps,   \* users archive and unarchive the channel themselves
    MaxRequests,        \* bound: requests served in one behaviour
    MaxCrashes          \* bound: restarts of the plugin in one behaviour

Keys == {"status", "retro"}     \* job keys: runID and "retro_" + runID

RequestKinds ==
    { "finish", "restore", "enableUpdates", "disableUpdates", "enableRetro",
      "disableRetro", "updateStatus", "updateAndFinish", "resetReminder",
      "publishRetro", "cancelRetro", "updateRetro", "edit" }

ExternalCalls ==
    {"user", "post", "removePost", "db", "archive", "unarchive"}

ASSUME WorkersAssumption  == Workers \cap Keys = {}
ASSUME RequestsAssumption == Requests \subseteq RequestKinds
ASSUME FallibleAssumption == Fallible \subseteq ExternalCalls
ASSUME FlagsAssumption ==
    /\ Serial \in BOOLEAN
    /\ RetrospectiveAllowed \in BOOLEAN
    /\ RetroRecurs \in BOOLEAN
    /\ AutoArchive \in BOOLEAN
    /\ ManualChannelOps \in BOOLEAN
ASSUME BoundsAssumption == MaxRequests \in Nat /\ MaxCrashes \in Nat

VARIABLES
    row,         \* the run's row
    channel,     \* "active", or archived by "plugin" or by "user"
    jobs,        \* state of each scheduler key
    sleepers,    \* goroutines sleeping before they re-arm the retro reminder
    pc,          \* what each actor does next
    op,          \* the request an actor serves
    copy,        \* the copy of the row an actor holds
    clock,       \* last timestamp handed out
    livePrompts, \* status reminder posts that are in the channel
    lastPrompt,  \* number of the newest status reminder post
    served,      \* requests received so far
    crashes      \* restarts so far

vars == <<row, channel, jobs, sleepers, pc, op, copy, clock, livePrompts,
          lastPrompt, served, crashes>>

local   == <<pc, op, copy>>
prompts == <<livePrompts, lastPrompt>>
budget  == <<served, crashes>>

(* A callback runs as the actor named by its key. *)
Actors == Workers \cup Keys

Labels ==
    { "idle", "check", "handle",
      "finish_store", "finish_notify", "finish_retro", "finish_arm",
      "finish_event", "finish_flag", "finish_archive", "finish_unflag",
      "restore_store", "restore_user", "restore_unarchive", "restore_flag",
      "updates_write", "updates_cancel",
      "retro_write", "retro_cancel", "retro_arm",
      "reminder_read", "reminder_cancel", "reminder_unpost",
      "reminder_write", "reminder_arm",
      "publish_write", "cancel_write", "edit_write",
      "prompt_post", "prompt_write", "retro_post" }

Blank == NewPlaybookRun(FALSE, FALSE)

Init ==
    /\ row \in {NewPlaybookRun(timer, retro) : timer, retro \in BOOLEAN}
    /\ channel = "active"
    /\ jobs = [k \in Keys |-> "none"]
    /\ sleepers = 0
    /\ pc = [a \in Actors |-> "idle"]
    /\ op = [a \in Actors |-> "none"]
    /\ copy = [a \in Actors |-> Blank]
    /\ clock = 0
    /\ livePrompts = {}
    /\ lastPrompt = 0
    /\ served = 0
    /\ crashes = 0

-----------------------------------------------------------------------------
(* Moving an actor along. *)

NoneRunning == \A a \in Actors : pc[a] = "idle"
MayStart == Serial => NoneRunning

Goto(a, label) ==
    /\ pc' = [pc EXCEPT ![a] = label]
    /\ UNCHANGED <<op, copy>>

LoadAndGoto(a, label) ==
    /\ pc' = [pc EXCEPT ![a] = label]
    /\ copy' = [copy EXCEPT ![a] = row]
    /\ UNCHANGED op

HoldAndGoto(a, held, label) ==
    /\ pc' = [pc EXCEPT ![a] = label]
    /\ copy' = [copy EXCEPT ![a] = held]
    /\ UNCHANGED op

Return(a) ==
    /\ pc' = [pc EXCEPT ![a] = "idle"]
    /\ op' = [op EXCEPT ![a] = "none"]
    /\ copy' = [copy EXCEPT ![a] = Blank]

(* A callback's return also takes its key out of the scheduler. *)
ReturnFromCallback(key) ==
    /\ Return(key)
    /\ jobs' = CallbackReturned(jobs, key)

(* a is serving a request of one of these kinds and is at this label. *)
At(a, label, kinds) == pc[a] = label /\ op[a] \in kinds

(* An external call that may fail makes the handler return early. *)
FailsAt(a, label, call) ==
    /\ pc[a] = label
    /\ call \in Fallible
    /\ Return(a)
    /\ UNCHANGED <<row, channel, jobs, sleepers, clock, prompts, budget>>

-----------------------------------------------------------------------------
(* Requests. *)

(* The routes behind the checkEditPermissions middleware whose requests it *)
(* rejects once the run is finished; restore and the retrospective routes  *)
(* are exempt, and finish has a route of its own.                          *)
GuardedKinds ==
    {"enableUpdates", "disableUpdates", "updateStatus", "updateAndFinish",
     "resetReminder", "edit"}

Receive(w, kind) ==
    /\ pc[w] = "idle"
    /\ MayStart
    /\ kind \in Requests
    /\ served < MaxRequests
    /\ served' = served + 1
    /\ pc' = [pc EXCEPT ![w] = IF kind \in GuardedKinds THEN "check" ELSE "handle"]
    /\ op' = [op EXCEPT ![w] = kind]
    /\ UNCHANGED <<row, channel, jobs, sleepers, copy, clock, prompts, crashes>>

(* EnsureRunIsActive, on a read of its own. *)
CheckEditPermissions(w) ==
    /\ pc[w] = "check"
    /\ \/ /\ row.currentStatus = StatusFinished
          /\ Return(w)
       \/ /\ row.currentStatus # StatusFinished
          /\ Goto(w, "handle")
    /\ UNCHANGED <<row, channel, jobs, sleepers, clock, prompts, budget>>

-----------------------------------------------------------------------------
(* FinishPlaybookRun.  A finished run is left alone. *)

FinishRead(w) ==
    /\ At(w, "handle", {"finish"})
    /\ \/ /\ row.currentStatus = StatusFinished
          /\ Return(w)
       \/ /\ row.currentStatus # StatusFinished
          /\ LoadAndGoto(w, "finish_store")
    /\ UNCHANGED <<row, channel, jobs, sleepers, clock, prompts, budget>>

FinishStore(w) ==
    \/ /\ pc[w] = "finish_store"
       /\ row' = FinishPlaybookRun(row)
       /\ Goto(w, "finish_notify")
       /\ UNCHANGED <<channel, jobs, sleepers, clock, prompts, budget>>
    \/ FailsAt(w, "finish_store", "db")

(* Mutant: the pending status reminder is forgotten. *)
FinishNotifyOnly(w) ==
    \/ /\ pc[w] = "finish_notify"
       /\ jobs' = jobs
       /\ Goto(w, "finish_retro")
       /\ UNCHANGED <<row, channel, sleepers, clock, prompts, budget>>
    \/ FailsAt(w, "finish_notify", "user")

(* Announce the finish, then RemoveReminder. *)
FinishNotify(w) ==
    \/ /\ pc[w] = "finish_notify"
       /\ jobs' = Cancel(jobs, "status")
       /\ Goto(w, "finish_retro")
       /\ UNCHANGED <<row, channel, sleepers, clock, prompts, budget>>
    \/ FailsAt(w, "finish_notify", "user")

(* Mutant: a finish that has no reminder to arm ends there. *)
FinishRetroReturns(w) ==
    LET due == /\ RetrospectiveAllowed
               /\ copy[w].retrospectiveEnabled
               /\ ~copy[w].retrospectivePublished
    IN  \/ /\ pc[w] = "finish_retro"
           /\ jobs' = IF due THEN Cancel(jobs, "retro") ELSE jobs
           /\ IF due /\ RetroRecurs THEN Goto(w, "finish_arm") ELSE Return(w)
           /\ UNCHANGED <<row, channel, sleepers, clock, prompts, budget>>
        \/ due /\ FailsAt(w, "finish_retro", "post")

(* The first reminder to fill out the retrospective, as the copy has it. *)
FinishRetro(w) ==
    LET due == /\ RetrospectiveAllowed
               /\ copy[w].retrospectiveEnabled
               /\ ~copy[w].retrospectivePublished
    IN  \/ /\ pc[w] = "finish_retro"
           /\ jobs' = IF due THEN Cancel(jobs, "retro") ELSE jobs
           /\ Goto(w, IF due /\ RetroRecurs THEN "finish_arm" ELSE "finish_event")
           /\ UNCHANGED <<row, channel, sleepers, clock, prompts, budget>>
        \/ due /\ FailsAt(w, "finish_retro", "post")

(* SetReminder; a key that is already there ends the handler. *)
FinishArm(w) ==
    /\ pc[w] = "finish_arm"
    /\ \/ /\ CanSchedule(jobs, "retro")
          /\ jobs' = ScheduleOnce(jobs, "retro")
          /\ Goto(w, "finish_event")
       \/ /\ ~CanSchedule(jobs, "retro")
          /\ jobs' = jobs
          /\ Return(w)
    /\ UNCHANGED <<row, channel, sleepers, clock, prompts, budget>>

(* Mutant: the channel is archived before the marker is persisted. *)
FinishEventArchivesFirst(w) ==
    \/ /\ pc[w] = "finish_event"
       /\ IF AutoArchive THEN Goto(w, "finish_archive") ELSE Return(w)
       /\ UNCHANGED <<row, channel, jobs, sleepers, clock, prompts, budget>>
    \/ FailsAt(w, "finish_event", "db")

(* The RunFinished timeline event, then shouldAutoArchiveChannel. *)
FinishEvent(w) ==
    \/ /\ pc[w] = "finish_event"
       /\ IF AutoArchive THEN Goto(w, "finish_flag") ELSE Return(w)
       /\ UNCHANGED <<row, channel, jobs, sleepers, clock, prompts, budget>>
    \/ FailsAt(w, "finish_event", "db")

(* autoArchiveChannelOnFinish: persist the flag, archive, undo on failure. *)
FinishFlag(w) ==
    \/ /\ pc[w] = "finish_flag"
       /\ LET flagged == [copy[w] EXCEPT !.autoArchivedChannel = TRUE]
          IN  /\ row' = UpdatePlaybookRun(row, flagged)
              /\ HoldAndGoto(w, flagged, "finish_archive")
       /\ UNCHANGED <<channel, jobs, sleepers, clock, prompts, budget>>
    \/ FailsAt(w, "finish_flag", "db")

(* Archiving a channel that is archived already may be refused. *)
FinishArchive(w) ==
    /\ pc[w] = "finish_archive"
    /\ \/ /\ channel' = IF channel = "active" THEN "plugin" ELSE channel
          /\ Return(w)
       \/ /\ "archive" \in Fallible \/ channel # "active"
          /\ channel' = channel
          /\ Goto(w, "finish_unflag")
    /\ UNCHANGED <<row, jobs, sleepers, clock, prompts, budget>>

FinishUnflag(w) ==
    \/ /\ pc[w] = "finish_unflag"
       /\ row' = UpdatePlaybookRun(row, [copy[w] EXCEPT !.autoArchivedChannel = FALSE])
       /\ Return(w)
       /\ UNCHANGED <<channel, jobs, sleepers, clock, prompts, budget>>
    \/ FailsAt(w, "finish_unflag", "db")

Finish(w) ==
    \/ FinishRead(w) \/ FinishStore(w) \/ FinishNotify(w) \/ FinishRetro(w)
    \/ FinishArm(w) \/ FinishEvent(w) \/ FinishFlag(w) \/ FinishArchive(w)
    \/ FinishUnflag(w)

-----------------------------------------------------------------------------
(* RestorePlaybookRun.  A run that is not finished is left alone. *)

RestoreRead(w) ==
    /\ At(w, "handle", {"restore"})
    /\ \/ /\ row.currentStatus # StatusFinished
          /\ Return(w)
       \/ /\ row.currentStatus = StatusFinished
          /\ LoadAndGoto(w, "restore_store")
    /\ UNCHANGED <<row, channel, jobs, sleepers, clock, prompts, budget>>

RestoreStore(w) ==
    \/ /\ pc[w] = "restore_store"
       /\ clock' = clock + 1
       /\ row' = RestorePlaybookRun(row, clock + 1)
       /\ Goto(w, "restore_user")
       /\ UNCHANGED <<channel, jobs, sleepers, prompts, budget>>
    \/ FailsAt(w, "restore_store", "db")

(* Mutant: the marker is cleared before the channel is un-archived. *)
RestoreUserClearsFirst(w) ==
    \/ /\ pc[w] = "restore_user"
       /\ IF copy[w].autoArchivedChannel THEN Goto(w, "restore_flag") ELSE Return(w)
       /\ UNCHANGED <<row, channel, jobs, sleepers, clock, prompts, budget>>
    \/ FailsAt(w, "restore_user", "user")

(* Mutant: nothing is undone when the channel is active already. *)
RestoreUserIfArchived(w) ==
    \/ /\ pc[w] = "restore_user"
       /\ IF copy[w].autoArchivedChannel /\ channel # "active"
          THEN Goto(w, "restore_unarchive") ELSE Return(w)
       /\ UNCHANGED <<row, channel, jobs, sleepers, clock, prompts, budget>>
    \/ FailsAt(w, "restore_user", "user")

RestoreUser(w) ==
    \/ /\ pc[w] = "restore_user"
       /\ IF copy[w].autoArchivedChannel THEN Goto(w, "restore_unarchive") ELSE Return(w)
       /\ UNCHANGED <<row, channel, jobs, sleepers, clock, prompts, budget>>
    \/ FailsAt(w, "restore_user", "user")

(* restoreChannelByID: an error is logged and the handler goes on. *)
RestoreUnarchive(w) ==
    /\ pc[w] = "restore_unarchive"
    /\ \/ channel' = "active"
       \/ "unarchive" \in Fallible /\ channel' = channel
    /\ Goto(w, "restore_flag")
    /\ UNCHANGED <<row, jobs, sleepers, clock, prompts, budget>>

(* Clear the marker in the copy read before the restore, and write that. *)
RestoreFlag(w) ==
    \/ /\ pc[w] = "restore_flag"
       /\ row' = UpdatePlaybookRun(row, [copy[w] EXCEPT !.autoArchivedChannel = FALSE])
       /\ Return(w)
       /\ UNCHANGED <<channel, jobs, sleepers, clock, prompts, budget>>
    \/ FailsAt(w, "restore_flag", "db")

Restore(w) ==
    \/ RestoreRead(w) \/ RestoreStore(w) \/ RestoreUser(w)
    \/ RestoreUnarchive(w) \/ RestoreFlag(w)

-----------------------------------------------------------------------------
(* ToggleStatusUpdates and ToggleRetrospectiveEnabled. *)

ToggleUpdatesRead(w) ==
    /\ At(w, "handle", {"enableUpdates", "disableUpdates"})
    /\ HoldAndGoto(w, [row EXCEPT !.statusUpdateEnabled = (op[w] = "enableUpdates")],
                   "updates_write")
    /\ UNCHANGED <<row, channel, jobs, sleepers, clock, prompts, budget>>

ToggleUpdatesWrite(w) ==
    \/ /\ pc[w] = "updates_write"
       /\ row' = UpdatePlaybookRun(row, copy[w])
       /\ Goto(w, "updates_cancel")
       /\ UNCHANGED <<channel, jobs, sleepers, clock, prompts, budget>>
    \/ FailsAt(w, "updates_write", "db")

(* Announce the change; disabling also removes the pending reminder, and   *)
(* enabling schedules none.                                                *)
ToggleUpdatesCancel(w) ==
    \/ /\ pc[w] = "updates_cancel"
       /\ jobs' = IF op[w] = "disableUpdates" THEN Cancel(jobs, "status") ELSE jobs
       /\ Return(w)
       /\ UNCHANGED <<row, channel, sleepers, clock, prompts, budget>>
    \/ FailsAt(w, "updates_cancel", "user")

(* Refused on an archived channel unless the user is a system admin: there *)
(* both disjuncts may be taken.                                            *)
ToggleRetroRead(w) ==
    LET enable == op[w] = "enableRetro"
    IN  /\ At(w, "handle", {"enableRetro", "disableRetro"})
        /\ \/ /\ channel # "active" \/ row.retrospectiveEnabled = enable
              /\ Return(w)
           \/ /\ row.retrospectiveEnabled # enable
              /\ HoldAndGoto(w, [row EXCEPT !.retrospectiveEnabled = enable],
                             "retro_write")
        /\ UNCHANGED <<row, channel, jobs, sleepers, clock, prompts, budget>>

(* Mutant: enabling the retrospective of a finished run arms no reminder. *)
ToggleRetroWriteOnly(w) ==
    \/ /\ pc[w] = "retro_write"
       /\ row' = UpdatePlaybookRun(row, copy[w])
       /\ IF op[w] = "disableRetro" THEN Goto(w, "retro_cancel") ELSE Return(w)
       /\ UNCHANGED <<channel, jobs, sleepers, clock, prompts, budget>>
    \/ FailsAt(w, "retro_write", "db")

(* The run the store returns is the copy, so the status tested next is the *)
(* one that was read.                                                      *)
ToggleRetroWrite(w) ==
    LET due == /\ RetrospectiveAllowed
               /\ copy[w].currentStatus = StatusFinished
               /\ ~copy[w].retrospectivePublished
    IN  \/ /\ pc[w] = "retro_write"
           /\ row' = UpdatePlaybookRun(row, copy[w])
           /\ CASE op[w] = "disableRetro"  -> Goto(w, "retro_cancel")
                [] op[w] = "enableRetro" /\ due /\ RetroRecurs
                                           -> Goto(w, "retro_arm")
                [] OTHER                   -> Return(w)
           /\ UNCHANGED <<channel, jobs, sleepers, clock, prompts, budget>>
        \/ FailsAt(w, "retro_write", "db")

ToggleRetroCancel(w) ==
    /\ pc[w] = "retro_cancel"
    /\ jobs' = Cancel(jobs, "retro")
    /\ Return(w)
    /\ UNCHANGED <<row, channel, sleepers, clock, prompts, budget>>

(* An error of SetReminder is only logged. *)
ToggleRetroArm(w) ==
    /\ pc[w] = "retro_arm"
    /\ jobs' = IF CanSchedule(jobs, "retro") THEN ScheduleOnce(jobs, "retro") ELSE jobs
    /\ Return(w)
    /\ UNCHANGED <<row, channel, sleepers, clock, prompts, budget>>

Toggle(w) ==
    \/ ToggleUpdatesRead(w) \/ ToggleUpdatesWrite(w) \/ ToggleUpdatesCancel(w)
    \/ ToggleRetroRead(w) \/ ToggleRetroWrite(w)
    \/ ToggleRetroCancel(w) \/ ToggleRetroArm(w)

-----------------------------------------------------------------------------
(* UpdateStatus and ResetReminder.  Both post or record something and end  *)
(* in SetNewReminder, which reads the run again.                           *)

UpdateStatus(w) ==
    \/ /\ At(w, "handle", {"updateStatus", "updateAndFinish", "resetReminder"})
       /\ Goto(w, "reminder_read")
       /\ UNCHANGED <<row, channel, jobs, sleepers, clock, prompts, budget>>
    \/ /\ At(w, "handle", {"updateStatus", "updateAndFinish", "resetReminder"})
       /\ \/ FailsAt(w, "handle", "post")
          \/ FailsAt(w, "handle", "db")

SetNewReminderRead(w) ==
    /\ pc[w] = "reminder_read"
    /\ LoadAndGoto(w, "reminder_cancel")
    /\ UNCHANGED <<row, channel, jobs, sleepers, clock, prompts, budget>>

SetNewReminderCancel(w) ==
    /\ pc[w] = "reminder_cancel"
    /\ jobs' = Cancel(jobs, "status")
    /\ Goto(w, IF copy[w].reminderPostID = 0 THEN "reminder_write" ELSE "reminder_unpost")
    /\ UNCHANGED <<row, channel, sleepers, clock, prompts, budget>>

(* Mutant: the id of the removed post stays in the copy. *)
SetNewReminderUnpostOnly(w) ==
    \/ /\ pc[w] = "reminder_unpost"
       /\ livePrompts' = livePrompts \ {copy[w].reminderPostID}
       /\ Goto(w, "reminder_write")
       /\ UNCHANGED <<row, channel, jobs, sleepers, clock, lastPrompt, budget>>
    \/ FailsAt(w, "reminder_unpost", "removePost")

(* removePost; a post that is already deleted is no error. *)
SetNewReminderUnpost(w) ==
    \/ /\ pc[w] = "reminder_unpost"
       /\ livePrompts' = livePrompts \ {copy[w].reminderPostID}
       /\ HoldAndGoto(w, [copy[w] EXCEPT !.reminderPostID = 0], "reminder_write")
       /\ UNCHANGED <<row, channel, jobs, sleepers, clock, lastPrompt, budget>>
    \/ FailsAt(w, "reminder_unpost", "removePost")

(* An update that finishes the run asks for no further reminder. *)
WantsReminder(w) == op[w] \in {"updateStatus", "resetReminder"}

SetNewReminderWrite(w) ==
    \/ /\ pc[w] = "reminder_write"
       /\ clock' = clock + 1
       /\ row' = UpdatePlaybookRun(row,
                     [copy[w] EXCEPT !.reminderTimer      = WantsReminder(w),
                                     !.lastStatusUpdateAt = clock + 1])
       /\ Goto(w, "reminder_arm")
       /\ UNCHANGED <<channel, jobs, sleepers, prompts, budget>>
    \/ FailsAt(w, "reminder_write", "db")

(* SetReminder if one is wanted.  The handler for an update that finishes  *)
(* the run goes on to FinishPlaybookRun.                                   *)
SetNewReminderArm(w) ==
    /\ pc[w] = "reminder_arm"
    /\ \/ /\ WantsReminder(w)
          /\ jobs' = IF CanSchedule(jobs, "status")
                     THEN ScheduleOnce(jobs, "status") ELSE jobs
          /\ Return(w)
       \/ /\ ~WantsReminder(w)
          /\ jobs' = jobs
          /\ pc' = [pc EXCEPT ![w] = "handle"]
          /\ op' = [op EXCEPT ![w] = "finish"]
          /\ copy' = [copy EXCEPT ![w] = Blank]
       \/ /\ ~WantsReminder(w)
          /\ "db" \in Fallible
          /\ jobs' = jobs
          /\ Return(w)
    /\ UNCHANGED <<row, channel, sleepers, clock, prompts, budget>>

StatusUpdate(w) ==
    \/ UpdateStatus(w) \/ SetNewReminderRead(w) \/ SetNewReminderCancel(w)
    \/ SetNewReminderUnpost(w) \/ SetNewReminderWrite(w) \/ SetNewReminderArm(w)

-----------------------------------------------------------------------------
(* Handlers that read the run, change fields of the copy and write it back. *)

PublishRetrospective(w) ==
    \/ /\ At(w, "handle", {"publishRetro"})
       /\ HoldAndGoto(w, [row EXCEPT !.retrospectivePublished   = TRUE,
                                     !.retrospectiveWasCanceled = FALSE],
                      "publish_write")
       /\ UNCHANGED <<row, channel, jobs, sleepers, clock, prompts, budget>>
    \/ /\ pc[w] = "publish_write"
       /\ row' = UpdatePlaybookRun(row, copy[w])
       /\ Return(w)
       /\ UNCHANGED <<channel, jobs, sleepers, clock, prompts, budget>>
    \/ FailsAt(w, "publish_write", "db")

CancelRetrospective(w) ==
    \/ /\ At(w, "handle", {"cancelRetro"})
       /\ HoldAndGoto(w, [row EXCEPT !.retrospectivePublished   = TRUE,
                                     !.retrospectiveWasCanceled = TRUE],
                      "cancel_write")
       /\ UNCHANGED <<row, channel, jobs, sleepers, clock, prompts, budget>>
    \/ /\ pc[w] = "cancel_write"
       /\ row' = UpdatePlaybookRun(row, copy[w])
       /\ Return(w)
       /\ UNCHANGED <<channel, jobs, sleepers, clock, prompts, budget>>
    \/ FailsAt(w, "cancel_write", "db")

(* UpdateRetrospective, and every checklist, owner and item handler: the   *)
(* fields they change are none of the lifecycle columns, and all of those  *)
(* are written back as they were read.                                     *)
EditRun(w) ==
    \/ /\ At(w, "handle", {"updateRetro", "edit"})
       /\ LoadAndGoto(w, "edit_write")
       /\ UNCHANGED <<row, channel, jobs, sleepers, clock, prompts, budget>>
    \/ /\ pc[w] = "edit_write"
       /\ row' = UpdatePlaybookRun(row, copy[w])
       /\ Return(w)
       /\ UNCHANGED <<channel, jobs, sleepers, clock, prompts, budget>>
    \/ FailsAt(w, "edit_write", "db")

-----------------------------------------------------------------------------
(* HandleReminder: the scheduler calls back when a job's time has come. *)

FireReminder(key) ==
    /\ jobs[key] = "armed"
    /\ pc[key] = "idle"
    /\ MayStart
    /\ jobs' = Fire(jobs, key)
    /\ pc' = [pc EXCEPT ![key] = "handle"]
    /\ UNCHANGED <<row, channel, sleepers, op, copy, clock, prompts, budget>>

(* handleStatusUpdateReminder.  It looks at neither the status of the run  *)
(* nor whether status updates are enabled.                                 *)
StatusReminderRead ==
    /\ pc["status"] = "handle"
    /\ \/ LoadAndGoto("status", "prompt_post") /\ jobs' = jobs
       \/ "user" \in Fallible /\ ReturnFromCallback("status")
    /\ UNCHANGED <<row, channel, sleepers, clock, prompts, budget>>

StatusReminderPost ==
    /\ pc["status"] = "prompt_post"
    /\ \/ /\ lastPrompt' = lastPrompt + 1
          /\ livePrompts' = livePrompts \cup {lastPrompt + 1}
          /\ HoldAndGoto("status",
                 [copy["status"] EXCEPT !.reminderPostID = lastPrompt + 1],
                 "prompt_write")
          /\ jobs' = jobs
       \/ /\ "post" \in Fallible
          /\ UNCHANGED prompts
          /\ ReturnFromCallback("status")
    /\ UNCHANGED <<row, channel, sleepers, clock, budget>>

(* Mutant: the run as it was read is written back, without the post's id. *)
StatusReminderForgetsPost ==
    /\ pc["status"] = "prompt_write"
    /\ row' = row
    /\ ReturnFromCallback("status")
    /\ UNCHANGED <<channel, sleepers, clock, prompts, budget>>

StatusReminderWrite ==
    /\ pc["status"] = "prompt_write"
    /\ \/ row' = UpdatePlaybookRun(row, copy["status"])
       \/ "db" \in Fallible /\ row' = row
    /\ ReturnFromCallback("status")
    /\ UNCHANGED <<channel, sleepers, clock, prompts, budget>>

(* handleReminderToFillRetro: it reminds only if the retrospective is      *)
(* enabled, not published, and the run is finished.                        *)
RetroReminderRead ==
    /\ pc["retro"] = "handle"
    /\ \/ /\ ~row.retrospectiveEnabled
          /\ Return("retro")
          /\ jobs' = Cancel(jobs, "retro")
       \/ /\ row.retrospectiveEnabled
          /\ row.retrospectivePublished \/ row.currentStatus # StatusFinished
          /\ ReturnFromCallback("retro")
       \/ "db" \in Fallible /\ ReturnFromCallback("retro")
       \/ /\ row.retrospectiveEnabled
          /\ ~row.retrospectivePublished
          /\ row.currentStatus = StatusFinished
          /\ Goto("retro", "retro_post")
          /\ jobs' = jobs
    /\ UNCHANGED <<row, channel, sleepers, clock, prompts, budget>>

(* After the post a goroutine is started that re-arms the reminder later,  *)
(* because the key cannot be scheduled while its callback runs.            *)
RetroReminderPost ==
    /\ pc["retro"] = "retro_post"
    /\ ReturnFromCallback("retro")
    /\ \/ sleepers' = sleepers + 1
       \/ "post" \in Fallible /\ sleepers' = sleepers
    /\ UNCHANGED <<row, channel, clock, prompts, budget>>

(* The goroutine wakes up and calls SetReminder, whatever has happened     *)
(* while it slept; an error is logged.                                     *)
RearmRetroReminder ==
    /\ sleepers > 0
    /\ sleepers' = sleepers - 1
    /\ jobs' = IF CanSchedule(jobs, "retro") THEN ScheduleOnce(jobs, "retro") ELSE jobs
    /\ UNCHANGED <<row, channel, local, clock, prompts, budget>>

StatusReminder == StatusReminderRead \/ StatusReminderPost \/ StatusReminderWrite
RetroReminder  == RetroReminderRead \/ RetroReminderPost

-----------------------------------------------------------------------------
(* What happens around the server. *)

(* Channel members archive and unarchive the channel without the plugin. *)
ArchiveByUser ==
    /\ ManualChannelOps
    /\ channel = "active"
    /\ channel' = "user"
    /\ UNCHANGED <<row, jobs, sleepers, local, clock, prompts, budget>>

UnarchiveByUser ==
    /\ ManualChannelOps
    /\ channel # "active"
    /\ channel' = "active"
    /\ UNCHANGED <<row, jobs, sleepers, local, clock, prompts, budget>>

(* The plugin process dies and is activated again: handlers, callbacks and *)
(* sleeping goroutines are gone; row, channel, posts and job keys stay.    *)
Crash ==
    /\ crashes < MaxCrashes
    /\ crashes' = crashes + 1
    /\ jobs' = Restart(jobs)
    /\ sleepers' = 0
    /\ pc' = [a \in Actors |-> "idle"]
    /\ op' = [a \in Actors |-> "none"]
    /\ copy' = [a \in Actors |-> Blank]
    /\ UNCHANGED <<row, channel, clock, prompts, served>>

(* The bound on requests is used up and the server is at rest. *)
AtRest ==
    /\ served = MaxRequests
    /\ NoneRunning
    /\ UNCHANGED vars

Handle(w) ==
    \/ CheckEditPermissions(w)
    \/ Finish(w) \/ Restore(w) \/ Toggle(w) \/ StatusUpdate(w)
    \/ PublishRetrospective(w) \/ CancelRetrospective(w) \/ EditRun(w)

Next ==
    \/ \E w \in Workers : Handle(w) \/ \E kind \in RequestKinds : Receive(w, kind)
    \/ \E key \in Keys : FireReminder(key)
    \/ StatusReminder
    \/ RetroReminder
    \/ RearmRetroReminder
    \/ ArchiveByUser
    \/ UnarchiveByUser
    \/ Crash
    \/ AtRest

Spec == Init /\ [][Next]_vars

(* Goroutines are scheduled and jobs fire when their time comes; nothing   *)
(* obliges users to send requests or the process to die.                   *)
Fairness ==
    /\ \A w \in Workers : WF_vars(Handle(w))
    /\ \A key \in Keys : WF_vars(FireReminder(key))
    /\ WF_vars(StatusReminder)
    /\ WF_vars(RetroReminder)
    /\ WF_vars(RearmRetroReminder)

FairSpec == Spec /\ Fairness

-----------------------------------------------------------------------------
(* Properties.  Each holds of the configurations its run names; the README *)
(* says which, and why not of the others.                                  *)

LocalsOK ==
    /\ pc \in [Actors -> Labels]
    /\ op \in [Actors -> RequestKinds \cup {"none"}]
    /\ copy \in [Actors -> PlaybookRun]

TypeOK ==
    /\ row \in PlaybookRun
    /\ channel \in {"active", "plugin", "user"}
    /\ jobs \in [Keys -> JobStates]
    /\ sleepers \in Nat
    /\ LocalsOK
    /\ clock \in Nat
    /\ livePrompts \subseteq 1..lastPrompt
    /\ lastPrompt \in Nat
    /\ served \in 0..MaxRequests
    /\ crashes \in 0..MaxCrashes

(* No handler, callback or sleeping goroutine is at work. *)
Quiescent == NoneRunning /\ sleepers = 0

InProgress == row.currentStatus = StatusInProgress
Finished   == row.currentStatus = StatusFinished

Restoring == \E w \in Workers : pc[w] = "restore_store"

(* However handlers interleave, and whatever stale copies they write back, *)
(* a run that is finished becomes active again only by a restore.  (The    *)
(* whole-row UPDATE leaves CurrentStatus and EndAt out.)                   *)
FinishedStaysFinished ==
    [][Finished /\ ~Restoring => row'.currentStatus = StatusFinished]_vars

(* A channel the plugin archived is marked AutoArchivedChannel, or no      *)
(* restore will ever un-archive it (autoArchiveChannelOnFinish).           *)
ArchivedHasFlag == channel = "plugin" => row.autoArchivedChannel

(* The handlers keep the write-ahead discipline of module ArchiveMarker.   *)
Marker == INSTANCE ArchiveMarker WITH
    finished <- Finished,
    marked   <- row.autoArchivedChannel,
    archived <- channel = "plugin"

(* Every step of the server is a step of ArchiveMarker or changes none of  *)
(* what it speaks of: the marker goes on before the channel is archived,   *)
(* only a finished run's channel is archived, and the marker goes off only *)
(* after (autoArchiveChannelOnFinish, RestorePlaybookRun).                 *)
KeepsMarker == Marker!Spec

(* Between requests an active run is not in a channel the plugin archived, *)
(* and carries no marker from an earlier finish (RestorePlaybookRun,       *)
(* "the marker must be cleared so future finishes start fresh").           *)
RestoredStartsFresh ==
    Quiescent /\ InProgress => channel # "plugin" /\ ~row.autoArchivedChannel

(* Between requests a finished run whose channel is to be archived is in   *)
(* an archived channel (FinishPlaybookRun).                                *)
FinishArchives == Quiescent /\ Finished /\ AutoArchive => channel = "plugin"

(* Between requests a finished run has no status reminder scheduled:       *)
(* FinishPlaybookRun removes it and nothing that a finished run admits     *)
(* sets another.                                                           *)
NoReminderAfterFinish == Quiescent /\ Finished => jobs["status"] = "none"

(* Between requests the reminder posts in the channel are exactly the one  *)
(* the run records, so the next report can take it away (SetNewReminder).  *)
PromptsTracked ==
    Quiescent => livePrompts = {row.reminderPostID} \ {0}

(* Once someone has reported or snoozed, an active run that shows a        *)
(* countdown has the next reminder scheduled, or posted already            *)
(* (PreviousReminder: when "the next scheduled status update will be       *)
(* posted").                                                               *)
PromptIsPending ==
    Quiescent /\ InProgress /\ row.reminderTimer /\ row.lastStatusUpdateAt > 0
        => jobs["status"] = "armed" \/ row.reminderPostID \in livePrompts

(* The owner is to be reminded of an open retrospective. *)
RetroDue ==
    /\ RetrospectiveAllowed
    /\ RetroRecurs
    /\ Finished
    /\ row.retrospectiveEnabled
    /\ ~row.retrospectivePublished

(* While the retrospective stays due the owner is reminded again and again. *)
RetroReminderRecurs == RetroDue ~> (pc["retro"] = "retro_post" \/ ~RetroDue)
=============================================================================
