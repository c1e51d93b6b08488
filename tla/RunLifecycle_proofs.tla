-------------------------- MODULE RunLifecycle_proofs --------------------------
(***************************************************************************)
(* Theorems about RunLifecycle for every set of workers and requests, and  *)
(* every bound; the last two speak of the history MCRunLifecycle adds.     *)
(***************************************************************************)
EXTENDS MCRunLifecycle, TLAPS

-----------------------------------------------------------------------------
(* Typing of the helpers. *)

(* Every statement of the store takes typed rows to a typed row. *)
LEMMA RowTyping ==
    ASSUME NEW stored \in PlaybookRun, NEW held \in PlaybookRun, NEW at \in Nat
    PROVE  /\ UpdatePlaybookRun(stored, held) \in PlaybookRun
           /\ FinishPlaybookRun(stored) \in PlaybookRun
           /\ RestorePlaybookRun(stored, at) \in PlaybookRun
BY DEF UpdatePlaybookRun, FinishPlaybookRun, RestorePlaybookRun, PlaybookRun,
       StatusFinished, StatusInProgress

(* A new run, and the blank copy of an idle actor, are typed. *)
LEMMA NewRunTyping ==
    ASSUME NEW timer \in BOOLEAN, NEW retro \in BOOLEAN
    PROVE  NewPlaybookRun(timer, retro) \in PlaybookRun
BY DEF NewPlaybookRun, PlaybookRun, StatusInProgress, StatusFinished

LEMMA BlankTyping == Blank \in PlaybookRun
BY NewRunTyping DEF Blank

(* Every call to the scheduler keeps each key in one of its states. *)
LEMMA JobTyping ==
    ASSUME NEW js \in [Keys -> JobStates], NEW k \in Keys
    PROVE  /\ ScheduleOnce(js, k) \in [Keys -> JobStates]
           /\ Cancel(js, k) \in [Keys -> JobStates]
           /\ Fire(js, k) \in [Keys -> JobStates]
           /\ CallbackReturned(js, k) \in [Keys -> JobStates]
           /\ Restart(js) \in [Keys -> JobStates]
BY DEF ScheduleOnce, Cancel, Fire, CallbackReturned, Restart, JobStates

(* A change of one field of a typed copy leaves it typed. *)
LEMMA FieldTyping ==
    ASSUME NEW held \in PlaybookRun, NEW flag \in BOOLEAN, NEW n \in Nat
    PROVE  /\ [held EXCEPT !.autoArchivedChannel = flag] \in PlaybookRun
           /\ [held EXCEPT !.statusUpdateEnabled = flag] \in PlaybookRun
           /\ [held EXCEPT !.retrospectiveEnabled = flag] \in PlaybookRun
           /\ [held EXCEPT !.reminderPostID = n] \in PlaybookRun
           /\ [held EXCEPT !.reminderTimer = flag, !.lastStatusUpdateAt = n]
                  \in PlaybookRun
           /\ [held EXCEPT !.retrospectivePublished = TRUE,
                            !.retrospectiveWasCanceled = flag] \in PlaybookRun
BY DEF PlaybookRun

(* Moving an actor to a label keeps the locals typed. *)
LEMMA LocalTyping ==
    ASSUME LocalsOK, NEW a \in Actors, NEW label \in Labels, NEW held \in PlaybookRun,
           row \in PlaybookRun
    PROVE  /\ Goto(a, label) => LocalsOK'
           /\ LoadAndGoto(a, label) => LocalsOK'
           /\ HoldAndGoto(a, held, label) => LocalsOK'
           /\ Return(a) => LocalsOK'
<1>1. Goto(a, label) => LocalsOK'
  BY DEF Goto, LocalsOK
<1>2. LoadAndGoto(a, label) => LocalsOK'
  BY DEF LoadAndGoto, LocalsOK
<1>3. HoldAndGoto(a, held, label) => LocalsOK'
  BY DEF HoldAndGoto, LocalsOK
<1>4. Return(a) => LocalsOK'
  BY BlankTyping DEF Return, LocalsOK, Labels
<1> QED BY <1>1, <1>2, <1>3, <1>4

(* A failing call changes the locals alone. *)
LEMMA FailTyping ==
    ASSUME TypeOK, NEW a \in Actors, NEW label, NEW call, FailsAt(a, label, call)
    PROVE  TypeOK'
<1>1. LocalsOK'
  BY LocalTyping, BlankTyping DEF FailsAt, TypeOK, Labels
<1> QED BY <1>1 DEF FailsAt, TypeOK, prompts, budget

-----------------------------------------------------------------------------
(* Type correctness. *)

USE DEF prompts, budget

LEMMA FinishTyping ==
    ASSUME TypeOK, NEW w \in Actors, Finish(w)
    PROVE  TypeOK'
<1> USE RowTyping, JobTyping, LocalTyping, FailTyping
<1>1. CASE FinishRead(w)
  BY <1>1 DEF FinishRead, TypeOK, Labels
<1>2. CASE FinishStore(w)
  BY <1>2 DEF FinishStore, TypeOK, Labels
<1>3. CASE FinishNotify(w)
  BY <1>3 DEF FinishNotify, TypeOK, Labels, Keys
<1>4. CASE FinishRetro(w)
  BY <1>4 DEF FinishRetro, TypeOK, Labels, Keys
<1>5. CASE FinishArm(w)
  BY <1>5 DEF FinishArm, TypeOK, Labels, Keys
<1>6. CASE FinishEvent(w)
  BY <1>6 DEF FinishEvent, TypeOK, Labels
<1>7. CASE FinishFlag(w)
  <2> DEFINE flagged == [copy[w] EXCEPT !.autoArchivedChannel = TRUE]
  <2>1. copy[w] \in PlaybookRun /\ flagged \in PlaybookRun
    BY FieldTyping DEF TypeOK, LocalsOK
  <2>2. CASE FailsAt(w, "finish_flag", "db")
    BY <2>2
  <2>3. ASSUME row' = UpdatePlaybookRun(row, flagged),
               HoldAndGoto(w, flagged, "finish_archive"),
               UNCHANGED <<channel, jobs, sleepers, clock, prompts, budget>>
        PROVE  TypeOK'
    <3> HIDE DEF flagged
    <3> QED BY <2>1, <2>3 DEF TypeOK, Labels
  <2> QED BY <1>7, <2>2, <2>3 DEF FinishFlag
<1>8. CASE FinishArchive(w)
  BY <1>8 DEF FinishArchive, TypeOK, Labels
<1>9. CASE FinishUnflag(w)
  <2>1. [copy[w] EXCEPT !.autoArchivedChannel = FALSE] \in PlaybookRun
    BY FieldTyping DEF TypeOK, LocalsOK
  <2> QED BY <1>9, <2>1 DEF FinishUnflag, TypeOK, Labels
<1> QED BY <1>1, <1>2, <1>3, <1>4, <1>5, <1>6, <1>7, <1>8, <1>9 DEF Finish

LEMMA RestoreTyping ==
    ASSUME TypeOK, NEW w \in Actors, Restore(w)
    PROVE  TypeOK'
<1> USE RowTyping, LocalTyping, FailTyping
<1>1. CASE RestoreRead(w)
  BY <1>1 DEF RestoreRead, TypeOK, Labels
<1>2. CASE RestoreStore(w)
  <2>1. clock + 1 \in Nat
    BY DEF TypeOK
  <2> QED BY <1>2, <2>1 DEF RestoreStore, TypeOK, Labels
<1>3. CASE RestoreUser(w)
  BY <1>3 DEF RestoreUser, TypeOK, Labels
<1>4. CASE RestoreUnarchive(w)
  BY <1>4 DEF RestoreUnarchive, TypeOK, Labels
<1>5. CASE RestoreFlag(w)
  <2>1. [copy[w] EXCEPT !.autoArchivedChannel = FALSE] \in PlaybookRun
    BY FieldTyping DEF TypeOK, LocalsOK
  <2> QED BY <1>5, <2>1 DEF RestoreFlag, TypeOK, Labels
<1> QED BY <1>1, <1>2, <1>3, <1>4, <1>5 DEF Restore

LEMMA ToggleTyping ==
    ASSUME TypeOK, NEW w \in Actors, Toggle(w)
    PROVE  TypeOK'
<1> USE RowTyping, JobTyping, LocalTyping, FailTyping
<1>0. copy[w] \in PlaybookRun /\ row \in PlaybookRun
  BY DEF TypeOK, LocalsOK
<1>1. CASE ToggleUpdatesRead(w)
  BY <1>0, <1>1, FieldTyping DEF ToggleUpdatesRead, TypeOK, Labels
<1>2. CASE ToggleUpdatesWrite(w)
  BY <1>0, <1>2 DEF ToggleUpdatesWrite, TypeOK, Labels
<1>3. CASE ToggleUpdatesCancel(w)
  BY <1>3 DEF ToggleUpdatesCancel, TypeOK, Labels, Keys
<1>4. CASE ToggleRetroRead(w)
  BY <1>0, <1>4, FieldTyping DEF ToggleRetroRead, TypeOK, Labels
<1>5. CASE ToggleRetroWrite(w)
  BY <1>0, <1>5 DEF ToggleRetroWrite, TypeOK, Labels
<1>6. CASE ToggleRetroCancel(w)
  BY <1>6 DEF ToggleRetroCancel, TypeOK, Labels, Keys
<1>7. CASE ToggleRetroArm(w)
  BY <1>7 DEF ToggleRetroArm, TypeOK, Labels, Keys
<1> QED BY <1>1, <1>2, <1>3, <1>4, <1>5, <1>6, <1>7 DEF Toggle

LEMMA StatusUpdateTyping ==
    ASSUME TypeOK, NEW w \in Actors, StatusUpdate(w)
    PROVE  TypeOK'
<1> USE RowTyping, JobTyping, LocalTyping, FailTyping
<1>0. copy[w] \in PlaybookRun /\ row \in PlaybookRun /\ clock + 1 \in Nat
  BY DEF TypeOK, LocalsOK
<1>1. CASE UpdateStatus(w)
  BY <1>1 DEF UpdateStatus, TypeOK, Labels
<1>2. CASE SetNewReminderRead(w)
  BY <1>2 DEF SetNewReminderRead, TypeOK, Labels
<1>3. CASE SetNewReminderCancel(w)
  BY <1>3 DEF SetNewReminderCancel, TypeOK, Labels, Keys
<1>4. CASE SetNewReminderUnpost(w)
  BY <1>0, <1>4, FieldTyping DEF SetNewReminderUnpost, TypeOK, Labels
<1>5. CASE SetNewReminderWrite(w)
  <2>1. [copy[w] EXCEPT !.reminderTimer      = WantsReminder(w),
                        !.lastStatusUpdateAt = clock + 1] \in PlaybookRun
    <3>1. WantsReminder(w) \in BOOLEAN
      BY DEF WantsReminder
    <3> QED BY <1>0, <3>1, FieldTyping
  <2> QED BY <1>0, <1>5, <2>1 DEF SetNewReminderWrite, TypeOK, Labels
<1>6. CASE SetNewReminderArm(w)
  BY <1>0, <1>6, BlankTyping
     DEF SetNewReminderArm, TypeOK, LocalsOK, Labels, Keys, RequestKinds
<1> QED BY <1>1, <1>2, <1>3, <1>4, <1>5, <1>6 DEF StatusUpdate

LEMMA EditTyping ==
    ASSUME TypeOK, NEW w \in Actors,
           PublishRetrospective(w) \/ CancelRetrospective(w) \/ EditRun(w)
    PROVE  TypeOK'
<1> USE RowTyping, LocalTyping, FailTyping
<1>0. copy[w] \in PlaybookRun /\ row \in PlaybookRun
  BY DEF TypeOK, LocalsOK
<1>1. CASE PublishRetrospective(w)
  BY <1>0, <1>1, FieldTyping DEF PublishRetrospective, TypeOK, Labels
<1>2. CASE CancelRetrospective(w)
  BY <1>0, <1>2, FieldTyping DEF CancelRetrospective, TypeOK, Labels
<1>3. CASE EditRun(w)
  BY <1>0, <1>3 DEF EditRun, TypeOK, Labels
<1> QED BY <1>1, <1>2, <1>3

LEMMA CallbackTyping ==
    ASSUME TypeOK, StatusReminder \/ RetroReminder \/ RearmRetroReminder
    PROVE  TypeOK'
<1> USE RowTyping, JobTyping, LocalTyping
<1>0. /\ "status" \in Actors /\ "retro" \in Actors
      /\ "status" \in Keys /\ "retro" \in Keys
      /\ copy["status"] \in PlaybookRun /\ row \in PlaybookRun
      /\ jobs \in [Keys -> JobStates]
  BY DEF TypeOK, LocalsOK, Actors, Keys
<1>1. CASE StatusReminderRead
  BY <1>0, <1>1 DEF StatusReminderRead, ReturnFromCallback, TypeOK, Labels
<1>2. CASE StatusReminderPost
  <2>1. lastPrompt + 1 \in Nat
    BY DEF TypeOK
  <2>2. [copy["status"] EXCEPT !.reminderPostID = lastPrompt + 1] \in PlaybookRun
    BY <1>0, <2>1, FieldTyping
  <2>3. LocalsOK' /\ jobs' \in [Keys -> JobStates]
    BY <1>0, <1>2, <2>2 DEF StatusReminderPost, ReturnFromCallback, TypeOK, Labels
  <2>4. livePrompts' \subseteq 1..lastPrompt' /\ lastPrompt' \in Nat
    BY <1>2, <2>1 DEF StatusReminderPost, TypeOK
  <2> QED BY <1>2, <2>3, <2>4 DEF StatusReminderPost, TypeOK
<1>3. CASE StatusReminderWrite
  BY <1>0, <1>3 DEF StatusReminderWrite, ReturnFromCallback, TypeOK, Labels
<1>4. CASE RetroReminderRead
  BY <1>0, <1>4 DEF RetroReminderRead, ReturnFromCallback, TypeOK, Labels
<1>5. CASE RetroReminderPost
  BY <1>0, <1>5 DEF RetroReminderPost, ReturnFromCallback, TypeOK, Labels
<1>6. CASE RearmRetroReminder
  BY <1>0, <1>6 DEF RearmRetroReminder, TypeOK, LocalsOK, local
<1> QED BY <1>1, <1>2, <1>3, <1>4, <1>5, <1>6 DEF StatusReminder, RetroReminder

(* Requests arriving, jobs firing, users, crashes and stuttering. *)
LEMMA EnvironmentTyping ==
    ASSUME TypeOK,
           \/ \E w \in Workers : \/ CheckEditPermissions(w)
                                 \/ \E kind \in RequestKinds : Receive(w, kind)
           \/ \E key \in Keys : FireReminder(key)
           \/ ArchiveByUser \/ UnarchiveByUser \/ Crash \/ AtRest
           \/ UNCHANGED vars
    PROVE  TypeOK'
<1> USE JobTyping, LocalTyping
<1>1. ASSUME NEW w \in Workers, CheckEditPermissions(w)
      PROVE  TypeOK'
  BY <1>1 DEF CheckEditPermissions, Actors, TypeOK, Labels
<1>2. ASSUME NEW w \in Workers, NEW kind \in RequestKinds, Receive(w, kind)
      PROVE  TypeOK'
  BY <1>2, BoundsAssumption DEF Receive, Actors, TypeOK, LocalsOK, Labels
<1>3. ASSUME NEW key \in Keys, FireReminder(key)
      PROVE  TypeOK'
  BY <1>3 DEF FireReminder, Actors, TypeOK, LocalsOK, Labels
<1>4. CASE ArchiveByUser \/ UnarchiveByUser
  BY <1>4 DEF ArchiveByUser, UnarchiveByUser, TypeOK, LocalsOK, local
<1>5. CASE Crash
  BY <1>5, BlankTyping, BoundsAssumption
     DEF Crash, TypeOK, LocalsOK, Labels, Keys
<1>6. CASE AtRest \/ UNCHANGED vars
  BY <1>6 DEF AtRest, vars, TypeOK, LocalsOK
<1> QED BY <1>1, <1>2, <1>3, <1>4, <1>5, <1>6

LEMMA InitTyping == Init => TypeOK
BY NewRunTyping, BlankTyping, BoundsAssumption
   DEF Init, TypeOK, LocalsOK, JobStates, Labels

LEMMA NextTyping == TypeOK /\ [Next]_vars => TypeOK'
<1> SUFFICES ASSUME TypeOK, [Next]_vars
             PROVE  TypeOK'
  OBVIOUS
<1> USE DEF Actors
<1>1. ASSUME NEW w \in Workers, Handle(w)
      PROVE  TypeOK'
  BY <1>1, EnvironmentTyping, FinishTyping, RestoreTyping, ToggleTyping,
     StatusUpdateTyping, EditTyping DEF Handle
<1> QED BY <1>1, CallbackTyping, EnvironmentTyping DEF Next

(* Every reachable state is typed: in particular a prompt recorded by a    *)
(* callback is one that was numbered, and no budget is exceeded.           *)
THEOREM TypeCorrect == Spec => []TypeOK
<1> QED BY InitTyping, NextTyping, PTL DEF Spec

-----------------------------------------------------------------------------
(* The archive marker, when requests do not overlap, the process does not  *)
(* die, and a restore is let down by no other service.                     *)

Undisturbed ==
    /\ Serial
    /\ "user" \notin Fallible
    /\ "unarchive" \notin Fallible
    /\ MaxCrashes = 0

(* At most one handler or callback is at work. *)
OneAtATime == \A a, b \in Actors : pc[a] # "idle" /\ pc[b] # "idle" => a = b

Finishing ==
    { "finish_store", "finish_notify", "finish_retro", "finish_arm",
      "finish_event", "finish_flag", "finish_archive", "finish_unflag" }

(* From these steps on the copy an actor holds is tested or written back. *)
Holding ==
    Finishing \cup
    { "restore_store", "restore_user", "restore_unarchive", "restore_flag",
      "updates_write", "retro_write", "reminder_cancel", "reminder_unpost",
      "reminder_write", "publish_write", "cancel_write", "edit_write",
      "prompt_post", "prompt_write" }

(* What is known of the row and the channel while a is at a step. *)
MarkerAt(a) ==
    /\ pc[a] \in Holding =>
           copy[a].autoArchivedChannel = row.autoArchivedChannel
    /\ pc[a] \in Finishing => channel # "plugin"
    /\ pc[a] = "finish_store" => InProgress
    /\ pc[a] \in Finishing \ {"finish_store"} => Finished
    /\ pc[a] = "finish_archive" => row.autoArchivedChannel
    /\ pc[a] = "restore_store" => Finished
    /\ pc[a] = "restore_flag" => channel # "plugin"
    /\ pc[a] \in {"restore_user", "restore_unarchive", "restore_flag"} => InProgress

Unarchiving == {"restore_user", "restore_unarchive"}

(* Only a restore that is about to un-archive it finds an active run in an *)
(* archived channel.                                                       *)
ActiveIsFree ==
    (\A a \in Actors : pc[a] \notin Unarchiving) /\ InProgress => channel # "plugin"

MarkerInv ==
    /\ OneAtATime
    /\ \A a \in Actors : MarkerAt(a)
    /\ ActiveIsFree
    /\ ArchivedHasFlag

(* A step that ArchiveMarker allows, or that it does not see. *)
MarkerStep == [Marker!Next]_(Marker!vars)

(* What each statement of the store does to the status and the marker. *)
LEMMA RowEffect ==
    ASSUME NEW stored \in PlaybookRun, NEW held \in PlaybookRun, NEW at
    PROVE  /\ UpdatePlaybookRun(stored, held).currentStatus = stored.currentStatus
           /\ UpdatePlaybookRun(stored, held).autoArchivedChannel
                  = held.autoArchivedChannel
           /\ FinishPlaybookRun(stored).currentStatus = StatusFinished
           /\ FinishPlaybookRun(stored).autoArchivedChannel
                  = stored.autoArchivedChannel
           /\ RestorePlaybookRun(stored, at).currentStatus = StatusInProgress
           /\ RestorePlaybookRun(stored, at).autoArchivedChannel
                  = stored.autoArchivedChannel
           /\ FinishPlaybookRun(stored).reminderPostID = stored.reminderPostID
           /\ RestorePlaybookRun(stored, at).reminderPostID = stored.reminderPostID
BY DEF PlaybookRun, UpdatePlaybookRun, FinishPlaybookRun, RestorePlaybookRun

LEMMA StatusTyping ==
    ASSUME TypeOK
    PROVE  /\ InProgress <=> ~Finished
           /\ row.autoArchivedChannel \in BOOLEAN
           /\ row \in PlaybookRun
           /\ \A a \in Actors : copy[a] \in PlaybookRun
BY DEF TypeOK, LocalsOK, PlaybookRun, InProgress, Finished, StatusInProgress,
       StatusFinished

(* When one actor moves, what holds of it is all there is to check. *)
LEMMA Focus ==
    ASSUME TypeOK, OneAtATime, NEW a \in Actors, pc[a] # "idle",
           NEW label, pc' = [pc EXCEPT ![a] = label],
           MarkerAt(a)',
           (pc[a] \notin Unarchiving /\ InProgress => channel # "plugin")',
           ArchivedHasFlag'
    PROVE  MarkerInv'
<1>1. \A b \in Actors \ {a} : pc'[b] = "idle"
  BY DEF OneAtATime, TypeOK, LocalsOK
<1>2. OneAtATime'
  BY <1>1 DEF OneAtATime
<1>3. \A b \in Actors : MarkerAt(b)'
  BY <1>1 DEF MarkerAt, Holding, Finishing
<1>4. ActiveIsFree'
  BY DEF ActiveIsFree
<1> QED BY <1>2, <1>3, <1>4 DEF MarkerInv

(* A step that changes neither the status, nor the marker, nor the channel. *)
LEMMA UnseenStep ==
    ASSUME TypeOK, MarkerInv, NEW a \in Actors, pc[a] # "idle",
           pc[a] \notin Unarchiving,
           NEW label, pc' = [pc EXCEPT ![a] = label],
           channel' = channel,
           row'.currentStatus = row.currentStatus,
           row'.autoArchivedChannel = row.autoArchivedChannel,
           MarkerAt(a)'
    PROVE  MarkerInv' /\ MarkerStep
<1>1. \A b \in Actors : pc[b] \notin Unarchiving
  BY DEF MarkerInv, OneAtATime, Unarchiving
<1>2. (InProgress => channel # "plugin")' /\ ArchivedHasFlag'
  BY <1>1 DEF MarkerInv, ActiveIsFree, ArchivedHasFlag, InProgress
<1>3. MarkerInv'
  BY <1>2, Focus DEF MarkerInv
<1>4. MarkerStep
  BY DEF MarkerStep, Marker!vars, Finished
<1> QED BY <1>3, <1>4

(* Outside finish and restore all that matters is that the copy agrees. *)
LEMMA PlainStep ==
    ASSUME TypeOK, MarkerInv, NEW a \in Actors, pc[a] # "idle",
           pc[a] \notin Unarchiving,
           NEW label, pc' = [pc EXCEPT ![a] = label],
           label \notin Finishing \cup Unarchiving \cup {"restore_store", "restore_flag"},
           channel' = channel,
           row'.currentStatus = row.currentStatus,
           row'.autoArchivedChannel = row.autoArchivedChannel,
           label \in Holding =>
               copy'[a].autoArchivedChannel = row.autoArchivedChannel
    PROVE  MarkerInv' /\ MarkerStep
<1>1. pc'[a] = label
  BY DEF TypeOK, LocalsOK
<1>2. MarkerAt(a)'
  BY <1>1 DEF MarkerAt, Finishing, Unarchiving
<1> QED BY <1>2, UnseenStep

LEMMA FailMarker ==
    ASSUME TypeOK, MarkerInv, NEW a \in Actors, NEW label, NEW call,
           FailsAt(a, label, call), label \notin Unarchiving \cup {"idle"}
    PROVE  MarkerInv' /\ MarkerStep
BY PlainStep DEF FailsAt, Return, Finishing, Holding, Unarchiving

(* Finish: the marker goes on while the channel is free, and the channel   *)
(* is archived while it is on.                                             *)
LEMMA FinishMarker ==
    ASSUME TypeOK, MarkerInv, NEW w \in Workers, Finish(w)
    PROVE  MarkerInv' /\ MarkerStep
<1> DEFINE Moves(label) == pc' = [pc EXCEPT ![w] = label] /\ pc'[w] = label
           Same == channel' = channel /\ row' = row
<1>0. /\ w \in Actors /\ MarkerAt(w) /\ OneAtATime /\ ArchivedHasFlag
      /\ copy[w] \in PlaybookRun /\ row \in PlaybookRun
      /\ InProgress <=> ~Finished
      /\ \A label : /\ Goto(w, label) => Moves(label) /\ copy' = copy
                    /\ LoadAndGoto(w, label) => Moves(label) /\ copy'[w] = row
                    /\ Return(w) => Moves("idle")
      /\ \A label, held : HoldAndGoto(w, held, label) => Moves(label) /\ copy'[w] = held
  BY StatusTyping DEF MarkerInv, Actors, TypeOK, LocalsOK, Goto, LoadAndGoto,
     HoldAndGoto, Return
<1>a. pc[w] \notin Unarchiving \cup {"idle"} => \A b \in Actors : pc[b] \notin Unarchiving
  BY <1>0 DEF OneAtATime, Unarchiving
<1>1. CASE FinishRead(w)
  <2>1. CASE Return(w)
    BY <1>0, <1>1, <2>1, PlainStep DEF FinishRead, At, Finishing, Holding, Unarchiving
  <2>2. CASE LoadAndGoto(w, "finish_store") /\ ~Finished
    <3>1. Same /\ Moves("finish_store") /\ copy'[w] = row /\ pc[w] = "handle"
      BY <1>0, <1>1, <2>2 DEF FinishRead, At
    <3>2. channel # "plugin"
      BY <1>0, <1>a, <2>2, <3>1 DEF MarkerInv, ActiveIsFree, Unarchiving
    <3>3. MarkerAt(w)'
      BY <1>0, <2>2, <3>1, <3>2 DEF MarkerAt, Finishing, InProgress
    <3> QED BY <1>0, <3>1, <3>3, UnseenStep DEF Unarchiving
  <2> QED BY <1>1, <2>1, <2>2 DEF FinishRead, Finished
<1>2. CASE FinishStore(w)
  <2>1. CASE FailsAt(w, "finish_store", "db")
    BY <1>0, <2>1, FailMarker DEF Unarchiving
  <2>2. CASE /\ pc[w] = "finish_store"
             /\ row' = FinishPlaybookRun(row)
             /\ Goto(w, "finish_notify")
             /\ UNCHANGED channel
    <3>1. /\ Moves("finish_notify") /\ copy' = copy
          /\ row'.currentStatus = StatusFinished
          /\ row'.autoArchivedChannel = row.autoArchivedChannel
      BY <1>0, <2>2, RowEffect
    <3>2. InProgress /\ channel # "plugin"
      BY <1>0, <2>2 DEF MarkerAt, Finishing
    <3>3. MarkerAt(w)'
      BY <1>0, <2>2, <3>1, <3>2 DEF MarkerAt, Finishing, Holding, Finished
    <3>4. MarkerInv'
      BY <1>0, <2>2, <3>1, <3>2, <3>3, Focus DEF ArchivedHasFlag
    <3>5. Marker!Finish
      BY <1>0, <2>2, <3>1, <3>2 DEF Marker!Finish, Finished
    <3> QED BY <3>4, <3>5 DEF MarkerStep, Marker!Next
  <2> QED BY <1>2, <2>1, <2>2 DEF FinishStore
<1>3. CASE FinishNotify(w) \/ FinishRetro(w) \/ FinishArm(w) \/ FinishEvent(w)
  <2>1. \/ \E label, call : FailsAt(w, label, call) /\ label \in Finishing
        \/ \E label \in Finishing \ {"finish_store", "finish_archive"} :
               Goto(w, label) /\ Same /\ pc[w] \in Finishing \ {"finish_store"}
        \/ Return(w) /\ Same /\ pc[w] \in Finishing
    BY <1>3 DEF FinishNotify, FinishRetro, FinishArm, FinishEvent, Finishing
  <2>2. ASSUME NEW label \in Finishing \ {"finish_store", "finish_archive"},
               Goto(w, label), Same, pc[w] \in Finishing \ {"finish_store"}
        PROVE  MarkerInv' /\ MarkerStep
    <3>1. MarkerAt(w)'
      BY <1>0, <2>2 DEF MarkerAt, Finishing, Holding, Finished
    <3> QED BY <1>0, <2>2, <3>1, UnseenStep DEF Finishing, Unarchiving
  <2>3. CASE Return(w) /\ Same /\ pc[w] \in Finishing
    BY <1>0, <2>3, PlainStep DEF Finishing, Holding, Unarchiving
  <2>4. ASSUME NEW label, NEW call, FailsAt(w, label, call), label \in Finishing
        PROVE  MarkerInv' /\ MarkerStep
    BY <1>0, <2>4, FailMarker DEF Finishing, Unarchiving
  <2> QED BY <2>1, <2>2, <2>3, <2>4
<1>4. CASE FinishFlag(w)
  <2> DEFINE flagged == [copy[w] EXCEPT !.autoArchivedChannel = TRUE]
  <2>1. CASE FailsAt(w, "finish_flag", "db")
    BY <1>0, <2>1, FailMarker DEF Unarchiving
  <2>2. CASE /\ pc[w] = "finish_flag"
             /\ row' = UpdatePlaybookRun(row, flagged)
             /\ HoldAndGoto(w, flagged, "finish_archive")
             /\ UNCHANGED channel
    <3>1. flagged \in PlaybookRun /\ flagged.autoArchivedChannel = TRUE
      BY <1>0 DEF PlaybookRun
    <3> HIDE DEF flagged
    <3>2. /\ Moves("finish_archive") /\ copy'[w].autoArchivedChannel = TRUE
          /\ row'.currentStatus = row.currentStatus
          /\ row'.autoArchivedChannel = TRUE
      BY <1>0, <2>2, <3>1, RowEffect
    <3>3. Finished /\ channel # "plugin"
      BY <1>0, <2>2 DEF MarkerAt, Finishing
    <3>4. MarkerAt(w)'
      BY <1>0, <2>2, <3>2, <3>3 DEF MarkerAt, Finishing, Holding, Finished
    <3>5. MarkerInv'
      BY <1>0, <2>2, <3>2, <3>3, <3>4, Focus DEF ArchivedHasFlag
    <3>6. Marker!Mark
      BY <1>0, <2>2, <3>2, <3>3 DEF Marker!Mark, Finished
    <3> QED BY <3>5, <3>6 DEF MarkerStep, Marker!Next
  <2> QED BY <1>4, <2>1, <2>2 DEF FinishFlag
<1>5. CASE FinishArchive(w)
  <2>0. /\ pc[w] = "finish_archive" /\ Finished /\ row.autoArchivedChannel
        /\ channel # "plugin" /\ row' = row
        /\ copy[w].autoArchivedChannel = row.autoArchivedChannel
    BY <1>0, <1>5 DEF FinishArchive, MarkerAt, Finishing, Holding
  <2>1. CASE Return(w)
    <3>1. MarkerAt(w)'
      BY <1>0, <2>1 DEF MarkerAt, Finishing, Holding
    <3>2. MarkerInv'
      BY <1>0, <2>0, <2>1, <3>1, Focus DEF ArchivedHasFlag, InProgress, Finished
    <3>3. Marker!Archive \/ channel' = channel
      BY <1>5, <2>0, <2>1 DEF FinishArchive, Marker!Archive, Finished
    <3> QED BY <2>0, <3>2, <3>3 DEF MarkerStep, Marker!Next, Marker!vars, Finished
  <2>2. CASE channel' = channel /\ Goto(w, "finish_unflag")
    <3>0. Moves("finish_unflag") /\ copy' = copy
      BY <1>0, <2>2
    <3>1. MarkerAt(w)'
      BY <2>0, <2>2, <3>0 DEF MarkerAt, Finishing, Holding, Finished
    <3> QED BY <1>0, <2>0, <2>2, <3>0, <3>1, UnseenStep DEF Unarchiving
  <2> QED BY <1>5, <2>1, <2>2 DEF FinishArchive
<1>6. CASE FinishUnflag(w)
  <2> DEFINE unflagged == [copy[w] EXCEPT !.autoArchivedChannel = FALSE]
  <2>1. CASE FailsAt(w, "finish_unflag", "db")
    BY <1>0, <2>1, FailMarker DEF Unarchiving
  <2>2. CASE /\ pc[w] = "finish_unflag"
             /\ row' = UpdatePlaybookRun(row, unflagged)
             /\ Return(w)
             /\ UNCHANGED channel
    <3>1. unflagged \in PlaybookRun /\ unflagged.autoArchivedChannel = FALSE
      BY <1>0 DEF PlaybookRun
    <3> HIDE DEF unflagged
    <3>2. /\ Moves("idle")
          /\ row'.currentStatus = row.currentStatus
          /\ row'.autoArchivedChannel = FALSE
      BY <1>0, <2>2, <3>1, RowEffect
    <3>3. channel # "plugin"
      BY <1>0, <2>2 DEF MarkerAt, Finishing
    <3>4. MarkerAt(w)'
      BY <3>2 DEF MarkerAt, Finishing, Holding
    <3>5. MarkerInv'
      BY <1>0, <2>2, <3>2, <3>3, <3>4, Focus DEF ArchivedHasFlag
    <3>6. Marker!Unmark
      BY <2>2, <3>2, <3>3 DEF Marker!Unmark, Finished
    <3> QED BY <3>5, <3>6 DEF MarkerStep, Marker!Next
  <2> QED BY <1>6, <2>1, <2>2 DEF FinishUnflag
<1> QED BY <1>1, <1>2, <1>3, <1>4, <1>5, <1>6 DEF Finish

(* Restore: the channel is un-archived before the marker goes off. *)
LEMMA RestoreMarker ==
    ASSUME Undisturbed, TypeOK, MarkerInv, NEW w \in Workers, Restore(w)
    PROVE  MarkerInv' /\ MarkerStep
<1> DEFINE Moves(label) == pc' = [pc EXCEPT ![w] = label] /\ pc'[w] = label
           Same == channel' = channel /\ row' = row
<1>0. /\ w \in Actors /\ MarkerAt(w) /\ OneAtATime /\ ArchivedHasFlag
      /\ copy[w] \in PlaybookRun /\ row \in PlaybookRun
      /\ InProgress <=> ~Finished
      /\ \A label : /\ Goto(w, label) => Moves(label) /\ copy' = copy
                    /\ LoadAndGoto(w, label) => Moves(label) /\ copy'[w] = row
                    /\ Return(w) => Moves("idle")
  BY StatusTyping DEF MarkerInv, Actors, TypeOK, LocalsOK, Goto, LoadAndGoto, Return
<1>1. CASE RestoreRead(w)
  <2>1. CASE Return(w)
    BY <1>0, <1>1, <2>1, PlainStep DEF RestoreRead, At, Finishing, Holding, Unarchiving
  <2>2. CASE LoadAndGoto(w, "restore_store") /\ Finished
    <3>1. Same /\ Moves("restore_store") /\ copy'[w] = row /\ pc[w] = "handle"
      BY <1>0, <1>1, <2>2 DEF RestoreRead, At
    <3>2. MarkerAt(w)'
      BY <2>2, <3>1 DEF MarkerAt, Finishing, Finished
    <3> QED BY <1>0, <3>1, <3>2, UnseenStep DEF Unarchiving
  <2> QED BY <1>1, <2>1, <2>2 DEF RestoreRead, Finished
<1>2. CASE RestoreStore(w)
  <2>1. CASE FailsAt(w, "restore_store", "db")
    BY <1>0, <2>1, FailMarker DEF Unarchiving
  <2>2. CASE /\ pc[w] = "restore_store"
             /\ row' = RestorePlaybookRun(row, clock + 1)
             /\ Goto(w, "restore_user")
             /\ UNCHANGED channel
    <3>1. /\ Moves("restore_user") /\ copy' = copy
          /\ row'.currentStatus = StatusInProgress
          /\ row'.autoArchivedChannel = row.autoArchivedChannel
      BY <1>0, <2>2, RowEffect
    <3>2. Finished /\ copy[w].autoArchivedChannel = row.autoArchivedChannel
      BY <1>0, <2>2 DEF MarkerAt, Holding
    <3>3. MarkerAt(w)'
      BY <3>1, <3>2 DEF MarkerAt, Finishing, Holding, InProgress
    <3>4. MarkerInv'
      BY <1>0, <2>2, <3>1, <3>3, Focus DEF ArchivedHasFlag, Unarchiving
    <3>5. Marker!Restore
      BY <2>2, <3>1, <3>2 DEF Marker!Restore, Finished, StatusInProgress, StatusFinished
    <3> QED BY <3>4, <3>5 DEF MarkerStep, Marker!Next
  <2> QED BY <1>2, <2>1, <2>2 DEF RestoreStore
<1>3. CASE RestoreUser(w)
  <2>0. /\ pc[w] = "restore_user" /\ Same /\ InProgress
        /\ copy[w].autoArchivedChannel = row.autoArchivedChannel
        /\ MarkerStep
    BY <1>0, <1>3 DEF RestoreUser, FailsAt, Undisturbed, MarkerAt, Holding, MarkerStep,
       Marker!vars, Finished
  <2>1. CASE Goto(w, "restore_unarchive")
    <3>0. Moves("restore_unarchive") /\ copy' = copy
      BY <1>0, <2>1
    <3>1. MarkerAt(w)'
      BY <2>0, <3>0 DEF MarkerAt, Finishing, Holding, InProgress
    <3> QED BY <1>0, <2>0, <3>0, <3>1, Focus DEF ArchivedHasFlag, Unarchiving
  <2>2. CASE Return(w) /\ ~row.autoArchivedChannel
    <3>0. Moves("idle")
      BY <1>0, <2>2
    <3>1. MarkerAt(w)'
      BY <3>0 DEF MarkerAt, Finishing, Holding
    <3>2. channel # "plugin"
      BY <1>0, <2>2 DEF ArchivedHasFlag
    <3> QED BY <1>0, <2>0, <3>0, <3>1, <3>2, Focus DEF ArchivedHasFlag, Unarchiving
  <2> QED BY <1>3, <2>0, <2>1, <2>2 DEF RestoreUser, FailsAt, Undisturbed
<1>4. CASE RestoreUnarchive(w)
  <2>0. /\ pc[w] = "restore_unarchive" /\ row' = row /\ InProgress
        /\ channel' = "active" /\ Moves("restore_flag") /\ copy' = copy
        /\ copy[w].autoArchivedChannel = row.autoArchivedChannel
    BY <1>0, <1>4 DEF RestoreUnarchive, Undisturbed, MarkerAt, Holding
  <2>1. MarkerAt(w)'
    BY <2>0 DEF MarkerAt, Finishing, Holding, InProgress
  <2>2. MarkerInv'
    BY <1>0, <2>0, <2>1, Focus DEF ArchivedHasFlag
  <2>3. Marker!Unarchive
    BY <2>0 DEF Marker!Unarchive, Finished
  <2> QED BY <2>2, <2>3 DEF MarkerStep, Marker!Next
<1>5. CASE RestoreFlag(w)
  <2> DEFINE unflagged == [copy[w] EXCEPT !.autoArchivedChannel = FALSE]
  <2>1. CASE FailsAt(w, "restore_flag", "db")
    BY <1>0, <2>1, FailMarker DEF Unarchiving
  <2>2. CASE /\ pc[w] = "restore_flag"
             /\ row' = UpdatePlaybookRun(row, unflagged)
             /\ Return(w)
             /\ UNCHANGED channel
    <3>1. unflagged \in PlaybookRun /\ unflagged.autoArchivedChannel = FALSE
      BY <1>0 DEF PlaybookRun
    <3> HIDE DEF unflagged
    <3>2. /\ Moves("idle")
          /\ row'.currentStatus = row.currentStatus
          /\ row'.autoArchivedChannel = FALSE
      BY <1>0, <2>2, <3>1, RowEffect
    <3>3. channel # "plugin"
      BY <1>0, <2>2 DEF MarkerAt
    <3>4. MarkerAt(w)'
      BY <3>2 DEF MarkerAt, Finishing, Holding
    <3>5. MarkerInv'
      BY <1>0, <2>2, <3>2, <3>3, <3>4, Focus DEF ArchivedHasFlag
    <3>6. Marker!Unmark
      BY <2>2, <3>2, <3>3 DEF Marker!Unmark, Finished
    <3> QED BY <3>5, <3>6 DEF MarkerStep, Marker!Next
  <2> QED BY <1>5, <2>1, <2>2 DEF RestoreFlag
<1> QED BY <1>1, <1>2, <1>3, <1>4, <1>5 DEF Restore

(* The steps between a restore and the clearing of the marker. *)
Unmarking == Unarchiving \cup {"restore_flag"}

(* The steps of every other handler and of the callbacks: each writes back *)
(* the marker as it read it, and nothing has changed it since.             *)
PlainOf(a) ==
    /\ pc[a] \notin Unmarking \cup {"idle"}
    /\ channel' = channel
    /\ row'.currentStatus = row.currentStatus
    /\ row'.autoArchivedChannel = row.autoArchivedChannel
    /\ \E label : /\ label \notin Finishing \cup Unarchiving
                               \cup {"restore_store", "restore_flag"}
                  /\ pc' = [pc EXCEPT ![a] = label]
                  /\ label \in Holding =>
                         copy'[a].autoArchivedChannel = row.autoArchivedChannel

LEMMA PlainMoves ==
    ASSUME TypeOK, NEW a \in Actors, pc[a] \notin Unmarking \cup {"idle"},
           channel' = channel,
           row'.currentStatus = row.currentStatus,
           row'.autoArchivedChannel = row.autoArchivedChannel,
           NEW label, label \notin Finishing \cup Unarchiving
                                 \cup {"restore_store", "restore_flag"}
    PROVE  /\ LoadAndGoto(a, label) => PlainOf(a)
           /\ Goto(a, label) /\ (label \in Holding =>
                  copy[a].autoArchivedChannel = row.autoArchivedChannel) => PlainOf(a)
           /\ \A held : HoldAndGoto(a, held, label)
                /\ held.autoArchivedChannel = row.autoArchivedChannel => PlainOf(a)
<1>1. LoadAndGoto(a, label) => PlainOf(a)
  BY DEF LoadAndGoto, PlainOf, TypeOK, LocalsOK
<1>2. Goto(a, label) /\ (label \in Holding =>
          copy[a].autoArchivedChannel = row.autoArchivedChannel) => PlainOf(a)
  BY DEF Goto, PlainOf
<1>3. ASSUME NEW held, HoldAndGoto(a, held, label),
             held.autoArchivedChannel = row.autoArchivedChannel
      PROVE  PlainOf(a)
  BY <1>3 DEF HoldAndGoto, PlainOf, TypeOK, LocalsOK
<1> QED BY <1>1, <1>2, <1>3

LEMMA PlainReturn ==
    ASSUME TypeOK, NEW a \in Actors, pc[a] \notin Unmarking \cup {"idle"},
           channel' = channel,
           row'.currentStatus = row.currentStatus,
           row'.autoArchivedChannel = row.autoArchivedChannel,
           Return(a)
    PROVE  PlainOf(a)
<1>1. "idle" \notin Finishing \cup Unarchiving \cup {"restore_store", "restore_flag"}
      /\ "idle" \notin Holding
  BY DEF Finishing, Unarchiving, Unmarking, Holding
<1>2. pc' = [pc EXCEPT ![a] = "idle"]
  BY DEF Return
<1> QED BY <1>1, <1>2 DEF PlainOf

LEMMA PlainMarker ==
    ASSUME TypeOK, MarkerInv, NEW a \in Actors, PlainOf(a)
    PROVE  MarkerInv' /\ MarkerStep
BY PlainStep DEF PlainOf, Unarchiving, Unmarking

LEMMA PlainFail ==
    ASSUME TypeOK, NEW a \in Actors, NEW label, NEW call,
           FailsAt(a, label, call), label \notin Unmarking \cup {"idle"}
    PROVE  PlainOf(a)
BY PlainReturn DEF FailsAt

(* Changing another field of a copy leaves its marker alone. *)
LEMMA OtherFields ==
    ASSUME NEW held \in PlaybookRun, NEW x, NEW y
    PROVE  /\ [held EXCEPT !.statusUpdateEnabled = x].autoArchivedChannel
                  = held.autoArchivedChannel
           /\ [held EXCEPT !.retrospectiveEnabled = x].autoArchivedChannel
                  = held.autoArchivedChannel
           /\ [held EXCEPT !.reminderPostID = x].autoArchivedChannel
                  = held.autoArchivedChannel
           /\ [held EXCEPT !.reminderTimer = x,
                            !.lastStatusUpdateAt = y].autoArchivedChannel
                  = held.autoArchivedChannel
           /\ [held EXCEPT !.retrospectivePublished = x,
                            !.retrospectiveWasCanceled = y].autoArchivedChannel
                  = held.autoArchivedChannel
BY DEF PlaybookRun

LEMMA TogglePlain ==
    ASSUME TypeOK, MarkerInv, NEW w \in Workers, Toggle(w)
    PROVE  PlainOf(w)
<1>0. /\ w \in Actors /\ MarkerAt(w)
      /\ copy[w] \in PlaybookRun /\ row \in PlaybookRun
  BY StatusTyping DEF MarkerInv, Actors
<1> USE PlainMoves, PlainReturn, PlainFail
<1>1. CASE ToggleUpdatesRead(w)
  BY <1>0, <1>1, OtherFields DEF ToggleUpdatesRead, At, Finishing, Unarchiving, Unmarking
<1>2. CASE ToggleUpdatesWrite(w)
  BY <1>0, <1>2, RowEffect DEF ToggleUpdatesWrite, MarkerAt, Finishing, Unarchiving, Unmarking, Holding
<1>3. CASE ToggleUpdatesCancel(w)
  BY <1>0, <1>3 DEF ToggleUpdatesCancel, Unarchiving, Unmarking
<1>4. CASE ToggleRetroRead(w)
  BY <1>0, <1>4, OtherFields DEF ToggleRetroRead, At, Finishing, Unarchiving, Unmarking
<1>5. CASE ToggleRetroWrite(w)
  BY <1>0, <1>5, RowEffect DEF ToggleRetroWrite, MarkerAt, Finishing, Unarchiving, Unmarking, Holding
<1>6. CASE ToggleRetroCancel(w) \/ ToggleRetroArm(w)
  BY <1>0, <1>6 DEF ToggleRetroCancel, ToggleRetroArm, Unarchiving, Unmarking
<1> QED BY <1>1, <1>2, <1>3, <1>4, <1>5, <1>6 DEF Toggle

LEMMA StatusUpdatePlain ==
    ASSUME TypeOK, MarkerInv, NEW w \in Workers, StatusUpdate(w)
    PROVE  PlainOf(w)
<1>0. /\ w \in Actors /\ MarkerAt(w)
      /\ copy[w] \in PlaybookRun /\ row \in PlaybookRun
  BY StatusTyping DEF MarkerInv, Actors
<1> USE PlainMoves, PlainReturn, PlainFail
<1>1. CASE UpdateStatus(w)
  BY <1>0, <1>1 DEF UpdateStatus, At, Finishing, Unarchiving, Unmarking, Holding
<1>2. CASE SetNewReminderRead(w)
  BY <1>0, <1>2 DEF SetNewReminderRead, Finishing, Unarchiving, Unmarking
<1>3. CASE SetNewReminderCancel(w)
  BY <1>0, <1>3 DEF SetNewReminderCancel, MarkerAt, Finishing, Unarchiving, Unmarking, Holding
<1>4. CASE SetNewReminderUnpost(w)
  BY <1>0, <1>4, OtherFields
     DEF SetNewReminderUnpost, MarkerAt, Finishing, Unarchiving, Unmarking, Holding
<1>5. CASE SetNewReminderWrite(w)
  <2> DEFINE reset == [copy[w] EXCEPT !.reminderTimer      = WantsReminder(w),
                                      !.lastStatusUpdateAt = clock + 1]
  <2>1. reset \in PlaybookRun
    <3>1. WantsReminder(w) \in BOOLEAN /\ clock + 1 \in Nat
      BY DEF WantsReminder, TypeOK
    <3> QED BY <1>0, <3>1, FieldTyping
  <2>2. reset.autoArchivedChannel = copy[w].autoArchivedChannel
    BY <1>0, OtherFields
  <2>3. CASE FailsAt(w, "reminder_write", "db")
    BY <1>0, <2>3 DEF Unarchiving, Unmarking
  <2>4. CASE /\ pc[w] = "reminder_write"
             /\ row' = UpdatePlaybookRun(row, reset)
             /\ Goto(w, "reminder_arm")
             /\ UNCHANGED channel
    <3> HIDE DEF reset
    <3> QED BY <1>0, <2>1, <2>2, <2>4, RowEffect
            DEF MarkerAt, Finishing, Unarchiving, Unmarking, Holding
  <2> QED BY <1>5, <2>3, <2>4 DEF SetNewReminderWrite
<1>6. CASE SetNewReminderArm(w)
  <2>1. CASE Return(w)
    BY <1>0, <1>6, <2>1 DEF SetNewReminderArm, Unarchiving, Unmarking
  <2>2. CASE pc' = [pc EXCEPT ![w] = "handle"]
    <3>1. "handle" \notin Finishing \cup Unarchiving \cup Holding
      BY DEF Finishing, Unarchiving, Unmarking, Holding
    <3>2. pc[w] \notin Unmarking \cup {"idle"} /\ row' = row /\ channel' = channel
      BY <1>6 DEF SetNewReminderArm, Unarchiving, Unmarking
    <3> QED BY <2>2, <3>1, <3>2 DEF PlainOf, Finishing, Holding
  <2> QED BY <1>6, <2>1, <2>2 DEF SetNewReminderArm
<1> QED BY <1>1, <1>2, <1>3, <1>4, <1>5, <1>6 DEF StatusUpdate

LEMMA EditPlain ==
    ASSUME TypeOK, MarkerInv, NEW w \in Workers,
           \/ CheckEditPermissions(w)
           \/ PublishRetrospective(w) \/ CancelRetrospective(w) \/ EditRun(w)
    PROVE  PlainOf(w)
<1>0. /\ w \in Actors /\ MarkerAt(w)
      /\ copy[w] \in PlaybookRun /\ row \in PlaybookRun
  BY StatusTyping DEF MarkerInv, Actors
<1> USE PlainMoves, PlainReturn, PlainFail, RowEffect
    DEF MarkerAt, At, Finishing, Unarchiving, Unmarking, Holding
<1>1. CASE CheckEditPermissions(w)
  BY <1>0, <1>1 DEF CheckEditPermissions
<1>a. \A canceled : [row EXCEPT !.retrospectivePublished   = TRUE,
                                !.retrospectiveWasCanceled = canceled]
                       .autoArchivedChannel = row.autoArchivedChannel
  BY <1>0, OtherFields
<1>2. CASE PublishRetrospective(w)
  BY <1>0, <1>a, <1>2 DEF PublishRetrospective
<1>3. CASE CancelRetrospective(w)
  BY <1>0, <1>a, <1>3 DEF CancelRetrospective
<1>4. CASE EditRun(w)
  BY <1>0, <1>4 DEF EditRun
<1> QED BY <1>1, <1>2, <1>3, <1>4

LEMMA CallbackPlain ==
    ASSUME TypeOK, MarkerInv, StatusReminder \/ RetroReminder
    PROVE  \E key \in Keys : PlainOf(key)
<1>0. /\ "status" \in Actors /\ "retro" \in Actors
      /\ "status" \in Keys /\ "retro" \in Keys
      /\ MarkerAt("status")
      /\ copy["status"] \in PlaybookRun /\ row \in PlaybookRun
  BY StatusTyping DEF MarkerInv, Actors, Keys
<1> USE PlainMoves, PlainReturn DEF MarkerAt, Finishing, Unarchiving, Unmarking, Holding, ReturnFromCallback
<1>1. CASE StatusReminderRead
  BY <1>0, <1>1 DEF StatusReminderRead
<1>2. CASE StatusReminderPost
  BY <1>0, <1>2, OtherFields DEF StatusReminderPost
<1>3. CASE StatusReminderWrite
  BY <1>0, <1>3, RowEffect DEF StatusReminderWrite
<1>4. CASE RetroReminderRead
  BY <1>0, <1>4 DEF RetroReminderRead
<1>5. CASE RetroReminderPost
  BY <1>0, <1>5 DEF RetroReminderPost
<1> QED BY <1>1, <1>2, <1>3, <1>4, <1>5 DEF StatusReminder, RetroReminder

(* Starting an actor when none is at work. *)
LEMMA StartMarker ==
    ASSUME TypeOK, MarkerInv, NoneRunning, NEW a \in Actors,
           NEW label \in {"check", "handle"}, pc' = [pc EXCEPT ![a] = label],
           UNCHANGED <<row, channel>>
    PROVE  MarkerInv' /\ MarkerStep
<1>1. /\ pc'[a] = label
      /\ \A b \in Actors \ {a} : pc'[b] = "idle"
  BY DEF TypeOK, LocalsOK, NoneRunning
<1>2. OneAtATime'
  BY <1>1 DEF OneAtATime
<1>3. \A b \in Actors : MarkerAt(b)'
  BY <1>1 DEF MarkerAt, Holding, Finishing
<1>4. ActiveIsFree' /\ ArchivedHasFlag'
  BY DEF MarkerInv, NoneRunning, ActiveIsFree, ArchivedHasFlag, Unarchiving, InProgress
<1>5. MarkerStep
  BY DEF MarkerStep, Marker!vars, Finished
<1> QED BY <1>2, <1>3, <1>4, <1>5 DEF MarkerInv

LEMMA NextMarker ==
    ASSUME Undisturbed, TypeOK, MarkerInv, [Next]_vars
    PROVE  MarkerInv' /\ MarkerStep
<1>1. ASSUME NEW w \in Workers, Handle(w)
      PROVE  MarkerInv' /\ MarkerStep
  BY <1>1, FinishMarker, RestoreMarker, TogglePlain, StatusUpdatePlain, EditPlain,
     PlainMarker DEF Handle, Actors
<1>2. ASSUME NEW w \in Workers, NEW kind \in RequestKinds, Receive(w, kind)
      PROVE  MarkerInv' /\ MarkerStep
  BY <1>2, StartMarker DEF Receive, MayStart, Undisturbed, Actors
<1>3. ASSUME NEW key \in Keys, FireReminder(key)
      PROVE  MarkerInv' /\ MarkerStep
  BY <1>3, StartMarker DEF FireReminder, MayStart, Undisturbed, Actors
<1>4. CASE StatusReminder \/ RetroReminder
  BY <1>4, CallbackPlain, PlainMarker DEF Actors
<1>5. CASE RearmRetroReminder \/ AtRest \/ UNCHANGED vars
  <2>1. UNCHANGED <<row, channel, pc, copy>>
    BY <1>5 DEF RearmRetroReminder, AtRest, vars, local
  <2>2. MarkerInv'
    BY <2>1 DEF MarkerInv, OneAtATime, MarkerAt, ActiveIsFree, ArchivedHasFlag,
       InProgress, Finished
  <2>3. MarkerStep
    BY <2>1 DEF MarkerStep, Marker!vars, Finished
  <2> QED BY <2>2, <2>3
<1>6. CASE ArchiveByUser \/ UnarchiveByUser
  <2>1. UNCHANGED <<row, pc, copy>> /\ channel' # "plugin"
    BY <1>6 DEF ArchiveByUser, UnarchiveByUser, local
  <2>2. MarkerInv'
    BY <2>1 DEF MarkerInv, OneAtATime, MarkerAt, ActiveIsFree, ArchivedHasFlag,
       InProgress, Finished
  <2>3. Marker!Unarchive
    BY <2>1 DEF Marker!Unarchive, Finished
  <2> QED BY <2>2, <2>3 DEF MarkerStep, Marker!Next
<1>7. ~Crash
  BY DEF Crash, Undisturbed, TypeOK
<1> QED BY <1>1, <1>2, <1>3, <1>4, <1>5, <1>6, <1>7 DEF Next

LEMMA InitMarker == Init => MarkerInv /\ Marker!Init
<1> SUFFICES ASSUME Init
             PROVE  MarkerInv /\ Marker!Init
  OBVIOUS
<1>1. \A a \in Actors : pc[a] = "idle"
  BY DEF Init
<1>2. /\ row.currentStatus = StatusInProgress
      /\ row.autoArchivedChannel = FALSE
      /\ channel = "active"
  BY DEF Init, NewPlaybookRun
<1> QED BY <1>1, <1>2
        DEF MarkerInv, OneAtATime, MarkerAt, Finishing, Holding, ActiveIsFree,
            ArchivedHasFlag, Marker!Init, Finished, StatusInProgress, StatusFinished

(* While nothing is let down in mid-restore, a channel the plugin archived *)
(* is always marked, whatever else fails in a finish.                      *)
THEOREM ArchivedIsMarked ==
    ASSUME Undisturbed
    PROVE  Spec => []ArchivedHasFlag
<1>1. TypeOK /\ MarkerInv /\ [Next]_vars => MarkerInv'
  BY NextMarker
<1>2. MarkerInv => ArchivedHasFlag
  BY DEF MarkerInv
<1> QED BY <1>1, <1>2, InitMarker, TypeCorrect, PTL DEF Spec

(* And the handlers implement the write-ahead discipline of ArchiveMarker. *)
THEOREM LifecycleKeepsMarker ==
    ASSUME Undisturbed
    PROVE  Spec => KeepsMarker
<1>1. TypeOK /\ MarkerInv /\ [Next]_vars => MarkerInv' /\ [Marker!Next]_(Marker!vars)
  BY NextMarker DEF MarkerStep
<1> QED BY <1>1, InitMarker, TypeCorrect, PTL DEF Spec, KeepsMarker, Marker!Spec

-----------------------------------------------------------------------------
(* The status of the run. *)

(* The row is written by the three statements of the store and by nothing  *)
(* else, and what the whole-row UPDATE is given is always typed.           *)
RowStep ==
    \/ row' = row
    \/ \E held \in PlaybookRun : row' = UpdatePlaybookRun(row, held)
    \/ row' = FinishPlaybookRun(row)
    \/ Restoring

LEMMA WritesOfHandlers ==
    ASSUME TypeOK, NEW w \in Workers, Handle(w)
    PROVE  RowStep
<1>0. copy[w] \in PlaybookRun
  BY DEF TypeOK, LocalsOK, Actors
<1> USE DEF RowStep
<1>1. CASE CheckEditPermissions(w)
  BY <1>1 DEF CheckEditPermissions
<1>2. CASE Finish(w)
  <2>1. /\ [copy[w] EXCEPT !.autoArchivedChannel = TRUE] \in PlaybookRun
        /\ [copy[w] EXCEPT !.autoArchivedChannel = FALSE] \in PlaybookRun
    BY <1>0, FieldTyping
  <2> QED BY <1>2, <2>1
          DEF Finish, FinishRead, FinishStore, FinishNotify, FinishRetro, FinishArm,
              FinishEvent, FinishFlag, FinishArchive, FinishUnflag, FailsAt
<1>3. CASE Restore(w)
  <2>1. [copy[w] EXCEPT !.autoArchivedChannel = FALSE] \in PlaybookRun
    BY <1>0, FieldTyping
  <2> QED BY <1>3, <2>1
          DEF Restore, RestoreRead, RestoreStore, RestoreUser, RestoreUnarchive,
              RestoreFlag, FailsAt, Restoring
<1>4. CASE Toggle(w)
  BY <1>0, <1>4
     DEF Toggle, ToggleUpdatesRead, ToggleUpdatesWrite, ToggleUpdatesCancel,
         ToggleRetroRead, ToggleRetroWrite, ToggleRetroCancel, ToggleRetroArm, FailsAt
<1>5. CASE StatusUpdate(w)
  <2>1. [copy[w] EXCEPT !.reminderTimer      = WantsReminder(w),
                        !.lastStatusUpdateAt = clock + 1] \in PlaybookRun
    <3>1. WantsReminder(w) \in BOOLEAN /\ clock + 1 \in Nat
      BY DEF WantsReminder, TypeOK
    <3> QED BY <1>0, <3>1, FieldTyping
  <2> QED BY <1>5, <2>1
          DEF StatusUpdate, UpdateStatus, SetNewReminderRead, SetNewReminderCancel,
              SetNewReminderUnpost, SetNewReminderWrite, SetNewReminderArm, FailsAt
<1>6. CASE PublishRetrospective(w) \/ CancelRetrospective(w) \/ EditRun(w)
  BY <1>0, <1>6 DEF PublishRetrospective, CancelRetrospective, EditRun, FailsAt
<1> QED BY <1>1, <1>2, <1>3, <1>4, <1>5, <1>6 DEF Handle

LEMMA Writes ==
    ASSUME TypeOK, [Next]_vars
    PROVE  RowStep
<1>1. ASSUME NEW w \in Workers, Handle(w)
      PROVE  RowStep
  BY <1>1, WritesOfHandlers
<1>2. CASE StatusReminder
  <2>1. copy["status"] \in PlaybookRun
    BY DEF TypeOK, LocalsOK, Actors, Keys
  <2> QED BY <1>2, <2>1
          DEF StatusReminder, StatusReminderRead, StatusReminderPost,
              StatusReminderWrite, RowStep
<1>3. CASE RetroReminder \/ RearmRetroReminder
  BY <1>3 DEF RetroReminder, RetroReminderRead, RetroReminderPost,
     RearmRetroReminder, RowStep
<1>4. CASE \/ \E w \in Workers, kind \in RequestKinds : Receive(w, kind)
           \/ \E key \in Keys : FireReminder(key)
           \/ ArchiveByUser \/ UnarchiveByUser \/ Crash \/ AtRest
           \/ UNCHANGED vars
  BY <1>4 DEF Receive, FireReminder, ArchiveByUser, UnarchiveByUser, Crash, AtRest,
     vars, RowStep
<1> QED BY <1>1, <1>2, <1>3, <1>4 DEF Next

(* However many handlers overlap, whatever stale copies they write back,   *)
(* whatever fails and whenever the process dies, a finished run becomes    *)
(* active again only by a restore.                                         *)
THEOREM FinishIsFinal == Spec => FinishedStaysFinished
<1>1. ASSUME TypeOK, [Next]_vars
      PROVE  [Finished /\ ~Restoring => row'.currentStatus = StatusFinished]_vars
  <2>1. row \in PlaybookRun
    BY <1>1 DEF TypeOK
  <2>2. RowStep
    BY <1>1, Writes
  <2> QED BY <2>1, <2>2, RowEffect DEF RowStep, Finished
<1> QED BY <1>1, TypeCorrect, PTL DEF Spec, FinishedStaysFinished
-----------------------------------------------------------------------------
(* One request at a time: what a handler has done by the time it returns.  *)

(* Requests do not overlap and the process does not die. *)
OneByOne == Serial /\ MaxCrashes = 0

(* What moving an actor does to it. *)
Moves(a, label) == pc' = [pc EXCEPT ![a] = label] /\ pc'[a] = label

LEMMA Moving ==
    ASSUME TypeOK, NEW a \in Actors
    PROVE  /\ \A label : Goto(a, label) => Moves(a, label) /\ copy' = copy /\ op' = op
           /\ \A label : LoadAndGoto(a, label) =>
                  Moves(a, label) /\ copy'[a] = row /\ op' = op
           /\ \A label, held : HoldAndGoto(a, held, label) =>
                  Moves(a, label) /\ copy'[a] = held /\ op' = op
           /\ Return(a) => Moves(a, "idle")
BY DEF TypeOK, LocalsOK, Goto, LoadAndGoto, HoldAndGoto, Return, Moves

(* The actor that moves is the one at work. *)
LEMMA OthersIdle ==
    ASSUME TypeOK, OneAtATime, NEW a \in Actors, pc[a] # "idle",
           NEW label, Moves(a, label)
    PROVE  /\ OneAtATime'
           /\ \A b \in Actors \ {a} : pc[b] = "idle" /\ pc'[b] = "idle"
BY DEF OneAtATime, TypeOK, LocalsOK, Moves

(* So is the actor that starts when none is. *)
LEMMA OneStarts ==
    ASSUME TypeOK, NoneRunning, NEW a \in Actors,
           NEW label, pc' = [pc EXCEPT ![a] = label]
    PROVE  OneAtATime' /\ pc'[a] = label /\ \A b \in Actors \ {a} : pc'[b] = "idle"
BY DEF OneAtATime, NoneRunning, TypeOK, LocalsOK

(* What a call to the scheduler does to its key and to the other one. *)
LEMMA JobEffect ==
    ASSUME NEW js \in [Keys -> JobStates], NEW k \in Keys
    PROVE  /\ Cancel(js, k)[k] = "none"
           /\ CallbackReturned(js, k)[k] \in {js[k], "none"}
           /\ js[k] = "firing" => CallbackReturned(js, k)[k] = "none"
           /\ Fire(js, k)[k] = "firing"
           /\ ScheduleOnce(js, k)[k] = "armed"
           /\ \A j \in Keys \ {k} : /\ ScheduleOnce(js, k)[j] = js[j]
                                    /\ Cancel(js, k)[j] = js[j]
                                    /\ Fire(js, k)[j] = js[j]
                                    /\ CallbackReturned(js, k)[j] = js[j]
BY DEF Cancel, CallbackReturned, ScheduleOnce, Fire, JobStates

(* What writing a copy back changes, and what writing its marker does. *)
LEMMA UpdateEffect ==
    ASSUME NEW stored \in PlaybookRun, NEW held \in PlaybookRun
    PROVE  /\ UpdatePlaybookRun(stored, held).currentStatus = stored.currentStatus
           /\ UpdatePlaybookRun(stored, held).autoArchivedChannel
                  = held.autoArchivedChannel
           /\ UpdatePlaybookRun(stored, held).reminderPostID = held.reminderPostID
BY DEF PlaybookRun, UpdatePlaybookRun

(* The row once the marker of a copy is set and the copy written back. *)
WithMarker(stored, held, mark) ==
    UpdatePlaybookRun(stored, [held EXCEPT !.autoArchivedChannel = mark])

LEMMA MarkerEffect ==
    ASSUME NEW stored \in PlaybookRun, NEW held \in PlaybookRun
    PROVE  /\ \A mark \in BOOLEAN :
                  /\ WithMarker(stored, held, mark).currentStatus = stored.currentStatus
                  /\ WithMarker(stored, held, mark).reminderPostID = held.reminderPostID
           /\ WithMarker(stored, held, TRUE).autoArchivedChannel = TRUE
           /\ WithMarker(stored, held, FALSE).autoArchivedChannel = FALSE
BY DEF PlaybookRun, UpdatePlaybookRun, WithMarker

-----------------------------------------------------------------------------
(* A finished run has no status reminder. *)

(* From the permission check to the end of SetNewReminder the run is       *)
(* active, so what SetNewReminder schedules is for an active run.          *)
Reminding ==
    { "reminder_read", "reminder_cancel", "reminder_unpost", "reminder_write",
      "reminder_arm" }

JobAt(w) ==
    /\ pc[w] = "handle" /\ op[w] \in GuardedKinds => InProgress
    /\ pc[w] \in Reminding => InProgress

(* A finish that has marked the run finished is about to cancel the job. *)
CancelledAtFinish ==
    Finished => jobs["status"] = "none" \/ \E w \in Workers : pc[w] = "finish_notify"

JobInv ==
    /\ OneAtATime
    /\ \A w \in Workers : JobAt(w)
    /\ CancelledAtFinish

(* A step that leaves the status as it is and schedules no status reminder. *)
LEMMA JobsDrop ==
    ASSUME TypeOK, JobInv, NEW a \in Actors, pc[a] \notin {"idle", "finish_notify"},
           NEW label, Moves(a, label),
           label \notin Reminding \cup {"handle"} \/ a \notin Workers \/ JobAt(a)',
           row'.currentStatus = row.currentStatus,
           jobs'["status"] \in {jobs["status"], "none"}
    PROVE  JobInv'
<1>1. OneAtATime' /\ \A b \in Actors \ {a} : pc[b] = "idle" /\ pc'[b] = "idle"
  BY OthersIdle DEF JobInv
<1>2. pc'[a] = label
  BY DEF Moves
<1>3. \A w \in Workers : JobAt(w)'
  BY <1>1, <1>2 DEF JobAt, Reminding, Actors
<1>4. CancelledAtFinish'
  BY <1>1 DEF JobInv, CancelledAtFinish, Finished, Actors
<1> QED BY <1>1, <1>3, <1>4 DEF JobInv

LEMMA FailJobs ==
    ASSUME TypeOK, JobInv, NEW a \in Actors, NEW label, NEW call,
           FailsAt(a, label, call), label \notin {"idle", "finish_notify"}
    PROVE  JobInv'
BY JobsDrop, Moving DEF FailsAt, Reminding

(* What is known when a handler takes a step. *)
LEMMA HandlerFacts ==
    ASSUME TypeOK, NEW w \in Workers
    PROVE  /\ w \in Actors
           /\ copy[w] \in PlaybookRun /\ row \in PlaybookRun
           /\ "status" \in Keys /\ "retro" \in Keys
           /\ Cancel(jobs, "status")["status"] = "none"
           /\ Cancel(jobs, "retro")["status"] = jobs["status"]
           /\ ScheduleOnce(jobs, "retro")["status"] = jobs["status"]
           /\ ScheduleOnce(jobs, "status")["status"] = "armed"
<1>1. jobs \in [Keys -> JobStates] /\ "status" \in Keys /\ "retro" \in Keys
  BY DEF TypeOK, Keys
<1>2. /\ Cancel(jobs, "status")["status"] = "none"
      /\ Cancel(jobs, "retro")["status"] = jobs["status"]
  BY <1>1, JobEffect
<1>3. /\ ScheduleOnce(jobs, "retro")["status"] = jobs["status"]
      /\ ScheduleOnce(jobs, "status")["status"] = "armed"
  BY <1>1, JobEffect
<1> QED BY <1>1, <1>2, <1>3, StatusTyping DEF Actors

(* Setting or clearing the marker changes no status and no post. *)
LEMMA MarkerWrites ==
    ASSUME TypeOK, NEW w \in Workers, FinishFlag(w) \/ FinishUnflag(w) \/ RestoreFlag(w)
    PROVE  \/ \E label \in {"finish_flag", "finish_unflag", "restore_flag"} :
                  FailsAt(w, label, "db")
           \/ /\ pc[w] \in {"finish_flag", "finish_unflag", "restore_flag"}
              /\ row'.currentStatus = row.currentStatus
              /\ row'.reminderPostID = copy[w].reminderPostID
              /\ UNCHANGED <<jobs, livePrompts>>
              /\ \/ Moves(w, "idle")
                 \/ /\ Moves(w, "finish_archive")
                    /\ copy'[w].reminderPostID = copy[w].reminderPostID
<1> DEFINE flagged == [copy[w] EXCEPT !.autoArchivedChannel = TRUE]
<1>1. flagged.reminderPostID = copy[w].reminderPostID
  BY HandlerFacts DEF PlaybookRun
<1>2. \A mark \in {TRUE, FALSE} :
          /\ WithMarker(row, copy[w], mark).currentStatus = row.currentStatus
          /\ WithMarker(row, copy[w], mark).reminderPostID = copy[w].reminderPostID
  BY HandlerFacts, MarkerEffect
<1> HIDE DEF flagged
<1>3. CASE FinishFlag(w)
  <2>1. \/ FailsAt(w, "finish_flag", "db")
        \/ /\ pc[w] = "finish_flag" /\ UNCHANGED <<jobs, livePrompts>>
           /\ row' = WithMarker(row, copy[w], TRUE)
           /\ HoldAndGoto(w, flagged, "finish_archive")
    BY <1>3 DEF FinishFlag, WithMarker, flagged
  <2> QED BY <1>1, <1>2, <2>1, HandlerFacts, Moving
<1>4. CASE FinishUnflag(w)
  <2>1. \/ FailsAt(w, "finish_unflag", "db")
        \/ /\ pc[w] = "finish_unflag" /\ UNCHANGED <<jobs, livePrompts>>
           /\ row' = WithMarker(row, copy[w], FALSE)
           /\ Return(w)
    BY <1>4 DEF FinishUnflag, WithMarker
  <2> QED BY <1>2, <2>1, HandlerFacts, Moving
<1>5. CASE RestoreFlag(w)
  <2>1. \/ FailsAt(w, "restore_flag", "db")
        \/ /\ pc[w] = "restore_flag" /\ UNCHANGED <<jobs, livePrompts>>
           /\ row' = WithMarker(row, copy[w], FALSE)
           /\ Return(w)
    BY <1>5 DEF RestoreFlag, WithMarker
  <2> QED BY <1>2, <2>1, HandlerFacts, Moving
<1> QED BY <1>3, <1>4, <1>5

(* Finish: the status and the job change in two steps, and nothing that    *)
(* looks at either runs in between.                                        *)
LEMMA FinishJobs ==
    ASSUME "user" \notin Fallible, TypeOK, JobInv, NEW w \in Workers, Finish(w)
    PROVE  JobInv'
<1>0. w \in Actors /\ OneAtATime
  BY HandlerFacts DEF JobInv
<1>1. CASE FinishRead(w)
  BY <1>0, <1>1, Moving, JobsDrop DEF FinishRead, At, Reminding
<1>2. CASE FinishStore(w)
  <2>1. CASE FailsAt(w, "finish_store", "db")
    BY <1>0, <2>1, FailJobs
  <2>2. CASE pc[w] = "finish_store" /\ Goto(w, "finish_notify")
    <3>1. Moves(w, "finish_notify")
      BY <1>0, <2>2, Moving
    <3>2. OneAtATime' /\ \A b \in Actors \ {w} : pc'[b] = "idle"
      BY <1>0, <2>2, <3>1, OthersIdle
    <3> QED BY <3>1, <3>2 DEF JobInv, JobAt, Reminding, CancelledAtFinish, Actors, Moves
  <2> QED BY <1>2, <2>1, <2>2 DEF FinishStore
<1>3. CASE FinishNotify(w)
  <2>1. pc[w] = "finish_notify" /\ Moves(w, "finish_retro") /\ jobs'["status"] = "none"
    BY <1>0, <1>3, Moving, HandlerFacts DEF FinishNotify, FailsAt
  <2>2. OneAtATime' /\ \A b \in Actors \ {w} : pc'[b] = "idle"
    BY <1>0, <2>1, OthersIdle
  <2> QED BY <2>1, <2>2 DEF JobInv, JobAt, Reminding, CancelledAtFinish, Actors, Moves
<1>4. CASE FinishRetro(w)
  <2>1. jobs'["status"] = jobs["status"]
    BY <1>4, HandlerFacts DEF FinishRetro, FailsAt
  <2> QED BY <1>0, <1>4, <2>1, Moving, JobsDrop, FailJobs DEF FinishRetro, Reminding
<1>5. CASE FinishArm(w)
  <2>1. jobs'["status"] = jobs["status"]
    BY <1>5, HandlerFacts DEF FinishArm
  <2> QED BY <1>0, <1>5, <2>1, Moving, JobsDrop DEF FinishArm, Reminding
<1>6. CASE FinishEvent(w) \/ FinishArchive(w)
  BY <1>0, <1>6, Moving, JobsDrop, FailJobs DEF FinishEvent, FinishArchive, Reminding
<1>7. CASE FinishFlag(w)
  BY <1>0, <1>7, MarkerWrites, JobsDrop, FailJobs DEF Reminding
<1>8. CASE FinishUnflag(w)
  BY <1>0, <1>8, MarkerWrites, JobsDrop, FailJobs DEF Reminding
<1> QED BY <1>1, <1>2, <1>3, <1>4, <1>5, <1>6, <1>7, <1>8 DEF Finish

(* Restore touches no job; the run it writes is active. *)
LEMMA RestoreJobs ==
    ASSUME TypeOK, JobInv, NEW w \in Workers, Restore(w)
    PROVE  JobInv'
<1>0. w \in Actors /\ OneAtATime
  BY HandlerFacts DEF JobInv
<1>1. CASE RestoreRead(w) \/ RestoreUser(w) \/ RestoreUnarchive(w)
  BY <1>0, <1>1, Moving, JobsDrop, FailJobs
     DEF RestoreRead, RestoreUser, RestoreUnarchive, At, Reminding
<1>2. CASE RestoreStore(w)
  <2>1. CASE FailsAt(w, "restore_store", "db")
    BY <1>0, <2>1, FailJobs
  <2>2. CASE /\ pc[w] = "restore_store" /\ Goto(w, "restore_user")
             /\ row' = RestorePlaybookRun(row, clock + 1)
    <3>1. ~Finished'
      BY <2>2, HandlerFacts, RowEffect DEF Finished, StatusInProgress, StatusFinished
    <3>2. Moves(w, "restore_user")
      BY <1>0, <2>2, Moving
    <3>3. OneAtATime' /\ \A b \in Actors \ {w} : pc'[b] = "idle"
      BY <1>0, <2>2, <3>2, OthersIdle
    <3> QED BY <3>1, <3>2, <3>3
            DEF JobInv, JobAt, Reminding, CancelledAtFinish, Actors, Moves
  <2> QED BY <1>2, <2>1, <2>2 DEF RestoreStore
<1>3. CASE RestoreFlag(w)
  BY <1>0, <1>3, MarkerWrites, JobsDrop, FailJobs DEF Reminding
<1> QED BY <1>1, <1>2, <1>3 DEF Restore

LEMMA ToggleJobs ==
    ASSUME TypeOK, JobInv, NEW w \in Workers, Toggle(w)
    PROVE  JobInv'
<1>0. w \in Actors
  BY HandlerFacts
<1> USE HandlerFacts, Moving, JobsDrop, FailJobs DEF Reminding
<1>1. CASE ToggleUpdatesRead(w) \/ ToggleRetroRead(w)
  BY <1>0, <1>1 DEF ToggleUpdatesRead, ToggleRetroRead, At
<1>2. CASE ToggleUpdatesWrite(w)
  BY <1>0, <1>2, UpdateEffect DEF ToggleUpdatesWrite
<1>3. CASE ToggleRetroWrite(w)
  BY <1>0, <1>3, UpdateEffect DEF ToggleRetroWrite
<1>4. CASE ToggleUpdatesCancel(w) \/ ToggleRetroCancel(w) \/ ToggleRetroArm(w)
  BY <1>0, <1>4 DEF ToggleUpdatesCancel, ToggleRetroCancel, ToggleRetroArm
<1> QED BY <1>1, <1>2, <1>3, <1>4 DEF Toggle

(* SetNewReminder schedules the job of a run that its handler was admitted *)
(* to because the run was active.                                          *)
LEMMA StatusUpdateJobs ==
    ASSUME TypeOK, JobInv, NEW w \in Workers, StatusUpdate(w)
    PROVE  JobInv'
<1>0. w \in Actors /\ JobAt(w) /\ OneAtATime
  BY HandlerFacts DEF JobInv
<1> USE HandlerFacts, Moving, JobsDrop, FailJobs
<1>1. CASE UpdateStatus(w)
  <2>1. CASE FailsAt(w, "handle", "post") \/ FailsAt(w, "handle", "db")
    BY <1>0, <2>1
  <2>2. CASE /\ pc[w] = "handle" /\ op[w] \in GuardedKinds /\ row' = row
             /\ Goto(w, "reminder_read") /\ jobs' = jobs
    <3>1. JobAt(w)'
      BY <1>0, <2>2 DEF JobAt, Moves, InProgress, Reminding
    <3> QED BY <1>0, <2>2, <3>1
  <2> QED BY <1>1, <2>1, <2>2 DEF UpdateStatus, At, GuardedKinds
<1>2. CASE SetNewReminderRead(w)
  <2>1. JobAt(w)'
    BY <1>0, <1>2 DEF SetNewReminderRead, JobAt, Moves, InProgress, Reminding
  <2> QED BY <1>0, <1>2, <2>1 DEF SetNewReminderRead
<1>3. CASE SetNewReminderCancel(w)
  <2>1. JobAt(w)'
    BY <1>0, <1>3 DEF SetNewReminderCancel, JobAt, Moves, InProgress, Reminding
  <2> QED BY <1>0, <1>3, <2>1 DEF SetNewReminderCancel
<1>4. CASE SetNewReminderUnpost(w)
  <2>1. CASE FailsAt(w, "reminder_unpost", "removePost")
    BY <1>0, <2>1
  <2>2. CASE ~FailsAt(w, "reminder_unpost", "removePost")
    <3>1. JobAt(w)'
      BY <1>0, <1>4, <2>2 DEF SetNewReminderUnpost, JobAt, Moves, InProgress, Reminding
    <3> QED BY <1>0, <1>4, <2>2, <3>1 DEF SetNewReminderUnpost
  <2> QED BY <2>1, <2>2
<1>5. CASE SetNewReminderWrite(w)
  <2> DEFINE reset == [copy[w] EXCEPT !.reminderTimer      = WantsReminder(w),
                                      !.lastStatusUpdateAt = clock + 1]
  <2>1. reset \in PlaybookRun
    <3>1. WantsReminder(w) \in BOOLEAN /\ clock + 1 \in Nat /\ copy[w] \in PlaybookRun
      BY DEF WantsReminder, TypeOK
    <3> QED BY <3>1, FieldTyping, Zenon
  <2>2. CASE FailsAt(w, "reminder_write", "db")
    BY <1>0, <2>2
  <2>3. CASE /\ pc[w] = "reminder_write" /\ row' = UpdatePlaybookRun(row, reset)
             /\ Goto(w, "reminder_arm") /\ jobs' = jobs
    <3> HIDE DEF reset
    <3>1. row'.currentStatus = row.currentStatus
      BY <2>1, <2>3, UpdateEffect
    <3>2. JobAt(w)'
      BY <1>0, <2>3, <3>1 DEF JobAt, Moves, InProgress, Reminding
    <3> QED BY <1>0, <2>3, <3>1, <3>2
  <2> QED BY <1>5, <2>2, <2>3 DEF SetNewReminderWrite
<1>6. CASE SetNewReminderArm(w)
  <2>0. pc[w] = "reminder_arm" /\ row' = row /\ InProgress
    BY <1>0, <1>6 DEF SetNewReminderArm, JobAt, Reminding
  <2>1. CASE Return(w)
    <3>1. Moves(w, "idle") /\ OneAtATime' /\ \A b \in Actors \ {w} : pc'[b] = "idle"
      BY <1>0, <2>0, <2>1, OthersIdle
    <3> QED BY <2>0, <3>1
            DEF JobInv, JobAt, Reminding, CancelledAtFinish, Actors, Moves, InProgress,
                Finished, StatusInProgress, StatusFinished
  <2>2. CASE /\ pc' = [pc EXCEPT ![w] = "handle"] /\ op' = [op EXCEPT ![w] = "finish"]
             /\ jobs' = jobs
    <3>1. Moves(w, "handle") /\ op'[w] = "finish"
      BY <1>0, <2>2 DEF Moves, TypeOK, LocalsOK
    <3>2. JobAt(w)'
      BY <3>1 DEF JobAt, GuardedKinds, Reminding, Moves
    <3> QED BY <1>0, <2>0, <2>2, <3>1, <3>2
  <2> QED BY <1>6, <2>1, <2>2 DEF SetNewReminderArm
<1> QED BY <1>1, <1>2, <1>3, <1>4, <1>5, <1>6 DEF StatusUpdate

LEMMA EditJobs ==
    ASSUME TypeOK, JobInv, NEW w \in Workers,
           \/ CheckEditPermissions(w)
           \/ PublishRetrospective(w) \/ CancelRetrospective(w) \/ EditRun(w)
    PROVE  JobInv'
<1>0. w \in Actors
  BY HandlerFacts
<1> USE HandlerFacts, Moving, JobsDrop, FailJobs DEF Reminding
<1>1. CASE CheckEditPermissions(w)
  <2>1. CASE Return(w)
    BY <1>0, <1>1, <2>1 DEF CheckEditPermissions
  <2>2. CASE row.currentStatus # StatusFinished /\ Goto(w, "handle")
    <3>1. JobAt(w)'
      BY <1>0, <1>1, <2>2, StatusTyping
         DEF CheckEditPermissions, JobAt, Moves, InProgress, Finished
    <3> QED BY <1>0, <1>1, <2>2, <3>1 DEF CheckEditPermissions
  <2> QED BY <1>1, <2>1, <2>2 DEF CheckEditPermissions
<1>2. CASE PublishRetrospective(w)
  BY <1>0, <1>2, UpdateEffect DEF PublishRetrospective, At
<1>3. CASE CancelRetrospective(w)
  BY <1>0, <1>3, UpdateEffect DEF CancelRetrospective, At
<1>4. CASE EditRun(w)
  BY <1>0, <1>4, UpdateEffect DEF EditRun, At
<1> QED BY <1>1, <1>2, <1>3, <1>4

(* A callback leaves the status alone and takes its own key out. *)
LEMMA CallbackJobs ==
    ASSUME TypeOK, JobInv, StatusReminder \/ RetroReminder
    PROVE  JobInv'
<1>0. /\ "status" \in Actors /\ "status" \in Keys /\ "status" \notin Workers
      /\ "retro" \in Actors /\ "retro" \in Keys /\ "retro" \notin Workers
      /\ copy["status"] \in PlaybookRun /\ row \in PlaybookRun
      /\ jobs \in [Keys -> JobStates]
  BY WorkersAssumption, StatusTyping DEF Actors, Keys, TypeOK
<1>1. /\ CallbackReturned(jobs, "status")["status"] \in {jobs["status"], "none"}
      /\ CallbackReturned(jobs, "retro")["status"] = jobs["status"]
      /\ Cancel(jobs, "retro")["status"] = jobs["status"]
  BY <1>0, JobEffect
<1> USE Moving, JobsDrop DEF ReturnFromCallback
<1>2. CASE StatusReminderRead
  BY <1>0, <1>1, <1>2 DEF StatusReminderRead
<1>3. CASE StatusReminderPost
  BY <1>0, <1>1, <1>3 DEF StatusReminderPost
<1>4. CASE StatusReminderWrite
  BY <1>0, <1>1, <1>4, UpdateEffect DEF StatusReminderWrite
<1>5. CASE RetroReminderRead
  BY <1>0, <1>1, <1>5 DEF RetroReminderRead
<1>6. CASE RetroReminderPost
  BY <1>0, <1>1, <1>6 DEF RetroReminderPost
<1> QED BY <1>2, <1>3, <1>4, <1>5, <1>6 DEF StatusReminder, RetroReminder

LEMMA NextJobs ==
    ASSUME OneByOne, "user" \notin Fallible, TypeOK, JobInv, [Next]_vars
    PROVE  JobInv'
<1>1. ASSUME NEW w \in Workers, Handle(w)
      PROVE  JobInv'
  BY <1>1, FinishJobs, RestoreJobs, ToggleJobs, StatusUpdateJobs, EditJobs DEF Handle
<1>2. ASSUME NEW w \in Workers, NEW kind \in RequestKinds, Receive(w, kind)
      PROVE  JobInv'
  <2>1. /\ NoneRunning /\ w \in Actors /\ UNCHANGED <<row, jobs>>
        /\ op' = [op EXCEPT ![w] = kind]
        /\ pc' = [pc EXCEPT ![w] = IF kind \in GuardedKinds THEN "check" ELSE "handle"]
    BY <1>2 DEF Receive, MayStart, OneByOne, Actors
  <2>2. /\ op'[w] = kind /\ OneAtATime' /\ \A b \in Actors \ {w} : pc'[b] = "idle"
        /\ pc'[w] = IF kind \in GuardedKinds THEN "check" ELSE "handle"
    BY <2>1 DEF OneAtATime, NoneRunning, TypeOK, LocalsOK
  <2> QED BY <2>1, <2>2
          DEF JobInv, JobAt, Reminding, CancelledAtFinish, Actors, NoneRunning, Finished
<1>3. ASSUME NEW key \in Keys, FireReminder(key)
      PROVE  JobInv'
  <2>1. /\ NoneRunning /\ key \in Actors /\ key \notin Workers /\ row' = row
        /\ pc' = [pc EXCEPT ![key] = "handle"] /\ jobs[key] = "armed"
        /\ jobs' = Fire(jobs, key)
    BY <1>3, WorkersAssumption DEF FireReminder, MayStart, OneByOne, Actors
  <2>2. OneAtATime' /\ \A b \in Actors \ {key} : pc'[b] = "idle"
    BY <2>1 DEF OneAtATime, NoneRunning, TypeOK, LocalsOK
  <2>3. Finished => jobs["status"] = "none"
    BY <2>1 DEF JobInv, CancelledAtFinish, NoneRunning, Actors
  <2>4. jobs'["status"] = jobs["status"] \/ key = "status"
    BY <2>1, JobEffect DEF TypeOK, Keys
  <2>5. CancelledAtFinish'
    BY <2>1, <2>3, <2>4 DEF CancelledAtFinish, Finished
  <2> QED BY <2>1, <2>2, <2>5 DEF JobInv, JobAt, Reminding, Actors
<1>4. CASE StatusReminder \/ RetroReminder
  BY <1>4, CallbackJobs
<1>5. CASE RearmRetroReminder
  <2>1. UNCHANGED <<row, pc, op>> /\ jobs'["status"] = jobs["status"]
    BY <1>5, JobEffect DEF RearmRetroReminder, local, TypeOK, Keys
  <2> QED BY <2>1 DEF JobInv, OneAtATime, JobAt, CancelledAtFinish, InProgress, Finished
<1>6. CASE ArchiveByUser \/ UnarchiveByUser \/ AtRest \/ UNCHANGED vars
  <2>1. UNCHANGED <<row, pc, op, jobs>>
    BY <1>6 DEF ArchiveByUser, UnarchiveByUser, AtRest, vars, local
  <2> QED BY <2>1 DEF JobInv, OneAtATime, JobAt, CancelledAtFinish, InProgress, Finished
<1>7. ~Crash
  BY DEF Crash, OneByOne, TypeOK
<1> QED BY <1>1, <1>2, <1>3, <1>4, <1>5, <1>6, <1>7 DEF Next

LEMMA InitJobs == Init => JobInv
<1> SUFFICES ASSUME Init
             PROVE  JobInv
  OBVIOUS
<1>1. (\A a \in Actors : pc[a] = "idle") /\ jobs["status"] = "none"
  BY DEF Init, Keys
<1> QED BY <1>1 DEF JobInv, OneAtATime, JobAt, Reminding, CancelledAtFinish, Actors

(* When requests do not overlap, the process does not die and the finish   *)
(* can be announced, a finished run has no status reminder scheduled once  *)
(* its handlers have returned, whatever other calls fail in whatever order *)
(* of finishes, restores, reports and snoozes.                             *)
THEOREM FinishLeavesNoReminder ==
    ASSUME OneByOne, "user" \notin Fallible
    PROVE  Spec => []NoReminderAfterFinish
<1>1. TypeOK /\ JobInv /\ [Next]_vars => JobInv'
  BY NextJobs
<1>2. JobInv => NoReminderAfterFinish
  BY DEF JobInv, CancelledAtFinish, NoReminderAfterFinish, Quiescent, NoneRunning, Actors
<1> QED BY <1>1, <1>2, InitJobs, TypeCorrect, PTL DEF Spec

-----------------------------------------------------------------------------
(* The reminder posts in the channel are the one the run records. *)

(* The two steps before which the posts have changed and the row has not. *)
Rewriting == {"reminder_write", "prompt_write"}

PromptAt(a) ==
    /\ pc[a] \in Holding \ Rewriting => copy[a].reminderPostID = row.reminderPostID
    /\ pc[a] = "reminder_write" => copy[a].reminderPostID = 0 /\ livePrompts = {}
    /\ pc[a] = "reminder_arm" => row.reminderPostID = 0
    /\ pc[a] = "prompt_write" => /\ copy[a].reminderPostID # 0
                                 /\ livePrompts = {copy[a].reminderPostID}

RecordedPrompt == livePrompts = {row.reminderPostID} \ {0}

(* A reminder is scheduled only for a run that has no post, and is not     *)
(* scheduled again while its callback runs.                                *)
PromptInv ==
    /\ OneAtATime
    /\ \A a \in Actors : PromptAt(a)
    /\ (\A a \in Actors : pc[a] \notin Rewriting) => RecordedPrompt
    /\ jobs["status"] # "none" => row.reminderPostID = 0
    /\ pc["status"] # "idle" => jobs["status"] = "firing"

(* When one actor moves, what holds of it is all there is to check. *)
LEMMA PromptFocus ==
    ASSUME TypeOK, PromptInv, NEW a \in Actors, pc[a] # "idle",
           NEW label, Moves(a, label), PromptAt(a)',
           label \notin Rewriting => RecordedPrompt',
           jobs'["status"] # "none" => row'.reminderPostID = 0,
           a = "status" => label = "idle" \/ jobs'["status"] = "firing"
    PROVE  PromptInv'
<1>1. OneAtATime' /\ \A b \in Actors \ {a} : pc'[b] = "idle"
  BY OthersIdle DEF PromptInv
<1>2. pc'[a] = label
  BY DEF Moves
<1>3. \A b \in Actors : PromptAt(b)'
  BY <1>1 DEF PromptAt, Holding, Finishing, Rewriting
<1>4. "status" \in Actors
  BY DEF Actors, Keys
<1> QED BY <1>1, <1>2, <1>3, <1>4 DEF PromptInv

(* A step that leaves the posts, the recorded id and the reminder alone. *)
LEMMA PromptPlain ==
    ASSUME TypeOK, PromptInv, NEW a \in Actors, a # "status",
           pc[a] \notin {"idle", "reminder_write", "prompt_write"},
           NEW label, Moves(a, label),
           label \notin {"reminder_write", "reminder_arm", "prompt_write"},
           livePrompts' = livePrompts,
           row'.reminderPostID = row.reminderPostID,
           jobs'["status"] \in {jobs["status"], "none"},
           label \in Holding => copy'[a].reminderPostID = row.reminderPostID
    PROVE  PromptInv'
<1>1. RecordedPrompt
  BY DEF PromptInv, OneAtATime, Rewriting
<1>2. RecordedPrompt'
  BY <1>1 DEF RecordedPrompt
<1>3. PromptAt(a)'
  BY DEF PromptAt, Moves, Rewriting
<1> QED BY <1>2, <1>3, PromptFocus DEF PromptInv

LEMMA FailPrompts ==
    ASSUME TypeOK, PromptInv, NEW w \in Workers, NEW label, NEW call,
           FailsAt(w, label, call), label \notin {"idle", "reminder_write", "prompt_write"}
    PROVE  PromptInv'
BY HandlerFacts, PromptPlain, Moving, WorkersAssumption DEF FailsAt, Holding, Finishing, Keys

LEMMA FinishPrompts ==
    ASSUME TypeOK, PromptInv, NEW w \in Workers, Finish(w)
    PROVE  PromptInv'
<1>0. w \in Actors /\ w # "status" /\ PromptAt(w)
  BY HandlerFacts, WorkersAssumption DEF PromptInv, Keys
<1> USE HandlerFacts, Moving, PromptPlain, FailPrompts DEF PromptAt, Holding, Finishing, Rewriting
<1>1. CASE FinishRead(w)
  BY <1>0, <1>1 DEF FinishRead, At
<1>2. CASE FinishStore(w)
  BY <1>0, <1>2, RowEffect DEF FinishStore
<1>3. CASE FinishNotify(w)
  BY <1>0, <1>3 DEF FinishNotify
<1>4. CASE FinishRetro(w)
  BY <1>0, <1>4 DEF FinishRetro
<1>5. CASE FinishArm(w)
  BY <1>0, <1>5 DEF FinishArm
<1>6. CASE FinishEvent(w)
  BY <1>0, <1>6 DEF FinishEvent
<1>7. CASE FinishFlag(w)
  BY <1>0, <1>7, MarkerWrites
<1>8. CASE FinishArchive(w)
  BY <1>0, <1>8 DEF FinishArchive
<1>9. CASE FinishUnflag(w)
  BY <1>0, <1>9, MarkerWrites
<1> QED BY <1>1, <1>2, <1>3, <1>4, <1>5, <1>6, <1>7, <1>8, <1>9 DEF Finish

LEMMA RestorePrompts ==
    ASSUME TypeOK, PromptInv, NEW w \in Workers, Restore(w)
    PROVE  PromptInv'
<1>0. w \in Actors /\ w # "status" /\ PromptAt(w)
  BY HandlerFacts, WorkersAssumption DEF PromptInv, Keys
<1> USE HandlerFacts, Moving, PromptPlain, FailPrompts DEF PromptAt, Holding, Finishing, Rewriting
<1>1. CASE RestoreRead(w)
  BY <1>0, <1>1 DEF RestoreRead, At
<1>2. CASE RestoreStore(w)
  BY <1>0, <1>2, RowEffect DEF RestoreStore
<1>3. CASE RestoreUser(w)
  BY <1>0, <1>3 DEF RestoreUser
<1>4. CASE RestoreUnarchive(w)
  BY <1>0, <1>4 DEF RestoreUnarchive
<1>5. CASE RestoreFlag(w)
  BY <1>0, <1>5, MarkerWrites
<1> QED BY <1>1, <1>2, <1>3, <1>4, <1>5 DEF Restore

LEMMA TogglePrompts ==
    ASSUME TypeOK, PromptInv, NEW w \in Workers, Toggle(w)
    PROVE  PromptInv'
<1>0. w \in Actors /\ w # "status" /\ PromptAt(w)
  BY HandlerFacts, WorkersAssumption DEF PromptInv, Keys
<1>a. UpdatePlaybookRun(row, copy[w]).reminderPostID = copy[w].reminderPostID
  BY HandlerFacts, UpdateEffect
<1> USE HandlerFacts, Moving, PromptPlain, FailPrompts DEF PromptAt, Holding, Finishing, Rewriting
<1>1. CASE ToggleUpdatesRead(w)
  <2>1. copy'[w].reminderPostID = row.reminderPostID /\ Moves(w, "updates_write")
    BY <1>0, <1>1 DEF ToggleUpdatesRead, PlaybookRun
  <2> QED BY <1>0, <1>1, <2>1 DEF ToggleUpdatesRead, At
<1>2. CASE ToggleUpdatesWrite(w)
  BY <1>0, <1>a, <1>2 DEF ToggleUpdatesWrite
<1>3. CASE ToggleUpdatesCancel(w)
  BY <1>0, <1>3 DEF ToggleUpdatesCancel
<1>4. CASE ToggleRetroRead(w)
  <2> DEFINE held == [row EXCEPT !.retrospectiveEnabled = (op[w] = "enableRetro")]
  <2>1. held.reminderPostID = row.reminderPostID
    BY DEF PlaybookRun
  <2>2. Return(w) \/ HoldAndGoto(w, held, "retro_write")
    BY <1>4 DEF ToggleRetroRead
  <2> HIDE DEF held
  <2> QED BY <1>0, <1>4, <2>1, <2>2 DEF ToggleRetroRead, At
<1>5. CASE ToggleRetroWrite(w)
  BY <1>0, <1>a, <1>5 DEF ToggleRetroWrite
<1>6. CASE ToggleRetroCancel(w)
  BY <1>0, <1>6 DEF ToggleRetroCancel
<1>7. CASE ToggleRetroArm(w)
  BY <1>0, <1>7 DEF ToggleRetroArm
<1> QED BY <1>1, <1>2, <1>3, <1>4, <1>5, <1>6, <1>7 DEF Toggle

LEMMA EditPrompts ==
    ASSUME TypeOK, PromptInv, NEW w \in Workers,
           \/ CheckEditPermissions(w)
           \/ PublishRetrospective(w) \/ CancelRetrospective(w) \/ EditRun(w)
    PROVE  PromptInv'
<1>0. w \in Actors /\ w # "status" /\ PromptAt(w)
  BY HandlerFacts, WorkersAssumption DEF PromptInv, Keys
<1>a. UpdatePlaybookRun(row, copy[w]).reminderPostID = copy[w].reminderPostID
  BY HandlerFacts, UpdateEffect
<1> USE HandlerFacts, Moving, PromptPlain, FailPrompts DEF PromptAt, Holding, Finishing, Rewriting
<1>1. CASE CheckEditPermissions(w)
  BY <1>0, <1>1 DEF CheckEditPermissions
<1>2. CASE PublishRetrospective(w)
  <2>1. CASE pc[w] = "handle"
    <3>1. copy'[w].reminderPostID = row.reminderPostID /\ Moves(w, "publish_write")
      <4> DEFINE held == [row EXCEPT !.retrospectivePublished   = TRUE,
                                     !.retrospectiveWasCanceled = FALSE]
      <4>1. held.reminderPostID = row.reminderPostID
        BY DEF PlaybookRun
      <4>2. HoldAndGoto(w, held, "publish_write")
        BY <1>2, <2>1 DEF PublishRetrospective, FailsAt
      <4> HIDE DEF held
      <4> QED BY <1>0, <4>1, <4>2
    <3> QED BY <1>0, <1>2, <2>1, <3>1 DEF PublishRetrospective, FailsAt
  <2> QED BY <1>0, <1>a, <1>2, <2>1 DEF PublishRetrospective, At
<1>3. CASE CancelRetrospective(w)
  <2>1. CASE pc[w] = "handle"
    <3>1. copy'[w].reminderPostID = row.reminderPostID /\ Moves(w, "cancel_write")
      <4> DEFINE held == [row EXCEPT !.retrospectivePublished   = TRUE,
                                     !.retrospectiveWasCanceled = TRUE]
      <4>1. held.reminderPostID = row.reminderPostID
        BY DEF PlaybookRun
      <4>2. HoldAndGoto(w, held, "cancel_write")
        BY <1>3, <2>1 DEF CancelRetrospective, FailsAt
      <4> HIDE DEF held
      <4> QED BY <1>0, <4>1, <4>2
    <3> QED BY <1>0, <1>3, <2>1, <3>1 DEF CancelRetrospective, FailsAt
  <2> QED BY <1>0, <1>a, <1>3, <2>1 DEF CancelRetrospective, At
<1>4. CASE EditRun(w)
  BY <1>0, <1>a, <1>4 DEF EditRun, At
<1> QED BY <1>1, <1>2, <1>3, <1>4

(* SetNewReminder takes the old post away before it schedules the next. *)
LEMMA StatusUpdatePrompts ==
    ASSUME "db" \notin Fallible, TypeOK, PromptInv, NEW w \in Workers, StatusUpdate(w)
    PROVE  PromptInv'
<1>0. /\ w \in Actors /\ w # "status" /\ PromptAt(w)
      /\ pc[w] # "idle" /\ pc[w] \notin Rewriting => RecordedPrompt
  BY HandlerFacts, WorkersAssumption
     DEF PromptInv, OneAtATime, Keys, Rewriting, StatusUpdate, UpdateStatus, At, FailsAt,
         SetNewReminderRead, SetNewReminderCancel, SetNewReminderUnpost,
         SetNewReminderWrite, SetNewReminderArm
<1> USE HandlerFacts, Moving, FailPrompts
<1>1. CASE UpdateStatus(w)
  BY <1>0, <1>1, PromptPlain DEF UpdateStatus, At, Holding, Finishing
<1>2. CASE SetNewReminderRead(w)
  BY <1>0, <1>2, PromptPlain DEF SetNewReminderRead
<1>3. CASE SetNewReminderCancel(w)
  <2> DEFINE label == IF copy[w].reminderPostID = 0 THEN "reminder_write"
                                                    ELSE "reminder_unpost"
  <2>0. /\ pc[w] = "reminder_cancel" /\ Moves(w, label) /\ copy' = copy
        /\ row' = row /\ livePrompts' = livePrompts /\ jobs'["status"] = "none"
        /\ copy[w].reminderPostID = row.reminderPostID
        /\ RecordedPrompt
    BY <1>0, <1>3 DEF SetNewReminderCancel, PromptAt, Holding, Rewriting
  <2>1. PromptAt(w)' /\ RecordedPrompt'
    BY <2>0 DEF PromptAt, RecordedPrompt, Moves
  <2> HIDE DEF label
  <2> QED BY <1>0, <2>0, <2>1, PromptFocus
<1>4. CASE SetNewReminderUnpost(w)
  <2> DEFINE held == [copy[w] EXCEPT !.reminderPostID = 0]
  <2>1. CASE FailsAt(w, "reminder_unpost", "removePost")
    BY <1>0, <2>1
  <2>2. CASE /\ pc[w] = "reminder_unpost"
             /\ livePrompts' = livePrompts \ {copy[w].reminderPostID}
             /\ HoldAndGoto(w, held, "reminder_write")
             /\ row' = row /\ jobs' = jobs
    <3>1. held.reminderPostID = 0
      BY DEF PlaybookRun
    <3> HIDE DEF held
    <3>2. Moves(w, "reminder_write") /\ copy'[w].reminderPostID = 0
      BY <1>0, <2>2, <3>1
    <3>3. livePrompts' = {}
      BY <1>0, <2>2 DEF PromptAt, Holding, Rewriting, RecordedPrompt
    <3>4. PromptAt(w)'
      BY <3>2, <3>3 DEF PromptAt, Moves, Rewriting
    <3> QED BY <1>0, <2>2, <3>2, <3>4, PromptFocus DEF PromptInv, Rewriting
  <2> QED BY <1>4, <2>1, <2>2 DEF SetNewReminderUnpost
<1>5. CASE SetNewReminderWrite(w)
  <2> DEFINE reset == [copy[w] EXCEPT !.reminderTimer      = WantsReminder(w),
                                      !.lastStatusUpdateAt = clock + 1]
  <2>1. reset \in PlaybookRun /\ reset.reminderPostID = copy[w].reminderPostID
    <3>1. WantsReminder(w) \in BOOLEAN /\ clock + 1 \in Nat /\ copy[w] \in PlaybookRun
      BY DEF WantsReminder, TypeOK
    <3>2. reset \in PlaybookRun
      BY <3>1, FieldTyping, Zenon
    <3>3. reset.reminderPostID = copy[w].reminderPostID
      BY <3>1 DEF PlaybookRun
    <3> QED BY <3>2, <3>3
  <2>2. /\ pc[w] = "reminder_write" /\ row' = UpdatePlaybookRun(row, reset)
        /\ Goto(w, "reminder_arm") /\ jobs' = jobs /\ livePrompts' = livePrompts
    BY <1>5 DEF SetNewReminderWrite, FailsAt
  <2> HIDE DEF reset
  <2>3. /\ row'.reminderPostID = 0 /\ livePrompts' = {} /\ Moves(w, "reminder_arm")
    BY <1>0, <2>1, <2>2, UpdateEffect DEF PromptAt
  <2>4. PromptAt(w)' /\ RecordedPrompt'
    BY <2>3 DEF PromptAt, Moves, RecordedPrompt, Holding, Finishing
  <2> QED BY <1>0, <2>2, <2>3, <2>4, PromptFocus
<1>6. CASE SetNewReminderArm(w)
  <2>0. /\ pc[w] = "reminder_arm" /\ row' = row /\ livePrompts' = livePrompts
        /\ row.reminderPostID = 0 /\ RecordedPrompt'
    BY <1>0, <1>6 DEF SetNewReminderArm, PromptAt, RecordedPrompt, Rewriting
  <2>1. Moves(w, "idle") \/ Moves(w, "handle")
    BY <1>0, <1>6 DEF SetNewReminderArm, Moves, TypeOK, LocalsOK
  <2>2. PromptAt(w)'
    BY <2>1 DEF PromptAt, Moves, Holding, Finishing
  <2> QED BY <1>0, <2>0, <2>1, <2>2, PromptFocus
<1> QED BY <1>1, <1>2, <1>3, <1>4, <1>5, <1>6 DEF StatusUpdate

(* The callback finds no post, posts one and records it. *)
LEMMA CallbackPrompts ==
    ASSUME "db" \notin Fallible, TypeOK, PromptInv, StatusReminder \/ RetroReminder
    PROVE  PromptInv'
<1>0. /\ "status" \in Actors /\ "status" \in Keys
      /\ "retro" \in Actors /\ "retro" \in Keys
      /\ copy["status"] \in PlaybookRun /\ row \in PlaybookRun
      /\ jobs \in [Keys -> JobStates] /\ lastPrompt \in Nat
      /\ PromptAt("status") /\ PromptAt("retro")
      /\ jobs["status"] # "none" => row.reminderPostID = 0
      /\ pc["status"] # "idle" => jobs["status"] = "firing"
  BY StatusTyping DEF Actors, Keys, TypeOK, PromptInv
<1>1. /\ jobs["status"] = "firing" => CallbackReturned(jobs, "status")["status"] = "none"
      /\ CallbackReturned(jobs, "retro")["status"] = jobs["status"]
      /\ Cancel(jobs, "retro")["status"] = jobs["status"]
  BY <1>0, JobEffect
<1>2. ASSUME NEW a \in Actors, pc[a] # "idle", pc[a] \notin Rewriting
      PROVE  RecordedPrompt
  BY <1>2 DEF PromptInv, OneAtATime, Rewriting
<1> USE Moving DEF ReturnFromCallback
<1>3. CASE StatusReminderRead
  <2>0. /\ pc["status"] = "handle" /\ row' = row /\ livePrompts' = livePrompts
        /\ \/ LoadAndGoto("status", "prompt_post") /\ jobs' = jobs
           \/ Return("status") /\ jobs'["status"] = "none"
    BY <1>0, <1>1, <1>3 DEF StatusReminderRead
  <2>1. RecordedPrompt'
    BY <1>0, <1>2, <2>0 DEF RecordedPrompt, Rewriting
  <2>2. PromptAt("status")'
    BY <1>0, <2>0 DEF PromptAt, Moves, Holding, Finishing, Rewriting
  <2> QED BY <1>0, <2>0, <2>1, <2>2, PromptFocus
<1>4. CASE StatusReminderPost
  <2> DEFINE held == [copy["status"] EXCEPT !.reminderPostID = lastPrompt + 1]
  <2>0. pc["status"] = "prompt_post" /\ row' = row /\ RecordedPrompt
    BY <1>0, <1>2, <1>4 DEF StatusReminderPost, Rewriting
  <2>1. CASE /\ livePrompts' = livePrompts \cup {lastPrompt + 1} /\ jobs' = jobs
             /\ HoldAndGoto("status", held, "prompt_write")
    <3>1. held.reminderPostID = lastPrompt + 1 /\ lastPrompt + 1 # 0
      BY <1>0 DEF PlaybookRun
    <3> HIDE DEF held
    <3>2. livePrompts' = {lastPrompt + 1}
      BY <1>0, <2>0, <2>1 DEF RecordedPrompt
    <3>3. Moves("status", "prompt_write") /\ copy'["status"] = held
      BY <1>0, <2>1
    <3>4. PromptAt("status")'
      BY <3>1, <3>2, <3>3 DEF PromptAt, Moves, Rewriting
    <3> QED BY <1>0, <2>0, <2>1, <3>3, <3>4, PromptFocus DEF Rewriting
  <2>2. CASE livePrompts' = livePrompts /\ ReturnFromCallback("status")
    <3>1. RecordedPrompt' /\ PromptAt("status")' /\ Moves("status", "idle")
      BY <1>0, <2>0, <2>2 DEF RecordedPrompt, PromptAt, Moves, Holding, Finishing, Rewriting
    <3> QED BY <1>0, <1>1, <2>0, <2>2, <3>1, PromptFocus
  <2> QED BY <1>4, <2>1, <2>2 DEF StatusReminderPost
<1>5. CASE StatusReminderWrite
  <2>0. /\ pc["status"] = "prompt_write" /\ row' = UpdatePlaybookRun(row, copy["status"])
        /\ livePrompts' = livePrompts /\ Moves("status", "idle") /\ jobs'["status"] = "none"
    BY <1>0, <1>1, <1>5 DEF StatusReminderWrite
  <2>1. RecordedPrompt' /\ PromptAt("status")'
    BY <1>0, <2>0, UpdateEffect
       DEF RecordedPrompt, PromptAt, Moves, Holding, Finishing, Rewriting
  <2> QED BY <1>0, <2>0, <2>1, PromptFocus
<1>6. CASE RetroReminder
  <2>0. /\ pc["retro"] \in {"handle", "retro_post"}
        /\ row' = row /\ livePrompts' = livePrompts /\ jobs'["status"] = jobs["status"]
        /\ Moves("retro", "idle") \/ Moves("retro", "retro_post")
    BY <1>0, <1>1, <1>6 DEF RetroReminder, RetroReminderRead, RetroReminderPost
  <2> QED BY <1>0, <2>0, PromptPlain DEF Holding, Finishing
<1> QED BY <1>3, <1>4, <1>5, <1>6 DEF StatusReminder

LEMMA NextPrompts ==
    ASSUME OneByOne, "db" \notin Fallible, TypeOK, PromptInv, [Next]_vars
    PROVE  PromptInv'
<1>1. ASSUME NEW w \in Workers, Handle(w)
      PROVE  PromptInv'
  BY <1>1, FinishPrompts, RestorePrompts, TogglePrompts, StatusUpdatePrompts, EditPrompts
     DEF Handle
<1>2. ASSUME NEW a \in Actors, NEW label \in {"check", "handle"}, NoneRunning,
             Moves(a, label), UNCHANGED <<row, livePrompts>>,
             IF a = "status" THEN jobs["status"] = "armed" /\ jobs'["status"] = "firing"
                             ELSE jobs'["status"] = jobs["status"]
      PROVE  PromptInv'
  <2>1. "status" \in Actors
    BY DEF Actors, Keys
  <2>2. OneAtATime' /\ \A b \in Actors \ {a} : pc'[b] = "idle"
    BY <1>2, OneStarts DEF Moves
  <2>3. \A b \in Actors : PromptAt(b)'
    BY <1>2, <2>2 DEF PromptAt, Holding, Finishing, Rewriting, Moves
  <2>4. RecordedPrompt'
    BY <1>2 DEF PromptInv, NoneRunning, RecordedPrompt, Rewriting
  <2> QED BY <1>2, <2>1, <2>2, <2>3, <2>4 DEF PromptInv, NoneRunning
<1>3. ASSUME NEW w \in Workers, NEW kind \in RequestKinds, Receive(w, kind)
      PROVE  PromptInv'
  BY <1>2, <1>3, WorkersAssumption
     DEF Receive, MayStart, OneByOne, Actors, Keys, Moves, TypeOK, LocalsOK
<1>4. ASSUME NEW key \in Keys, FireReminder(key)
      PROVE  PromptInv'
  <2>1. /\ key \in Actors /\ "status" \in Keys /\ jobs \in [Keys -> JobStates]
        /\ NoneRunning /\ Moves(key, "handle") /\ UNCHANGED <<row, livePrompts>>
        /\ jobs[key] = "armed" /\ jobs' = Fire(jobs, key)
    BY <1>4 DEF FireReminder, MayStart, OneByOne, Actors, Moves, Keys, TypeOK, LocalsOK
  <2>2. jobs'[key] = "firing" /\ (key # "status" => jobs'["status"] = jobs["status"])
    BY <2>1, JobEffect
  <2> QED BY <1>2, <2>1, <2>2
<1>5. CASE StatusReminder \/ RetroReminder
  BY <1>5, CallbackPrompts
<1>6. CASE RearmRetroReminder \/ ArchiveByUser \/ UnarchiveByUser \/ AtRest \/ UNCHANGED vars
  <2>1. UNCHANGED <<row, pc, copy, livePrompts>> /\ jobs'["status"] = jobs["status"]
    BY <1>6, JobEffect
       DEF RearmRetroReminder, ArchiveByUser, UnarchiveByUser, AtRest, vars, local, TypeOK, Keys
  <2> QED BY <2>1 DEF PromptInv, OneAtATime, PromptAt, RecordedPrompt
<1>7. ~Crash
  BY DEF Crash, OneByOne, TypeOK
<1> QED BY <1>1, <1>3, <1>4, <1>5, <1>6, <1>7 DEF Next

LEMMA InitPrompts == Init => PromptInv
<1> SUFFICES ASSUME Init
             PROVE  PromptInv
  OBVIOUS
<1>1. /\ \A a \in Actors : pc[a] = "idle"
      /\ jobs["status"] = "none" /\ livePrompts = {} /\ row.reminderPostID = 0
      /\ "status" \in Actors
  BY DEF Init, Keys, NewPlaybookRun, Actors
<1> QED BY <1>1 DEF PromptInv, OneAtATime, PromptAt, RecordedPrompt, Holding, Finishing,
                    Rewriting

(* When requests do not overlap, the process does not die and the database *)
(* takes every write, the reminder posts in the channel are, once nothing  *)
(* runs, the one the run records: no sequence of reports, snoozes, fired   *)
(* reminders, finishes and restores leaves a post nobody will take away,   *)
(* or an id of a post that is gone.                                        *)
THEOREM PostsAreRecorded ==
    ASSUME OneByOne, "db" \notin Fallible
    PROVE  Spec => []PromptsTracked
<1>1. TypeOK /\ PromptInv /\ [Next]_vars => PromptInv'
  BY NextPrompts
<1>2. PromptInv => PromptsTracked
  BY DEF PromptInv, PromptsTracked, RecordedPrompt, Quiescent, NoneRunning, Rewriting
<1> QED BY <1>1, <1>2, InitPrompts, TypeCorrect, PTL DEF Spec

-----------------------------------------------------------------------------
(* A restored run starts fresh. *)

(* An active run carries a marker only until its restore clears it. *)
Fresh ==
    (\A a \in Actors : pc[a] \notin Unmarking) /\ InProgress
        => ~row.autoArchivedChannel

FreshInv == MarkerInv /\ Fresh

LEMMA PlainFresh ==
    ASSUME TypeOK, FreshInv, NEW a \in Actors, PlainOf(a)
    PROVE  Fresh'
<1>1. pc[a] \notin Unmarking /\ pc[a] # "idle"
  BY DEF PlainOf
<1>2. \A b \in Actors : pc[b] \notin Unmarking
  BY <1>1 DEF FreshInv, MarkerInv, OneAtATime, Unmarking, Unarchiving
<1> QED BY <1>2 DEF FreshInv, Fresh, PlainOf, InProgress

LEMMA FinishFresh ==
    ASSUME TypeOK, FreshInv, NEW w \in Workers, Finish(w)
    PROVE  Fresh'
<1>0. /\ w \in Actors /\ MarkerAt(w)
      /\ pc[w] \in {"handle"} \cup Finishing
  BY HandlerFacts
     DEF FreshInv, MarkerInv, Finish, FinishRead, FinishStore, FinishNotify, FinishRetro,
         FinishArm, FinishEvent, FinishFlag, FinishArchive, FinishUnflag, FailsAt, At,
         Finishing
<1>1. \A b \in Actors : pc[b] \notin Unmarking
  BY <1>0 DEF FreshInv, MarkerInv, OneAtATime, Unmarking, Unarchiving, Finishing
<1>2. CASE row' = row
  BY <1>1, <1>2 DEF FreshInv, Fresh, InProgress
<1>3. CASE row' = FinishPlaybookRun(row)
  BY <1>3, HandlerFacts, RowEffect DEF Fresh, InProgress, StatusInProgress, StatusFinished
<1>4. CASE FinishFlag(w) \/ FinishUnflag(w)
  <2>1. row' = row \/ (Finished /\ row'.currentStatus = row.currentStatus)
    BY <1>0, <1>4, MarkerWrites DEF MarkerAt, Finishing, FinishFlag, FinishUnflag, FailsAt
  <2> QED BY <1>2, <2>1 DEF Fresh, InProgress, Finished, StatusInProgress, StatusFinished
<1> QED BY <1>2, <1>3, <1>4
        DEF Finish, FinishRead, FinishStore, FinishNotify, FinishRetro, FinishArm,
            FinishEvent, FinishArchive, FailsAt

LEMMA RestoreFresh ==
    ASSUME Undisturbed, "db" \notin Fallible, TypeOK, FreshInv,
           NEW w \in Workers, Restore(w)
    PROVE  Fresh'
<1>0. w \in Actors /\ MarkerAt(w) /\ OneAtATime
  BY HandlerFacts DEF FreshInv, MarkerInv
<1>a. \A label \in Unmarking : Moves(w, label) => Fresh'
  BY <1>0 DEF Fresh, Moves
<1> USE Moving DEF Unmarking, Unarchiving
<1>1. CASE RestoreRead(w)
  <2>1. \A b \in Actors : pc[b] \notin Unmarking
    BY <1>0, <1>1 DEF RestoreRead, At, OneAtATime
  <2> QED BY <1>1, <2>1 DEF RestoreRead, FreshInv, Fresh, InProgress
<1>2. CASE RestoreStore(w)
  BY <1>0, <1>a, <1>2 DEF RestoreStore, FailsAt
<1>3. CASE RestoreUser(w)
  <2>1. CASE Goto(w, "restore_unarchive")
    BY <1>0, <1>a, <2>1
  <2>2. CASE ~copy[w].autoArchivedChannel /\ row' = row
    BY <1>0, <1>3, <2>2 DEF RestoreUser, FailsAt, Undisturbed, MarkerAt, Holding, Fresh
  <2> QED BY <1>3, <2>1, <2>2 DEF RestoreUser, FailsAt, Undisturbed
<1>4. CASE RestoreUnarchive(w)
  BY <1>0, <1>a, <1>4 DEF RestoreUnarchive
<1>5. CASE RestoreFlag(w)
  <2>1. row' = WithMarker(row, copy[w], FALSE)
    BY <1>5 DEF RestoreFlag, FailsAt, WithMarker
  <2> QED BY <2>1, HandlerFacts, MarkerEffect DEF Fresh
<1> QED BY <1>1, <1>2, <1>3, <1>4, <1>5 DEF Restore

LEMMA NextFresh ==
    ASSUME Undisturbed, "db" \notin Fallible, TypeOK, FreshInv, [Next]_vars
    PROVE  FreshInv'
<1>0. MarkerInv /\ Fresh /\ MarkerInv'
  BY NextMarker DEF FreshInv
<1> SUFFICES Fresh'
  BY <1>0 DEF FreshInv
<1>1. ASSUME NEW w \in Workers, Handle(w)
      PROVE  Fresh'
  BY <1>1, FinishFresh, RestoreFresh, TogglePlain, StatusUpdatePlain, EditPlain,
     PlainFresh DEF Handle, Actors, FreshInv
<1>2. CASE StatusReminder \/ RetroReminder
  BY <1>2, CallbackPlain, PlainFresh DEF Actors, FreshInv
<1>3. CASE \/ \E w \in Workers, kind \in RequestKinds : Receive(w, kind)
           \/ \E key \in Keys : FireReminder(key)
  <2>1. NoneRunning /\ row' = row
    BY <1>3 DEF Receive, FireReminder, MayStart, Undisturbed
  <2> QED BY <1>0, <2>1 DEF Fresh, NoneRunning, Unmarking, Unarchiving, InProgress
<1>4. CASE RearmRetroReminder \/ ArchiveByUser \/ UnarchiveByUser \/ AtRest \/ UNCHANGED vars
  <2>1. UNCHANGED <<row, pc>>
    BY <1>4 DEF RearmRetroReminder, ArchiveByUser, UnarchiveByUser, AtRest, vars, local
  <2> QED BY <1>0, <2>1 DEF Fresh, InProgress
<1>5. ~Crash
  BY DEF Crash, Undisturbed, TypeOK
<1> QED BY <1>1, <1>2, <1>3, <1>4, <1>5 DEF Next

LEMMA InitFresh == Init => FreshInv
<1>1. Init => ~row.autoArchivedChannel
  BY DEF Init, NewPlaybookRun
<1> QED BY <1>1, InitMarker DEF FreshInv, Fresh

(* When requests do not overlap, the process does not die and a restore is *)
(* let down by no call it makes, an active run is, once nothing runs,      *)
(* neither in a channel the plugin archived nor marked as if it were,      *)
(* whatever a finish before the restore failed to do.                      *)
THEOREM RestoreStartsFresh ==
    ASSUME Undisturbed, "db" \notin Fallible
    PROVE  Spec => []RestoredStartsFresh
<1>1. TypeOK /\ FreshInv /\ [Next]_vars => FreshInv'
  BY NextFresh
<1>2. FreshInv => RestoredStartsFresh
  BY DEF FreshInv, Fresh, MarkerInv, ActiveIsFree, RestoredStartsFresh, Quiescent,
     NoneRunning, Unmarking, Unarchiving
<1> QED BY <1>1, <1>2, InitFresh, TypeCorrect, PTL DEF Spec

-----------------------------------------------------------------------------
(* What finishes, reports, snoozes and edits alone do.  The history        *)
(* variable plain says that there was nothing else so far.                 *)

PlainLabels == {"idle", "check", "handle", "edit_write"} \cup Finishing \cup Reminding

PlainWork ==
    plain => /\ op \in [Actors -> Plain]
             /\ \A w \in Workers : pc[w] \in PlainLabels

(* The steps of a behaviour that is plain still. *)
PlainNext ==
    \/ \E w \in Workers :
           CheckEditPermissions(w) \/ Finish(w) \/ StatusUpdate(w) \/ EditRun(w)
    \/ \E w \in Workers, kind \in RequestKinds : Receive(w, kind)
    \/ \E key \in Keys : FireReminder(key)
    \/ StatusReminder \/ RetroReminder \/ RearmRetroReminder
    \/ UNCHANGED vars

LEMMA PlainOnly ==
    ASSUME OneByOne, TypeOK, PlainWork, [MCNext]_<<vars, plain>>, plain'
    PROVE  plain /\ PlainNext
<1>1. plain /\ (UNCHANGED vars \/ (Next /\ ~ArchiveByUser /\ ~UnarchiveByUser))
  BY DEF MCNext
<1>2. ASSUME NEW w \in Workers
      PROVE  op[w] \in Plain /\ pc[w] \in PlainLabels
  BY <1>1 DEF PlainWork, Actors
<1>3. ASSUME NEW w \in Workers, Handle(w)
      PROVE  CheckEditPermissions(w) \/ Finish(w) \/ StatusUpdate(w) \/ EditRun(w)
  <2>1. pc[w] \in PlainLabels /\ op[w] \in Plain
    BY <1>2
  <2> USE DEF PlainLabels, Plain, Finishing, Reminding, At, FailsAt
  <2>2. ~Restore(w)
    BY <2>1 DEF Restore, RestoreRead, RestoreStore, RestoreUser, RestoreUnarchive,
       RestoreFlag
  <2>3. ~Toggle(w)
    BY <2>1 DEF Toggle, ToggleUpdatesRead, ToggleUpdatesWrite, ToggleUpdatesCancel,
       ToggleRetroRead, ToggleRetroWrite, ToggleRetroCancel, ToggleRetroArm
  <2>4. ~PublishRetrospective(w) /\ ~CancelRetrospective(w)
    BY <2>1 DEF PublishRetrospective, CancelRetrospective
  <2> QED BY <1>3, <2>2, <2>3, <2>4 DEF Handle
<1>4. ~Crash
  BY DEF Crash, OneByOne, TypeOK
<1> QED BY <1>1, <1>3, <1>4 DEF Next, PlainNext, AtRest

LEMMA PlainWorkKept ==
    ASSUME OneByOne, TypeOK, PlainWork, [MCNext]_<<vars, plain>>
    PROVE  PlainWork'
<1> SUFFICES ASSUME plain'
             PROVE  PlainWork'
  BY DEF PlainWork
<1>1. plain /\ PlainNext
  BY PlainOnly
<1>2. op' \in [Actors -> Plain]
  BY <1>1 DEF MCNext, PlainWork, vars
<1>3. ASSUME NEW a \in Actors, NEW label, Moves(a, label),
             label \in PlainLabels \/ a \notin Workers
      PROVE  \A w \in Workers : pc'[w] \in PlainLabels
  BY <1>1, <1>3 DEF PlainWork, Moves, TypeOK, LocalsOK, Actors
<1> USE Moving, <1>3 DEF PlainLabels, Finishing, Reminding
<1>4. ASSUME NEW w \in Workers,
             CheckEditPermissions(w) \/ Finish(w) \/ StatusUpdate(w) \/ EditRun(w)
      PROVE  \A v \in Workers : pc'[v] \in PlainLabels
  <2>0. w \in Actors
    BY HandlerFacts
  <2>1. CASE CheckEditPermissions(w) \/ EditRun(w)
    BY <2>0, <2>1 DEF CheckEditPermissions, EditRun, FailsAt
  <2>2. CASE FinishRead(w) \/ FinishStore(w) \/ FinishNotify(w)
    BY <2>0, <2>2 DEF FinishRead, FinishStore, FinishNotify, FailsAt
  <2>3. CASE FinishRetro(w) \/ FinishArm(w) \/ FinishEvent(w)
    BY <2>0, <2>3 DEF FinishRetro, FinishArm, FinishEvent, FailsAt
  <2>4. CASE FinishFlag(w) \/ FinishArchive(w) \/ FinishUnflag(w)
    BY <2>0, <2>4 DEF FinishFlag, FinishArchive, FinishUnflag, FailsAt
  <2>5. CASE UpdateStatus(w) \/ SetNewReminderRead(w) \/ SetNewReminderCancel(w)
    BY <2>0, <2>5 DEF UpdateStatus, SetNewReminderRead, SetNewReminderCancel, FailsAt
  <2>6. CASE SetNewReminderUnpost(w) \/ SetNewReminderWrite(w)
    BY <2>0, <2>6 DEF SetNewReminderUnpost, SetNewReminderWrite, FailsAt
  <2>7. CASE SetNewReminderArm(w)
    <3>1. Return(w) \/ Moves(w, "handle")
      BY <2>0, <2>7 DEF SetNewReminderArm, Moves, TypeOK, LocalsOK
    <3> QED BY <2>0, <3>1
  <2> QED BY <1>4, <2>1, <2>2, <2>3, <2>4, <2>5, <2>6, <2>7 DEF Finish, StatusUpdate
<1>5. ASSUME NEW w \in Workers, NEW kind \in RequestKinds, Receive(w, kind)
      PROVE  \A v \in Workers : pc'[v] \in PlainLabels
  BY <1>5 DEF Receive, Moves, TypeOK, LocalsOK, Actors
<1>6. ASSUME NEW key \in Keys,
             FireReminder(key) \/ (key = "status" /\ StatusReminder) \/ (key = "retro" /\ RetroReminder)
      PROVE  \A v \in Workers : pc'[v] \in PlainLabels
  <2>1. key \in Actors /\ key \notin Workers
    BY WorkersAssumption DEF Actors
  <2>2. \E label : Moves(key, label)
    BY <1>6, <2>1 DEF FireReminder, StatusReminder, StatusReminderRead, StatusReminderPost,
       StatusReminderWrite, RetroReminder, RetroReminderRead, RetroReminderPost,
       ReturnFromCallback, Moves, TypeOK, LocalsOK
  <2> QED BY <2>1, <2>2
<1>7. CASE RearmRetroReminder \/ UNCHANGED vars
  BY <1>1, <1>7 DEF RearmRetroReminder, vars, local, PlainWork
<1> QED BY <1>1, <1>2, <1>4, <1>5, <1>6, <1>7 DEF PlainNext, PlainWork, Keys

-----------------------------------------------------------------------------
(* A report or a snooze leaves a reminder behind. *)

(* What is known of the reminder's columns while a is at a step. *)
ReportAt(a) ==
    /\ pc[a] \in Holding => /\ copy[a].reminderTimer = row.reminderTimer
                            /\ copy[a].lastStatusUpdateAt = row.lastStatusUpdateAt
    /\ pc[a] = "reminder_unpost" => row.reminderPostID # 0
    /\ pc[a] = "reminder_arm" => row.reminderTimer = WantsReminder(a)
    /\ pc[a] = "finish_notify" => Finished

(* An active run that shows a countdown, and was reported on or snoozed. *)
Counting == InProgress /\ row.reminderTimer /\ row.lastStatusUpdateAt > 0

Reminded == jobs["status"] = "armed" \/ row.reminderPostID # 0

(* Its reminder is scheduled or posted, or somebody is about to. *)
Arranged ==
    \/ Reminded
    \/ pc["status"] # "idle"
    \/ \E w \in Workers : pc[w] \in {"reminder_write", "reminder_arm"}

ReportInv ==
    plain => /\ \A a \in Actors : ReportAt(a)
             /\ jobs["status"] = "firing" => pc["status"] # "idle"
             /\ Counting => Arranged

(* What writing a copy back does to the reminder's columns. *)
LEMMA ReportEffect ==
    ASSUME NEW stored \in PlaybookRun, NEW held \in PlaybookRun
    PROVE  /\ UpdatePlaybookRun(stored, held).reminderTimer = held.reminderTimer
           /\ UpdatePlaybookRun(stored, held).lastStatusUpdateAt = held.lastStatusUpdateAt
           /\ \A mark \in BOOLEAN :
                  /\ WithMarker(stored, held, mark).reminderTimer = held.reminderTimer
                  /\ WithMarker(stored, held, mark).lastStatusUpdateAt = held.lastStatusUpdateAt
BY DEF PlaybookRun, UpdatePlaybookRun, WithMarker

(* Setting or clearing the marker of a copy and writing that. *)
LEMMA MarkerReports ==
    ASSUME TypeOK, NEW w \in Workers
    PROVE  \A mark \in {TRUE, FALSE} :
               /\ WithMarker(row, copy[w], mark).currentStatus = row.currentStatus
               /\ WithMarker(row, copy[w], mark).reminderPostID = copy[w].reminderPostID
               /\ WithMarker(row, copy[w], mark).reminderTimer = copy[w].reminderTimer
               /\ WithMarker(row, copy[w], mark).lastStatusUpdateAt
                      = copy[w].lastStatusUpdateAt
<1>1. copy[w] \in PlaybookRun /\ row \in PlaybookRun
  BY HandlerFacts
<1>2. \A mark \in BOOLEAN :
          /\ WithMarker(row, copy[w], mark).reminderTimer = copy[w].reminderTimer
          /\ WithMarker(row, copy[w], mark).lastStatusUpdateAt = copy[w].lastStatusUpdateAt
  BY <1>1, ReportEffect
<1>3. \A mark \in BOOLEAN :
          /\ WithMarker(row, copy[w], mark).currentStatus = row.currentStatus
          /\ WithMarker(row, copy[w], mark).reminderPostID = copy[w].reminderPostID
  BY <1>1, MarkerEffect
<1> QED BY <1>2, <1>3

LEMMA ReportColumns ==
    ASSUME NEW held \in PlaybookRun, NEW id \in Nat
    PROVE  /\ [held EXCEPT !.reminderPostID = id].reminderTimer = held.reminderTimer
           /\ [held EXCEPT !.reminderPostID = id].lastStatusUpdateAt = held.lastStatusUpdateAt
           /\ [held EXCEPT !.autoArchivedChannel = TRUE].reminderTimer = held.reminderTimer
           /\ [held EXCEPT !.autoArchivedChannel = TRUE].lastStatusUpdateAt
                  = held.lastStatusUpdateAt
           /\ FinishPlaybookRun(held).currentStatus = StatusFinished
           /\ FinishPlaybookRun(held).reminderPostID = held.reminderPostID
           /\ FinishPlaybookRun(held).reminderTimer = held.reminderTimer
           /\ FinishPlaybookRun(held).lastStatusUpdateAt = held.lastStatusUpdateAt
BY DEF PlaybookRun, FinishPlaybookRun

(* When one actor moves, what holds of it is all there is to check. *)
LEMMA ReportFocus ==
    ASSUME TypeOK, OneAtATime, plain, ReportInv, NEW a \in Actors, pc[a] # "idle",
           NEW label, Moves(a, label), ReportAt(a)',
           jobs'["status"] = "firing" =>
               IF a = "status" THEN label # "idle" ELSE jobs["status"] = "firing",
           Counting' => Arranged'
    PROVE  ReportInv'
<1>1. /\ \A b \in Actors \ {a} : pc[b] = "idle" /\ pc'[b] = "idle"
      /\ pc'[a] = label /\ "status" \in Actors
  BY OthersIdle DEF Moves, Actors, Keys
<1>2. \A b \in Actors : ReportAt(b)'
  BY <1>1 DEF ReportAt, Holding, Finishing
<1> QED BY <1>1, <1>2 DEF ReportInv

(* A step of another that leaves the reminder as it is. *)
LEMMA ReportQuiet ==
    ASSUME TypeOK, OneAtATime, plain, ReportInv, NEW a \in Actors, a # "status",
           pc[a] \notin {"idle", "reminder_write", "reminder_arm"},
           NEW label, Moves(a, label),
           label \notin {"reminder_unpost", "reminder_arm", "finish_notify"},
           jobs'["status"] = jobs["status"],
           row'.reminderTimer = row.reminderTimer,
           row'.lastStatusUpdateAt = row.lastStatusUpdateAt,
           row'.reminderPostID = row.reminderPostID,
           row'.currentStatus = row.currentStatus,
           label \in Holding => /\ copy'[a].reminderTimer = row.reminderTimer
                                /\ copy'[a].lastStatusUpdateAt = row.lastStatusUpdateAt
    PROVE  ReportInv'
<1>1. \A b \in Actors \ {a} : pc[b] = "idle"
  BY OthersIdle
<1>2. Counting => Reminded
  BY <1>1 DEF ReportInv, Arranged, Actors, Keys
<1>3. Counting' => Arranged'
  BY <1>2 DEF Counting, InProgress, Reminded, Arranged
<1>4. ReportAt(a)'
  BY DEF ReportAt, Moves
<1> QED BY <1>3, <1>4, ReportFocus

LEMMA ReportFail ==
    ASSUME TypeOK, OneAtATime, plain, ReportInv, NEW w \in Workers, NEW label, NEW call,
           FailsAt(w, label, call), label \notin {"idle", "reminder_write", "reminder_arm"}
    PROVE  ReportInv'
BY HandlerFacts, ReportQuiet, Moving, WorkersAssumption DEF FailsAt, Holding, Finishing, Keys

LEMMA FinishReports ==
    ASSUME TypeOK, PromptInv, plain, ReportInv, NEW w \in Workers, Finish(w)
    PROVE  ReportInv'
<1>0. w \in Actors /\ w # "status" /\ PromptAt(w) /\ ReportAt(w) /\ OneAtATime
  BY HandlerFacts, WorkersAssumption DEF PromptInv, ReportInv, Keys
<1> USE HandlerFacts, Moving, ReportQuiet, ReportFail DEF ReportAt, Holding, Finishing
<1>1. CASE FinishRead(w)
  BY <1>0, <1>1 DEF FinishRead, At
<1>2. CASE FinishStore(w)
  <2>1. CASE FailsAt(w, "finish_store", "db")
    BY <1>0, <2>1
  <2>2. CASE /\ pc[w] = "finish_store" /\ row' = FinishPlaybookRun(row)
             /\ Goto(w, "finish_notify") /\ jobs' = jobs
    <3>1. /\ row'.currentStatus = StatusFinished
          /\ row'.reminderTimer = row.reminderTimer
          /\ row'.lastStatusUpdateAt = row.lastStatusUpdateAt
      BY <2>2, ReportColumns
    <3>2. Finished' /\ ~Counting'
      BY <3>1 DEF Finished, Counting, InProgress, StatusFinished, StatusInProgress
    <3>3. Moves(w, "finish_notify") /\ ReportAt(w)'
      BY <1>0, <2>2, <3>1, <3>2 DEF Moves
    <3> QED BY <1>0, <2>2, <3>2, <3>3, ReportFocus
  <2> QED BY <1>2, <2>1, <2>2 DEF FinishStore
<1>3. CASE FinishNotify(w)
  <2>1. CASE FailsAt(w, "finish_notify", "user")
    BY <1>0, <2>1
  <2>2. CASE /\ pc[w] = "finish_notify" /\ row' = row /\ Goto(w, "finish_retro")
             /\ jobs' = Cancel(jobs, "status")
    <3>1. Finished /\ ~Counting'
      BY <1>0, <2>2
         DEF Finished, Counting, InProgress, StatusFinished, StatusInProgress
    <3>2. Moves(w, "finish_retro") /\ ReportAt(w)' /\ jobs'["status"] = "none"
      BY <1>0, <2>2 DEF Moves
    <3> QED BY <1>0, <2>2, <3>1, <3>2, ReportFocus
  <2> QED BY <1>3, <2>1, <2>2 DEF FinishNotify
<1>4. CASE FinishRetro(w)
  <2>1. jobs'["status"] = jobs["status"]
    BY <1>4 DEF FinishRetro, FailsAt
  <2> QED BY <1>0, <1>4, <2>1 DEF FinishRetro
<1>5. CASE FinishArm(w)
  <2>1. jobs'["status"] = jobs["status"]
    BY <1>5 DEF FinishArm
  <2> QED BY <1>0, <1>5, <2>1 DEF FinishArm
<1>6. CASE FinishEvent(w) \/ FinishArchive(w)
  BY <1>0, <1>6 DEF FinishEvent, FinishArchive
<1>7. CASE FinishFlag(w) \/ FinishUnflag(w)
  <2> DEFINE flagged == [copy[w] EXCEPT !.autoArchivedChannel = TRUE]
  <2>1. /\ flagged.reminderTimer = copy[w].reminderTimer
        /\ flagged.lastStatusUpdateAt = copy[w].lastStatusUpdateAt
    BY ReportColumns
  <2>2. \A mark \in {TRUE, FALSE} :
            /\ WithMarker(row, copy[w], mark).currentStatus = row.currentStatus
            /\ WithMarker(row, copy[w], mark).reminderPostID = copy[w].reminderPostID
            /\ WithMarker(row, copy[w], mark).reminderTimer = copy[w].reminderTimer
            /\ WithMarker(row, copy[w], mark).lastStatusUpdateAt = copy[w].lastStatusUpdateAt
    BY MarkerReports
  <2>3. \/ FailsAt(w, "finish_flag", "db") \/ FailsAt(w, "finish_unflag", "db")
        \/ /\ pc[w] \in {"finish_flag", "finish_unflag"} /\ jobs' = jobs
           /\ \E mark \in {TRUE, FALSE} : row' = WithMarker(row, copy[w], mark)
           /\ HoldAndGoto(w, flagged, "finish_archive") \/ Return(w)
    BY <1>7 DEF FinishFlag, FinishUnflag, WithMarker
  <2> HIDE DEF flagged
  <2>4. CASE FailsAt(w, "finish_flag", "db") \/ FailsAt(w, "finish_unflag", "db")
    BY <1>0, <2>4
  <2>5. CASE /\ pc[w] \in {"finish_flag", "finish_unflag"} /\ jobs' = jobs
             /\ \E mark \in {TRUE, FALSE} : row' = WithMarker(row, copy[w], mark)
             /\ HoldAndGoto(w, flagged, "finish_archive") \/ Return(w)
    <3>1. /\ row'.reminderTimer = row.reminderTimer
          /\ row'.lastStatusUpdateAt = row.lastStatusUpdateAt
          /\ row'.reminderPostID = row.reminderPostID
          /\ row'.currentStatus = row.currentStatus
      BY <1>0, <2>2, <2>5 DEF PromptAt, Rewriting
    <3>2. CASE HoldAndGoto(w, flagged, "finish_archive")
      <4>1. Moves(w, "finish_archive") /\ copy'[w] = flagged
        BY <1>0, <3>2
      <4> QED BY <1>0, <2>1, <2>5, <3>1, <4>1
    <3>3. CASE Return(w)
      BY <1>0, <2>5, <3>1, <3>3
    <3> QED BY <2>5, <3>2, <3>3
  <2> QED BY <2>3, <2>4, <2>5
<1> QED BY <1>1, <1>2, <1>3, <1>4, <1>5, <1>6, <1>7 DEF Finish

(* SetNewReminder: between the cancelled job and the new one it is itself  *)
(* the reminder's keeper.                                                  *)
LEMMA StatusUpdateReports ==
    ASSUME "db" \notin Fallible, TypeOK, PromptInv, plain, ReportInv,
           NEW w \in Workers, StatusUpdate(w)
    PROVE  ReportInv'
<1>0. w \in Actors /\ w # "status" /\ PromptAt(w) /\ ReportAt(w) /\ OneAtATime
  BY HandlerFacts, WorkersAssumption DEF PromptInv, ReportInv, Keys
<1> USE HandlerFacts, Moving
<1>1. CASE UpdateStatus(w)
  BY <1>0, <1>1, ReportQuiet, ReportFail DEF UpdateStatus, At, Holding, Finishing
<1>2. CASE SetNewReminderRead(w)
  BY <1>0, <1>2, ReportQuiet DEF SetNewReminderRead
<1>3. CASE SetNewReminderCancel(w)
  <2> DEFINE label == IF copy[w].reminderPostID = 0 THEN "reminder_write"
                                                    ELSE "reminder_unpost"
  <2>1. /\ pc[w] = "reminder_cancel" /\ Moves(w, label) /\ copy' = copy /\ row' = row
        /\ jobs'["status"] = "none" /\ copy[w].reminderPostID = row.reminderPostID
    BY <1>0, <1>3 DEF SetNewReminderCancel, PromptAt, Holding, Rewriting
  <2>2. ReportAt(w)'
    BY <1>0, <2>1 DEF ReportAt, Moves, Holding
  <2>3. Arranged'
    BY <2>1 DEF Arranged, Reminded, Moves
  <2> HIDE DEF label
  <2> QED BY <1>0, <2>1, <2>2, <2>3, ReportFocus
<1>4. CASE SetNewReminderUnpost(w)
  <2> DEFINE held == [copy[w] EXCEPT !.reminderPostID = 0]
  <2>1. CASE FailsAt(w, "reminder_unpost", "removePost")
    BY <1>0, <2>1, ReportFail
  <2>2. CASE /\ pc[w] = "reminder_unpost" /\ row' = row /\ jobs' = jobs
             /\ HoldAndGoto(w, held, "reminder_write")
    <3>1. /\ held.reminderTimer = copy[w].reminderTimer
          /\ held.lastStatusUpdateAt = copy[w].lastStatusUpdateAt
      BY ReportColumns
    <3> HIDE DEF held
    <3>2. Moves(w, "reminder_write") /\ copy'[w] = held
      BY <1>0, <2>2
    <3>3. ReportAt(w)' /\ Arranged'
      BY <1>0, <2>2, <3>1, <3>2 DEF ReportAt, Moves, Holding, Arranged
    <3> QED BY <1>0, <2>2, <3>2, <3>3, ReportFocus
  <2> QED BY <1>4, <2>1, <2>2 DEF SetNewReminderUnpost
<1>5. CASE SetNewReminderWrite(w)
  <2> DEFINE reset == [copy[w] EXCEPT !.reminderTimer      = WantsReminder(w),
                                      !.lastStatusUpdateAt = clock + 1]
  <2>1. reset \in PlaybookRun /\ reset.reminderTimer = WantsReminder(w)
    <3>1. WantsReminder(w) \in BOOLEAN /\ clock + 1 \in Nat /\ copy[w] \in PlaybookRun
      BY DEF WantsReminder, TypeOK
    <3>2. reset \in PlaybookRun
      BY <3>1, FieldTyping, Zenon
    <3>3. reset.reminderTimer = WantsReminder(w)
      BY <3>1 DEF PlaybookRun
    <3> QED BY <3>2, <3>3
  <2>2. /\ pc[w] = "reminder_write" /\ row' = UpdatePlaybookRun(row, reset)
        /\ Goto(w, "reminder_arm") /\ jobs' = jobs
    BY <1>5 DEF SetNewReminderWrite, FailsAt
  <2> HIDE DEF reset
  <2>3. row'.reminderTimer = WantsReminder(w) /\ Moves(w, "reminder_arm") /\ op' = op
    BY <1>0, <2>1, <2>2, ReportEffect
  <2>4. ReportAt(w)' /\ Arranged'
    BY <2>3 DEF ReportAt, Moves, Arranged, Holding, Finishing, WantsReminder
  <2> QED BY <1>0, <2>2, <2>3, <2>4, ReportFocus
<1>6. CASE SetNewReminderArm(w)
  <2>0. /\ pc[w] = "reminder_arm" /\ row' = row /\ row.reminderTimer = WantsReminder(w)
        /\ jobs \in [Keys -> JobStates]
    BY <1>0, <1>6 DEF SetNewReminderArm, ReportAt, TypeOK
  <2>1. jobs["status"] # "firing"
    BY <1>0, <2>0, OthersIdle DEF ReportInv, OneAtATime, Actors, Keys
  <2>2. Moves(w, "idle") \/ Moves(w, "handle")
    BY <1>0, <1>6 DEF SetNewReminderArm, Moves, TypeOK, LocalsOK
  <2>3. ReportAt(w)'
    BY <2>2 DEF ReportAt, Moves, Holding, Finishing
  <2>4. CASE WantsReminder(w)
    <3>1. jobs'["status"] = "armed"
      BY <1>6, <2>0, <2>1, <2>4 DEF SetNewReminderArm, CanSchedule, JobStates
    <3> QED BY <1>0, <2>0, <2>2, <2>3, <3>1, ReportFocus DEF Arranged, Reminded
  <2>5. CASE ~WantsReminder(w)
    <3>1. ~Counting' /\ jobs' = jobs
      BY <1>6, <2>0, <2>5 DEF SetNewReminderArm, Counting
    <3> QED BY <1>0, <2>0, <2>1, <2>2, <2>3, <3>1, ReportFocus
  <2> QED BY <2>4, <2>5
<1> QED BY <1>1, <1>2, <1>3, <1>4, <1>5, <1>6 DEF StatusUpdate

LEMMA EditReports ==
    ASSUME TypeOK, PromptInv, plain, ReportInv, NEW w \in Workers,
           CheckEditPermissions(w) \/ EditRun(w)
    PROVE  ReportInv'
<1>0. w \in Actors /\ w # "status" /\ PromptAt(w) /\ ReportAt(w) /\ OneAtATime
  BY HandlerFacts, WorkersAssumption DEF PromptInv, ReportInv, Keys
<1> USE HandlerFacts, Moving, ReportQuiet, ReportFail
<1>1. CASE CheckEditPermissions(w)
  BY <1>0, <1>1 DEF CheckEditPermissions, Holding, Finishing
<1>2. CASE EditRun(w)
  <2>1. CASE pc[w] = "handle" /\ LoadAndGoto(w, "edit_write") /\ row' = row /\ jobs' = jobs
    BY <1>0, <2>1
  <2>2. CASE pc[w] = "edit_write" /\ row' = UpdatePlaybookRun(row, copy[w]) /\ Return(w) /\ jobs' = jobs
    <3>1. /\ row'.reminderTimer = row.reminderTimer
          /\ row'.lastStatusUpdateAt = row.lastStatusUpdateAt
          /\ row'.reminderPostID = row.reminderPostID
          /\ row'.currentStatus = row.currentStatus
      BY <1>0, <2>2, UpdateEffect, ReportEffect DEF PromptAt, ReportAt, Holding, Rewriting
    <3> QED BY <1>0, <2>2, <3>1 DEF Holding, Finishing
  <2>3. CASE FailsAt(w, "edit_write", "db")
    BY <1>0, <2>3
  <2> QED BY <1>2, <2>1, <2>2, <2>3 DEF EditRun, At
<1> QED BY <1>1, <1>2

(* The callback posts what was scheduled. *)
LEMMA CallbackReports ==
    ASSUME Fallible \cap {"user", "post", "db"} = {}, TypeOK, PromptInv, plain, ReportInv,
           StatusReminder \/ RetroReminder
    PROVE  ReportInv'
<1>0. /\ "status" \in Actors /\ "status" \in Keys /\ "retro" \in Actors /\ "retro" \in Keys
      /\ copy["status"] \in PlaybookRun /\ row \in PlaybookRun
      /\ jobs \in [Keys -> JobStates] /\ lastPrompt + 1 \in Nat
      /\ PromptAt("status") /\ ReportAt("status") /\ OneAtATime
  BY StatusTyping DEF Actors, Keys, TypeOK, PromptInv, ReportInv
<1>1. /\ CallbackReturned(jobs, "status")["status"] # "firing"
      /\ CallbackReturned(jobs, "retro")["status"] = jobs["status"]
      /\ Cancel(jobs, "retro")["status"] = jobs["status"]
  BY <1>0, JobEffect
<1> USE Moving DEF ReturnFromCallback
<1>2. CASE StatusReminderRead
  <2>1. /\ Moves("status", "prompt_post") /\ copy'["status"] = row
        /\ row' = row /\ jobs' = jobs /\ pc["status"] = "handle"
    BY <1>0, <1>2 DEF StatusReminderRead
  <2>2. ReportAt("status")' /\ Arranged'
    BY <2>1 DEF ReportAt, Moves, Arranged
  <2> QED BY <1>0, <2>1, <2>2, ReportFocus
<1>3. CASE StatusReminderPost
  <2> DEFINE held == [copy["status"] EXCEPT !.reminderPostID = lastPrompt + 1]
  <2>1. /\ held.reminderTimer = copy["status"].reminderTimer
        /\ held.lastStatusUpdateAt = copy["status"].lastStatusUpdateAt
    BY <1>0, ReportColumns
  <2>2. /\ HoldAndGoto("status", held, "prompt_write")
        /\ row' = row /\ jobs' = jobs /\ pc["status"] = "prompt_post"
    BY <1>3 DEF StatusReminderPost
  <2> HIDE DEF held
  <2>3. Moves("status", "prompt_write") /\ copy'["status"] = held
    BY <1>0, <2>2
  <2>4. ReportAt("status")' /\ Arranged'
    BY <1>0, <2>1, <2>2, <2>3 DEF ReportAt, Moves, Arranged, Holding
  <2> QED BY <1>0, <2>2, <2>3, <2>4, ReportFocus
<1>4. CASE StatusReminderWrite
  <2>1. /\ pc["status"] = "prompt_write" /\ Moves("status", "idle")
        /\ row' = UpdatePlaybookRun(row, copy["status"]) /\ jobs'["status"] # "firing"
    BY <1>0, <1>1, <1>4 DEF StatusReminderWrite
  <2>2. row'.reminderPostID # 0
    BY <1>0, <2>1, UpdateEffect DEF PromptAt
  <2>3. ReportAt("status")' /\ Arranged'
    BY <2>1, <2>2 DEF ReportAt, Moves, Arranged, Reminded, Holding, Finishing
  <2> QED BY <1>0, <2>1, <2>3, ReportFocus
<1>5. CASE RetroReminder
  <2>1. /\ pc["retro"] \in {"handle", "retro_post"}
        /\ row' = row /\ jobs'["status"] = jobs["status"]
        /\ Moves("retro", "idle") \/ Moves("retro", "retro_post")
    BY <1>0, <1>1, <1>5 DEF RetroReminder, RetroReminderRead, RetroReminderPost
  <2> QED BY <1>0, <2>1, ReportQuiet DEF Holding, Finishing
<1> QED BY <1>2, <1>3, <1>4, <1>5 DEF StatusReminder

LEMMA NextReports ==
    ASSUME OneByOne, Fallible \cap {"user", "post", "db"} = {}, TypeOK, PromptInv,
           PlainWork, ReportInv, [MCNext]_<<vars, plain>>
    PROVE  ReportInv'
<1> SUFFICES ASSUME plain'
             PROVE  ReportInv'
  BY DEF ReportInv
<1>0. plain /\ PlainNext /\ OneAtATime /\ "status" \in Keys /\ "status" \in Actors
  BY PlainOnly DEF PromptInv, Keys, Actors
<1>1. ASSUME NEW w \in Workers,
             CheckEditPermissions(w) \/ Finish(w) \/ StatusUpdate(w) \/ EditRun(w)
      PROVE  ReportInv'
  BY <1>0, <1>1, FinishReports, StatusUpdateReports, EditReports
<1>2. ASSUME NEW a \in Actors, NEW label \in {"check", "handle"}, NoneRunning,
             Moves(a, label), row' = row,
             IF a = "status" THEN jobs'["status"] = "firing"
                             ELSE jobs'["status"] = jobs["status"]
      PROVE  ReportInv'
  <2>1. pc'[a] = label /\ \A b \in Actors \ {a} : pc'[b] = "idle"
    BY <1>2, OneStarts DEF Moves
  <2>2. \A b \in Actors : ReportAt(b)'
    BY <1>2, <2>1 DEF ReportAt, Holding, Finishing
  <2>3. Counting => Reminded
    BY <1>0, <1>2 DEF ReportInv, Arranged, NoneRunning, Actors
  <2>4. Counting' => Arranged'
    BY <1>2, <2>1, <2>3 DEF Counting, InProgress, Reminded, Arranged
  <2>5. jobs["status"] # "firing"
    BY <1>0, <1>2 DEF ReportInv, NoneRunning
  <2> QED BY <1>2, <2>1, <2>2, <2>4, <2>5 DEF ReportInv
<1>3. ASSUME NEW w \in Workers, NEW kind \in RequestKinds, Receive(w, kind)
      PROVE  ReportInv'
  BY <1>2, <1>3, WorkersAssumption
     DEF Receive, MayStart, OneByOne, Actors, Keys, Moves, TypeOK, LocalsOK
<1>4. ASSUME NEW key \in Keys, FireReminder(key)
      PROVE  ReportInv'
  <2>1. /\ key \in Actors /\ jobs \in [Keys -> JobStates]
        /\ NoneRunning /\ Moves(key, "handle") /\ row' = row /\ jobs' = Fire(jobs, key)
    BY <1>4 DEF FireReminder, MayStart, OneByOne, Actors, Moves, TypeOK, LocalsOK
  <2>2. jobs'[key] = "firing" /\ (key # "status" => jobs'["status"] = jobs["status"])
    BY <1>0, <2>1, JobEffect
  <2> QED BY <1>2, <2>1, <2>2
<1>5. CASE StatusReminder \/ RetroReminder
  BY <1>0, <1>5, CallbackReports
<1>6. CASE RearmRetroReminder \/ UNCHANGED vars
  <2>1. UNCHANGED <<row, pc, op, copy>> /\ jobs'["status"] = jobs["status"]
    BY <1>6, JobEffect DEF RearmRetroReminder, vars, local, TypeOK, Keys
  <2>2. Arranged' = Arranged /\ Counting' = Counting /\ \A a \in Actors : ReportAt(a)' = ReportAt(a)
    BY <2>1 DEF Arranged, Reminded, Counting, InProgress, ReportAt, Finished, WantsReminder
  <2> QED BY <1>0, <2>1, <2>2 DEF ReportInv
<1> QED BY <1>0, <1>1, <1>3, <1>4, <1>5, <1>6 DEF PlainNext

LEMMA InitReports == MCInit => PlainWork /\ ReportInv
<1> SUFFICES ASSUME MCInit
             PROVE  PlainWork /\ ReportInv
  OBVIOUS
<1>1. /\ pc = [a \in Actors |-> "idle"] /\ op = [a \in Actors |-> "none"]
      /\ jobs["status"] = "none" /\ row.lastStatusUpdateAt = 0
  BY DEF MCInit, Init, Keys, NewPlaybookRun
<1>2. PlainWork
  BY <1>1 DEF PlainWork, Plain, PlainLabels, Actors
<1>3. \A a \in Actors : ReportAt(a)
  BY <1>1 DEF ReportAt, Holding, Finishing
<1>4. ~Counting
  BY <1>1 DEF Counting
<1> QED BY <1>1, <1>2, <1>3, <1>4 DEF ReportInv

(* MCRunLifecycle only adds the history variable. *)
LEMMA HistoryOnly == MCSpec => Spec
<1>1. [MCNext]_<<vars, plain>> => [Next]_vars
  BY DEF MCNext
<1>2. MCInit => Init
  BY DEF MCInit
<1> QED BY <1>1, <1>2, PTL DEF MCSpec, Spec

(* When requests do not overlap, the process does not die and the calls to *)
(* the store, the users and the posts succeed, an active run that shows a  *)
(* countdown after a report or a snooze has its reminder scheduled or      *)
(* posted once nothing runs, after any finishes, reports, snoozes and      *)
(* edits, and though the old post may resist being taken away.             *)
THEOREM ReportsRemind ==
    ASSUME OneByOne, Fallible \cap {"user", "post", "db"} = {}
    PROVE  MCSpec => []ReportSchedulesNext
<1>1. TypeOK /\ PromptInv /\ [Next]_vars => PromptInv'
  BY NextPrompts
<1>2. Spec => []PromptInv
  BY <1>1, InitPrompts, TypeCorrect, PTL DEF Spec
<1>3. TypeOK /\ PromptInv /\ PlainWork /\ ReportInv /\ [MCNext]_<<vars, plain>>
          => PlainWork' /\ ReportInv'
  BY NextReports, PlainWorkKept
<1>4. PromptInv /\ ReportInv => ReportSchedulesNext
  <2> SUFFICES ASSUME PromptInv, ReportInv, plain, Quiescent, InProgress, row.reminderTimer,
                      row.lastStatusUpdateAt > 0
               PROVE  jobs["status"] = "armed" \/ row.reminderPostID \in livePrompts
    BY DEF ReportSchedulesNext, PromptIsPending
  <2>1. (\A a \in Actors : pc[a] = "idle") /\ "status" \in Actors
    BY DEF Quiescent, NoneRunning, Actors, Keys
  <2>2. Reminded
    BY <2>1 DEF ReportInv, Counting, Arranged, Actors
  <2>3. RecordedPrompt
    BY <2>1 DEF PromptInv, Rewriting
  <2> QED BY <2>2, <2>3 DEF Reminded, RecordedPrompt
<1> QED BY <1>2, <1>3, <1>4, InitReports, HistoryOnly, TypeCorrect, PTL DEF MCSpec

-----------------------------------------------------------------------------
(* A first finish archives the channel. *)

(* The steps of a finish before it has armed the retrospective's reminder, *)
(* and those after, until the channel is archived.                         *)
EarlyFinish == {"finish_store", "finish_notify", "finish_retro", "finish_arm"}
LateFinish == {"finish_event", "finish_flag", "finish_archive"}

(* The retrospective's key is free: nobody was ever reminded of it. *)
RetroUntouched == jobs["retro"] = "none" /\ sleepers = 0 /\ pc["retro"] = "idle"

FinishingAt(labels) == \E w \in Workers : pc[w] \in labels

(* Until its first finish has come to an end a run has its channel, and    *)
(* nothing is in the way of the reminder the finish schedules.             *)
FirstFinishInv ==
    plain => /\ InProgress \/ FinishingAt(EarlyFinish) => RetroUntouched
             /\ InProgress \/ FinishingAt(EarlyFinish \cup LateFinish) => channel = "active"
             /\ Finished /\ AutoArchive =>
                    channel = "plugin" \/ FinishingAt(EarlyFinish \cup LateFinish)
             /\ \A w \in Workers : /\ pc[w] # "finish_unflag"
                                   /\ pc[w] \in Finishing \ {"finish_store"} => Finished

(* When one actor moves, what holds of it is all there is to check. *)
LEMMA FirstFinishFocus ==
    ASSUME TypeOK, OneAtATime, NEW a \in Actors, pc[a] # "idle", NEW label, Moves(a, label),
           a \in Workers => label # "finish_unflag",
           a \in Workers /\ label \in Finishing \ {"finish_store"} => Finished',
           InProgress' \/ (a \in Workers /\ label \in EarlyFinish) => RetroUntouched',
           InProgress' \/ (a \in Workers /\ label \in EarlyFinish \cup LateFinish)
               => channel' = "active",
           Finished' /\ AutoArchive =>
               channel' = "plugin" \/ (a \in Workers /\ label \in EarlyFinish \cup LateFinish)
    PROVE  FirstFinishInv'
<1>1. pc'[a] = label /\ \A b \in Actors \ {a} : pc'[b] = "idle"
  BY OthersIdle DEF Moves
<1>2. \A labels \in {EarlyFinish, EarlyFinish \cup LateFinish} :
          FinishingAt(labels)' => a \in Workers /\ label \in labels
  BY <1>1 DEF FinishingAt, EarlyFinish, LateFinish, Actors
<1>3. a \in Workers /\ label \in EarlyFinish \cup LateFinish
          => FinishingAt(EarlyFinish \cup LateFinish)'
  BY <1>1 DEF FinishingAt
<1>4. \A w \in Workers : /\ pc'[w] # "finish_unflag"
                         /\ pc'[w] \in Finishing \ {"finish_store"} => Finished'
  BY <1>1 DEF Finishing, Actors
<1> QED BY <1>2, <1>3, <1>4 DEF FirstFinishInv

(* A step that has nothing to do with a finish. *)
LEMMA FirstFinishQuiet ==
    ASSUME TypeOK, OneAtATime, plain, FirstFinishInv, NEW a \in Actors, a # "retro",
           pc[a] \notin {"idle"} \cup Finishing,
           NEW label, Moves(a, label), label \notin Finishing,
           row'.currentStatus = row.currentStatus, jobs'["retro"] = jobs["retro"],
           UNCHANGED <<channel, sleepers>>
    PROVE  FirstFinishInv'
<1>1. \A b \in Actors \ {a} : pc[b] = "idle" /\ pc'[b] = "idle"
  BY OthersIdle
<1>2. ~FinishingAt(EarlyFinish \cup LateFinish)
  BY <1>1 DEF FinishingAt, EarlyFinish, LateFinish, Finishing, Actors
<1>3. /\ InProgress' => RetroUntouched' /\ channel' = "active"
      /\ Finished' /\ AutoArchive => channel' = "plugin"
  BY <1>1, <1>2 DEF FirstFinishInv, InProgress, Finished, RetroUntouched, Actors, Keys
<1> QED BY <1>3, FirstFinishFocus DEF Finishing, EarlyFinish, LateFinish

(* What a worker that finishes the run finds. *)
LEMMA FinishFinds ==
    ASSUME TypeOK, OneAtATime, plain, FirstFinishInv, NEW w \in Workers, pc[w] \in Finishing
    PROVE  /\ pc[w] \in EarlyFinish \cup LateFinish /\ channel = "active"
           /\ pc[w] \in EarlyFinish => RetroUntouched
           /\ pc[w] # "finish_store" => Finished
BY DEF FirstFinishInv, FinishingAt, Finishing, EarlyFinish, LateFinish

LEMMA FinishFirst ==
    ASSUME Fallible \cap {"user", "post", "db", "archive"} = {}, TypeOK, OneAtATime, plain,
           FirstFinishInv, NEW w \in Workers, Finish(w)
    PROVE  FirstFinishInv'
<1>0. /\ w \in Actors /\ w # "retro" /\ jobs \in [Keys -> JobStates]
      /\ "retro" \in Keys /\ "status" \in Keys /\ "retro" \in Actors
  BY HandlerFacts, WorkersAssumption DEF Keys, TypeOK, Actors
<1>a. /\ Cancel(jobs, "status")["retro"] = jobs["retro"]
      /\ Cancel(jobs, "retro")["retro"] = "none"
  BY <1>0, JobEffect
<1>b. Finished => ~InProgress
  BY DEF Finished, InProgress, StatusFinished, StatusInProgress
<1>c. pc[w] # "idle" => (pc'["retro"] = pc["retro"] \/ \A label : ~Moves(w, label))
  BY <1>0 DEF Moves, TypeOK, LocalsOK
<1>1. CASE FinishRead(w)
  <2>1. /\ pc[w] = "handle" /\ UNCHANGED <<row, channel, jobs, sleepers>>
    BY <1>1 DEF FinishRead, At
  <2>2. CASE Return(w)
    BY <1>0, <2>1, <2>2, Moving, FirstFinishQuiet DEF Finishing
  <2>3. CASE row.currentStatus # StatusFinished /\ Moves(w, "finish_store")
    <3>1. InProgress /\ ~Finished'
      BY <2>1, <2>3, StatusTyping DEF InProgress, Finished
    <3>2. RetroUntouched' /\ channel' = "active"
      BY <1>c, <2>1, <2>3, <3>1 DEF FirstFinishInv, RetroUntouched
    <3> QED BY <1>0, <2>1, <2>3, <3>1, <3>2, FirstFinishFocus
  <2> QED BY <1>0, <1>1, <2>2, <2>3, Moving DEF FinishRead
<1>2. CASE FinishStore(w)
  <2>1. /\ pc[w] = "finish_store" /\ row' = FinishPlaybookRun(row) /\ Moves(w, "finish_notify")
        /\ UNCHANGED <<channel, jobs, sleepers>>
    BY <1>0, <1>2, Moving DEF FinishStore, FailsAt
  <2>2. Finished' /\ ~InProgress'
    BY <2>1, HandlerFacts, ReportColumns
       DEF Finished, InProgress, StatusFinished, StatusInProgress
  <2>3. RetroUntouched' /\ channel' = "active"
    BY <1>c, <2>1, FinishFinds DEF RetroUntouched, Finishing, EarlyFinish
  <2> QED BY <1>0, <2>1, <2>2, <2>3, FirstFinishFocus DEF EarlyFinish
<1>3. CASE FinishNotify(w)
  <2>1. /\ pc[w] = "finish_notify" /\ row' = row /\ Moves(w, "finish_retro")
        /\ jobs' = Cancel(jobs, "status") /\ UNCHANGED <<channel, sleepers>>
    BY <1>0, <1>3, Moving DEF FinishNotify, FailsAt
  <2>2. Finished' /\ ~InProgress'
    BY <1>b, <2>1, FinishFinds DEF Finished, InProgress, Finishing
  <2>3. RetroUntouched' /\ channel' = "active"
    BY <1>a, <1>c, <2>1, FinishFinds DEF RetroUntouched, Finishing, EarlyFinish
  <2> QED BY <1>0, <2>1, <2>2, <2>3, FirstFinishFocus DEF EarlyFinish
<1>4. CASE FinishRetro(w)
  <2>1. /\ pc[w] = "finish_retro" /\ row' = row
        /\ jobs' = jobs \/ jobs' = Cancel(jobs, "retro")
        /\ Moves(w, "finish_arm") \/ Moves(w, "finish_event")
        /\ UNCHANGED <<channel, sleepers>>
    BY <1>0, <1>4, Moving DEF FinishRetro, FailsAt
  <2>2. Finished' /\ ~InProgress'
    BY <1>b, <2>1, FinishFinds DEF Finished, InProgress, Finishing
  <2>3. RetroUntouched' /\ channel' = "active"
    BY <1>a, <1>c, <2>1, FinishFinds DEF RetroUntouched, Finishing, EarlyFinish
  <2> QED BY <1>0, <2>1, <2>2, <2>3, FirstFinishFocus DEF EarlyFinish, LateFinish
<1>5. CASE FinishArm(w)
  <2>1. pc[w] = "finish_arm" /\ row' = row /\ UNCHANGED <<channel, sleepers>>
    BY <1>5 DEF FinishArm
  <2>2. Finished' /\ ~InProgress' /\ channel' = "active" /\ jobs["retro"] = "none"
    BY <1>b, <2>1, FinishFinds DEF Finished, InProgress, Finishing, EarlyFinish, RetroUntouched
  <2>3. Moves(w, "finish_event")
    BY <1>0, <1>5, <2>2, Moving DEF FinishArm, CanSchedule
  <2> QED BY <1>0, <2>1, <2>2, <2>3, FirstFinishFocus DEF EarlyFinish, LateFinish
<1>6. CASE FinishEvent(w)
  <2>1. /\ pc[w] = "finish_event" /\ row' = row /\ UNCHANGED <<channel, sleepers>>
        /\ IF AutoArchive THEN Moves(w, "finish_flag") ELSE Moves(w, "idle")
    BY <1>0, <1>6, Moving DEF FinishEvent, FailsAt
  <2>2. Finished' /\ ~InProgress' /\ channel' = "active"
    BY <1>b, <2>1, FinishFinds DEF Finished, InProgress, Finishing
  <2> QED BY <1>0, <2>1, <2>2, FirstFinishFocus DEF EarlyFinish, LateFinish, Finishing
<1>7. CASE FinishFlag(w)
  <2>1. /\ pc[w] = "finish_flag" /\ row' = WithMarker(row, copy[w], TRUE)
        /\ Moves(w, "finish_archive") /\ UNCHANGED <<channel, sleepers>>
    BY <1>0, <1>7, Moving DEF FinishFlag, FailsAt, WithMarker
  <2>2. row'.currentStatus = row.currentStatus
    BY <2>1, MarkerReports
  <2>3. Finished' /\ ~InProgress' /\ channel' = "active"
    BY <1>b, <2>1, <2>2, FinishFinds DEF Finished, InProgress, Finishing
  <2> QED BY <1>0, <2>1, <2>3, FirstFinishFocus DEF EarlyFinish, LateFinish
<1>8. CASE FinishArchive(w)
  <2>1. pc[w] = "finish_archive" /\ row' = row
    BY <1>8 DEF FinishArchive
  <2>2. Finished' /\ ~InProgress' /\ channel = "active"
    BY <1>b, <2>1, FinishFinds DEF Finished, InProgress, Finishing
  <2>3. channel' = "plugin" /\ Moves(w, "idle")
    BY <1>0, <1>8, <2>2, Moving DEF FinishArchive
  <2> QED BY <1>0, <2>1, <2>2, <2>3, FirstFinishFocus DEF EarlyFinish, LateFinish, Finishing
<1>9. ~FinishUnflag(w)
  BY DEF FinishUnflag, FailsAt, FirstFinishInv
<1> QED BY <1>1, <1>2, <1>3, <1>4, <1>5, <1>6, <1>7, <1>8, <1>9 DEF Finish

LEMMA OthersFirst ==
    ASSUME "db" \notin Fallible, TypeOK, OneAtATime, plain, FirstFinishInv, NEW w \in Workers,
           CheckEditPermissions(w) \/ StatusUpdate(w) \/ EditRun(w)
    PROVE  FirstFinishInv'
<1>0. /\ w \in Actors /\ w # "retro" /\ jobs \in [Keys -> JobStates]
      /\ "retro" \in Keys /\ "status" \in Keys
  BY HandlerFacts, WorkersAssumption DEF Keys, TypeOK
<1>a. /\ Cancel(jobs, "status")["retro"] = jobs["retro"]
      /\ ScheduleOnce(jobs, "status")["retro"] = jobs["retro"]
  BY <1>0, JobEffect
<1> USE Moving, FirstFinishQuiet DEF Finishing, FailsAt
<1>1. CASE CheckEditPermissions(w)
  BY <1>0, <1>1 DEF CheckEditPermissions
<1>2. CASE EditRun(w)
  BY <1>0, <1>2, HandlerFacts, UpdateEffect DEF EditRun, At
<1>3. CASE UpdateStatus(w) \/ SetNewReminderRead(w)
  BY <1>0, <1>3 DEF UpdateStatus, SetNewReminderRead, At
<1>4. CASE SetNewReminderCancel(w) \/ SetNewReminderUnpost(w)
  BY <1>0, <1>a, <1>4 DEF SetNewReminderCancel, SetNewReminderUnpost
<1>5. CASE SetNewReminderWrite(w)
  <2> DEFINE reset == [copy[w] EXCEPT !.reminderTimer      = WantsReminder(w),
                                      !.lastStatusUpdateAt = clock + 1]
  <2>a. reset \in PlaybookRun
    <3>1. WantsReminder(w) \in BOOLEAN /\ clock + 1 \in Nat /\ copy[w] \in PlaybookRun
      BY HandlerFacts DEF WantsReminder, TypeOK
    <3> QED BY <3>1, FieldTyping, Zenon
  <2>b. row' = UpdatePlaybookRun(row, reset)
    BY <1>5 DEF SetNewReminderWrite
  <2> HIDE DEF reset
  <2>1. row'.currentStatus = row.currentStatus
    BY <2>a, <2>b, HandlerFacts, UpdateEffect
  <2> QED BY <1>0, <1>5, <2>1 DEF SetNewReminderWrite
<1>6. CASE SetNewReminderArm(w)
  <2>1. Moves(w, "idle") \/ Moves(w, "handle")
    BY <1>0, <1>6 DEF SetNewReminderArm, Moves, TypeOK, LocalsOK
  <2> QED BY <1>0, <1>a, <1>6, <2>1 DEF SetNewReminderArm
<1> QED BY <1>1, <1>2, <1>3, <1>4, <1>5, <1>6 DEF StatusUpdate

LEMMA CallbackFirst ==
    ASSUME TypeOK, OneAtATime, plain, FirstFinishInv, StatusReminder \/ RetroReminder
    PROVE  FirstFinishInv'
<1>0. /\ "status" \in Actors /\ "status" \in Keys /\ "retro" \in Actors /\ "retro" \in Keys
      /\ "retro" \notin Workers /\ copy["status"] \in PlaybookRun /\ row \in PlaybookRun
      /\ jobs \in [Keys -> JobStates]
  BY StatusTyping, WorkersAssumption DEF Actors, Keys, TypeOK
<1>a. CallbackReturned(jobs, "status")["retro"] = jobs["retro"]
  BY <1>0, JobEffect
<1> USE Moving DEF ReturnFromCallback
<1>1. CASE StatusReminderRead \/ StatusReminderPost
  BY <1>0, <1>a, <1>1, FirstFinishQuiet DEF StatusReminderRead, StatusReminderPost, Finishing
<1>2. CASE StatusReminderWrite
  BY <1>0, <1>a, <1>2, FirstFinishQuiet, UpdateEffect DEF StatusReminderWrite, Finishing
<1>3. CASE RetroReminder
  <2>1. /\ pc["retro"] \in {"handle", "retro_post"} /\ UNCHANGED <<row, channel>>
        /\ Moves("retro", "idle") \/ Moves("retro", "retro_post")
    BY <1>0, <1>3 DEF RetroReminder, RetroReminderRead, RetroReminderPost
  <2>2. ~RetroUntouched /\ \A w \in Workers : pc[w] = "idle"
    BY <1>0, <2>1 DEF RetroUntouched, OneAtATime, Actors
  <2>3. ~InProgress' /\ (Finished' /\ AutoArchive => channel' = "plugin")
    BY <2>1, <2>2
       DEF FirstFinishInv, FinishingAt, EarlyFinish, LateFinish, InProgress, Finished
  <2> QED BY <1>0, <2>1, <2>3, FirstFinishFocus
<1> QED BY <1>1, <1>2, <1>3 DEF StatusReminder

LEMMA NextFirst ==
    ASSUME OneByOne, Fallible \cap {"user", "post", "db", "archive"} = {}, TypeOK, OneAtATime,
           PlainWork, FirstFinishInv, [MCNext]_<<vars, plain>>
    PROVE  FirstFinishInv'
<1> SUFFICES ASSUME plain'
             PROVE  FirstFinishInv'
  BY DEF FirstFinishInv
<1>0. /\ plain /\ PlainNext /\ "status" \in Keys /\ "retro" \in Keys
      /\ jobs \in [Keys -> JobStates] /\ sleepers \in Nat
  BY PlainOnly DEF Keys, TypeOK
<1>1. ASSUME NEW w \in Workers,
             CheckEditPermissions(w) \/ Finish(w) \/ StatusUpdate(w) \/ EditRun(w)
      PROVE  FirstFinishInv'
  BY <1>0, <1>1, FinishFirst, OthersFirst
<1>2. ASSUME NEW a \in Actors, NEW label \in {"check", "handle"}, NoneRunning,
             Moves(a, label), UNCHANGED <<row, channel, sleepers>>,
             a = "retro" => jobs["retro"] = "armed",
             a # "retro" => jobs'["retro"] = jobs["retro"] /\ pc'["retro"] = pc["retro"]
      PROVE  FirstFinishInv'
  <2>1. pc'[a] = label /\ \A b \in Actors \ {a} : pc'[b] = "idle"
    BY <1>2, OneStarts DEF Moves
  <2>2. \A w \in Workers : pc[w] \notin Finishing /\ pc'[w] \notin Finishing
    BY <1>2, <2>1 DEF NoneRunning, Actors, Finishing
  <2>3. \A labels \in {EarlyFinish, EarlyFinish \cup LateFinish} :
            ~FinishingAt(labels) /\ ~FinishingAt(labels)'
    BY <2>2 DEF FinishingAt, EarlyFinish, LateFinish, Finishing
  <2>4. InProgress' => RetroUntouched' /\ channel' = "active"
    BY <1>0, <1>2 DEF FirstFinishInv, InProgress, RetroUntouched
  <2>5. Finished' /\ AutoArchive => channel' = "plugin"
    BY <1>0, <1>2, <2>3 DEF FirstFinishInv, Finished
  <2>6. \A w \in Workers : pc'[w] # "finish_unflag"
    BY <2>2 DEF Finishing
  <2> QED BY <2>2, <2>3, <2>4, <2>5, <2>6 DEF FirstFinishInv
<1>3. ASSUME NEW w \in Workers, NEW kind \in RequestKinds, Receive(w, kind)
      PROVE  FirstFinishInv'
  <2>1. w \in Actors /\ w # "retro" /\ "retro" \in Actors
    BY WorkersAssumption DEF Actors, Keys
  <2> QED BY <1>2, <1>3, <2>1 DEF Receive, MayStart, OneByOne, Moves, TypeOK, LocalsOK
<1>4. ASSUME NEW key \in Keys, FireReminder(key)
      PROVE  FirstFinishInv'
  <2>1. /\ key \in Actors /\ "retro" \in Actors /\ NoneRunning /\ Moves(key, "handle")
        /\ UNCHANGED <<row, channel, sleepers>>
        /\ jobs[key] = "armed" /\ jobs' = Fire(jobs, key)
        /\ key # "retro" => pc'["retro"] = pc["retro"]
    BY <1>4 DEF FireReminder, MayStart, OneByOne, Actors, Keys, Moves, TypeOK, LocalsOK
  <2>2. key # "retro" => jobs'["retro"] = jobs["retro"]
    BY <1>0, <2>1, JobEffect
  <2> QED BY <1>2, <2>1, <2>2
<1>5. CASE StatusReminder \/ RetroReminder
  BY <1>0, <1>5, CallbackFirst
<1>6. CASE RearmRetroReminder
  <2>1. ~RetroUntouched /\ UNCHANGED <<row, channel, pc>>
    BY <1>6 DEF RearmRetroReminder, RetroUntouched, local
  <2> QED BY <1>0, <2>1 DEF FirstFinishInv, FinishingAt, InProgress, Finished
<1>7. CASE UNCHANGED vars
  BY <1>0, <1>7 DEF FirstFinishInv, FinishingAt, InProgress, Finished, RetroUntouched, vars
<1> QED BY <1>0, <1>1, <1>3, <1>4, <1>5, <1>6, <1>7 DEF PlainNext

LEMMA InitFirst == MCInit => FirstFinishInv
<1> SUFFICES ASSUME MCInit
             PROVE  FirstFinishInv
  OBVIOUS
<1>1. /\ pc = [a \in Actors |-> "idle"] /\ jobs["retro"] = "none" /\ sleepers = 0
      /\ channel = "active" /\ ~Finished /\ "retro" \in Actors
  BY DEF MCInit, Init, Keys, NewPlaybookRun, Finished, StatusInProgress, StatusFinished, Actors
<1>2. \A w \in Workers : pc[w] = "idle"
  BY <1>1 DEF Actors
<1> QED BY <1>1, <1>2 DEF FirstFinishInv, RetroUntouched, Finishing

(* When requests do not overlap, the process does not die and no call of a *)
(* finish fails, a run that was finished for the first time, after any     *)
(* reports, snoozes and edits, is in a channel the plugin archived, if it  *)
(* archives channels: neither a key left in the scheduler nor a stale copy *)
(* can end the finish before that.                                         *)
THEOREM FirstFinishEnds ==
    ASSUME OneByOne, Fallible \cap {"user", "post", "db", "archive"} = {}
    PROVE  MCSpec => []FirstFinishArchives
<1>1. TypeOK /\ PromptInv /\ [Next]_vars => PromptInv'
  BY NextPrompts
<1>2. PromptInv => OneAtATime
  BY DEF PromptInv
<1>3. Spec => []OneAtATime
  BY <1>1, <1>2, InitPrompts, TypeCorrect, PTL DEF Spec
<1>4. TypeOK /\ OneAtATime /\ PlainWork /\ FirstFinishInv /\ [MCNext]_<<vars, plain>>
          => PlainWork' /\ FirstFinishInv'
  BY NextFirst, PlainWorkKept
<1>5. MCInit => PlainWork
  BY InitReports
<1>6. FirstFinishInv => FirstFinishArchives
  <2> SUFFICES ASSUME FirstFinishInv, plain, Quiescent, Finished, AutoArchive
               PROVE  channel = "plugin"
    BY DEF FirstFinishArchives, FinishArchives
  <2>1. ~FinishingAt(EarlyFinish \cup LateFinish)
    BY DEF Quiescent, NoneRunning, FinishingAt, EarlyFinish, LateFinish, Actors
  <2> QED BY <2>1 DEF FirstFinishInv
<1> QED BY <1>3, <1>4, <1>5, <1>6, InitFirst, HistoryOnly, TypeCorrect, PTL DEF MCSpec
=============================================================================
