----------------------------- MODULE JobScheduler -----------------------------
(***************************************************************************)
(* The JobOnce scheduler of the plugin library, as server/app uses it      *)
(* (interface JobOnceScheduler).  A job is a key in the cluster's KV       *)
(* store.  The key lives from ScheduleOnce until it is cancelled or its    *)
(* callback has returned, so while a callback runs the same key cannot be  *)
(* scheduled again ("Jobs can't be rescheduled within themselves with the  *)
(* same key", server/app/reminder.go:60).  jobs maps each key to           *)
(*   "none"    no such key,                                                *)
(*   "armed"   scheduled, waiting for its time,                            *)
(*   "firing"  its callback is running.                                    *)
(***************************************************************************)
JobStates == {"none", "armed", "firing"}

(* ScheduleOnce fails when the key exists. *)
CanSchedule(jobs, key) == jobs[key] = "none"

ScheduleOnce(jobs, key) == [jobs EXCEPT ![key] = "armed"]

(* Cancelling a key that does not exist is a no-op. *)
Cancel(jobs, key) == [jobs EXCEPT ![key] = "none"]

Fire(jobs, key) == [jobs EXCEPT ![key] = "firing"]

(* The key is removed when its callback returns, unless it was cancelled   *)
(* meanwhile and the key now stands for a newer job.                       *)
CallbackReturned(jobs, key) ==
    [jobs EXCEPT ![key] = IF @ = "firing" THEN "none" ELSE @]

(* The plugin process dies: callbacks stop, keys stay, and Start() arms    *)
(* every key that is still stored.                                         *)
Restart(jobs) ==
    [key \in DOMAIN jobs |-> IF jobs[key] = "none" THEN "none" ELSE "armed"]
=============================================================================
