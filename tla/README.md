# Playbooks in TLA+

A verification development for the Mattermost Playbooks plugin (`src/server`, Go;
`src/webapp`, TypeScript). It models the life of one playbook run on the server, how clients
follow it, how runs are made, and the parts of the web client that hold state of their own:
the playbook's editor, the lists of playbooks and of runs, the sidebar, the row of a task and
the dialog that starts a run.

Every module translates code. TLC checks it on small instances, and in eight modules
TLAPS proves theorems for all values of the constants. `PROJECT.json` lists the components,
runs, theorems, findings and hazards, and maps each definition to the source lines it stands
for.

## 1. The system

The plugin is a server process per cluster node, a web client, and what the Mattermost
server lends it: posts, channels, teams, users, a websocket and a key-value store. All
durable state is in SQL. **Nothing locks a run or a playbook.** A request handler reads the
row into a copy, changes the copy, writes the whole row back (`UpdatePlaybookRun` writes
every column but `CurrentStatus` and `EndAt`, the update of a playbook every column but the
one that numbers its runs), then does more calls: posts, jobs, channel archive, timeline
events, websocket messages. There is no version column and no transaction spanning the read
and the write.

The web client keeps copies of what the server has: a redux store that websocket messages
update, Apollo's cache of GraphQL queries, and state inside components, which is shown at
once and saved later. **Requests of the client are rarely cancelled and never ordered**, so
most of what can go wrong there is an answer that comes after something else happened.

| Component | State it keeps | Operations | Talks to |
|---|---|---|---|
| Run lifecycle (`playbook_run_service.go`, `reminder.go`) | none of its own: copies of the row | finish, restore, toggle updates / retrospective, status update, snooze, retrospective update / publish / cancel, reminder callbacks | store, scheduler, posts, channel API |
| Run store (`sqlstore/playbook_run.go`) | run row, participants and followers, timeline events | whole-row `UPDATE`, the narrow statements of finish and restore | SQL |
| Job scheduler (library, external) | keys in the KV store, one per run and kind | schedule once, cancel, call back, restart | lifecycle |
| Checklists (`playbook_run_service.go`) | checklists and items inside the row | check, assign, edit, skip, restore, duplicate, add, remove, move, rename | store, updates |
| Run updates (`playbook_run.go` on the server, `playbook_run_updates.ts`, `reducer.ts`, `websocket_events.ts` on the client) | the client's redux copy of the run | compute a difference, publish, apply, fetch | websocket, HTTP |
| Task of a run (`checklist_item.tsx`, `inputs.tsx`, `hover_menu.tsx`) | a copy of each field of the task, the open form | check, skip, assign, due date, command, task actions, edit, save | REST, redux copy |
| Owner, participants, assignees (`playbook_run_service.go`, `graphql_root_run.go`) | owner and assignees in the row, `IsParticipant` / `IsFollower` in a table | assign to a user or a role, change owner, add, remove | store, team and channel API |
| Run properties, conditions (`property_service.go`, `condition_service.go`) | values and conditions in tables of their own, results in the items | set a field, evaluate, apply | assignees, row |
| Run creation and numbering (`api/playbook_runs.go`, `playbook_run_service.go`, `sqlstore/playbook.go`) | counter and name template in the playbook's row | try the name, take a number, create channel and run | everything |
| Starting a run (`run_playbook_modal.tsx`) | the picked playbook, two fetches, the form, one submission | pick, fill in, submit | GraphQL, REST, run creation |
| Playbook editor: settings (`outline.tsx`, `graphql_root_playbook.go`) | toggles as shown, two cached copies of the playbook | toggles over REST, invitations, pre-assignments and channel mode over GraphQL | playbook row |
| Playbook editor: checklists (`checklist_list.tsx`, `generic_checklist.tsx`, `useProxyState`) | the checklists as shown and as sent, conditions | edit, move, bulk actions, conditions | GraphQL, condition API |
| List of playbooks (`playbook_list.tsx`, `usePlaybooksCrud`) | params, page, confirmations | sort, page, search, archive, restore, duplicate, leave | REST |
| Lists of runs (`useRunsList`, `runs_list.tsx`, their three pages) | params, the runs so far | filter, sort, search, scroll | REST |
| Runs sidebar (`rhs_main.tsx`, `rhs_run_list.tsx`) | queries in Apollo's cache, the open run | enter a channel, open, sort, page, create, move | GraphQL, REST |
| Broadcasts, scalar fields, playbooks' other operations, property fields, condition expressions, task actions, channel actions, categories, permissions | rows | create, edit, delete | store |
| HTTP and GraphQL, slash command, tool server, bot, digest, statistics, migrations, other views, API client | none that others read back | decode, present | services |

Components meet in five places, and those are where the models put their interleavings:

1. **The shared row**, of a run or of a playbook. Any two handlers, and a handler and a
   reminder callback, may each hold a copy of the row while the other writes.
2. **The scheduler.** A key exists from `ScheduleOnce` until it is cancelled or its callback
   has returned; a job cannot re-arm its own key. A goroutine that sleeps two seconds does it
   for the retrospective reminder.
3. **The websocket and HTTP.** Handlers publish after they have written, unordered with
   respect to one another; answers to fetches overtake messages and each other.
4. **The channel.** The plugin archives and un-archives it, and so do its members.
5. **The screen.** What a user sees was rendered earlier: its buttons hold the values of that
   moment, effects run later, and a request's answer meets a component that has moved on.

### What is hard, and what makes each component correct

* *Lifecycle.* Stale copies, calls that fail midway, restarts, reminders that fire during a
  finish. Correct: only a restore re-opens a finished run; a channel the plugin archived is
  marked, so a restore can give it back; a finished run is not asked for updates; reminder
  posts in the channel are the ones the run records; the owner of an open retrospective is
  reminded again and again.
* *Updates.* Two writers, messages out of order, lost messages, fetches racing messages.
  Correct: when all is quiet the client shows the run of the database; applying an update
  twice is applying it once.
* *Task row.* Changes shown before they are answered, requests about the same field under way
  together, changes by others, an assignee of three fields that only the server resolves.
  Correct: at rest it shows the task, and the task is what the user chose last.
* *People and assignments.* Owner and tasks are in the row, participants are not, property
  values are in a third place; each is changed by its own statement. Correct: the owner takes
  part; tasks given to a role or a field have the user of that role or field; conditions are
  applied; a task somebody worked on stays visible.
* *Creation.* Several statements with edits of the playbook and of its fields between them; a
  dialog whose playbook changes while it waits. Correct: numbers are given once; cleaning a
  template overwrites no save and takes away what referred to nothing when the fields were read; the dialog has one request at a time and its form
  is that of the picked playbook.
* *Editor.* Two ways of saving the same row, edits made while older results arrive. Correct:
  an edit that was stored stays, what is shown is stored, nobody is assigned who is not
  invited, tasks of a condition stand together and refer to one that exists.
* *Lists and sidebar.* Choices made faster than answers come. Correct: the list is the
  server's for the last choice, without a gap; no choice takes back another; loading ends;
  the sidebar opens the run the comments promise.

The hazards, each at its line and with the properties aimed at it, are in `PROJECT.json`.

## 2. The modules

```
PlaybookRunStore  JobScheduler(external)  Checklists            RunCreation
        \             /                   |                          |
         RunLifecycle -- ArchiveMarker    RunUpdates             StartRun -- StartRun_proofs
               |                     |                               |
         MCRunLifecycle           RunSync -- RunSync_proofs       MCStartRun
               |                     |
      RunLifecycle_proofs        MCRunSync

 Assignments -- Assignments_proofs    PlaybookSettings -- PlaybookSettings_proofs
      |
 MCAssignments                        ChecklistEdits
                                           |
 PlaybookList -- PlaybookList_proofs  ChecklistEditor -- ChecklistEditor_proofs
      |                                    |
 MCWebLists                           MCChecklistEditor

 RunsList          RunsSidebar          TaskRow
     \__________________|__________________/
                   MCRunViews -- RunsList_proofs
```

### RunLifecycle: one run and its reminders

`PlaybookRunStore` has the record of the lifecycle columns and the three statements that
write them. Timestamps only compared with zero are Booleans (`ended`, `reminderTimer`,
`retrospectivePublished`); `lastStatusUpdateAt` is a stamp of a logical clock because its
order matters. `JobScheduler` has the scheduler's five operations.

In `RunLifecycle` an actor is an HTTP worker or one of the two job callbacks; `pc`, `op` and
`copy` are its program counter, its request and the copy of the row it holds. One action is
one access to state others can see. `FinishPlaybookRun`, for example, is `FinishRead`,
`FinishStore`, `FinishNotify` (user look-up, announcement, `RemoveReminder`), `FinishRetro`,
`FinishArm`, `FinishEvent`, `FinishFlag`, `FinishArchive`, `FinishUnflag`, in the code's order
and with its early returns: `FailsAt` is the return on an error of an external call in
`Fallible`. `CheckEditPermissions` is the read of its own that the middleware does before the
handler reads again. `SetNewReminder*` are the six steps of `SetNewReminder`, after which an
update that finishes the run goes on as a finish. `EditRun` is every other handler that
reads the row and writes it back. `Crash` ends all actors and keeps row, channel, posts and
job keys.

`ArchiveMarker` is the abstract specification of auto-archiving: a write-ahead marker that
is on before the channel is archived and goes off only when the channel is not archived by
the plugin. `KeepsMarker` states that the handlers implement it, under the mapping
`finished <- status is Finished`, `marked <- AutoArchivedChannel`,
`archived <- channel = "plugin"`.

### Checklists, RunUpdates, RunSync: a run and a client

`Checklists` has every operation of the service on items and checklists, as operators.
Fields a request sets as a whole are one stamp. Positions are checked as the code does (a
move to another checklist may go one past the end, within a checklist it may not).
`SkipChecklist`, `AddChecklist` and `DuplicateChecklist` leave the checklist's own
`UpdateAt` as it was, because the code stamps a copy in a `range` loop.

`RunUpdates` has `DetectChangedFields` with its comparison of items and checklists, and
`applyIncrementalUpdate` with what the client does with each part: unknown checklists are
made from what the update holds (perhaps no title), known ones keep the client's order, and
an update with an older stamp is skipped. The new order of moved checklists is in the update
too; the client stores it and does not sort by it (`playbook_run_updates.ts:316`).

`RunSync` composes them. A handler reads and changes its copy (`Begin`, one action per kind
of request), writes (`WriteRun`), may record a timeline event, may read the run again, and
publishes (`PublishRun`), incrementally or whole according to `EnableIncrementalUpdates`.
The client receives, fetches, reconnects (messages under way are lost), and may not have the
run at all. What is compared with the row (`Seen`) is the sequence of checklists with their
items and the events: the client shows the checklists in its order and names them by their
place in it. `lost` is a history variable: it collects the ways in which the client can miss
a change, see `InSync`.

### TaskRow: the row of a task

The part of the client that `RunSync` leaves out. The row copies every field of the task into
its own state (`shown`), changes it at once and sends a request. A field that a message
changes is overwritten (`Follow`, the `useUpdateEffect` of each field); that of the task
actions sets them to what they were (`checklist_item.tsx:241`), so they are not followed. An
assignee is three fields, each with an effect of its own: the user, the type and the property.
The row shows a role or a property without a user until the server's choice comes back
(`Resolved`), and if that is the user the task had before, no change of that field is sent
(*resolved*, see 3). Outside its form the row lets a date and an assignee be set, and the command
and the task actions be changed where there are some. What is typed is the user's choice
once it is saved, an empty title as 'Untitled task'; a cancelled form forgets it. An
assignee goes back, when its request fails and no later one was made, to what the browser has
*then*; a tick to what it was *before the click* (`TakenBack`); nothing else goes back. The
form is sent whole. "Skip" is one click and two requests. Requests name the task by its
position, which another user's deletion shifts.

### Assignments: people, roles, fields and conditions

`row` is owner and tasks, written whole; `participants`, `followers` and `values` are the
other tables. A request is a record with the list of steps its handler has still to take
(`todo`), the copy it writes and what others did since it read (`behind`). The steps are
those of the code: `ChangeOwner` adds the new owner as a participant (membership check,
join, follow) *before* it writes the row, assigning a task writes first and adds afterwards,
setting a property stores the value first and writes the tasks second. `Fail` ends a request
at any step; `LeaveTeam` is a user leaving the team. `missed` is the history variable:
overwritten, stale, passed over, crossed, unassigned, unapplied.

### RunCreation, StartRun: how a run is made

`RunCreation` is the server: the REST handler reads the playbook and tries the name template
(`Read`, `PrepareTemplate`), `CreatePlaybookRun` reads it again (`Reread`), prepares the
template again, takes the number in one `UPDATE ... RETURNING` (`IncrementRunNumber`), stores
the run, and goes on with calls some of which still fail the request (`FinishCreation`). A
template is the set of what it refers to. A playbook and its fields are two readings
(`LoadTemplateFields`, only if there is a template). A field has an identifier, by which a
request names the values it fills in, and a name, by which templates refer to it. Preparing
removes what no field read has and, if that changes the template, writes it where the row
still has the one that was read.

Others save the playbook (checked first, written later, so it may bring back an archived
playbook and a deleted field's name), archive it, and edit fields. A field edit is a request
with the statements of its handler: it reads the row (`BeginFieldEdit`), then makes a field;
or checks that the template does not need the field and deletes it afterwards; or renames it,
for which the new name is put into the template *before* the field has it
(`WriteRenamedTemplate`, `UpdatePropertyField`) and taken out again if that fails
(`RevertTemplate`), which may fail too, as may a rename whose field is renamed already. Any
number of editors may be at it. So templates may name what no field has from the start, and
a run that read the fields before a rename takes the new name out of the template.

`StartRun` is the dialog. Two hooks fetch the picked playbook; `useThing` says it is not
fetching at once and cancels nothing, so answers come in any order and for a playbook picked
before. `InitializeForm` is the effect that sets the form up whenever its key changes (the
playbook, its template, channel and mode, and whether it wants a new channel). `isSubmittingRef` and `isSubmitting` are the two halves of
`submitting`; the answer of `SubmitFails` and `RunCreated` meets whatever playbook is picked
by then.

### PlaybookSettings: two ways of saving

GraphQL mutations change some columns after validating against a playbook read before; the
outline's toggles put a whole playbook over REST, three after fetching it, "new channel only"
from what was loaded with the page. A request is a record with the columns it writes, what it
read, and whether it had server and page for itself (`alone`). The channel mode is a debounced
proxy of the stored column.

### ChecklistEdits, ChecklistEditor: the editor of checklists

`ChecklistEdits` has the edits as operators on sequences of sequences of tasks: moving a task
into or past a group of conditional tasks changes its condition as `onDragEnd` does, joining,
leaving, duplicating, bulk actions, removing the condition of a deleted group.
`ChecklistEditor` adds how they are saved: `value` is what is shown, `check` what was sent,
`prop` the query's result (`useProxyState`), every save is followed by the query, and a
condition is created on the server before it is put into the checklists of the moment it was
asked for.

### PlaybookList, RunsList, RunsSidebar

In `PlaybookList` `screen` is the content the user sees (`content.current`), which is not made
again while something loads; a choice is a change of the params *of that rendering*. Calls
are fetches and the requests of a row; none is cancelled.
`RunsList` is `useRunsList` with its three pages; a change of the params cancels the fetch
before it, scrolling asks for the next page and is not repeated until the list has grown
(`triggered`). `RunsSidebar` has Apollo's cache per channel, column and state
(`cache-and-network`, the same query is not sent twice), and the effect that opens a single
run once per channel (`checkedFor`).

In these modules, and in the editor's, `why` (in the row `lost` and `behind`) is a history
variable: it collects the ways in which the code lets the property at hand fail. Each of the
reasons was found by a counterexample; a behaviour that meets none of them keeps the property.

### What the models assume of the code around them

* The scheduler (external): a key lives until its callback returns; a callback that cancels
  its own key (`reminder.go:42`) does no harm; a restart arms every stored key.
* The channel API may refuse to archive a channel that is archived already.
* `RunLifecycle`: the status a handler tests after its write is the status of its copy.
* `RunSync`: readings of the clock increase; read-and-check is one step and so is a write;
  the run stays in progress; requests name positions that exist in what the handler read.
* `RunCreation`: the database keeps the names of a playbook's fields distinct (external); one
  save of a playbook is under way at a time; templates that differ in their text but refer to
  the same are one, and none names anything twice.
* `TaskRow`: messages come in the order of the writes (what `RunSync` says of the rest), and a
  reconnection may skip some; one task, one browser. Titles that differ in the blanks around
  them are one.
* `Assignments`: the run is in progress, of a team, from a playbook the team sees; no user is
  a system administrator; permission check and read are one step; conditions are on the select
  field, so setting the user field, which evaluates them again, gives what they gave before.
* The pages: React runs the effects of a rendering before the user acts on it; one browser
  edits, others may change what is stored where a module says so.
* `RunsSidebar`: one run is being moved at a time. Its queries and the request that creates a
  run are answered, late perhaps, but do not fail: `SingleRunOpens` and `CreatedRunOpens` say
  nothing of a sidebar with an error in it (`rhs_main.tsx:131`).

## 3. What is checked

Twelve configurations, of which ten pass.

| Run | Bounds | Shows |
|---|---|---|
| `LifecycleConcurrent` | 2 workers (symmetric) and both callbacks, 3 requests of 8 kinds, all calls fallible, 1 restart | `FinishedStaysFinished`: whatever stale copy is written back, only a restore re-opens a run |
| `LifecycleArchive` | one handler or callback at a time, 5 requests of all kinds, calls for posts, store and archiving fail, users archive by hand | `ArchivedHasFlag`, `KeepsMarker` (refinement of `ArchiveMarker`) |
| `LifecycleQuiet` | one at a time, 5 requests of all kinds, no failures, with fairness | `RestoredStartsFresh`, `NoReminderAfterFinish`, `PromptsTracked`; up to the first restore, toggle or archiving by hand `ReportSchedulesNext`, `FirstFinishArchives`; liveness `RetroReminderRecurs` |
| `SyncConcurrent` | 2 handlers, 2 requests of every kind, checklists of 1 and 0 items, both modes, 1 fetch or reconnection; or 3 handlers, one each duplicating a checklist, adding and checking an item, and a client that has the run | `InSync`, `Idempotent` |
| `Assignments` | 2 users, 2 handlers, 3 requests, up to 3 tasks, 1 failure or departure | `RolesFollowOwner`, `OwnerTakesPart`, `AssigneesFollowField`, `ConditionsApplied`, `TouchedStaysVisible` |
| `PlaybookSettings` | 1 user beside the admin, 2 operations with the requests that follow, 1 failure, edit by others or user leaving | `AssigneesAreInvited`, `ShownIsStored`, `EditsSurvive` |
| `ChecklistEditor` | 3 edits of two checklists with two groups, unsaved; or of a small playbook with all that saving does, 1 new condition, 1 failure | `GroupsStayTogether`, `UnsentIsDue`, `EditsAreStored`, `NoConditionIsMissing` |
| `WebLists` | 4 playbooks, pages of 1, 3 choices or disturbances, 2 calls under way, with fairness | `ButtonsHoldParams`, `OwnChangesShow`, `ChoicesKept`; liveness `LoadingEnds` |
| `RunViews` | list: 6 runs, pages of 1, 3 events, 2 fetches under way. Sidebar: 4 runs, 2 channels, 3 events. Row: 2 clicks or saves, 1 change by others, 1 failure | `RunsInOrder`, `ChoicesKept`, `MoreCanBeFetched`; `SingleRunOpens`, `CreatedRunOpens`; `RowShowsTask`, `ChoicesStored` |
| `StartRun` | dialog: 2 playbooks, 3 entries, or 2 entries and 2 submissions. Server: 2 runs of a playbook while it is archived and saved or a field edited once; or 1 run while both happen, 3 times together, its template perhaps naming no field at first; 2 fields, 2 names, 1 editor; with fairness | `NumbersAreUnique`, `OneRequestAtATime`, `ModeFitsPlaybook`, `ValuesOfSelected`, `HealRemovesGhosts`; liveness `SubmissionEnds` |

`MCRunSync`, `MCRunViews`, `MCStartRun` and `MCChecklistEditor` watch one of several screens or situations,
chosen in the initial state: they have nothing in common but the run. Handlers are interchangeable, so of
two idle ones the first starts. In the row one field changes, or those that change
together (title and command in the form, the three of the assignee); fields meet nowhere
else. `RunViews` and `StartRun` are the largest runs: 1.9 and 1.3 million states.

Why these bounds are enough to be interesting:

* Lifecycle. A lost update needs two actors, and the callbacks are actors beside the two
  workers. Three requests allow finish, restore and a third that holds a copy across both.
  Five in sequence allow finish, restore, finish with a toggle or a report between them.
* Sync. Two requests are what it takes to overwrite, to overtake and to skip; one fetch is
  what it takes to race them. A checklist with an item and one without give every move, the
  last position and the empty order. Three requests of three handlers are what it takes to
  learn of a checklist from the middle of its history; of every kind they are too many, so
  the second situation of `SyncConcurrent` has the three kinds that meet there.
* Making a run. A template that names no field is read, then saved over or a field renamed,
  then cleaned: one run and three edits of the playbook, in any order, some overlapping. Two
  runs are what it takes to give a number twice; there one edit lies between any two steps.
  That two runs clean the same template is left to the theorem.
* Row. Two requests of a field overtake each other or fail around each other, and one change
  by somebody else lies between any two steps. Three values tell the user's from the others'; a role and a property
  tell types, and what the server finds for them, apart.
* Assignments. The starting tasks are one of the owner's role and one that is conditional and
  follows the user field. The creator and one more user give an owner to change and
  a participant to remove; three requests give, for instance, a stored value, a second value
  and a retry. A single failure at any step, or a departure between check and use, is
  explored in all of them.
* Editor. Two operations cross between read and write, or one stores what the other read;
  groups stand next to each other, which is where moves go wrong, and one of them again in
  another checklist, as after a duplication.
* Lists. Two calls under way are what it takes for an answer to be late; a third choice can
  then be made with the buttons of the first. Pages of one run give a next page at every size.
* Dialog. Two playbooks, the second without or with a template, give every order of the four
  answers; a second submission is a retry of one that failed.

`LifecycleQuiet` describes the server between requests when handlers do not overlap. That is
the condition under which those properties hold. Once handlers overlap, whole-row writes of
older copies can undo what such a property relates, as `ArchiveRace` shows for the archive
marker. A restore that stops after its first write, because `User.Get` fails, leaves an active
run in an archived channel that no second restore repairs; `LifecycleConcurrent` explores it,
and `RestoredStartsFresh` is checked without it.

### Named exceptions

Most properties of the client and of overlapping handlers hold *except* in ways the formula
names, and the exceptions are as much a result as the property:

* `InSync`: *overwritten* (a handler wrote over a row changed since it read it), *skipped* (a
  client dropped a message as older although it was news), *event* (a message was made before
  its timeline event), *rewound* (a whole run arrived after a newer one), *unfetched*, and
  *part*: a client that learns of a checklist from a change to it makes one from what the
  change says, and the update that described the checklist, being older, is skipped; and
  *moved*: an update says that a checklist was moved and the client keeps the order it has
  (`playbook_run_updates.ts:316`). With two
  handlers *skipped* covers *part*. With three the run in the database may by then contain no more
  than the client has, or the description never be skipped, so it is a way of its own
  (the second situation of `SyncConcurrent`); stated without it, `InSync` is false.
* `RowShowsTask`: *shifted* (the request hit another task), *cameBack* (a value that changed
  and changed back during a disconnection leaves the row behind), *failed* (due date, command
  and texts are not taken back), *revertedLate* (a tick goes back to what it was before the
  click, although somebody or a second click has changed it since: the comment at
  `inputs.tsx:33` hopes to prevent the second click, nothing does), *unfollowed* (task actions),
  *resolved* (a role the server gives to the user whose task it was: type and role change, the
  user does not, and the row goes on showing nobody). A title typed as empty stays so in the
  row that saved it, beside 'Untitled task' in the database.
* `ChoicesStored`: *failed*, *shifted*, *overtaken* by an own later request, *others*, and
  *replaced*: an own earlier change that arrives while the form is open replaces the draft,
  and saving stores the replacement.
* `ShownIsStored`, `EditsSurvive`, `AssigneesAreInvited`: the whole playbook is written over
  what a mutation stored in between (*overwrote*); "new channel only" brings back the checklists
  and channel mode of the day the page was opened; two mutations that each were valid cross;
  of two toggles stored in the other order the older wins, and so does the older of two changes
  of the channel mode (*reordered*). The latter takes three clicks, one more than the run has:
  the answer of the mutation stored last brings what the page's copy has already, so the mode
  stays as it was shown. An attempt to prove `ShownIsStored` found it.
* `GroupsStayTogether`: the last task of a group that leaves it is put between tasks of the
  next (*leftLast*); tasks that join a condition in bulk where it had none stay where they are.
* `EditsAreStored`: *closure* (a condition's creation brings back the checklists of the moment
  it was asked for), *reverted* (a late query of an earlier save), *reordered*, *failed*.
* Lists: *late*, *frozen* and *typing* (buttons and searches hold the choices of an earlier
  rendering), *scrolledEarly* (asking for the next page cancels the first), *sortedLater* and
  *teamLater* (sorting metrics, or changing the team, keeps the page), *pageCanceled*.
* Sidebar: *visitedBefore* (what the cache kept decides), *joined* (a query under way is taken
  for the one that should follow), *sortJoined* (the same when the list is sorted anew: the
  query was sent before the run was created, and its answer lacks it), *leftCreating*,
  *moved* and *others* (the runs of the channel change after it was entered). *sortJoined*
  takes four events, one more than the run has; the proof of `CreatedRunOpens` found it.

`StartRun` needs no exceptions for what it states; `HealRemovesGhosts` states what the code can
keep. A name that a field is given after a run read the fields is taken out of the template by
that run, that of a rename under way among them: the template then lacks a field it named
before. What the dialog does beyond it is worth
knowing: an overtaken answer for an earlier playbook leaves an enabled button that does
nothing; the error of a submission appears in the form of the playbook picked meanwhile; a
late answer of the second hook may set the form up again over what was typed; a late answer of
making a playbook from a template switches the picked playbook; the check of "new channel
only" is made on the playbook read first; a request that failed after its row was stored is
retried and makes a second run.

`CHECK_DEADLOCK FALSE` is set where the bounds let the system stop: users who have used up
their choices owe nothing. `RunLifecycle` has the explicit step `AtRest` instead, so deadlock
is checked there.

### Fairness

* `LifecycleQuiet` (`FairSpec`): weak fairness of each worker's next step, of each callback's
  steps, of firing an armed job, and of the sleeping goroutine that re-arms the retrospective
  reminder. The Go runtime schedules goroutines and the scheduler's timers expire, and a due
  timer waits, in this configuration, only for a handler that runs, of which the bound on
  requests leaves finitely many.
* `WebLists`: a call is answered or fails, a pause in typing ends. `LoadingEnds` names the
  failed call as its exception: `usePlaybooksCrud` does not leave the loading state after one.
* `StartRun`: a submitted request is answered or fails, and the server goes on with a request
  it has received.

Users owe nothing: no fairness is assumed of requests, choices, manual channel operations or
restarts. The other configurations state safety only.

### Where code and its documentation differ

Two configurations are expected to be violated. Each states what a comment of the repository
says; TLC's counterexample is the code's behaviour.

| Run | Stated | The code |
|---|---|---|
| `ArchiveRace` (`ArchivedHasFlag`) | persist-first cannot leave a channel archived with the flag off (`playbook_run_service.go:1712`) | an edit that read the row before the flag was written puts `false` back |
| `SkippedUpdate` (`SkippedIsContained`) | "We already have a newer update, skip this one" (`playbook_run_updates.ts:15`) | the newer update has only its own request's changes; two handlers may publish in the opposite order of their writes |

Smaller ones met while modelling, that need no run to be seen: the restore of an auto-archived
run writes the old `LastStatusUpdateAt` back over its own (`playbook_run_service.go:1602`); a
restored run has a countdown and no reminder job (`playbook_run_service.go:1588`); a task added with the owner's role is stored without assignee
(`playbook_run_service.go:3151`); bulk assignment to a condition uses positions that the
assignment itself shifts (`bulk_actions.ts:260`); taking the last task of one checklist off a
condition deletes the condition for all of them.

## 4. What is proved

TLAPS checks the theorems of eight modules to the last leaf. They hold for all sets of
workers, handlers, users, playbooks, runs, requests, values and options, and for all bounds.
They assume what the modules state of their constants (workers are not job keys, no template
is called "none", flags are Boolean, bounds are naturals, a page has at least one run, the
creator is a user and "no user" is none, no channel is called "none" a page of the sidebar,
which has eight runs, holds more than one, the mark of no choice is no value, role or property of a
task, the typing of what is stored at first) and, for
some of the lifecycle and for `InSync`, the hypotheses in the table. In the lifecycle these name
the interleavings and failures under which the property is false; for `InSync` the overlaps the
proof does not cover.

| Theorem | States | Argument |
|---|---|---|
| `RunLifecycle_proofs!TypeCorrect` | `Spec => []TypeOK` | `TypeOK` is inductive; one lemma per group of actions |
| `FinishIsFinal` | `Spec => FinishedStaysFinished`, with overlapping handlers, failures and restarts | every statement but the restore's keeps `CurrentStatus` of a finished row, whatever copy it is given |
| `ArchivedIsMarked` | `Undisturbed => (Spec => []ArchivedHasFlag)` | `MarkerInv` |
| `LifecycleKeepsMarker` | `Undisturbed => (Spec => KeepsMarker)` | `MarkerInv` makes each step a step of `ArchiveMarker` or a stutter |
| `RestoreStartsFresh` | `RestoredStartsFresh`, undisturbed and the database taking every write | `MarkerInv` and: an active run is unmarked, but for a restore in progress |
| `FinishLeavesNoReminder` | `NoReminderAfterFinish`, one at a time, no restart, the user found | `JobInv` |
| `PostsAreRecorded` | `PromptsTracked`, one at a time, no restart, the database taking every write | `PromptInv` |
| `ReportsRemind` | `ReportSchedulesNext`, one at a time, no restart, calls for users, posts and database succeed | `PlainWork`, `ReportInv` |
| `FirstFinishEnds` | `FirstFinishArchives`, as before, and archiving succeeds | `FirstFinishInv` |
| `Assignments_proofs!TypeCorrect` | `Spec => []TypeOK` | part of `IInv` |
| `RolesKeepFollowing` | `Spec => []RolesFollowOwner`, with overlapping handlers and failures | part of `IInv` |
| `WorkStaysVisible` | `Spec => TouchedStaysVisible` | `IInv` and `CopiesShow` |
| `OwnerStaysIn` | `Spec => []OwnerTakesPart` | `OwnerInv` |
| `AssigneesAreHeld`, `ConditionsHold` | `Spec => []AssigneesFollowField`, `Spec => []ConditionsApplied` | `FieldInv`, one proof for both fields |
| `PlaybookSettings_proofs!TypeCorrect` | `Spec => []TypeOK` | inductive |
| `AssigneesStayInvited` | `Spec => []AssigneesAreInvited` | `Invited` |
| `StoredEditsStay` | `Spec => EditsSurvive` | `AloneKeeps`: a request that was alone writes what is stored |
| `StoredIsShown` | `Spec => []ShownIsStored` | `ShownInv` |
| `ChecklistEditor_proofs!UnsentStaysDue`, `EditsGetStored` | `Spec => []UnsentIsDue`, `Spec => []EditsAreStored`, nothing assumed of the checklists | `IInv` |
| `NoConditionGoesMissing` | `Spec => []NoConditionIsMissing` | `IInv` and `LInv` |
| `GroupsStay` | `OpenedTogether => (Spec => []GroupsStayTogether)` | `LInv`, one lemma per edit |
| `ButtonsStayCurrent` | `Spec => []ButtonsHoldParams` | every step that changes params or rows loads, or renders |
| `ChoicesAreKept`, `OwnChangesAreShown` | `Spec => []ChoicesKept`, `Spec => []OwnChangesShow` for the list of playbooks | `KeptInv`, `ShowInv` |
| `ChoicesStay` | `Spec => []ChoicesKept` for the lists of runs | `Agree`: what was chosen differs from the params at most in the page and in the term of a waiting search, which is the last one |
| `ListIsInOrder`, `MoreIsFetched` | `Spec => []RunsInOrder`, `Spec => []MoreCanBeFetched` | `FetchInv` with `OrderInv`, `LengthInv` |
| `NumbersNeverRepeat`, `OneRequest` | `Spec => []NumbersAreUnique`, `Spec => []OneRequestAtATime` | numbers given are below the counter of their playbook, which no save takes back; ref, state and request in flight go together |
| `CleaningIsSafe` | `Spec => HealRemovesGhosts`, for any number of runs, saves and field edits that overlap | every write of a cleaned or renamed template needs the template that was read (`EditKept`), and a creation takes out only what the fields it read lack |
| `ModeFits`, `ValuesGoWithPlaybook` | `Spec => []ModeFitsPlaybook`, `Spec => []ValuesOfSelected` | `FormInv`: the form was set up for its key, and the key is that of what is shown |
| `RowShowsItsTask`, `ChoicesReachStore` | `Spec => []RowShowsTask`, `Spec => []ChoicesStored` of `TaskRow` | `RowInv`, `ChoiceInv` |
| `RowBesideLists`, `ChoicesBesideLists` | the same of `MCRunViews` | its row takes steps of `TaskRow` |
| `SingleRunIsOpened`, `CreatedRunIsOpened` | `Spec => []SingleRunOpens`, `Spec => []CreatedRunOpens` of `RunsSidebar` | `LooksInv` with `SingleInv`, `CreatedInv` |
| `SingleBesideLists`, `CreatedBesideLists` | the same of `MCRunViews` | its sidebar takes steps of `RunsSidebar` |
| `RunSync_proofs!SyncInvHolds` | `Spec => []SyncInv`: identifiers are unique, updates are differences of two versions | inductive; one lemma per request |
| `IdempotentHolds` | `Spec => []Idempotent`, with overlapping handlers, losses and reordering | `SyncInv` and `UpdatesAreIdempotent` |
| `UpdatesAreIdempotent`, `UpdateGivesNextVersion` | what `ApplyIncrementalUpdate` does with the difference of two versions, for runs of any size; it gives the next version, its order included, unless a checklist was moved | identifiers instead of positions |
| `InSyncHolds` | `Spec /\ []OneSends => []InSync`: no two handlers are between their write and their message | `Following`: the versions a client may still show |

*The archive marker.* `Undisturbed` says that handlers run one at a time (`Serial`), the
process does not die, and neither the look-up of the user nor the un-archive call of a
restore fails; every other call may. The conditions are needed: `ArchiveRace` violates the
property without the first; a restore that stops after its first write leaves an active run
in an archived channel, so that the next finish fails to archive it and takes the marker
away; and a restore whose un-archive fails clears the marker all the same.
`ArchivedHasFlag` alone is not inductive: nothing in it says that the copy a handler is about
to write back has the marker of the row. `MarkerInv` adds that (`OneAtATime`, and for each
step at which a copy is held, that copy and row agree on the marker), where in a finish the
channel is still the users' (`MarkerAt`), and that only a restore between its write and its
un-archive sees an active run in a channel the plugin archived (`ActiveIsFree`). The
refinement theorem needs the same facts: `Mark` of `ArchiveMarker` requires that the channel
is not archived when the flag is written, `Archive` that the flag is on. `RestoredStartsFresh`
adds the other direction, and with it the write that takes the marker off.

*Reminders.* `LifecycleQuiet` lets no call fail; the theorems let all fail but those the table
names. A finish cancels the status job after it has announced the finish, for which it looks
up the user; until then, and no longer, the job may outlive the status. `JobInv` says so, and
that a handler on its way to scheduling a job has an active run.
`PromptInv` says for each step what copy, row and channel have of the reminder post: it is
recorded before it is forgotten and taken away before it is replaced, except in the steps
`Rewriting` lists; a scheduled job and a recorded post exclude each other. A countdown, in
`ReportInv`, is `Arranged`: its job is scheduled, firing, or has left a post, or the handler at
work is on its way to scheduling it. The last two theorems are about runs that were neither
restored nor toggled, nor archived by hand (`plain`, a history variable of `MCRunLifecycle`):
`PlainWork` bounds what can be at work in such a history, and `FirstFinishInv` follows the one
finish to the end.

*Roles and fields.* `RolesFollowOwner` is about the row, but rows come from copies taken long
before. `IInv` therefore says the same of every copy held (`Kept`): owner and tasks in it are of one
version. It also says what the lists of steps can do (`CanDo`): a write happens at most once
and only with a copy, and only users join or follow. Stale copies then do no harm: they
replace owner and tasks together. `OwnerInv` says that a copy nobody overtook has the owner
of the row, or a new one who takes part by the time it is written, and that no owner is being
removed, where none of the ways the property names was met. `FieldInv` says that the tasks of
the row suit the value held, or that a request that has stored the value is still to write
them (`Pending`), and of every copy that it will suit the value when it is written
(`FieldReady`); it is stated once for both fields.

*Visible work.* A copy nobody has overtaken shows every task the row shows and somebody worked
on (`CopiesShow`). `ApplyConditionResults`, the reassignments and additions preserve it, and
a write of such a copy hides nothing.

*Invitations and toggles.* A request is validated against a playbook that may be gone when it
writes. `Invited` says what survives: as long as no two mutations crossed, each request
written onto the *present* row gives a valid one. A REST save writes all columns it validated
together; a mutation changes three columns that nobody else changed since it read. `ShownInv`
is what relates page and row in between. Requests about one toggle are numbered in the order
of the clicks (`Orderly`); what is shown is what the last of them on its way will store, or it
is stored and what is on its way is older (`ToBeStored`); a toggle without rivals goes back to
what is stored. That the channel mode needs the exception *reordered* too came out of this
proof; the model's history variable now counts writes by subject.

*Saved edits.* An edit is a number, a document the set of those it holds. `IInv` says that the
newest save, or what is still to be sent, holds all edits so far (`LastIsKept`, `Numbered`),
that what is shown is the query's result or what was sent last (`ShownIsKnown`), and that the
query is behind only while the answer of a save will repeat it (`QueryFollows`); when all is
answered, server and screen are that document.

*Conditions in checklists.* What is shown later may be any document under way: the query's
result, a save's, the one a condition was asked for in. `LInv` therefore speaks of all of them
(`Docs`). Each is in `Lists(S, g)`: sequences of tasks whose conditions are in `S`, and whose
groups are together if `g` is set. For every edit there is a lemma that it keeps its argument
in `Lists`, with a larger `S` where it adds a condition and a smaller one where it clears one;
then every action keeps every document. `DocsHeld` takes for `S` all conditions there have
been. `CondsHeld` says more of the documents that hold every edit so far: the conditions in
them are stored, known and not about to be deleted (`Safe`). Neither suffices alone: a
condition that was just created is put into the checklists of the moment it was asked for, so
`Asked` says that these use older conditions only, that the position remembered in them is
there, and that no two requests are for the same condition.
Two facts need an argument over positions where one would use induction: a bulk action goes
through the selected positions one by one, and the last task of a group is found by a search.
`LeastOf` (a non-empty set of naturals has a least element, from the library's theorem on
well-founded relations) takes its place: if some prefix of the work broke the fact, there
would be a first one. Assumed is that the conditions of the playbook as it is opened are
numbered 1 to 9 and those created later from 10, which is a naming; and for `GroupsStay` that the
groups are together when it is opened, as they are in the run.

*Lists.* Of the playbooks' list nothing is cancelled. `KeptInv` relates the params, the waiting
search and the buttons of the rendering on the screen to what was chosen; `ShowInv` says that
the newest fetch is for the params there are, or its answer is shown and what is still under
way has been overtaken, and that only one row is at work at a time. In a list of
runs a fetch is cancelled by the next: `FetchInv` says that at most the fetch begun last is
live and that its answer, once it has one, is the page of the present choices. `OrderInv` then
needs only page arithmetic: what is shown goes up to the page, or to the one before it while
a page is on its way; the metrics' sorting and the change of teams leave the page and are
exceptions. `LengthInv` is the same with numbers instead of runs, so that it survives a
sorting, and adds that who waits for a page waits for one that has runs.

*The dialog.* The form is set up by an effect when its key changes. `FormInv` says that the
form belongs to its key after every rendering, so values typed for one playbook are gone when
another is picked, and that a playbook that wants its own channel has no linked one in the
form. It rests on keys of different playbooks being different.

*The row of a task.* `RowInv` says of each field that the row shows what the browser's copy of
the task has, or a message that changes it is to come (`ToCome`), or one of the named ways was
met (`Excused`), or an open request will set the value shown or be seen to have failed
(`Awaited`), or to the user the server finds. Each field of an assignee, the tick and the other fields
take a failed request back differently and have a clause each. A title that is shown empty
stands for 'Untitled task' (`Matches`). `ChoiceInv` says that of the
requests open for a field the one sent last brings what was chosen last. `RunViews` changes
one field, or those that change together, at a time; the theorems have all fields at once.
`RowBesideLists` and `ChoicesBesideLists` carry them over to the composition that run checks.

*The sidebar.* `LooksInv` says what the cache knows of a channel: a list on the screen is known
in the column by which runs were sorted first too, a later page is asked for only of a known
list, and a channel whose list is known has been looked at for a single run. As long as nothing
was opened and the runs have not changed (`Untouched`), `SingleInv` says that the list is
unknown and asked for, and every answer on its way is what the server has; or known, and what
is open is its single run or nothing. It needs that the list is not on the screen while
there is a single run (`ListIsNotSingle`), since from it the user could sort or scroll. A first
page tells one run from several because it has room for two. `CreatedInv` says that what was
created is among the first rows of the list, or the list is being asked for, and that no answer
on its way lacks it. `Settled` leaves out the moments at which the list is about to be asked for
anyway, after a creation or a move. `SingleBesideLists` and `CreatedBesideLists` carry both over
to the composition. The prover knows nothing of sorting: `View` numbers each run
by how many come before it, and `RankExists` says that every number is given.

*A run and its client.* An update names checklists and items by identifier, and the client
merges it by identifier, so everything rests on identifiers. `SyncInv` says that in the row, in
every copy, message and answer and in the client's run an identifier names one checklist or one
item, that a handler's copy is an edit of what it read (`Edited`: kept identifiers, new parts
still without one, a stamp on a checklist that lost an item), and that every update under way
is `DetectChangedFields` of two versions. Each request of `Checklists` has a lemma that it is
such an edit, and `PopulateChecklistIDs` one that it gives the new parts identifiers nobody has.
`UpdatesAreIdempotent` and `UpdateGivesNextVersion` are about the operators alone: they describe
the result of a merge by what it has under each identifier, so that sequences of any length need
no induction; where the code searches, `LeastOf` finds the first hit.

`InSync` speaks of the end, when nothing is under way. `Following` says what holds meanwhile,
while nothing was missed: there is a list of versions the client may still show, one more than
there are messages (two while a handler has written and not sent), each message leads from one
to the next (`Carries`), and the last shows the row (`Resting`, `Sending`). The client's run is
*on* one of them (`On`), or a fetch is still unanswered, or its answer is on one of them. An
answer may show a version later than the next message, which then brings nothing new to it;
and an answer overtaken by messages is *old* (`Old`), and setting it takes something away
(`Rewinds`), which is one of the named ways. When a message is received the first version is
dropped and what was on it alone becomes old. An update without changes is not sent, so the two
versions around it must be the same (`NothingNew`). `OneSends` is needed by this list of
versions, in which messages leave in the order of the writes: handlers may read at the same
time, but one that has written sends before another writes. The first handler's write makes the
other's copy stale (`Reads`); the other's write then is *overwritten*, a named way. Without `OneSends`
messages change places; the client either skips the late one, a named way, or finds nothing new
in it, and the run `sync_concurrent` checks that these are all the cases.

### What is only model-checked

* Liveness: `RetroReminderRecurs`, `LoadingEnds`, `SubmissionEnds`. They depend on fairness,
  which the prover does not reach.
* `InSync` where two handlers are between write and message at once: the run covers it, the
  theorem does not.

## 5. What is not modelled

* Timeline contents, posts' texts, webhooks, direct messages, metrics: written, never read
  back by the modelled parts. Their calls appear where their failure ends a handler.
* Broadcasts and their threads; condition expressions, which are pure functions of the values.
* Requests that set whole fields of a run: in the lifecycle one action (`EditRun`) stands for
  them, since what matters there is that they write back an old row. A post may trigger
  several task actions, and a slash command may run for long: both use positions read before
  (`playbook_run_service.go:5289`, `:2876`), a case of what `RunSync` names *overwritten*.
* Scalar fields in the incremental update: sent as whole values.
* In `TaskRow`: adding, duplicating and running a task, drafts inside pickers, bulk selection, the same row in a playbook (that is
  `ChecklistEditor`).
* In `Assignments`: removed and moved tasks, channel membership, the setting that only
  owners manage a group's actions, users who follow or unfollow of their own accord, runs
  outside a team, field definitions and their validation.
* In the editor: texts, webhooks, members, metrics, the expression of a condition, the
  debounced header of a condition, edits of checklists by others. Values of property fields,
  lengths and the preview of a name in the dialog.
* In the sidebar: renaming a run and saving it as a playbook, several cards moved at once.
* Channel, membership and first posts of a new run are one step of `RunCreation`.
* Playbooks' duplication, import, members and insights, categories, channel actions,
  permissions beyond viewing and managing a run: rows of a single statement each. Bot, digest,
  statistics, slash command, tool server, migrations, navigation and other views, API client:
  front ends and output.

Most of the web client is such output: styles, layout, assets, generated GraphQL documents,
texts and translations. The modules map the components whose control they have; `PROJECT.json`
gives the reason for each component left out.

## 6. Plan

Done: the lifecycle with its store, scheduler and abstract marker; checklists and their
updates; people, roles and conditions; the making of a run; the editor, the lists, the
sidebar and the row of a task; proofs of every safety property, of `InSync` under `OneSends`.

What would add most next:

1. The run page and its sections over the redux copy, composed with `TaskRow` and `RunSync` in
   one module, so that `RowShowsTask` is stated of the messages `RunSync` loses and reorders.
2. `BroadcastThreads`: thread roots read once and written back whole per channel; abstract
   specification: one thread per run and channel.
3. `ConditionExpressions`: and, or, is, is-not with their depth and value rules, as recursive
   functions checked against a reference evaluation over bounded expressions.
4. A composition of `RunLifecycle` with several runs of one channel: which of them archives
   it, and what that does to the others.
5. Proofs: `InSync` without `OneSends`, for which a version must say which of the messages that lead to
   it the client may skip.
