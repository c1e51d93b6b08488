-------------------------- MODULE PlaybookSettings --------------------------
(***************************************************************************)
(* The editor of a playbook, and the two ways it saves.  Checklists,       *)
(* invitations and the channel mode go out as GraphQL mutations that       *)
(* change some columns; the four toggles of the outline (auto-archive,     *)
(* admins only, owner only, new channel only) write the WHOLE playbook     *)
(* over REST, three of them after fetching it, the fourth from what was    *)
(* fetched when the page was opened.  A toggle is shown as set before it   *)
(* is saved and goes back when saving fails.                               *)
(*                                                                         *)
(* The user is an admin of the playbook, which is not archived.            *)
(***************************************************************************)
EXTENDS Integers, FiniteSets

CONSTANTS
    Users,
    MaxOps,         \* bound: what the user does on the page
    MaxTrouble      \* bound: requests that fail, edits of others, users leaving

ASSUME SettingsAssumption ==
    MaxOps \in Nat /\ MaxTrouble \in Nat

(* Settings: columns written by the toggles.  GraphQL: by mutations.       *)
Settings == {"autoArchive", "adminOnly", "ownerOnly", "newOnly"}
GraphQL  == {"checklists", "invited", "inviteOn", "linked"}
Columns  == Settings \cup GraphQL

(* checklists: the edits they hold and the users their tasks are assigned  *)
(* to.  linked: runs use an existing channel.                              *)
Playbook == [ checklists : [edits : SUBSET Nat, assignees : SUBSET Users],
              invited    : SUBSET Users,
              inviteOn   : BOOLEAN,
              linked     : BOOLEAN,
              autoArchive : BOOLEAN, adminOnly : BOOLEAN,
              ownerOnly   : BOOLEAN, newOnly   : BOOLEAN ]

VARIABLES
    server,         \* the playbook in the database
    apollo,         \* the page's copy for GraphQL
    restPlaybook,   \* what REST answered when the page was opened
    shown,          \* the toggles as the page shows them
    mode,           \* the channel mode: shown, last sent, to be sent
    latest,         \* number of the last admins-only request
    requests,       \* under way
    team,           \* users of the playbook's team
    used,           \* what is used up of the bounds
    written,        \* history: the last request that wrote, per toggle, and the mode
    why             \* history: how things may have gone apart

vars == <<server, apollo, restPlaybook, shown, mode, latest, requests, team, used, written, why>>

-----------------------------------------------------------------------------
(* What the server accepts. *)

(* The playbook d with the given columns of e. *)
Merged(d, e, columns) == [c \in Columns |-> IF c \in columns THEN e[c] ELSE d[c]]

ValidatePreAssignment(d) ==
    /\ d.checklists.assignees # {} => d.inviteOn
    /\ d.checklists.assignees \subseteq d.invited

ValidateNewChannelOnlyMode(d) == ~(d.newOnly /\ d.linked)

(* Mutant: a mutation of the invitations alone is not validated. *)
ValidChecklists(columns, d) ==
    /\ columns # GraphQL \cap columns => ValidateNewChannelOnlyMode(d)
    /\ "checklists" \in columns => ValidatePreAssignment(d)

(* Writing everything checks the channel mode, a mutation does not. *)
Valid(columns, d) ==
    /\ columns # GraphQL \cap columns => ValidateNewChannelOnlyMode(d)
    /\ columns \cap {"checklists", "invited", "inviteOn"} # {} => ValidatePreAssignment(d)

-----------------------------------------------------------------------------
(* A request: what it is for, the columns it writes and their values, the  *)
(* toggle to go back to on failure, the handler's progress, and as history *)
(* what the handler saw, whether another request for the same toggle was   *)
(* under way with it, and whether it had the page and the server alone.    *)

Steps == {"fetch", "save", "write", "answer"}

Request == [ id : Nat, for : Settings \cup {"mutation"}, columns : SUBSET Columns,
             new : Playbook, prev : BOOLEAN, forced : BOOLEAN, step : Steps,
             seen : Playbook, raced : BOOLEAN, alone : BOOLEAN ]

Quiet == requests = {} /\ ~mode.due

(* The page knows what is in the database. *)
UpToDate == /\ \A c \in GraphQL  : apollo[c] = server[c]
            /\ \A s \in Settings : shown[s] = server[s]

(* A request has the page and the server for itself. *)
Alone(columns) == requests = {} /\ UpToDate /\ (mode.due => columns = {"linked"})

NoMoreAlone(rs) == {[r EXCEPT !.alone = FALSE] : r \in rs}

Rivals(s) == {r \in requests : r.for = s}

(* Used up of the bounds: requests, steps of others, failures. *)
Start(for, columns, new, prev, forced, step) ==
    requests' =
        { [ id |-> used.ops + 1, for |-> for, columns |-> columns, new |-> new,
            prev |-> prev, forced |-> forced, step |-> step, seen |-> new,
            raced |-> for # "mutation" /\ Rivals(for) # {},
            alone |-> Alone(columns) ] }
        \cup {[r EXCEPT !.alone = FALSE, !.raced = @ \/ r.for = for] : r \in requests}

Spend(what) == used' = [used EXCEPT ![what] = @ + 1]

Step(r, next) == requests' = (requests \ {r}) \cup {[r EXCEPT !.step = next]}

-----------------------------------------------------------------------------
(* Mutations.  new is computed from the page's copy of the playbook.       *)

Send(columns, new) ==
    /\ Start("mutation", columns, new, FALSE, FALSE, "save")
    /\ UNCHANGED <<server, apollo, restPlaybook, shown, latest, team, written, why>>

Mutate(columns, new) ==
    /\ used.ops < MaxOps
    /\ Spend("ops")
    /\ Send(columns, new)
    /\ UNCHANGED mode

(* The checklist editor saves all checklists.  Users who have got a task   *)
(* are invited, and invitations are turned on.                             *)
EditChecklists(assignees) ==
    LET new == [apollo EXCEPT !.checklists = [ edits     |-> @.edits \cup {used.ops + used.trouble + 1},
                                               assignees |-> assignees ],
                              !.invited = @ \cup assignees,
                              !.inviteOn = @ \/ assignees # {}]
    IN  Mutate({"checklists"}
               \cup (IF new.invited # apollo.invited THEN {"invited"} ELSE {})
               \cup (IF new.inviteOn # apollo.inviteOn THEN {"inviteOn"} ELSE {}),
               new)

HandleAddUserInvited(u) ==
    /\ apollo.inviteOn /\ u \notin apollo.invited
    /\ Mutate({"invited"}, [apollo EXCEPT !.invited = @ \cup {u}])

(* A user with tasks is removed after asking, and the tasks are unassigned.*)
HandleRemoveUser(u) ==
    /\ apollo.inviteOn /\ u \in apollo.invited
    /\ IF u \in apollo.checklists.assignees
       THEN Mutate({"checklists", "invited"},
                   [apollo EXCEPT !.checklists.assignees = @ \ {u}, !.invited = @ \ {u}])
       ELSE Mutate({"invited"}, [apollo EXCEPT !.invited = @ \ {u}])

(* So are all tasks when invitations are turned off. *)
HandleToggle ==
    IF apollo.checklists.assignees # {} /\ apollo.inviteOn
    THEN Mutate({"checklists", "inviteOn"},
                [apollo EXCEPT !.checklists.assignees = {}, !.inviteOn = FALSE])
    ELSE Mutate({"inviteOn"}, [apollo EXCEPT !.inviteOn = ~@])

(* Shown at once and sent later.  Linking is offered unless the page shows *)
(* that a new channel is required.                                         *)
HandleChannelModeChange ==
    /\ used.ops < MaxOps
    /\ ~mode.linked => ~shown.newOnly
    /\ Spend("ops")
    /\ mode' = [mode EXCEPT !.linked = ~@, !.due = TRUE]
    /\ UNCHANGED <<server, apollo, restPlaybook, shown, latest, requests, team, written, why>>

(* Half a second after the last click. *)
SendChannelMode ==
    /\ mode.due
    /\ mode' = [mode EXCEPT !.check = mode.linked, !.due = FALSE]
    /\ Send({"linked"}, [apollo EXCEPT !.linked = mode.linked])
    /\ UNCHANGED used

-----------------------------------------------------------------------------
(* Toggles. *)

Show(s, value) == shown' = [shown EXCEPT ![s] = value]

(* Mutant: what REST answered on opening is written, without fetching. *)
ToggleUnfetched(s, value, forced) ==
    /\ used.ops < MaxOps + MaxTrouble + 1
    /\ Spend("ops")
    /\ Show(s, value)
    /\ latest' = IF s = "adminOnly" THEN used.ops + 1 ELSE latest
    /\ Start(s, Columns, [restPlaybook EXCEPT ![s] = value], shown[s], forced, "save")
    /\ UNCHANGED <<server, apollo, restPlaybook, mode, team, written, why>>

(* The page keeps the latest playbook it fetched but for the toggle. *)
ToggleFetched(s, value, forced) ==
    /\ used.ops < MaxOps + MaxTrouble + 1
    /\ Spend("ops")
    /\ Show(s, value)
    /\ latest' = IF s = "adminOnly" THEN used.ops + 1 ELSE latest
    /\ Start(s, Columns, [server EXCEPT ![s] = value], shown[s], forced, "fetch")
    /\ UNCHANGED <<server, apollo, restPlaybook, mode, team, written, why>>

HandleAutoArchiveChange ==
    /\ used.ops < MaxOps /\ ~mode.linked
    /\ ToggleFetched("autoArchive", ~shown.autoArchive, FALSE)

(* An effect: where runs use an existing channel, it is never archived.    *)
ForcedLinkedReset ==
    /\ mode.linked /\ shown.autoArchive
    /\ ToggleFetched("autoArchive", FALSE, restPlaybook.linked)

HandleAdminOnlyEditChange ==
    /\ used.ops < MaxOps
    /\ ToggleFetched("adminOnly", ~shown.adminOnly, FALSE)

(* Disabled while it is saved. *)
HandleOwnerGroupOnlyActionsChange ==
    /\ used.ops < MaxOps
    /\ Rivals("ownerOnly") = {}
    /\ ToggleFetched("ownerOnly", ~shown.ownerOnly, FALSE)

(* Writes the playbook of the day the page was opened. *)
HandleNewChannelOnlyChange ==
    LET value == ~shown.newOnly IN
    /\ used.ops < MaxOps
    /\ Rivals("newOnly") = {}
    /\ Spend("ops")
    /\ Show("newOnly", value)
    /\ Start("newOnly", Columns,
             [restPlaybook EXCEPT !.newOnly = value, !.linked = @ /\ ~value],
             shown.newOnly, FALSE, "save")
    /\ UNCHANGED <<server, apollo, restPlaybook, mode, latest, team, written, why>>

-----------------------------------------------------------------------------
(* A request on its way. *)

Fetched(r) ==
    /\ r.step = "fetch"
    /\ requests' = (requests \ {r})
           \cup {[r EXCEPT !.new = [server EXCEPT ![r.for] = r.new[r.for]], !.step = "save"]}
    /\ UNCHANGED <<server, apollo, restPlaybook, shown, mode, latest, team, used, written, why>>

(* Users who are not of the team are taken off the invitations: before     *)
(* validation when everything is written, after it in a mutation.          *)
Filtered(r) == [r.new EXCEPT !.invited = @ \cap team]
Validated(r) == Merged(server, IF r.for = "mutation" THEN r.new ELSE Filtered(r), r.columns)

Accept(r) ==
    /\ r.step = "save"
    /\ Valid(r.columns, Validated(r))
    /\ requests' = (requests \ {r})
           \cup {[r EXCEPT !.new = Filtered(r), !.seen = server, !.step = "write"]}
    /\ why' = IF r.for = "mutation" /\ r.new # Filtered(r) THEN why \cup {"filtered"} ELSE why
    /\ UNCHANGED <<server, apollo, restPlaybook, shown, mode, latest, team, used, written>>

(* Columns that validation relates to one another. *)
Related == {"checklists", "invited", "inviteOn"}

(* What a request is to set: its toggle or, alone, the channel mode.       *)
Subject(r) == IF r.columns = {"linked"} THEN "linked" ELSE r.for

Subjects == Settings \cup {"linked"}

(* What a write may spoil. *)
Spoils(r) ==
    (IF r.for = "mutation" /\ \E c \in Related : r.seen[c] # server[c]
     THEN {"crossed"} ELSE {})
    \cup (IF r.for # "mutation" /\ \E c \in (Settings \ {r.for}) \cup {"linked"} : r.new[c] # server[c]
          THEN {"overwrote"} ELSE {})
    \cup (IF Subject(r) \in Subjects /\ written[Subject(r)] > r.id THEN {"reordered"} ELSE {})

(* The statement; mutations leave the other columns alone. *)
Write(r) ==
    /\ r.step = "write"
    /\ server' = Merged(server, r.new, r.columns)
    /\ written' = [s \in Subjects |-> IF s = Subject(r) THEN r.id ELSE written[s]]
    /\ why' = why \cup Spoils(r)
    /\ Step(r, "answer")
    /\ UNCHANGED <<apollo, restPlaybook, shown, mode, latest, team, used>>

(* Answers make the page ask again, except for the owner-only toggle.  The *)
(* channel mode follows unless a click is still to be sent.                *)
Answer(r) ==
    /\ r.step = "answer"
    /\ requests' = requests \ {r}
    /\ apollo' = IF r.for = "ownerOnly" THEN apollo ELSE server
    /\ mode' = IF apollo' # apollo /\ mode.linked = mode.check
               THEN [mode EXCEPT !.linked = server.linked, !.check = server.linked] ELSE mode
    /\ UNCHANGED <<server, restPlaybook, shown, latest, team, used, written, why>>

(* Mutant: what was clicked stays shown. *)
RollbackNever(r) == shown' = shown

(* Back to what was shown before, unless it is the reset of a linked       *)
(* channel, or admins-only was toggled again.                              *)
Rollback(r) ==
    shown' = IF r.for = "mutation" \/ r.forced \/ (r.for = "adminOnly" /\ r.id # latest)
             THEN shown ELSE [shown EXCEPT ![r.for] = r.prev]

(* The two toggles that may be under way twice may go back to a value that *)
(* was never stored, and a channel mode stays shown that was not stored.   *)
Apart(r) ==
    (IF r.for = "autoArchive" /\ r.raced THEN {"failed"} ELSE {})
    \cup (IF r.for = "adminOnly" /\ r.raced /\ r.id = latest THEN {"failed"} ELSE {})
    \cup (IF r.forced THEN {"forced"} ELSE {})
    \cup (IF r.columns = {"linked"} THEN {"unlinked"} ELSE {})
    \cup (IF r.step = "answer" THEN {"answerLost"} ELSE {})

Ends(r) ==
    /\ requests' = requests \ {r}
    /\ Rollback(r)
    /\ why' = why \cup Apart(r)
    /\ UNCHANGED <<server, apollo, restPlaybook, mode, latest, team, written>>

Refuse(r) == /\ r.step = "save" /\ ~Valid(r.columns, Validated(r))
             /\ Ends(r) /\ UNCHANGED used

Fail(r) == /\ used.trouble < MaxTrouble
           /\ Spend("trouble") /\ Ends(r)

-----------------------------------------------------------------------------
(* Others. *)

(* Somebody else edits the checklists or a toggle, at once. *)
OtherEdit ==
    /\ used.trouble < MaxTrouble
    /\ Spend("trouble")
    /\ \/ server' = [server EXCEPT !.checklists.edits = @ \cup {used.ops + used.trouble + 1}]
       \/ \E s \in {"autoArchive", "adminOnly"} : server' = [server EXCEPT ![s] = ~@]
    /\ requests' = NoMoreAlone(requests)
    /\ why' = why \cup {"others"}
    /\ UNCHANGED <<apollo, restPlaybook, shown, mode, latest, team, written>>

LeaveTeam(u) ==
    /\ used.trouble < MaxTrouble
    /\ Spend("trouble")
    /\ u \in team /\ team' = team \ {u}
    /\ requests' = NoMoreAlone(requests)
    /\ UNCHANGED <<server, apollo, restPlaybook, shown, mode, latest, written, why>>

-----------------------------------------------------------------------------
Init ==
    /\ \E linked, auto, new \in BOOLEAN :
          server = [ checklists |-> [edits |-> {}, assignees |-> {}], invited |-> {},
                     inviteOn |-> TRUE, linked |-> linked /\ ~new, autoArchive |-> auto,
                     adminOnly |-> FALSE, ownerOnly |-> FALSE, newOnly |-> new ]
    /\ apollo = server
    /\ restPlaybook = server
    /\ shown = [s \in Settings |-> server[s]]
    /\ mode = [linked |-> server.linked, check |-> server.linked, due |-> FALSE]
    /\ latest = 0
    /\ requests = {}
    /\ team = Users
    /\ used = [ops |-> 0, trouble |-> 0]
    /\ written = [s \in Subjects |-> 0]
    /\ why = {}

Next ==
    \/ \E assignees \in SUBSET Users : EditChecklists(assignees)
    \/ \E u \in Users : HandleAddUserInvited(u) \/ HandleRemoveUser(u) \/ LeaveTeam(u)
    \/ HandleToggle
    \/ HandleChannelModeChange
    \/ SendChannelMode
    \/ HandleAutoArchiveChange
    \/ ForcedLinkedReset
    \/ HandleAdminOnlyEditChange
    \/ HandleOwnerGroupOnlyActionsChange
    \/ HandleNewChannelOnlyChange
    \/ \E r \in requests : \/ Fetched(r) \/ Accept(r)
                            \/ Write(r) \/ Answer(r) \/ Refuse(r) \/ Fail(r)
    \/ OtherEdit

Spec == Init /\ [][Next]_vars

-----------------------------------------------------------------------------
(* Properties. *)

(* The variables have the values the code can give them. *)
TypeOK ==
    /\ {server, apollo, restPlaybook} \subseteq Playbook
    /\ shown \in [Settings -> BOOLEAN]
    /\ mode \in [linked : BOOLEAN, check : BOOLEAN, due : BOOLEAN]
    /\ latest \in Nat
    /\ requests \subseteq Request
    /\ team \subseteq Users
    /\ used \in [ops : Nat, trouble : Nat]
    /\ written \in [Subjects -> Nat]

(* Everybody a task is assigned to is invited, and invitations are on, in  *)
(* the database and not only in each request: validatePreAssignmentUpdate  *)
(* looks at a playbook read before the write.  It may fail only when two   *)
(* mutations cross between one's read and its write, or when a mutation    *)
(* names a user who is not of the team.                                    *)
AssigneesAreInvited ==
    why \cap {"crossed", "filtered"} = {} => ValidatePreAssignment(server)

(* Once all is answered the page shows the toggles and the channel mode    *)
(* that are stored, whatever failed, but for the ways named: a save of the *)
(* whole playbook wrote older values of the others, two requests for the   *)
(* same toggle, or for the mode, were stored in the other order, two for a *)
(* toggle failed, the mutation of the channel mode failed, an answer got   *)
(* lost, or others edited.                                                 *)
ShownIsStored ==
    Quiet /\ why \cap {"overwrote", "reordered", "failed", "forced", "unlinked",
                       "answerLost", "others"} = {}
        => /\ \A s \in Settings : shown[s] = server[s]
           /\ mode.linked = server.linked

(* An edit that was stored stays, except that a request which did not have *)
(* the page and the server for itself may write older checklists, and that *)
(* the new-channel-only toggle writes those of the day the page was opened.*)
EditsSurvive ==
    [][~(server.checklists.edits \subseteq server'.checklists.edits)
        => \E r \in requests : Write(r) /\ (r.for = "newOnly" \/ ~r.alone)]_vars
=============================================================================
