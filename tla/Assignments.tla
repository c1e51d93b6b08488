---------------------------- MODULE Assignments ----------------------------
(***************************************************************************)
(* The people of one run: its owner, its participants and followers, whom  *)
(* its tasks are assigned to, and two of its properties, a field that      *)
(* holds a user and a field that decides which conditional tasks are       *)
(* shown.  Owner and tasks are in the row of the run, which every handler  *)
(* writes back whole; participants and followers are in a table of their   *)
(* own and property values in another, each changed by its own statement.  *)
(*                                                                         *)
(* The run is in progress, belongs to a team and was made from a playbook  *)
(* the team can see, and no user is a system admin.  Checking permissions  *)
(* and reading the run is one step, users who follow or unfollow the run   *)
(* of their own accord are left out, and so are tasks that move.           *)
(***************************************************************************)
EXTENDS SequencesExt

CONSTANTS
    Users,
    Creator,        \* the user who started the run, its first owner
    None,           \* no user
    Options,        \* values of the select field
    Unset,          \* the one that stands for no value
    Shown,          \* those for which the conditional tasks are shown
    Tasks,          \* kinds and conditions of the tasks the run starts with
    Handlers,       \* goroutines serving requests
    MaxItems,       \* bound: tasks of the run
    MaxRequests,    \* bound: requests
    MaxMishaps      \* bound: calls that fail, and users who leave the team

VARIABLES
    row,            \* owner and tasks in the database
    participants,   \* users whose IsParticipant is set
    followers,      \* users whose IsFollower is set
    values,         \* the run's property values
    team,           \* members of the run's team
    hdl,            \* per handler: what it read, what it does next
    budget,         \* what is left of the bounds
    missed          \* history: ways in which a change got lost

vars == <<row, participants, followers, values, team, hdl, budget, missed>>

-----------------------------------------------------------------------------
(* Tasks. *)

SpecificUser == "user"
OwnerRole    == "owner"
CreatorRole  == "creator"
PropertyUser == "property_user"
Types == {SpecificUser, OwnerRole, CreatorRole, PropertyUser}

ASSUME AssignmentsAssumption ==
    /\ Creator \in Users
    /\ None \notin Users
    /\ Unset \in Options
    /\ Shown \subseteq Options
    /\ Tasks \in Seq([type : Types, conditional : BOOLEAN])
    /\ MaxRequests \in Nat /\ MaxMishaps \in Nat

(* modified: a time is recorded at which the assignee or the state changed. *)
Item == [ type        : Types,
          assignee    : Users \cup {None},
          modified    : BOOLEAN,
          conditional : BOOLEAN,
          action      : {"", "hidden", "shown_because_modified"} ]

Values == [user : Users \cup {None}, select : Options]

Assigned(item, type, user) ==
    [item EXCEPT !.type = type, !.assignee = user, !.modified = TRUE]

(* Tasks that have the assignee already are left alone. *)
Reassigned(items, type, user) ==
    [i \in DOMAIN items |->
        IF items[i].type = type /\ items[i].assignee # user
        THEN Assigned(items[i], type, user) ELSE items[i]]

(* Mutant: only tasks that have nobody yet go to the new owner. *)
ResolveUnassigned(items, owner) ==
    [i \in DOMAIN items |->
        IF items[i].type = OwnerRole /\ items[i].assignee = None
        THEN Assigned(items[i], OwnerRole, owner) ELSE items[i]]

ResolveOwnerRoleAssignments(items, owner) == Reassigned(items, OwnerRole, owner)

ResolvePropertyUserAssignments(items, user) == Reassigned(items, PropertyUser, user)

(* Mutant: work on a task does not keep it from being hidden. *)
ActionIgnoringWork(item, met) == IF met THEN "" ELSE "hidden"

ActionOf(item, met) ==
    CASE met                    -> ""
      [] ~met /\ item.modified  -> "shown_because_modified"
      [] ~met /\ ~item.modified -> "hidden"

ApplyConditionResults(items, met) ==
    [i \in DOMAIN items |->
        IF items[i].conditional
        THEN [items[i] EXCEPT !.action = ActionOf(items[i], met)] ELSE items[i]]

-----------------------------------------------------------------------------
(* A request is a record of the steps its handler has still to take, the   *)
(* copy of the run it writes and what others changed since it read the run.*)

Idle   == [todo |-> <<>>]
NoCopy == [owner |-> None, items |-> <<>>]

MayView(u) == u \in team
MayEdit(u) == MayView(u) /\ (u = row.owner \/ u \in participants)

Begin(h, todo, who, copy, field, value) ==
    /\ hdl[h] = Idle
    /\ budget.requests > 0
    /\ budget' = [budget EXCEPT !.requests = @ - 1]
    /\ hdl' = [hdl EXCEPT ![h] =
                  [ todo   |-> todo,
                    who    |-> who,
                    copy   |-> copy,
                    field  |-> field,
                    value  |-> value,
                    behind |-> {} ]]
    /\ UNCHANGED <<row, participants, followers, values, team, missed>>

(* AddParticipants: invite the members of the team, make them follow. *)
Adding == <<"member", "join", "follow">>

(* Participants who are removed no longer follow the run. *)
Removing == <<"remove", "unfollow">>

(* A user who gets a task joins the run only if its owner assigned it. *)
AddAssignee(u, a) ==
    IF a \notin participants \cup {None, row.owner} /\ u = row.owner
    THEN Adding ELSE <<>>

BeginWrite(h, u, items, a) ==
    Begin(h, <<"write">> \o AddAssignee(u, a), a,
          [row EXCEPT !.items = items], "", None)

ModifyCheckedState(h, u, i) ==
    /\ MayEdit(u)
    /\ BeginWrite(h, u, [row.items EXCEPT ![i].modified = TRUE], None)

AssignTask(h, u, i, type, a) ==
    /\ MayEdit(u)
    /\ <<row.items[i].type, row.items[i].assignee>> # <<type, a>>
    /\ BeginWrite(h, u, [row.items EXCEPT ![i] = Assigned(@, type, a)], a)

SetAssignee(h, u, i, a) == AssignTask(h, u, i, SpecificUser, a)

SetRoleAssignee(h, u, i) ==
    \/ AssignTask(h, u, i, OwnerRole, row.owner)
    \/ AssignTask(h, u, i, CreatorRole, Creator)

SetPropertyUserAssignee(h, u, i) == AssignTask(h, u, i, PropertyUser, values.user)

(* A new task may come with an assignee, or with a kind of assignee: it is *)
(* kept as it comes.                                                       *)
AddChecklistItem(h, u, type, a) ==
    /\ MayEdit(u)
    /\ Len(row.items) < MaxItems
    /\ type # SpecificUser => a = None
    /\ BeginWrite(h, u, Append(row.items, [ type        |-> type,
                                            assignee    |-> a,
                                            modified    |-> FALSE,
                                            conditional |-> FALSE,
                                            action      |-> "" ]), None)

ChangeOwner(h, u, o) ==
    /\ MayEdit(u)
    /\ o # row.owner
    /\ o \in team
    /\ Begin(h, Adding \o <<"write">>, o,
             [owner |-> o, items |-> ResolveOwnerRoleAssignments(row.items, o)],
             "", None)

AddParticipants(h, u, v) ==
    /\ IF u = v THEN MayView(u) ELSE MayEdit(u)
    /\ Begin(h, Adding, v, NoCopy, "", None)

(* Mutant: the owner may leave. *)
RemoveAnyone(h, u, v) ==
    /\ IF u = v THEN MayView(u) ELSE MayEdit(u)
    /\ Begin(h, Removing, v, NoCopy, "", None)

(* Whoever owns the run when it is read stays. *)
RemoveParticipants(h, u, v) ==
    /\ IF u = v THEN MayView(u) ELSE MayEdit(u)
    /\ v # row.owner
    /\ Begin(h, Removing, v, NoCopy, "", None)

(* Mutant: setting the value the field has already leaves the tasks alone. *)
SetNewUserProperty(h, u, v) ==
    LET items == ResolvePropertyUserAssignments(row.items, v)
    IN  /\ MayEdit(u)
        /\ v \in team \cup {None}
        /\ IF v # values.user
           THEN Begin(h, <<"upsert", "write">>, v,
                      [row EXCEPT !.items = items], "user", v)
           ELSE Begin(h, <<"upsert">>, v, NoCopy, "user", v)

(* The value is stored first; the tasks are written if the value, as read, *)
(* was another, or if a task has another assignee.  Conditions are on the  *)
(* other field alone, so evaluating them again changes nothing here.       *)
SetUserProperty(h, u, v) ==
    LET items == ResolvePropertyUserAssignments(row.items, v)
        copy  == [row EXCEPT !.items = items]
        steps == <<"upsert", "write">>
                    \o IF items # row.items THEN AddAssignee(u, v) ELSE <<>>
    IN  /\ MayEdit(u)
        /\ v \in team \cup {None}
        /\ IF v # values.user \/ items # row.items
           THEN Begin(h, steps, v, copy, "user", v)
           ELSE Begin(h, <<"upsert">>, None, NoCopy, "user", v)

(* Mutant: conditions are evaluated before the value read is replaced. *)
SetSelectEvaluateFirst(h, u, v) ==
    LET items == ApplyConditionResults(row.items, values.select \in Shown)
    IN  /\ MayEdit(u)
        /\ IF v # values.select
           THEN Begin(h, <<"upsert", "write">>, None,
                      [row EXCEPT !.items = items], "select", v)
           ELSE Begin(h, <<"upsert">>, None, NoCopy, "select", v)

(* Conditions are evaluated only for a value that differs. *)
SetSelectProperty(h, u, v) ==
    LET items == ApplyConditionResults(row.items, v \in Shown)
    IN  /\ MayEdit(u)
        /\ IF v # values.select
           THEN Begin(h, <<"upsert", "write">>, None,
                      [row EXCEPT !.items = items], "select", v)
           ELSE Begin(h, <<"upsert">>, None, NoCopy, "select", v)

TaskRequest(h, u) ==
    \/ \E i \in DOMAIN row.items :
        \/ ModifyCheckedState(h, u, i)
        \/ \E a \in Users \cup {None} : SetAssignee(h, u, i, a)
        \/ SetRoleAssignee(h, u, i)
        \/ SetPropertyUserAssignee(h, u, i)
    \/ \E type \in Types, a \in Users \cup {None} : AddChecklistItem(h, u, type, a)

PeopleRequest(h, u) ==
    \E v \in Users :
        \/ ChangeOwner(h, u, v)
        \/ AddParticipants(h, u, v)
        \/ RemoveParticipants(h, u, v)

PropertyRequest(h, u) ==
    \/ \E v \in Users \cup {None} : SetUserProperty(h, u, v)
    \/ \E v \in Options : SetSelectProperty(h, u, v)

-----------------------------------------------------------------------------
(* The steps of a request. *)

AtStep(h, step) == hdl[h] # Idle /\ Head(hdl[h].todo) = step

(* The handler goes on with the steps of todo; what it has changed is news *)
(* to the others.                                                          *)
Advance(h, todo, copy, news) ==
    hdl' = [k \in Handlers |->
               IF k = h THEN IF todo = <<>> THEN Idle
                             ELSE [hdl[k] EXCEPT !.todo = todo, !.copy = copy]
               ELSE IF hdl[k] = Idle THEN Idle
                    ELSE [hdl[k] EXCEPT !.behind = @ \cup news]]

NextStep(h) == Advance(h, Tail(hdl[h].todo), hdl[h].copy, {})

(* Somebody is adding, or removing, the user in another request. *)
Crosses(h, steps) ==
    \E k \in Handlers : /\ hdl[k] # Idle
                       /\ hdl[k].who = hdl[h].who
                       /\ Head(hdl[k].todo) \in steps

(* A property whose value is stored and whose tasks are not written yet. *)
Unfinished(request) ==
    IF request.field = "user" THEN {"unassigned"}
    ELSE IF request.field = "select" THEN {"unapplied"} ELSE {}

(* If the user field already had the value and so did the tasks, they are  *)
(* right again after an earlier failure.                                   *)
Upsert(h) ==
    LET stored == [user   |-> IF hdl[h].field = "user" THEN hdl[h].value ELSE values.user,
                   select |-> IF hdl[h].field = "select" THEN hdl[h].value ELSE values.select]
        todo   == Tail(hdl[h].todo)
        fixed  == IF hdl[h].field = "user" /\ todo = <<>> /\ hdl[h].behind = {}
                  THEN {"unassigned"} ELSE {}
    IN  /\ AtStep(h, "upsert")
        /\ values' = stored
        /\ Advance(h, todo, hdl[h].copy, IF stored # values THEN {"stale"} ELSE {})
        /\ missed' = (missed \ fixed) \cup (hdl[h].behind \cap {"stale"})
        /\ UNCHANGED <<row, participants, followers, team, budget>>

(* The whole row is written, whatever it holds by now. *)
WriteRun(h) ==
    LET news == (IF hdl[h].copy # row THEN {"overwritten"} ELSE {})
                    \cup (IF hdl[h].copy.owner # row.owner THEN {"owner"} ELSE {})
    IN  /\ AtStep(h, "write")
        /\ row' = hdl[h].copy
        /\ Advance(h, Tail(hdl[h].todo), NoCopy, news)
        /\ missed' = (missed \ Unfinished(hdl[h]))
                        \cup (hdl[h].behind \cap {"overwritten", "stale"})
        /\ UNCHANGED <<participants, followers, values, team, budget>>

(* A user who is not a member is passed over; changing the owner goes on. *)
CheckMember(h) ==
    LET todo == Tail(hdl[h].todo)
        rest == SubSeq(todo, 3, Len(todo))
    IN  /\ AtStep(h, "member")
        /\ IF hdl[h].who \in team
           THEN NextStep(h) /\ UNCHANGED missed
           ELSE /\ Advance(h, rest, hdl[h].copy, {})
                /\ missed' = IF rest # <<>> THEN missed \cup {"passed"} ELSE missed
        /\ UNCHANGED <<row, participants, followers, values, team, budget>>

Join(h) ==
    /\ AtStep(h, "join")
    /\ participants' = participants \cup {hdl[h].who}
    /\ NextStep(h)
    /\ missed' = IF Crosses(h, {"unfollow"}) THEN missed \cup {"crossed"} ELSE missed
    /\ UNCHANGED <<row, followers, values, team, budget>>

Follow(h) ==
    /\ AtStep(h, "follow")
    /\ followers' = followers \cup {hdl[h].who}
    /\ NextStep(h)
    /\ UNCHANGED <<row, participants, values, team, budget, missed>>

(* The run may have a new owner since the handler checked, or get one. *)
Leave(h) ==
    /\ AtStep(h, "remove")
    /\ participants' = participants \ {hdl[h].who}
    /\ NextStep(h)
    /\ missed' = IF "owner" \in hdl[h].behind \/ Crosses(h, {"follow", "write"})
                 THEN missed \cup {"crossed"} ELSE missed
    /\ UNCHANGED <<row, followers, values, team, budget>>

Unfollow(h) ==
    /\ AtStep(h, "unfollow")
    /\ followers' = followers \ {hdl[h].who}
    /\ NextStep(h)
    /\ UNCHANGED <<row, participants, values, team, budget, missed>>

(* A call that fails ends the request. *)
Fail(h) ==
    /\ hdl[h] # Idle
    /\ budget.mishaps > 0
    /\ budget' = [budget EXCEPT !.mishaps = @ - 1]
    /\ hdl' = [hdl EXCEPT ![h] = Idle]
    /\ missed' = missed
            \cup (IF AtStep(h, "write") THEN Unfinished(hdl[h]) ELSE {})
    /\ UNCHANGED <<row, participants, followers, values, team>>

LeaveTeam(u) ==
    /\ budget.mishaps > 0
    /\ budget' = [budget EXCEPT !.mishaps = @ - 1]
    /\ team' = team \ {u}
    /\ UNCHANGED <<row, participants, followers, values, hdl, missed>>

-----------------------------------------------------------------------------
(* The run is made without values for its fields: its roles are resolved,  *)
(* then its conditions.                                                    *)
ResolvedRole(type) == CASE type \in {OwnerRole, CreatorRole}     -> Creator
                        [] type \in {SpecificUser, PropertyUser} -> None

ResolveRoleAssignments ==
    [i \in DOMAIN Tasks |-> [ type        |-> Tasks[i].type,
                              assignee    |-> ResolvedRole(Tasks[i].type),
                              modified    |-> FALSE,
                              conditional |-> Tasks[i].conditional,
                              action      |-> "" ]]

Init ==
    /\ values = [user |-> None, select |-> Unset]
    /\ row = [owner |-> Creator,
              items |-> ApplyConditionResults(ResolveRoleAssignments,
                                              values.select \in Shown)]
    /\ participants = {Creator}
    /\ followers = {Creator}
    /\ team = Users
    /\ hdl = [h \in Handlers |-> Idle]
    /\ budget = [requests |-> MaxRequests, mishaps |-> MaxMishaps]
    /\ missed = {}

Next ==
    \/ \E h \in Handlers :
        \/ \E u \in Users : \/ TaskRequest(h, u)
                            \/ PeopleRequest(h, u)
                            \/ PropertyRequest(h, u)
        \/ Upsert(h)
        \/ WriteRun(h)
        \/ CheckMember(h)
        \/ Join(h)
        \/ Follow(h)
        \/ Leave(h)
        \/ Unfollow(h)
        \/ Fail(h)
    \/ \E u \in Users : LeaveTeam(u)

Spec == Init /\ [][Next]_vars

-----------------------------------------------------------------------------
(* Properties. *)

Run == [owner : Users, items : Seq(Item)]

Steps == {"upsert", "write", "member", "join", "follow", "remove", "unfollow"}

Request == [ todo   : Seq(Steps) \ {<<>>},
             who    : Users \cup {None},
             copy   : Run \cup {NoCopy},
             field  : {"", "user", "select"},
             value  : Users \cup Options \cup {None},
             behind : SUBSET {"overwritten", "stale", "owner"} ]

(* Every variable keeps its type; in particular only users take part in    *)
(* the run, follow it or own it.                                           *)
TypeOK ==
    /\ row \in Run
    /\ participants \subseteq Users
    /\ followers \subseteq Users
    /\ values \in Values
    /\ team \subseteq Users
    /\ hdl \in [Handlers -> {Idle} \cup Request]
    /\ missed \subseteq {"overwritten", "stale", "passed", "crossed",
                          "unassigned", "unapplied"}

(* A task of the owner is the owner's and one of the creator the           *)
(* creator's, unless nobody has been put in since it was added: however    *)
(* handlers overlap, owner and tasks are never from different versions.    *)
RoleKept(run, item) ==
    /\ item.type = OwnerRole   => item.assignee \in {run.owner, None}
    /\ item.type = CreatorRole => item.assignee \in {Creator, None}

RolesFollowOwner == \A i \in DOMAIN row.items : RoleKept(row, row.items[i])

(* The owner takes part in the run ("owner user can't leave the run"),     *)
(* also while requests are being served, except when a row was             *)
(* overwritten, when the owner was changed to a user who was being         *)
(* removed, or to one who left the team in the meantime.                   *)
OwnerTakesPart ==
    missed \cap {"overwritten", "crossed", "passed"} = {}
        => row.owner \in participants

Quiet == \A h \in Handlers : hdl[h] = Idle

(* Between requests a task assigned through the user field has the user    *)
(* the field holds, unless it was added so and the field not set since. A  *)
(* handler that overlapped another may have left an older user, and so may *)
(* one that stored the value and failed to write the tasks; setting the    *)
(* same value again puts that right.                                       *)
AssigneesFollowField ==
    Quiet /\ missed \cap {"overwritten", "stale", "unassigned"} = {} =>
        \A i \in DOMAIN row.items :
            row.items[i].type = PropertyUser =>
                row.items[i].assignee \in {values.user, None}

(* Between requests the conditional tasks are those the select field's     *)
(* value calls for, touched ones being shown in any case.  Here setting    *)
(* the same value again does not repair a write that failed.               *)
ConditionsApplied ==
    Quiet /\ missed \cap {"overwritten", "stale", "unapplied"} = {} =>
        \A i \in DOMAIN row.items :
            row.items[i].conditional =>
                IF values.select \in Shown THEN row.items[i].action = ""
                ELSE /\ row.items[i].action # ""
                     /\ row.items[i].action = "shown_because_modified"
                            => row.items[i].modified

(* A task somebody has worked on is not hidden again, whatever happens to  *)
(* the select field, unless a handler overwrites the work itself.          *)
TouchedStaysVisible ==
    [][ "overwritten" \notin missed' =>
            \A i \in DOMAIN row.items :
                row.items[i].modified /\ row.items[i].action # "hidden"
                    => row'.items[i].action # "hidden" ]_vars
=============================================================================
