------------------------------ MODULE MCRunViews ------------------------------
(* One of three is on the screen: the list of runs, the sidebar (whose      *)
(* variables begin with s here) or a task (t), of which one field changes,  *)
(* or the two that are saved together.  The others keep their first state.  *)
(* The sidebar starts in either channel, or in the one that has all runs.   *)
EXTENDS RunsList

CONSTANTS Channels, MaxRuns, PageSize, StoredHere, Values, Roles, Properties, Unchosen, MaxClicks, MaxOthers, MaxFailures

VARIABLES
    screen,
    sServer, sChannel, sOptions, sCache, sRequests, sCurrent, sCheckedFor, sCreating,
    sMoving, sEvents, sCreated, sTouched, sWhy,
    focus, tStored, tSeen, tShown, tEditing, tTyped, tRequests, tSent, tCallSeq, tEvents,
    tOthers, tFailures, tChoice, tLost, tBehind

sidebarVars == <<sServer, sChannel, sOptions, sCache, sRequests, sCurrent, sCheckedFor,
                 sCreating, sMoving, sEvents, sCreated, sTouched, sWhy>>

Sidebar == INSTANCE RunsSidebar WITH
    Runs <- 1..MaxRuns, Stored <- StoredHere,
    server <- sServer, channel <- sChannel, options <- sOptions, cache <- sCache,
    requests <- sRequests, current <- sCurrent, checkedFor <- sCheckedFor,
    creating <- sCreating, moving <- sMoving, events <- sEvents, created <- sCreated,
    touched <- sTouched, why <- sWhy

(* A page has room for more than a single run.                             *)
ASSUME SidebarAssumption ==
    /\ MaxRuns \in Nat
    /\ PageSize \in Nat /\ PageSize > 1
    /\ "none" \notin Channels
    /\ StoredHere \subseteq [1..MaxRuns -> [channel : Channels \cup {"none"}, state : Sidebar!State]]

(* To choose nothing is no value of a field.                               *)
ASSUME RowAssumption ==
    /\ Unchosen \notin Values \cup Properties \cup {0, 1}
    /\ Unchosen \notin Roles \cup {"", "property_user", "open", "closed", "skipped"}

taskVars == <<focus, tStored, tSeen, tShown, tEditing, tTyped, tRequests, tSent, tCallSeq, tEvents,
              tOthers, tFailures, tChoice, tLost, tBehind>>

Row == INSTANCE TaskRow WITH
    MaxEvents <- MaxClicks,
    stored <- tStored, seen <- tSeen, shown <- tShown, editing <- tEditing, typed <- tTyped,
    requests <- tRequests, sent <- tSent, callSeq <- tCallSeq, events <- tEvents,
    others <- tOthers, failures <- tFailures, choice <- tChoice, lost <- tLost, behind <- tBehind

(* Six runs, the last of another team. *)
Homes == [r \in 1..6 |-> IF r = 6 THEN "t2" ELSE "t1"]
LastUpdated == {<<3, 1, 4, 2>>}

Run(c, s) == [channel |-> c, state |-> s]
OneOrThree ==
    {<<Run("c1", "InProgress"), Run("c2", "InProgress"), Run("c1", "Finished"), Run("none", "InProgress")>>,
     <<Run("c1", "InProgress"), Run("c1", "InProgress"), Run("c1", "InProgress"), Run("none", "InProgress")>>}

Focuses == {Row!AssigneeFields, {"state"}, {"title", "command"}, {"dueDate"}, {"taskActions"}}

MCInit ==
    /\ screen \in {"list", "sidebar", "task"}
    /\ Init /\ Sidebar!Init /\ Row!Init
    /\ focus \in IF screen = "task" THEN Focuses ELSE {{}}
    /\ screen # "list" => list = CHOOSE l \in Lists : TRUE
    /\ screen # "sidebar" => sServer = CHOOSE f \in StoredHere : TRUE
    /\ screen # "sidebar" \/ (\A r \in 1..3 : sServer[r] = Run("c1", "InProgress"))
         => sChannel = "c1"

RowNext ==
    /\ Row!Next
    /\ \A f \in Row!Fields \ focus :
         tChoice'[f] = tChoice[f] /\ Last(tStored').task[f] = Last(tStored).task[f]
    /\ "title" \in focus \/ UNCHANGED <<tEditing, tTyped>>
    /\ focus' = focus

MCNext ==
    /\ screen' = screen
    /\ \/ screen = "list" /\ Next /\ UNCHANGED <<sidebarVars, taskVars>>
       \/ screen = "sidebar" /\ Sidebar!Next /\ UNCHANGED <<vars, taskVars>>
       \/ screen = "task" /\ RowNext /\ UNCHANGED <<vars, sidebarVars>>

MCSpec == MCInit /\ [][MCNext]_<<screen, vars, sidebarVars, taskVars>>

SingleRunOpens == Sidebar!SingleRunOpens
CreatedRunOpens == Sidebar!CreatedRunOpens
RowShowsTask == Row!RowShowsTask
ChoicesStored == Row!ChoicesStored
=============================================================================
