------------------------------- MODULE RunsList -------------------------------
(***************************************************************************)
(* The list of runs, of a team (RunsPage), of a playbook (PlaybookUsage)   *)
(* or with the metrics of a playbook (MetricsRunList).  It grows by a page *)
(* of the server's list whenever the user scrolls to its end, and starts   *)
(* again with the first page when the choices change; a change cancels the *)
(* fetch before it.  On the page of a team it is decided once whether      *)
(* there is a list at all.                                                 *)
(***************************************************************************)
EXTENDS SequencesExt, Integers

CONSTANTS
    Home,           \* function from runs (numbers by name) to teams
    Teams,
    Mine,           \* the runs a filter lets through
    Recent,         \* the runs of the days chosen in the statistics
    Stored,         \* sequences of runs, the last updated last
    PerPage,
    Lists,          \* kinds of list: "runs", "usage", "metrics"
    MaxEvents,      \* bound: choices, scrolls, updates by others, failures
    MaxFetches      \* bound: fetches under way when a user acts

Runs == DOMAIN Home

ASSUME RunsAssumption ==
    /\ PerPage \in Nat \ {0} /\ MaxEvents \in Nat /\ MaxFetches \in Nat
    /\ Home \in [Runs -> Teams] /\ Runs \subseteq Nat /\ Mine \cup Recent \subseteq Runs
    /\ Stored \subseteq Seq(Runs)
    /\ Lists \subseteq {"runs", "usage", "metrics"}

VARIABLES
    list,       \* which list this is
    updated,    \* the runs in the database, the last updated last
    finished,   \* those finished
    team,       \* the user's current team
    fetchParams,
    runs,       \* what is shown, and by how many runs the server has
    totalCount,
    fetches,    \* fetches under way
    triggered,  \* the scroll waits for more runs
    typed,      \* searches waiting for a pause
    checks,     \* checks for runs of a team under way
    content,    \* what the check decided
    events,
    asked,      \* history: what was chosen last
    why         \* history: how things may have gone wrong

vars == <<list, updated, finished, team, fetchParams, runs, totalCount, fetches,
          triggered, typed, checks, content, events, asked, why>>

Params == [statuses : BOOLEAN, participant : BOOLEAN, time : BOOLEAN, term : BOOLEAN,
           sort : {"name", "update"}, direction : {"asc", "desc"}, page : Nat]

(* The runs of a playbook are shown with the finished ones at first. *)
DefaultParams(kind) == [statuses |-> kind = "usage", participant |-> FALSE, time |-> FALSE,
                        term |-> FALSE, sort |-> "update", direction |-> "desc", page |-> 0]

-----------------------------------------------------------------------------
(* The server's list for the choices: all or the unfinished, everyone's or *)
(* the user's; a search finds the runs with odd numbers.                   *)

Shows(p, t, r) ==
    /\ Home[r] = t
    /\ (list # "metrics" /\ ~p.statuses) => r \notin finished
    /\ list = "metrics" => r \in finished
    /\ p.participant => r \in Mine
    /\ p.time => r \in Recent
    /\ p.term => r % 2 = 1

\* By name, or by the last update.
Key(p, r) == IF p.sort = "name" THEN r ELSE CHOOSE i \in DOMAIN updated : updated[i] = r

Precedes(p, a, b) == IF p.direction = "asc" THEN Key(p, a) < Key(p, b) ELSE Key(p, b) < Key(p, a)

Found(p, t) == {r \in ToSet(updated) : Shows(p, t, r)}

Nth(p, t, n) ==
    CHOOSE r \in Found(p, t) : Cardinality({q \in Found(p, t) : Precedes(p, q, r)}) = n - 1

View(p, t) == [n \in 1..Cardinality(Found(p, t)) |-> Nth(p, t, n)]

Least(a, b) == IF a < b THEN a ELSE b

GetRuns(p, t) ==
    LET all == View(p, t)
    IN  [items |-> SubSeq(all, p.page * PerPage + 1, Least((p.page + 1) * PerPage, Len(all))),
         total |-> Len(all)]

-----------------------------------------------------------------------------
(* Fetching: a change of the choices or the team cancels and fetches.      *)

Fetch(p, t) == [for |-> p, team |-> t, step |-> "sent", canceled |-> FALSE,
                answer |-> [items |-> <<>>, total |-> 0]]

Live == {i \in DOMAIN fetches : ~fetches[i].canceled}

(* Mutant: nothing is canceled. *)
RefetchToo(p, t) == fetches' = Append(fetches, Fetch(p, t))

Refetch(p, t) ==
    fetches' = Append([i \in DOMAIN fetches |-> [fetches[i] EXCEPT !.canceled = TRUE]],
                      Fetch(p, t))

(* Every change makes the list again, and with it its search. *)
Rendered == typed' = [i \in DOMAIN typed |-> [typed[i] EXCEPT !.live = FALSE]]

SetFetchParams(p) == fetchParams' = p /\ Refetch(p, team)

Event(reasons) ==
    /\ events < MaxEvents /\ Len(fetches) < MaxFetches
    /\ events' = events + 1
    /\ why' = why \cup reasons

Open == content = "list"

(* A choice that takes the place of a page to come. *)
Superseding == IF \E i \in Live : fetches[i].for.page > 0 THEN {"pageCanceled"} ELSE {}

Choice(p, reasons) ==
    /\ Open
    /\ Event(Superseding \cup reasons)
    /\ SetFetchParams(p)
    /\ asked' = [p EXCEPT !.page = 0, !.term = asked.term]
    /\ Rendered
    /\ UNCHANGED <<list, updated, finished, team, runs, totalCount, triggered, checks, content>>

SetFinishedRuns ==
    list # "metrics" /\ Choice([fetchParams EXCEPT !.statuses = ~@, !.page = 0], {})

SetMyRunsOnly == Choice([fetchParams EXCEPT !.participant = ~@, !.page = 0], {})

(* A day of the statistics, until its pill is closed. *)
FilterByTime ==
    list = "usage" /\ Choice([fetchParams EXCEPT !.time = ~@, !.page = 0], {})

Sorted(col) ==
    IF fetchParams.sort = col
    THEN [fetchParams EXCEPT !.direction = IF @ = "asc" THEN "desc" ELSE "asc"]
    ELSE [fetchParams EXCEPT !.sort = col, !.direction = IF col = "name" THEN "asc" ELSE "desc"]

ColHeaderClicked(col) ==
    list # "metrics" /\ Choice([Sorted(col) EXCEPT !.page = 0], {})

(* The list with the metrics keeps the page when it is sorted. *)
MetricsColHeaderClicked(col) ==
    /\ list = "metrics"
    /\ Choice(Sorted(col), IF fetchParams.page > 0 THEN {"sortedLater"} ELSE {})

SetSearchTerm(term) ==
    /\ Open /\ asked.term # term
    /\ Event({})
    /\ typed' = IF typed # <<>> /\ Last(typed).live
                THEN Append(Front(typed), [term |-> term, live |-> TRUE])
                ELSE Append(typed, [term |-> term, live |-> TRUE])
    /\ asked' = [asked EXCEPT !.term = term]
    /\ UNCHANGED <<list, updated, finished, team, fetchParams, runs, totalCount, fetches,
                   triggered, checks, content>>

(* Mutant: the search takes the place of the other choices. *)
SearchAlone ==
    /\ typed # <<>>
    /\ SetFetchParams([DefaultParams(list) EXCEPT !.term = Head(typed).term])
    /\ typed' = [i \in 1..(Len(typed) - 1) |-> [typed[i + 1] EXCEPT !.live = FALSE]]
    /\ why' = why \cup Superseding
    /\ UNCHANGED <<list, updated, finished, team, runs, totalCount, triggered, checks,
                   content, events, asked>>

(* The search changes the params there are then. *)
Search ==
    /\ typed # <<>>
    /\ SetFetchParams([fetchParams EXCEPT !.term = Head(typed).term, !.page = 0])
    /\ typed' = [i \in 1..(Len(typed) - 1) |-> [typed[i + 1] EXCEPT !.live = FALSE]]
    /\ why' = why \cup Superseding
    /\ UNCHANGED <<list, updated, finished, team, runs, totalCount, triggered, checks,
                   content, events, asked>>

(* Scrolled to the end, where the list knows of more; once per page. *)
NextPage ==
    /\ Open
    /\ ~triggered /\ Len(runs) < totalCount
    /\ Event(IF Live = {} THEN {} ELSE {"scrolledEarly"})
    /\ triggered' = TRUE
    /\ SetFetchParams([fetchParams EXCEPT !.page = @ + 1])
    /\ Rendered
    /\ UNCHANGED <<list, updated, finished, team, runs, totalCount, checks, content, asked>>

(* The page stays when the team changes. *)
ChangeTeam(t) ==
    /\ t # team
    /\ Event(IF fetchParams.page > 0 THEN {"teamLater"} ELSE {})
    /\ team' = t
    /\ Refetch(fetchParams, t)
    /\ checks' = IF list = "runs"
                 THEN Append(checks, [team |-> t, step |-> "sent", found |-> FALSE])
                 ELSE checks
    /\ Rendered
    /\ UNCHANGED <<list, updated, finished, fetchParams, runs, totalCount, triggered,
                   content, asked>>

(* The choices are in the address of the page, without the page number.    *)
Reload ==
    /\ Event({})
    /\ fetchParams' = [fetchParams EXCEPT !.page = 0]
    /\ asked' = [asked EXCEPT !.term = fetchParams.term]
    /\ runs' = <<>> /\ totalCount' = 0 /\ triggered' = FALSE /\ typed' = <<>>
    /\ fetches' = <<Fetch(fetchParams', team)>>
    /\ checks' = IF list = "runs"
                 THEN <<[team |-> team, step |-> "sent", found |-> FALSE]>>
                 ELSE <<>>
    /\ content' = IF list = "runs" THEN "none" ELSE "list"
    /\ UNCHANGED <<list, updated, finished, team>>

-----------------------------------------------------------------------------
(* Answers. *)

Serve(i) ==
    /\ fetches[i].step = "sent"
    /\ fetches' = [fetches EXCEPT ![i].step = "done",
                                  ![i].answer = GetRuns(fetches[i].for, fetches[i].team)]
    /\ UNCHANGED <<list, updated, finished, team, fetchParams, runs, totalCount, triggered,
                   typed, checks, content, events, asked, why>>

(* Mutant: the scroll waits until there is nothing more. *)
DeliverLast(i) ==
    LET f == fetches[i] IN
    /\ f.step = "done"
    /\ fetches' = RemoveAt(fetches, i)
    /\ IF f.canceled THEN UNCHANGED <<runs, totalCount, triggered, typed>>
       ELSE /\ runs' = IF f.for.page = 0 THEN f.answer.items ELSE runs \o f.answer.items
            /\ totalCount' = f.answer.total
            /\ triggered' = (triggered /\ Len(runs') < totalCount')
            /\ Rendered
    /\ UNCHANGED <<list, updated, finished, team, fetchParams, checks, content, events,
                   asked, why>>

(* The scroll stops waiting when the number of runs shown changes. *)
Deliver(i) ==
    LET f == fetches[i] IN
    /\ f.step = "done"
    /\ fetches' = RemoveAt(fetches, i)
    /\ IF f.canceled THEN UNCHANGED <<runs, totalCount, triggered, typed>>
       ELSE /\ runs' = IF f.for.page = 0 THEN f.answer.items ELSE runs \o f.answer.items
            /\ totalCount' = f.answer.total
            /\ triggered' = (triggered /\ Len(runs') = Len(runs))
            /\ Rendered
    /\ UNCHANGED <<list, updated, finished, team, fetchParams, checks, content, events,
                   asked, why>>

Fail(i) ==
    /\ events < MaxEvents
    /\ fetches[i].step = "sent"
    /\ events' = events + 1
    /\ fetches' = RemoveAt(fetches, i)
    /\ why' = why \cup (IF fetches[i].canceled THEN {} ELSE {"failed"})
    /\ UNCHANGED <<list, updated, finished, team, fetchParams, runs, totalCount, triggered,
                   typed, checks, content, asked>>

(* Whether the team has runs at all, asked on entering; nothing is canceled. *)
ServeCheck(i) ==
    /\ checks[i].step = "sent"
    /\ checks' = [checks EXCEPT ![i].step = "done",
                    ![i].found = \E j \in DOMAIN updated : Home[updated[j]] = checks[i].team]
    /\ UNCHANGED <<list, updated, finished, team, fetchParams, runs, totalCount, fetches,
                   triggered, typed, content, events, asked, why>>

CheckForPlaybookRuns(i) ==
    LET c == checks[i] IN
    /\ c.step = "done"
    /\ content' = IF c.found THEN "list" ELSE "empty"
    /\ checks' = RemoveAt(checks, i)
    /\ UNCHANGED <<list, updated, finished, team, fetchParams, runs, totalCount, fetches,
                   triggered, typed, events, asked, why>>

-----------------------------------------------------------------------------
(* Others: a status update, a run finished, a run started. *)

ByOthers(seq, ended) ==
    /\ events < MaxEvents
    /\ events' = events + 1
    /\ updated' = seq /\ finished' = ended
    /\ why' = why \cup {"others"}
    /\ UNCHANGED <<list, team, fetchParams, runs, totalCount, fetches, triggered, typed,
                   checks, content, asked>>

StatusUpdate(r) ==
    /\ r \in ToSet(updated) \ finished /\ r # Last(updated)
    /\ ByOthers(Append(SelectSeq(updated, LAMBDA q : q # r), r), finished)

FinishRun(r) == r \in ToSet(updated) \ finished /\ ByOthers(updated, finished \cup {r})

StartRun(r) == r \in Runs \ ToSet(updated) /\ ByOthers(Append(updated, r), finished)

-----------------------------------------------------------------------------
Init ==
    /\ list \in Lists
    /\ updated \in Stored
    /\ finished = IF list = "metrics" THEN ToSet(updated) ELSE {}
    /\ team \in {Home[r] : r \in ToSet(updated)}
    /\ fetchParams = DefaultParams(list)
    /\ runs = <<>> /\ totalCount = 0
    /\ fetches = <<Fetch(fetchParams, team)>>
    /\ triggered = FALSE /\ typed = <<>>
    /\ checks = IF list = "runs"
                THEN <<[team |-> team, step |-> "sent", found |-> FALSE]>>
                ELSE <<>>
    /\ content = IF list = "runs" THEN "none" ELSE "list"
    /\ events = 0 /\ asked = fetchParams /\ why = {}

Next ==
    \/ SetFinishedRuns \/ SetMyRunsOnly \/ FilterByTime \/ NextPage \/ Reload \/ Search
    \/ \E col \in {"name", "update"} : ColHeaderClicked(col) \/ MetricsColHeaderClicked(col)
    \/ \E term \in BOOLEAN : SetSearchTerm(term)
    \/ \E t \in Teams : ChangeTeam(t)
    \/ \E i \in DOMAIN fetches : Serve(i) \/ Deliver(i) \/ Fail(i)
    \/ \E i \in DOMAIN checks : ServeCheck(i) \/ CheckForPlaybookRuns(i)
    \/ \E r \in Runs : StatusUpdate(r) \/ FinishRun(r) \/ StartRun(r)

Spec == Init /\ [][Next]_vars

-----------------------------------------------------------------------------
(* Properties. *)

Idle == fetches = <<>> /\ typed = <<>> /\ checks = <<>>

(* At rest the list is the beginning of the server's list for the choices, *)
(* up to the page it has come to, without a gap or a run twice, however    *)
(* answers overtook each other.  Not after scrolling while the first page  *)
(* for new choices was fetched, sorting the metrics or changing the team   *)
(* on a later page, a failed fetch, or when others changed runs.           *)
RunsInOrder ==
    Idle /\ why \cap {"scrolledEarly", "sortedLater", "teamLater", "failed", "others"} = {} =>
        LET all == View(fetchParams, team) IN
        /\ totalCount = Len(all)
        /\ runs = SubSeq(all, 1, Least((fetchParams.page + 1) * PerPage, Len(all)))

(* The filters, the column and the search stay what the user chose last,   *)
(* in whatever order searches fire (onSearch changes the params of then).  *)
ChoicesKept == typed = <<>> => asked = [fetchParams EXCEPT !.page = 0]

(* Where there are more runs, scrolling fetches them: the scroll does not  *)
(* wait for ever, unless a choice canceled the page it waits for, it began *)
(* while the first page was fetched, the team or runs changed, or a fetch  *)
(* failed.                                                                 *)
MoreCanBeFetched ==
    Idle /\ Len(runs) < totalCount
         /\ why \cap {"pageCanceled", "scrolledEarly", "teamLater", "failed", "others"} = {} => ~triggered
=============================================================================
