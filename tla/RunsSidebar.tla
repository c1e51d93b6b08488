----------------------------- MODULE RunsSidebar -----------------------------
(***************************************************************************)
(* The right-hand sidebar of a channel: its runs in progress and finished, *)
(* each by a query that is answered from the cache and from the server,    *)
(* and the details of one run.  On entering a channel its single run in    *)
(* progress is opened, as soon as there is an answer and only once.        *)
(* Every query and request is answered, sooner or later: none fails.       *)
(***************************************************************************)
EXTENDS SequencesExt, Integers

CONSTANTS
    Channels,
    Runs,           \* numbers, in the order of creation and of the names
    Stored,         \* functions from runs to what is stored of them at first
    PageSize,
    MaxEvents       \* bound: actions of the user and runs finished by others

None == 0

State == {"InProgress", "Finished"}

VARIABLES
    server,     \* the runs in the database
    channel,    \* the current channel
    options,    \* column the runs are sorted by, and which of them are listed
    cache,      \* results by channel, column and state
    requests,   \* queries under way
    current,    \* the run whose details are open
    checkedFor, \* the channel for which a single run was looked for
    creating,   \* run being created: where, and whether it goes to that channel
    moving,     \* run being moved: its card disappears first, then it is sent
    events,
    created,    \* history: the run created last, as long as nothing else was opened
    touched,    \* history: something was opened or closed since the channel was entered
    why         \* history: how things may have gone wrong

vars == <<server, channel, options, cache, requests, current, checkedFor, creating,
          moving, events, created, touched, why>>

Keys == [channel : Channels, sort : {"create_at", "name"}, state : State]

DefaultOptions == [sort |-> "create_at", filter |-> "InProgress"]

Key(ch, sort, state) == [channel |-> ch, sort |-> sort, state |-> state]

NoData == [known |-> FALSE, edges |-> <<>>, next |-> 0, more |-> FALSE]

-----------------------------------------------------------------------------
(* The query on the server: the latest runs first, or by name; a run comes *)
(* after as many as come before it.                                        *)

Here(k) == {r \in Runs : server[r] = [channel |-> k.channel, state |-> k.state]}

Before(k, r) == {q \in Here(k) : IF k.sort = "name" THEN q < r ELSE q > r}

View(k) == [n \in 1 .. Cardinality(Here(k)) |->
              CHOOSE r \in Here(k) : Cardinality(Before(k, r)) = n - 1]

Least(a, b) == IF a < b THEN a ELSE b

GetRuns(k, page) ==
    LET all == View(k)
    IN  [items |-> SubSeq(all, page * PageSize + 1, Least((page + 1) * PageSize, Len(all))),
         more |-> Len(all) > (page + 1) * PageSize]

(* A page follows the one before it where that is still there; the first   *)
(* page replaces all.                                                      *)
Merged(data, page, answer) ==
    LET kept == IF Len(data.edges) >= page * PageSize
                THEN SubSeq(data.edges, 1, page * PageSize) ELSE data.edges
    IN  [known |-> TRUE, next |-> page + 1, more |-> answer.more,
         edges |-> (IF page = 0 THEN <<>> ELSE kept) \o answer.items]

(* A query that is under way already is not sent again. *)
Asking(k, page) == [key |-> k, page |-> page, step |-> "sent",
                    answer |-> [items |-> <<>>, more |-> FALSE]]

Underway(k, page) == \E q \in requests : q.key = k /\ q.page = page

Query(asked) == requests' = requests \cup
    {Asking(k, 0) : k \in {a \in asked : ~Underway(a, 0)}}

Both(ch, sort) == {Key(ch, sort, s) : s \in State}

Shown == Both(channel, options.sort)

Reasons(asked) == IF \E k \in asked : Underway(k, 0) THEN {"joined"} ELSE {}

-----------------------------------------------------------------------------
(* What is on the screen. *)

(* Mutant: the latest run is opened. *)
LatestRun(data) == IF data.edges # <<>> THEN data.edges[1] ELSE None

Single(data) == IF Len(data.edges) = 1 THEN data.edges[1] ELSE None

Loading == \E k \in Shown : ~cache[k].known

Details == current # None /\ \E k \in Shown : current \in ToSet(cache[k].edges)

ListShown == ~Loading /\ ~Details

Event(reasons) ==
    /\ events < MaxEvents
    /\ events' = events + 1
    /\ why' = why \cup reasons

(* Runs sorted as before are asked for too, and looked at first.  In the   *)
(* channel where a single run was looked for last it is not looked for.    *)
Enter(ch) ==
    LET sorted == cache[Key(ch, options.sort, "InProgress")]
        seen == IF sorted.known THEN sorted ELSE cache[Key(ch, "create_at", "InProgress")]
    IN  /\ channel' = ch
        /\ options' = DefaultOptions
        /\ Query(Both(ch, options.sort) \cup Both(ch, "create_at"))
        /\ checkedFor' = IF seen.known THEN ch ELSE checkedFor
        /\ current' = IF checkedFor = ch THEN current
                      ELSE IF seen.known THEN Single(seen) ELSE None
        /\ why' = why \cup Reasons(Both(ch, "create_at"))
                      \cup (IF seen.known \/ checkedFor = ch THEN {"visitedBefore"} ELSE {})
                      \cup (IF creating.step = "sent" THEN {"leftCreating"} ELSE {})
        /\ moving' = IF moving.phase = "removed"
                     THEN [moving EXCEPT !.run = None, !.phase = "none"] ELSE moving
        /\ created' = None /\ touched' = FALSE
        /\ UNCHANGED <<server, cache>>

SwitchChannel(ch) ==
    /\ ch # channel
    /\ events < MaxEvents /\ events' = events + 1
    /\ Enter(ch)
    /\ UNCHANGED creating

SetFilter(state) ==
    /\ ListShown /\ options.filter # state
    /\ Event({})
    /\ options' = [options EXCEPT !.filter = state]
    /\ UNCHANGED <<server, channel, cache, requests, current, checkedFor, creating, moving,
                   created, touched>>

SetSort(sort) ==
    /\ ListShown /\ options.sort # sort
    /\ Event(IF Reasons(Both(channel, sort)) = {} THEN {} ELSE {"sortJoined"})
    /\ options' = [options EXCEPT !.sort = sort]
    /\ Query(Both(channel, sort))
    /\ UNCHANGED <<server, channel, cache, current, checkedFor, creating, moving, created,
                   touched>>

Listed == cache[Key(channel, options.sort, options.filter)]

GetMore ==
    LET k == Key(channel, options.sort, options.filter) IN
    /\ ListShown /\ Listed.more /\ ~Underway(k, Listed.next)
    /\ Event({})
    /\ requests' = requests \cup {Asking(k, Listed.next)}
    /\ UNCHANGED <<server, channel, options, cache, current, checkedFor, creating, moving,
                   created, touched>>

OnSelectRun(r) ==
    /\ ListShown /\ r \in ToSet(Listed.edges)
    /\ Event({})
    /\ current' = r /\ touched' = TRUE /\ created' = None
    /\ UNCHANGED <<server, channel, options, cache, requests, checkedFor, creating, moving>>

(* Back to the list: the first pages are fetched again. *)
ClearCurrentRunId ==
    /\ Details
    /\ Event({})
    /\ Query(Shown)
    /\ current' = None /\ touched' = TRUE /\ created' = None
    /\ UNCHANGED <<server, channel, options, cache, checkedFor, creating, moving>>

-----------------------------------------------------------------------------
(* A new checklist in this channel, or a run of a playbook in another.     *)

HandleCreate(to) ==
    /\ ListShown /\ creating.step = "none"
    /\ Event({})
    /\ creating' = [from |-> channel, to |-> to, run |-> None, step |-> "sent"]
    /\ UNCHANGED <<server, channel, options, cache, requests, current, checkedFor, moving,
                   created, touched>>

ServeCreate ==
    /\ creating.step = "sent"
    /\ \E r \in Runs :
        /\ server[r].channel = "none"
        /\ \A q \in Runs : q > r => server[q].channel = "none"
        /\ \A q \in Runs : q < r => server[q].channel # "none"
        /\ server' = [server EXCEPT ![r] = [channel |-> creating.to, state |-> "InProgress"]]
        /\ creating' = [creating EXCEPT !.run = r, !.step = "done"]
    /\ UNCHANGED <<channel, options, cache, requests, current, checkedFor, moving, events,
                   created, touched, why>>

(* Mutant: the lists are not fetched again. *)
OpenOnly ==
    /\ creating.step = "done" /\ creating.to = creating.from
    /\ current' = creating.run
    /\ created' = IF creating.from = channel THEN creating.run ELSE None
    /\ touched' = TRUE
    /\ creating' = [creating EXCEPT !.run = None, !.step = "none"]
    /\ UNCHANGED <<server, channel, options, cache, requests, checkedFor, moving, events, why>>

(* What is fetched again is the channel of now, whatever it was then. *)
HandleOnCreateRun ==
    /\ creating.step = "done" /\ creating.to = creating.from
    /\ Query(Shown)
    /\ current' = creating.run
    /\ created' = IF creating.from = channel THEN creating.run ELSE None
    /\ touched' = TRUE
    /\ why' = why \cup Reasons(Shown)
    /\ creating' = [creating EXCEPT !.run = None, !.step = "none"]
    /\ UNCHANGED <<server, channel, options, cache, checkedFor, moving, events>>

(* The user is taken to the channel of the run, from wherever he is then. *)
GoToCreated ==
    /\ creating.step = "done" /\ creating.to # creating.from
    /\ creating' = [creating EXCEPT !.run = None, !.step = "none"]
    /\ IF creating.to = channel
       THEN UNCHANGED <<server, channel, options, cache, requests, current, checkedFor,
                        moving, created, touched, why>>
       ELSE Enter(creating.to)
    /\ UNCHANGED events

-----------------------------------------------------------------------------
(* Moving a run to another channel: its card disappears, and when that has *)
(* ended the run is moved; the lists are fetched again then.  A card that  *)
(* is gone before forgets the move.  One run is moved at a time (a bound). *)

OnUpdateChannel(r, to) ==
    /\ ListShown /\ r \in ToSet(Listed.edges) /\ to # channel
    /\ moving.phase = "none"
    /\ Event({"moved"})
    /\ moving' = [run |-> r, to |-> to, phase |-> "removed"]
    /\ UNCHANGED <<server, channel, options, cache, requests, current, checkedFor, creating,
                   created, touched>>

(* The card is there only while the list shows its run. *)
OnAnimationEnd ==
    /\ moving.phase = "removed"
    /\ moving' = IF ListShown /\ moving.run \in ToSet(Listed.edges)
                 THEN [moving EXCEPT !.phase = "sent"]
                 ELSE [moving EXCEPT !.run = None, !.phase = "none"]
    /\ UNCHANGED <<server, channel, options, cache, requests, current, checkedFor, creating,
                   events, created, touched, why>>

ServeMove ==
    /\ moving.phase = "sent"
    /\ server' = [server EXCEPT ![moving.run].channel = moving.to]
    /\ moving' = [moving EXCEPT !.phase = "done"]
    /\ UNCHANGED <<channel, options, cache, requests, current, checkedFor, creating, events,
                   created, touched, why>>

MoveAnswered ==
    /\ moving.phase = "done"
    /\ moving' = [moving EXCEPT !.run = None, !.phase = "none"]
    /\ Query(Shown)
    /\ why' = why \cup Reasons(Shown)
    /\ UNCHANGED <<server, channel, options, cache, current, checkedFor, creating, events,
                   created, touched>>

-----------------------------------------------------------------------------
Serve(q) ==
    /\ q \in requests /\ q.step = "sent"
    /\ requests' = (requests \ {q}) \cup
                   {[q EXCEPT !.step = "done", !.answer = GetRuns(q.key, q.page)]}
    /\ UNCHANGED <<server, channel, options, cache, current, checkedFor, creating, moving,
                   events, created, touched, why>>

(* The first answer for the channel opens its single run. *)
Deliver(q) ==
    LET data == Merged(cache[q.key], q.page, q.answer)
        first == /\ q.key = Key(channel, options.sort, "InProgress")
                 /\ checkedFor # channel
    IN  /\ q \in requests /\ q.step = "done"
        /\ requests' = requests \ {q}
        /\ cache' = [cache EXCEPT ![q.key] = data]
        /\ IF first THEN current' = Single(data) /\ checkedFor' = channel
                    ELSE UNCHANGED <<current, checkedFor>>
        /\ UNCHANGED <<server, channel, options, creating, moving, events, created, touched, why>>

(* What nobody waits for any more may be canceled by the library. *)
Canceled(q) ==
    /\ q \in requests /\ q.key \notin Shown
    /\ requests' = requests \ {q}
    /\ UNCHANGED <<server, channel, options, cache, current, checkedFor, creating, moving,
                   events, created, touched, why>>

(* Others finish a run. *)
FinishedByOther(r) ==
    /\ server[r].channel # "none" /\ server[r].state = "InProgress"
    /\ Event({"others"})
    /\ server' = [server EXCEPT ![r].state = "Finished"]
    /\ UNCHANGED <<channel, options, cache, requests, current, checkedFor, creating, moving,
                   created, touched>>

-----------------------------------------------------------------------------
Init ==
    /\ server \in Stored
    /\ channel \in Channels
    /\ options = DefaultOptions
    /\ cache = [k \in Keys |-> NoData]
    /\ requests = {Asking(k, 0) : k \in Both(channel, "create_at")}
    /\ current = None /\ checkedFor = "none"
    /\ creating = [from |-> channel, to |-> channel, run |-> None, step |-> "none"]
    /\ moving = [run |-> None, to |-> channel, phase |-> "none"]
    /\ events = 0 /\ created = None /\ touched = FALSE
    /\ why = {}

Next ==
    \/ \E ch \in Channels : SwitchChannel(ch) \/ HandleCreate(ch)
    \/ \E s \in State : SetFilter(s)
    \/ \E s \in {"create_at", "name"} : SetSort(s)
    \/ GetMore \/ ClearCurrentRunId
    \/ \E r \in Runs : OnSelectRun(r) \/ FinishedByOther(r)
    \/ ServeCreate \/ HandleOnCreateRun \/ GoToCreated
    \/ \E r \in Runs, to \in Channels : OnUpdateChannel(r, to)
    \/ OnAnimationEnd \/ ServeMove \/ MoveAnswered
    \/ \E q \in requests : Serve(q) \/ Deliver(q) \/ Canceled(q)

Spec == Init /\ [][Next]_vars

-----------------------------------------------------------------------------
(* Properties. *)

Idle == requests = {} /\ creating.step = "none" /\ moving.phase = "none"

(* "Single active run -> Details page for that run", "Multiple active runs *)
(* -> Runs list" (rhs_main.tsx), as long as the user opens nothing else:   *)
(* not in a channel seen before, where the cache decides, and not where    *)
(* the runs of the channel changed after it was entered.                   *)
SingleRunOpens ==
    Idle /\ ~touched /\ why \cap {"visitedBefore", "others", "joined", "leftCreating", "moved"} = {} =>
        LET active == View(Key(channel, "create_at", "InProgress"))
        IN  IF Len(active) = 1 THEN Details /\ current = active[1] ELSE ~Details

(* A run created in the channel opens when it was created, if it is on the *)
(* first page of the list as it is sorted, and no query under way was then *)
(* taken for a new one, nor when the list was sorted.                      *)
CreatedRunOpens ==
    Idle /\ created # None /\ why \cap {"joined", "sortJoined", "others"} = {} =>
        LET first == ToSet(GetRuns(Key(channel, options.sort, "InProgress"), 0).items)
        IN  created \in first => Details /\ current = created
=============================================================================
