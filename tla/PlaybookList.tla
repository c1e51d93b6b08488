----------------------------- MODULE PlaybookList -----------------------------
(***************************************************************************)
(* The list of a team's playbooks: one page of the server's list, for what *)
(* the user chose (params).  Any change of the choices starts a fetch, and *)
(* nothing ends one that was started before.  What is on the screen is     *)
(* made again at each rendering except while something loads: its buttons  *)
(* then still hold the choices of the rendering they were made in, and     *)
(* using one goes back to these.  A search waits until the typing pauses.  *)
(***************************************************************************)
EXTENDS SequencesExt, Integers

CONSTANTS
    Playbooks,      \* playbooks there may be
    Stored,         \* functions from Playbooks: what is stored at first
    Private,        \* those the user sees as a member only
    Matching,       \* those the term of a search finds
    Rank,           \* place of a playbook by each column to sort on
    PerPage,
    MaxEvents,      \* bound: choices of the user, failed calls, playbooks archived by others
    MaxCalls        \* bound: calls under way when a user acts

ASSUME ListAssumption ==
    /\ PerPage \in Nat \ {0}
    /\ Stored \subseteq [Playbooks -> {"none", "active", "archived"}]
    /\ Private \subseteq Playbooks /\ Matching \subseteq Playbooks
    /\ {"title", "runs"} \subseteq DOMAIN Rank
    /\ \A c \in DOMAIN Rank : Rank[c] \in [Playbooks -> Nat]
    /\ MaxEvents \in Nat /\ MaxCalls \in Nat

VARIABLES
    server,     \* the playbooks in the database
    params,     \* what the list is to show
    items,      \* the playbooks of the last answer
    total,      \* how many there are on all pages
    loading,
    screen,     \* what is on the screen: items, total, and the params its buttons hold
    pending,    \* searches waiting for a pause, in the order typed
    calls,      \* calls under way, in the order started
    modals,     \* confirmations to archive and to restore
    events,     \* number of events so far
    asked,      \* history: what the user chose last
    why         \* history: how things may have gone wrong

view == <<params, items, total, loading, screen>>
vars == <<view, server, pending, calls, modals, events, asked, why>>

Columns == DOMAIN Rank

DefaultParams == [sort |-> "title", direction |-> "asc", page |-> 0,
                  search_term |-> FALSE, with_archived |-> FALSE]

-----------------------------------------------------------------------------
(* The server's list. *)

Listed(s, p) ==
    {b \in (IF p.search_term THEN Matching ELSE Playbooks) :
        s[b] = "active" \/ (p.with_archived /\ s[b] = "archived")}

Before(p, a, b) ==
    IF p.direction = "asc" THEN Rank[p.sort][a] < Rank[p.sort][b]
                           ELSE Rank[p.sort][a] > Rank[p.sort][b]

GetPlaybooks(s, p) ==
    LET all == SetToSortSeq(Listed(s, p), LAMBDA a, b : Before(p, a, b))
        from == p.page * PerPage
        to == IF from + PerPage < Len(all) THEN from + PerPage ELSE Len(all)
    IN  [items |-> [i \in 1..(IF to > from THEN to - from ELSE 0) |->
                        [id |-> all[from + i], state |-> s[all[from + i]]]],
         total |-> Len(all)]

PageCount(n) == (n + PerPage - 1) \div PerPage

-----------------------------------------------------------------------------
(* Rendering, and the fetch that every change of the choices starts. *)

Call(op, id, p) == [op |-> op, id |-> id, for |-> p, step |-> "sent",
                    answer |-> [items |-> <<>>, total |-> 0], late |-> FALSE]

(* Mutant: the content is made again only when the playbooks are others. *)
RenderItems(p, busy, new) ==
    IF busy \/ new.items = screen.items THEN UNCHANGED <<screen, pending>>
    ELSE /\ screen' = [params |-> p, items |-> new.items, total |-> new.total]
         /\ pending' = [i \in DOMAIN pending |-> [pending[i] EXCEPT !.live = FALSE]]

(* The content is kept while something loads.  Made again, it gets a new   *)
(* search that knows nothing of the one still waiting.                     *)
Render(p, busy, new) ==
    IF busy THEN UNCHANGED <<screen, pending>>
    ELSE /\ screen' = [params |-> p, items |-> new.items, total |-> new.total]
         /\ pending' = [i \in DOMAIN pending |-> [pending[i] EXCEPT !.live = FALSE]]

(* Mutant: an archived playbook is fetched away only if the page changes. *)
SetParamsIfChanged(p, under) ==
    /\ params' = p
    /\ calls' = IF p = params THEN under ELSE Append(under, Call("list", 0, p))
    /\ loading' = (loading \/ p # params)
    /\ UNCHANGED <<items, total>>

SetParams(p, under) ==
    /\ params' = p
    /\ calls' = Append(under, Call("list", 0, p))
    /\ loading' = TRUE
    /\ UNCHANGED <<items, total>>

Landing == screen.items = <<>> /\ ~screen.params.search_term

OwnCall(c) == c.op # "list" \/ c.id # 0

Idle == calls = <<>> /\ ~loading /\ pending = <<>>

(* What may go wrong with a choice made now.                               *)
Hasty == (IF screen.params # params THEN {"frozen"} ELSE {})
    \cup (IF pending # <<>> THEN {"typing"} ELSE {})
    \cup (IF \E i \in DOMAIN calls : OwnCall(calls[i]) THEN {"underWay"} ELSE {})

Chosen(reasons) ==
    /\ events < MaxEvents /\ Len(calls) < MaxCalls
    /\ events' = events + 1
    /\ why' = why \cup reasons

-----------------------------------------------------------------------------
(* Choices, made on the screen with the params it holds. *)

Choice(p) ==
    /\ ~Landing
    /\ Chosen(Hasty)
    /\ SetParams(p, calls)
    /\ Render(p, loading, [items |-> items, total |-> total])
    /\ UNCHANGED <<server, modals>>

SortBy(c) ==
    LET p == screen.params
        next == IF p.sort = c
                THEN [p EXCEPT !.direction = IF @ = "asc" THEN "desc" ELSE "asc"]
                ELSE [p EXCEPT !.sort = c, !.direction = "desc"]
    IN  /\ Choice(next)
        /\ asked' = [asked EXCEPT !.sort = next.sort, !.direction = next.direction]

OnNextPage ==
    /\ (screen.params.page + 1) * PerPage < screen.total
    /\ Choice([screen.params EXCEPT !.page = @ + 1])
    /\ UNCHANGED asked

OnPrevPage ==
    /\ screen.params.page > 0
    /\ Choice([screen.params EXCEPT !.page = @ - 1])
    /\ UNCHANGED asked

(* Loading is set together with the choice: the content is kept.  The page *)
(* stays, though there may be fewer without the archived ones.             *)
SetWithArchived ==
    LET p == [screen.params EXCEPT !.with_archived = ~@] IN
    /\ ~Landing
    /\ Chosen(Hasty)
    /\ SetParams(p, calls)
    /\ asked' = [asked EXCEPT !.with_archived = p.with_archived]
    /\ UNCHANGED <<server, screen, pending, modals>>

(* Mutant: the search keeps the params of the first rendering. *)
TypeIntoFirst(term) ==
    LET search == [term |-> term, for |-> DefaultParams, live |-> TRUE] IN
    /\ ~Landing
    /\ term # asked.search_term
    /\ Chosen(Hasty \ {"typing"})
    /\ pending' = IF pending # <<>> /\ Last(pending).live
                  THEN Append(Front(pending), search) ELSE Append(pending, search)
    /\ asked' = [asked EXCEPT !.search_term = term]
    /\ UNCHANGED <<view, server, calls, modals>>

(* Typing restarts the wait of this content's search. *)
SetSearchTerm(term) ==
    LET search == [term |-> term, for |-> screen.params, live |-> TRUE] IN
    /\ ~Landing
    /\ term # asked.search_term
    /\ Chosen(Hasty \ {"typing"})
    /\ pending' = IF pending # <<>> /\ Last(pending).live
                  THEN Append(Front(pending), search) ELSE Append(pending, search)
    /\ asked' = [asked EXCEPT !.search_term = term]
    /\ UNCHANGED <<view, server, calls, modals>>

Search ==
    /\ pending # <<>>
    /\ SetParams([Head(pending).for EXCEPT !.search_term = Head(pending).term, !.page = 0], calls)
    /\ pending' = Tail(pending)
    /\ why' = why \cup (Hasty \ {"typing", "frozen"})
    /\ UNCHANGED <<server, screen, modals, events, asked>>

-----------------------------------------------------------------------------
(* Rows: archive and restore are confirmed first, the others start at once. *)

OpenModal(kind, b) ==
    /\ ~Landing
    /\ \E i \in DOMAIN screen.items :
        screen.items[i] = [id |-> b, state |-> IF kind = "archive" THEN "active" ELSE "archived"]
    /\ ~modals["archive"].open /\ ~modals["restore"].open
    /\ events < MaxEvents
    /\ modals' = [modals EXCEPT ![kind] = [@ EXCEPT !.id = b, !.open = TRUE]]
    /\ UNCHANGED <<view, server, pending, calls, events, asked, why>>

OnCancel(kind) ==
    /\ modals[kind].open
    /\ modals' = [modals EXCEPT ![kind].open = FALSE]
    /\ UNCHANGED <<view, server, pending, calls, events, asked, why>>

(* The modal is made again at each rendering: it holds the present params. *)
OnConfirm(kind) ==
    /\ modals[kind].open
    /\ Chosen(Hasty \cap {"underWay"})
    /\ calls' = Append(calls, Call(kind, modals[kind].id, params))
    /\ UNCHANGED <<view, server, pending, modals, asked>>

BannerTimeout(kind) ==
    /\ modals[kind].banner
    /\ modals' = [modals EXCEPT ![kind].banner = FALSE]
    /\ UNCHANGED <<view, server, pending, calls, events, asked, why>>

(* Duplicate; join and leave, after which the list is fetched again. *)
OnRow(op, b) ==
    /\ ~Landing
    /\ \E i \in DOMAIN screen.items : screen.items[i].id = b
    /\ Chosen({IF r = "frozen" THEN "frozenRow" ELSE r : r \in Hasty})
    /\ calls' = Append(calls, Call(op, b, screen.params))
    /\ UNCHANGED <<view, server, pending, modals, asked>>

-----------------------------------------------------------------------------
(* The server. *)

Serve(i) ==
    LET c == calls[i]
        served(a) == [calls EXCEPT ![i].step = "done", ![i].answer = a]
        stored(b, state) ==
            /\ server' = [server EXCEPT ![b] = state]
            /\ calls' = served(c.answer)
    IN  /\ c.step = "sent"
        /\ \/ /\ c.op \in {"list", "count"}
              /\ calls' = served(GetPlaybooks(server, c.for))
              /\ UNCHANGED server
           \/ c.op = "archive" /\ stored(c.id, "archived")
           \/ c.op = "restore" /\ stored(c.id, "active")
           \/ /\ c.op = "leave"
              /\ stored(c.id, IF c.id \in Private THEN "none" ELSE server[c.id])
           \/ /\ c.op = "duplicate"
              /\ \E b \in Playbooks \ {c.id} :
                    server[b] = "none" /\ b \notin Private /\ stored(b, server[c.id])
        /\ UNCHANGED <<view, pending, modals, events, asked, why>>

(* Someone else archives a playbook. *)
ArchivedByOther(b) ==
    /\ events < MaxEvents
    /\ server[b] = "active"
    /\ server' = [server EXCEPT ![b] = "archived"]
    /\ events' = events + 1
    /\ why' = why \cup {"others"}
    /\ UNCHANGED <<view, pending, calls, modals, asked>>

-----------------------------------------------------------------------------
(* Answers. *)

Ended(i) == [j \in 1..(Len(calls) - 1) |->
                IF j < i THEN [calls[j] EXCEPT !.late = calls[i].op \in {"list", "count"}]
                         ELSE calls[j + 1]]

Confirmed(kind) ==
    modals' = [modals EXCEPT ![kind] = [@ EXCEPT !.open = FALSE, !.banner = TRUE]]

(* Mutant: loading ends with an answer to the present params only. *)
ShowPageOfParams(i) ==
    LET c == calls[i] IN
    /\ c.op = "list" /\ c.step = "done"
    /\ items' = c.answer.items /\ total' = c.answer.total
    /\ loading' = (loading /\ c.for # params)
    /\ Render(params, loading', c.answer)
    /\ calls' = Ended(i)
    /\ why' = why \cup (IF c.late THEN {"late"} ELSE {})
    /\ IF c.id # 0 THEN Confirmed("restore") ELSE UNCHANGED modals
    /\ UNCHANGED <<server, params, events, asked>>

(* What fetchPlaybooks shows.  With it restoring has ended. *)
ShowPage(i) ==
    LET c == calls[i] IN
    /\ c.op = "list" /\ c.step = "done"
    /\ items' = c.answer.items /\ total' = c.answer.total
    /\ loading' = FALSE
    /\ Render(params, FALSE, c.answer)
    /\ calls' = Ended(i)
    /\ why' = why \cup (IF c.late THEN {"late"} ELSE {})
    /\ IF c.id # 0 THEN Confirmed("restore") ELSE UNCHANGED modals
    /\ UNCHANGED <<server, params, events, asked>>

(* After archiving the latest count is fetched ... *)
Archived(i) ==
    LET c == calls[i] IN
    /\ c.op = "archive" /\ c.step = "done"
    /\ calls' = Append(Ended(i), Call("count", c.id, c.for))
    /\ UNCHANGED <<view, server, pending, modals, events, asked, why>>

(* ... and the page is set to one there is, of the params the modal held. *)
PageLeft(c) ==
    LET last == PageCount(c.answer.total) - 1
        page == IF last < c.for.page THEN last ELSE c.for.page
    IN  IF page > 0 THEN page ELSE 0

SetPageLeft(i) ==
    LET c == calls[i]
        p == [c.for EXCEPT !.page = PageLeft(c)]
    IN  /\ c.op = "count" /\ c.step = "done"
        /\ SetParams(p, Ended(i))
        /\ Render(p, loading, [items |-> items, total |-> total])
        /\ Confirmed("archive")
        /\ why' = why \cup (IF c.late THEN {"late"} ELSE {})
        /\ UNCHANGED <<server, events, asked>>

(* The other calls are followed by a fetch for the params they held. *)
FetchAgain(i) ==
    LET c == calls[i] IN
    /\ c.op \in {"restore", "duplicate", "leave"} /\ c.step = "done"
    /\ calls' = Append(Ended(i), Call("list", IF c.op = "restore" THEN c.id ELSE 0, c.for))
    /\ loading' = TRUE
    /\ UNCHANGED <<params, items, total, screen, server, pending, modals, events, asked, why>>

(* A failed fetch leaves the list loading. *)
Fail(i) ==
    /\ events < MaxEvents
    /\ calls[i].step = "sent"
    /\ calls' = RemoveAt(calls, i)
    /\ events' = events + 1
    /\ why' = why \cup {"failed"}
    /\ UNCHANGED <<view, server, pending, modals, asked>>

-----------------------------------------------------------------------------
NoModal == [id |-> 0, open |-> FALSE, banner |-> FALSE]

Init ==
    /\ server \in Stored
    /\ params = DefaultParams /\ items = <<>> /\ total = 0 /\ loading = TRUE
    /\ screen = [params |-> DefaultParams, items |-> <<>>, total |-> 0]
    /\ pending = <<>>
    /\ calls = <<Call("list", 0, DefaultParams)>>
    /\ modals = [k \in {"archive", "restore"} |-> NoModal]
    /\ events = 0
    /\ asked = DefaultParams
    /\ why = {}

User ==
    \/ \E c \in Columns : SortBy(c)
    \/ OnNextPage \/ OnPrevPage \/ SetWithArchived
    \/ \E term \in BOOLEAN : SetSearchTerm(term)
    \/ \E kind \in {"archive", "restore"} :
        \/ \E b \in Playbooks : OpenModal(kind, b)
        \/ OnCancel(kind) \/ OnConfirm(kind)
    \/ \E op \in {"duplicate", "leave"}, b \in Playbooks : OnRow(op, b)

Answer == \E i \in DOMAIN calls : ShowPage(i) \/ Archived(i) \/ SetPageLeft(i) \/ FetchAgain(i)

Next ==
    \/ User \/ Answer \/ Search
    \/ \E i \in DOMAIN calls : Serve(i) \/ Fail(i)
    \/ \E b \in Playbooks : ArchivedByOther(b)
    \/ \E kind \in {"archive", "restore"} : BannerTimeout(kind)

(* The server serves, answers arrive and timers fire; users may stop. *)
Fairness ==
    /\ WF_vars(\E i \in DOMAIN calls : Serve(i))
    /\ WF_vars(Answer)
    /\ WF_vars(Search)

Spec == Init /\ [][Next]_vars
FairSpec == Spec /\ Fairness
-----------------------------------------------------------------------------
(* Properties. *)

(* Buttons hold other choices than the list's only while something loads   *)
(* (content.current is made again at every other rendering).               *)
ButtonsHoldParams ==
    ~loading => screen = [params |-> params, items |-> items, total |-> total]

Misplaced == {"late", "underWay", "frozenRow", "failed"}

(* At rest the list is the server's for the present choices, and what the  *)
(* user archived, restored, duplicated or left shows without a reload,     *)
(* though any number of fetches were under way together (the effect of     *)
(* usePlaybooksCrud): unless answers overtook each other, something was    *)
(* chosen while a call of a row was under way or with buttons of earlier   *)
(* choices, a call failed, or others changed playbooks.                    *)
OwnChangesShow ==
    Idle /\ why \cap (Misplaced \cup {"others"}) = {} =>
        [items |-> items, total |-> total] = GetPlaybooks(server, params)

(* No choice takes back another one: setParams spreads the params of a     *)
(* rendering that may be past.  Choosing while a search waits, while the   *)
(* content is kept or while archiving does.                                *)
ChoicesKept ==
    Idle /\ why \cap {"typing", "frozen", "underWay"} = {} =>
        params = [asked EXCEPT !.page = params.page]

(* Loading ends unless a call fails. *)
LoadingEnds == loading ~> (~loading \/ "failed" \in why)
=============================================================================
