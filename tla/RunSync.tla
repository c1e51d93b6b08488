------------------------------- MODULE RunSync -------------------------------
(***************************************************************************)
(* One run, the request handlers that change its checklists and one client *)
(* that follows it.  A handler reads the run into a copy, changes the copy *)
(* and writes the whole row back; then it may record a timeline event, in  *)
(* a table of its own, and tells the client what changed over a websocket  *)
(* that keeps the order of the messages.  The client may also fetch the    *)
(* whole run over HTTP, whose answers arrive whenever they do.             *)
(*                                                                         *)
(* The run stays in progress, and every reading of the clock is later than *)
(* the one before.  A write is one step: when the stamps and the commits   *)
(* of two handlers cross, one of them has overwritten the other, which     *)
(* lost records anyway.                                                    *)
(***************************************************************************)
EXTENDS RunUpdates

CONSTANTS
    Handlers,       \* goroutines serving requests
    Checklists0,    \* number of items of each checklist the run starts with
    Modes,          \* values of EnableIncrementalUpdates to explore
    MaxRequests,    \* bound: requests that change the run
    MaxFetches      \* bound: times a view that fetches the run is opened or
                    \* the websocket breaks

ASSUME RunSyncAssumption ==
    /\ Checklists0 \in Seq(Nat)
    /\ Modes \subseteq BOOLEAN
    /\ MaxRequests \in Nat
    /\ MaxFetches \in Nat

VARIABLES
    incremental,    \* EnableIncrementalUpdates
    row,            \* the run in the database
    clock,          \* last time a handler read
    hdl,            \* per handler: step, original and copy of the run
    wire,           \* websocket messages on their way to the client
    fetches,        \* HTTP requests of the client, open or answered
    client,         \* the run in the client's store
    budget,         \* what is left of the bounds
    lost            \* history: ways in which the client missed a change

vars == <<incremental, row, clock, hdl, wire, fetches, client, budget, lost>>

NoRun == [updateAt |-> 0]
Idle  == [pc |-> "idle"]

-----------------------------------------------------------------------------
(* Every request reads the run, checks its indices against what it read    *)
(* and changes its copy.  What it does after the write: event says whether *)
(* it records one, last is "publish" if it sends the copy it wrote and     *)
(* "reread" if it sends the run as it is by then.                          *)

Now   == clock + 1
Lists == row.checklists

BeginFrom(h, original, checklists, event, last) ==
    /\ hdl[h] = Idle
    /\ budget.requests > 0
    /\ budget' = [budget EXCEPT !.requests = @ - 1]
    /\ clock' = Now
    /\ hdl' = [hdl EXCEPT ![h] =
                  [ pc       |-> "write",
                    original |-> [row EXCEPT !.checklists = original],
                    copy     |-> [row EXCEPT !.checklists = checklists],
                    event    |-> event,
                    last     |-> last ]]
    /\ UNCHANGED <<incremental, row, wire, fetches, client, lost>>

Begin(h, checklists, event, last) == BeginFrom(h, Lists, checklists, event, last)

(* Nothing happens if the item has the state already. *)
CheckItem(h, c, i) ==
    \E state \in {StateOpen, StateClosed} :
        /\ Lists[c].items[i].state # state
        /\ Begin(h, ModifyCheckedState(Lists, c, i, state, Now), TRUE, "reread")

AssignItem(h, c, i) ==
    Begin(h, SetItemDetail(Lists, c, i, Now), TRUE, "reread")

EditItem(h, c, i) ==
    Begin(h, SetItemDetail(Lists, c, i, Now), FALSE, "publish")

(* The command has run: the run is read again and the time recorded. *)
RecordCommandRun(h, c, i) ==
    Begin(h, SetItemDetail(Lists, c, i, Now), TRUE, "publish")

SkipItem(h, c, i) ==
    Begin(h, SkipChecklistItem(Lists, c, i, Now), FALSE, "publish")

RestoreItem(h, c, i) ==
    Begin(h, RestoreChecklistItem(Lists, c, i, Now), FALSE, "publish")

(* The checklist is stamped before the run is copied to compare with, so   *)
(* that its time is not among the changes.                                 *)
WithTime(checklists, c, stamp) == [checklists EXCEPT ![c].updateAt = stamp]

DuplicateItem(h, c, i) ==
    BeginFrom(h, WithTime(Lists, c, Now),
              DuplicateChecklistItem(Lists, c, i, Now), FALSE, "publish")

RemoveItem(h, c, i) ==
    Begin(h, RemoveChecklistItem(Lists, c, i, Now), FALSE, "publish")

MoveItem(h, c, i) ==
    \E toC \in DOMAIN Lists : \E toI \in 1 .. Len(Lists[toC].items) + 1 :
        /\ ValidDestItem(Lists, c, toC, toI)
        /\ Begin(h, MoveChecklistItem(Lists, c, i, toC, toI, Now), FALSE, "publish")

AddItem(h, c) == Begin(h, AddChecklistItem(Lists, c, Now), FALSE, "publish")

DuplicateList(h, c) ==
    Begin(h, DuplicateChecklist(Lists, c, Now), FALSE, "publish")

RemoveList(h, c) == Begin(h, RemoveChecklist(Lists, c), FALSE, "publish")

RenameList(h, c) == Begin(h, RenameChecklist(Lists, c, Now), FALSE, "publish")

SkipList(h, c) == Begin(h, SkipChecklist(Lists, c, Now), FALSE, "publish")

RestoreList(h, c) == Begin(h, RestoreChecklist(Lists, c, Now), FALSE, "publish")

MoveList(h, c) ==
    \E toC \in DOMAIN Lists :
        Begin(h, MoveChecklist(Lists, c, toC, Now), FALSE, "publish")

AddList(h) == Begin(h, AddChecklist(Lists, Now), FALSE, "publish")

ItemRequest(h, c, i) ==
    \/ CheckItem(h, c, i)
    \/ AssignItem(h, c, i)
    \/ EditItem(h, c, i)
    \/ RecordCommandRun(h, c, i)
    \/ SkipItem(h, c, i)
    \/ RestoreItem(h, c, i)
    \/ DuplicateItem(h, c, i)
    \/ RemoveItem(h, c, i)
    \/ MoveItem(h, c, i)

ListRequest(h, c) ==
    \/ AddItem(h, c)
    \/ DuplicateList(h, c)
    \/ RemoveList(h, c)
    \/ RenameList(h, c)
    \/ SkipList(h, c)
    \/ RestoreList(h, c)
    \/ MoveList(h, c)

-----------------------------------------------------------------------------
(* The steps a handler takes after it has changed its copy. *)

AtStep(h, pc) == hdl[h] # Idle /\ hdl[h].pc = pc

(* The whole row is written, whatever it holds by now; timeline events are *)
(* not part of it.  The copy comes back with its stamp and identifiers.    *)
WriteRun(h) ==
    LET written == [hdl[h].copy EXCEPT
                       !.updateAt   = Now,
                       !.checklists = PopulateChecklistIDs(@, Now)]
    IN  /\ AtStep(h, "write")
        /\ clock' = Now
        /\ row' = [written EXCEPT !.events = row.events]
        /\ hdl' = [hdl EXCEPT ![h].copy = written,
                              ![h].pc   = IF hdl[h].event THEN "record"
                                                          ELSE hdl[h].last]
        /\ lost' = IF row.updateAt = hdl[h].original.updateAt
                   THEN lost ELSE lost \cup {"overwritten"}
        /\ UNCHANGED <<incremental, wire, fetches, client, budget>>

(* Events are named by the stamp of the write they belong to. *)
RecordEvent(h) ==
    /\ AtStep(h, "record")
    /\ row' = [row EXCEPT !.events = @ \cup {hdl[h].copy.updateAt}]
    /\ hdl' = [hdl EXCEPT ![h].pc = hdl[h].last]
    /\ UNCHANGED <<incremental, clock, wire, fetches, client, budget, lost>>

RereadRun(h) ==
    /\ AtStep(h, "reread")
    /\ hdl' = [hdl EXCEPT ![h].copy = row, ![h].pc = "publish"]
    /\ UNCHANGED <<incremental, row, clock, wire, fetches, client, budget, lost>>

(* The checklists of the new version do not come in the order of the       *)
(* previous one, less those removed and followed by the new ones.          *)
Reorders(previous, current) ==
    ChecklistsOrder(current) #
        ChecklistsOrder(Without(previous, IDs(previous) \ IDs(current))
                            \o Without(current, IDs(previous)))

(* An update that changes nothing is not sent.  Without incremental        *)
(* updates the whole copy is.  A copy made before an event was recorded    *)
(* does not carry it, and a whole run that lacks one takes it away.  An    *)
(* update says that a checklist was moved, and no client moves it.         *)
PublishRun(h) ==
    LET update  == DetectChangedFields(hdl[h].original, hdl[h].copy)
        message == IF incremental THEN [full |-> FALSE, update |-> update]
                                  ELSE [full |-> TRUE, run |-> ClientRun(hdl[h].copy)]
        unsent  == IF incremental THEN hdl[h].event /\ hdl[h].last = "publish"
                                  ELSE hdl[h].copy.events # row.events
        moved   == incremental /\ Reorders(hdl[h].original.checklists,
                                           hdl[h].copy.checklists)
    IN  /\ AtStep(h, "publish")
        /\ wire' = IF incremental /\ NothingChanged(update)
                   THEN wire ELSE Append(wire, message)
        /\ lost' = lost \cup (IF unsent THEN {"event"} ELSE {})
                        \cup (IF moved THEN {"moved"} ELSE {})
        /\ hdl' = [hdl EXCEPT ![h] = Idle]
        /\ UNCHANGED <<incremental, row, clock, fetches, client, budget>>

-----------------------------------------------------------------------------
(* The client. *)

Asked == [answered |-> FALSE]

(* Whatever the client missed is repaired by a whole run that is the one   *)
(* in the database, if nothing older can still arrive.                     *)
Repairs(run, pending) ==
    /\ run = ClientRun(row)
    /\ pending = <<>>
    /\ \A h \in Handlers : hdl[h] = Idle

(* The client has a later version, or an event recorded since. *)
Rewinds(run) ==
    /\ client # NoRun
    /\ client.updateAt > run.updateAt \/ ~(client.events \subseteq run.events)

LostBySetting(run, pending) ==
    (IF Repairs(run, pending) THEN {} ELSE lost)
        \cup (IF Rewinds(run) THEN {"rewound"} ELSE {})

(* A whole run replaces what the client has. *)
ReceiveRun ==
    /\ wire # <<>>
    /\ Head(wire).full
    /\ client' = Head(wire).run
    /\ wire' = Tail(wire)
    /\ lost' = LostBySetting(Head(wire).run, Tail(wire) \o fetches)
    /\ UNCHANGED <<incremental, row, clock, hdl, fetches, budget>>

(* A client that does not have the run drops the update and fetches it. *)
FetchMissingRun ==
    /\ wire # <<>>
    /\ ~Head(wire).full
    /\ client = NoRun
    /\ wire' = Tail(wire)
    /\ fetches' = Append(fetches, Asked)
    /\ UNCHANGED <<incremental, row, clock, hdl, client, budget, lost>>

(* What the client is told is there already. *)
Subsumed(update) == ApplyChangedFields(client, update)
                        = [client EXCEPT !.updateAt = update.updateAt]

(* The client makes a checklist it has not been told of from an update of  *)
(* it: the message that described the checklist itself has not come.       *)
MakesPart(update) ==
    \E u \in ToSet(update.checklists) :
        /\ ~HasID(client.checklists, u.id)
        /\ u.title = 0 \/ u.updateAt # 0 \/ u.updates # {} \/ u.deletes # {}
                       \/ u.itemsOrder # <<>>

ReceiveUpdate ==
    LET update == Head(wire).update
    IN  /\ wire # <<>>
        /\ ~Head(wire).full
        /\ client # NoRun
        /\ client' = ApplyIncrementalUpdate(client, update)
        /\ wire' = Tail(wire)
        /\ lost' = IF IsOlder(update, client)
                   THEN IF Subsumed(update) THEN lost ELSE lost \cup {"skipped"}
                   ELSE IF MakesPart(update) THEN lost \cup {"part"} ELSE lost
        /\ UNCHANGED <<incremental, row, clock, hdl, fetches, budget>>

(* The user opens a view that fetches the run. *)
OpenRun ==
    /\ budget.fetches > 0
    /\ budget' = [budget EXCEPT !.fetches = @ - 1]
    /\ fetches' = Append(fetches, Asked)
    /\ UNCHANGED <<incremental, row, clock, hdl, wire, client, lost>>

(* Messages under way are gone; after the reconnection the client fetches. *)
Reconnect ==
    /\ budget.fetches > 0
    /\ budget' = [budget EXCEPT !.fetches = @ - 1]
    /\ wire' = <<>>
    /\ fetches' = Append(fetches, Asked)
    /\ UNCHANGED <<incremental, row, clock, hdl, client, lost>>

AnswerFetch(k) ==
    /\ ~fetches[k].answered
    /\ fetches' = [fetches EXCEPT ![k] = [answered |-> TRUE, run |-> ClientRun(row)]]
    /\ UNCHANGED <<incremental, row, clock, hdl, wire, client, budget, lost>>

ReceiveAnswer(k) ==
    /\ fetches[k].answered
    /\ client' = fetches[k].run
    /\ fetches' = RemoveAt(fetches, k)
    /\ lost' = LostBySetting(fetches[k].run, wire \o RemoveAt(fetches, k))
    /\ UNCHANGED <<incremental, row, clock, hdl, wire, budget>>

(* The error is swallowed. *)
FetchFails(k) ==
    /\ fetches' = RemoveAt(fetches, k)
    /\ lost' = lost \cup {"unfetched"}
    /\ UNCHANGED <<incremental, row, clock, hdl, wire, client, budget>>

-----------------------------------------------------------------------------
InitialRun ==
    [ updateAt   |-> 1,
      checklists |-> [c \in DOMAIN Checklists0 |->
                        [ id       |-> NewId(1, c, 0),
                          title    |-> 1,
                          updateAt |-> 1,
                          items    |-> [i \in 1 .. Checklists0[c] |->
                                          [NewItem(1) EXCEPT !.id = NewId(1, c, i)]] ]],
      events     |-> {} ]

Init ==
    /\ incremental \in Modes
    /\ row = InitialRun
    /\ clock = 1
    /\ hdl = [h \in Handlers |-> Idle]
    /\ wire = <<>>
    /\ fetches = <<>>
    /\ client \in {NoRun, ClientRun(InitialRun)}
    /\ budget = [requests |-> MaxRequests, fetches |-> MaxFetches]
    /\ lost = {}

Serve(h) ==
    \/ \E c \in DOMAIN Lists :
        \/ ListRequest(h, c)
        \/ \E i \in DOMAIN Lists[c].items : ItemRequest(h, c, i)
    \/ AddList(h)
    \/ WriteRun(h)
    \/ RecordEvent(h)
    \/ RereadRun(h)
    \/ PublishRun(h)

Follow ==
    \/ ReceiveRun
    \/ FetchMissingRun
    \/ ReceiveUpdate
    \/ OpenRun
    \/ Reconnect
    \/ \E k \in DOMAIN fetches :
        AnswerFetch(k) \/ ReceiveAnswer(k) \/ FetchFails(k)

Next == (\E h \in Handlers : Serve(h)) \/ Follow

Spec == Init /\ [][Next]_vars

-----------------------------------------------------------------------------
(* Properties. *)

Quiet ==
    /\ \A h \in Handlers : hdl[h] = Idle
    /\ wire = <<>>
    /\ fetches = <<>>

(* What a user sees of a run: the checklists in their order, each with its *)
(* title and its items in theirs, and the timeline.                        *)
Seen(run) ==
    [ checklists |-> [c \in DOMAIN run.checklists |->
                        [ id    |-> run.checklists[c].id,
                          title |-> run.checklists[c].title,
                          items |-> run.checklists[c].items ]],
      events     |-> run.events ]

(* Once every request has been served and every message delivered, a       *)
(* client shows the run that is in the database, unless one of the ways    *)
(* lost names has made it miss a change: a handler overwrote a row that    *)
(* had changed since it read it, an update was skipped as older although   *)
(* what it said was news, a checklist was made from part of what there is  *)
(* to say of it, an update said that a checklist was moved, a message did  *)
(* not carry an event, a whole run arrived after a newer one, or a fetch   *)
(* failed.  In particular a client is in sync after any requests served    *)
(* one at a time, a move of a checklist apart, and again after a fetch     *)
(* that nothing overtakes.                                                 *)
InSync == Quiet /\ lost = {} /\ client # NoRun => Seen(client) = Seen(row)

(* The update a client receives next could be delivered twice: "apply      *)
(* incremental updates idempotently" (playbook_run_updates.ts).            *)
Idempotent ==
    wire # <<>> /\ ~Head(wire).full /\ client # NoRun =>
        LET once == ApplyIncrementalUpdate(client, Head(wire).update)
        IN  ApplyIncrementalUpdate(once, Head(wire).update) = once

(* "We already have a newer update, skip this one": what a client skips as *)
(* older is contained in what it has.  It is asked only while no handler   *)
(* has overwritten another, so that all the updates are true of the run in *)
(* the database.                                                           *)
SkippedIsContained ==
    /\ wire # <<>>
    /\ ~Head(wire).full
    /\ client # NoRun
    /\ IsOlder(Head(wire).update, client)
    /\ "overwritten" \notin lost
    => Subsumed(Head(wire).update)
=============================================================================
