-------------------------- MODULE Assignments_proofs --------------------------
(***************************************************************************)
(* Theorems about Assignments for every set of users, options and          *)
(* handlers, every list of tasks and every bound: the typing of the        *)
(* variables; that owner and roles agree however handlers overlap; that    *)
(* work stays visible; that the owner takes part; and that the tasks are   *)
(* those the two property fields ask for.                                  *)
(***************************************************************************)
EXTENDS Assignments, SequenceTheorems, TLAPS

USE AssignmentsAssumption

-----------------------------------------------------------------------------
(* The steps of a request. *)

(* A list of steps that can be taken for this user with this copy: whoever *)
(* joins or follows is a user, the run is written once at most, and only   *)
(* if there is a copy.                                                     *)
CanDo(todo, who, copy) ==
    /\ todo \in Seq(Steps)
    /\ \A i \in DOMAIN todo : todo[i] \in {"join", "follow"} => who \in Users
    /\ \A i \in DOMAIN todo : todo[i] = "write" => copy \in Run
    /\ \A i, j \in DOMAIN todo : todo[i] = "write" /\ todo[j] = "write" => i = j

(* The steps left after one of them can be taken, after the write without  *)
(* the copy.                                                               *)
LEMMA TailCanDo ==
    ASSUME NEW todo, NEW who, NEW copy, CanDo(todo, who, copy), todo # <<>>
    PROVE  /\ CanDo(Tail(todo), who, copy)
           /\ Head(todo) = "write" => copy \in Run /\ CanDo(Tail(todo), who, NoCopy)
           /\ Head(todo) \in {"join", "follow"} => who \in Users
<1>1. /\ Tail(todo) \in Seq(Steps)
      /\ Len(Tail(todo)) = Len(todo) - 1
      /\ \A i \in 1 .. Len(Tail(todo)) : Tail(todo)[i] = todo[i + 1]
  BY HeadTailProperties DEF CanDo
<1>2. /\ Len(todo) \in Nat \ {0}
      /\ DOMAIN todo = 1 .. Len(todo)
      /\ Head(todo) = todo[1]
  BY EmptySeq, LenProperties DEF CanDo
<1>3. DOMAIN Tail(todo) = 1 .. Len(todo) - 1
  BY <1>1, LenProperties
<1>4. \A i \in DOMAIN Tail(todo) : i + 1 \in DOMAIN todo /\ i + 1 # 1
                                   /\ Tail(todo)[i] = todo[i + 1]
  BY <1>1, <1>2, <1>3
<1>5. CanDo(Tail(todo), who, copy)
  BY <1>1, <1>3, <1>4 DEF CanDo
<1>6. ASSUME Head(todo) = "write" PROVE copy \in Run /\ CanDo(Tail(todo), who, NoCopy)
  <2>1. \A i \in DOMAIN Tail(todo) : Tail(todo)[i] # "write"
    BY <1>2, <1>4, <1>6 DEF CanDo
  <2>. QED BY <1>2, <1>5, <1>6, <2>1 DEF CanDo
<1>. QED BY <1>2, <1>5, <1>6 DEF CanDo

(* So can the steps left when a user is passed over. *)
LEMMA RestCanDo ==
    ASSUME NEW todo, NEW who, NEW copy, CanDo(todo, who, copy)
    PROVE  CanDo(SubSeq(todo, 3, Len(todo)), who, copy)
<1> DEFINE rest == SubSeq(todo, 3, Len(todo))
<1>1. Len(todo) \in Nat /\ DOMAIN todo = 1 .. Len(todo)
  BY LenProperties DEF CanDo
<1>2. \A i \in 3 .. Len(todo) : todo[i] \in Steps
  BY <1>1, ElementOfSeq DEF CanDo
<1>3. /\ rest \in Seq(Steps)
      /\ Len(rest) = IF 3 <= Len(todo) THEN Len(todo) - 3 + 1 ELSE 0
      /\ \A i \in 1 .. Len(todo) - 3 + 1 : rest[i] = todo[3 + i - 1]
  BY <1>1, <1>2, SubSeqProperties
<1>4. DOMAIN rest = 1 .. Len(rest)
  BY <1>3, LenProperties
<1>5. \A i \in DOMAIN rest : i + 2 \in DOMAIN todo /\ i \in Int /\ rest[i] = todo[i + 2]
  BY <1>1, <1>3, <1>4
<1>. HIDE DEF rest
<1>6. CanDo(rest, who, copy)
  BY <1>3, <1>5 DEF CanDo
<1>. QED BY <1>6 DEF rest

(* Two lists of which one does not write can be taken one after the other. *)
LEMMA BothCanDo ==
    ASSUME NEW s, NEW t, NEW who, NEW copy, CanDo(s, who, copy), CanDo(t, who, copy),
           \/ \A i \in DOMAIN s : s[i] # "write"
           \/ \A i \in DOMAIN t : t[i] # "write"
    PROVE  CanDo(s \o t, who, copy)
<1> DEFINE st == s \o t
<1>1. /\ Len(s) \in Nat /\ DOMAIN s = 1 .. Len(s)
      /\ Len(t) \in Nat /\ DOMAIN t = 1 .. Len(t)
  BY LenProperties DEF CanDo
<1>2. /\ st \in Seq(Steps)
      /\ Len(st) = Len(s) + Len(t)
      /\ \A i \in 1 .. Len(s) + Len(t) : st[i] = IF i <= Len(s) THEN s[i] ELSE t[i - Len(s)]
  BY ConcatProperties DEF CanDo
<1>3. DOMAIN st = 1 .. Len(s) + Len(t)
  BY <1>2, LenProperties
<1>. HIDE DEF st
<1>4. \A i \in DOMAIN st :
          \/ i \in DOMAIN s /\ st[i] = s[i]
          \/ i - Len(s) \in DOMAIN t /\ st[i] = t[i - Len(s)]
  BY <1>1, <1>2, <1>3
<1>5. \A i, j \in DOMAIN st : st[i] = "write" /\ st[j] = "write" => i = j
  BY <1>1, <1>3, <1>4 DEF CanDo
<1>6. CanDo(st, who, copy)
  BY <1>2, <1>4, <1>5 DEF CanDo
<1>. QED BY <1>6 DEF st

(* The lists of steps requests start with. *)
LEMMA PlansCanDo ==
    ASSUME NEW who \in Users, NEW any, NEW copy \in Run
    PROVE  /\ CanDo(Adding, who, NoCopy)
           /\ CanDo(Removing, who, NoCopy)
           /\ CanDo(Adding \o <<"write">>, who, copy)
           /\ CanDo(<<"upsert">>, any, NoCopy)
           /\ CanDo(<<"upsert", "write">>, any, copy)
           /\ CanDo(<<"write">>, any, copy)
           /\ CanDo(<<"write">> \o Adding, who, copy)
           /\ CanDo(<<"upsert", "write">> \o Adding, who, copy)
           /\ <<"write">> \o <<>> = <<"write">>
           /\ <<"upsert", "write">> \o <<>> = <<"upsert", "write">>
<1>1. \A c : CanDo(Adding, who, c) /\ CanDo(Removing, who, c)
  BY DEF CanDo, Adding, Removing, Steps
<1>2. \A i \in DOMAIN Adding : Adding[i] # "write"
  BY DEF Adding
<1>3. \A a, c : CanDo(<<"upsert">>, a, c)
  BY DEF CanDo, Steps
<1>4. \A a : CanDo(<<"write">>, a, copy) /\ CanDo(<<"upsert", "write">>, a, copy)
  BY DEF CanDo, Steps
<1>5. <<"write">> \in Seq(Steps) /\ <<"upsert", "write">> \in Seq(Steps)
  BY <1>4 DEF CanDo
<1>6. /\ CanDo(Adding \o <<"write">>, who, copy)
      /\ CanDo(<<"write">> \o Adding, who, copy)
      /\ CanDo(<<"upsert", "write">> \o Adding, who, copy)
  BY <1>1, <1>2, <1>4, BothCanDo
<1>. QED BY <1>1, <1>3, <1>4, <1>5, <1>6, ConcatEmptySeq

-----------------------------------------------------------------------------
(* Tasks. *)

Assignees == Users \cup {None}

LEMMA FunctionIsSeq ==
    ASSUME NEW S, NEW n \in Nat, NEW f \in [1 .. n -> S]
    PROVE  f \in Seq(S)
OBVIOUS

LEMMA AssignedTyping ==
    ASSUME NEW item \in Item, NEW type \in Types, NEW user \in Assignees
    PROVE  /\ Assigned(item, type, user) \in Item
           /\ Assigned(item, type, user).type = type
           /\ Assigned(item, type, user).assignee = user
BY DEF Assigned, Item, Assignees

(* Reassigning the tasks of a kind leaves the others alone. *)
LEMMA ReassignedTyping ==
    ASSUME NEW items \in Seq(Item), NEW type \in Types, NEW user \in Assignees
    PROVE  /\ Reassigned(items, type, user) \in Seq(Item)
           /\ DOMAIN Reassigned(items, type, user) = DOMAIN items
           /\ \A i \in DOMAIN items :
                 LET item == Reassigned(items, type, user)[i] IN
                 /\ item.type = items[i].type
                 /\ item.assignee = IF items[i].type = type THEN user
                                    ELSE items[i].assignee
<1>1. Len(items) \in Nat /\ DOMAIN items = 1 .. Len(items)
      /\ \A i \in DOMAIN items : items[i] \in Item
  BY LenProperties, ElementOfSeq
<1>2. \A i \in DOMAIN items :
          /\ Reassigned(items, type, user)[i] \in Item
          /\ Reassigned(items, type, user)[i].type = items[i].type
          /\ Reassigned(items, type, user)[i].assignee
                = IF items[i].type = type THEN user ELSE items[i].assignee
  BY <1>1, AssignedTyping DEF Reassigned
<1>3. Reassigned(items, type, user) \in [1 .. Len(items) -> Item]
  BY <1>1, <1>2 DEF Reassigned
<1>4. Reassigned(items, type, user) \in Seq(Item)
  BY <1>1, <1>3, FunctionIsSeq
<1>. QED BY <1>1, <1>2, <1>3, <1>4

(* Conditions decide which tasks are shown, not whose they are. *)
LEMMA ConditionTyping ==
    ASSUME NEW items \in Seq(Item), NEW met \in BOOLEAN
    PROVE  /\ ApplyConditionResults(items, met) \in Seq(Item)
           /\ DOMAIN ApplyConditionResults(items, met) = DOMAIN items
           /\ \A i \in DOMAIN items :
                 LET item == ApplyConditionResults(items, met)[i] IN
                 /\ item.type = items[i].type
                 /\ item.assignee = items[i].assignee
<1>1. Len(items) \in Nat /\ DOMAIN items = 1 .. Len(items)
      /\ \A i \in DOMAIN items : items[i] \in Item
  BY LenProperties, ElementOfSeq
<1>2. \A i \in DOMAIN items :
          ActionOf(items[i], met) \in {"", "hidden", "shown_because_modified"}
  BY <1>1 DEF ActionOf, Item
<1>3. \A i \in DOMAIN items :
          /\ ApplyConditionResults(items, met)[i] \in Item
          /\ ApplyConditionResults(items, met)[i].type = items[i].type
          /\ ApplyConditionResults(items, met)[i].assignee = items[i].assignee
  BY <1>1, <1>2 DEF ApplyConditionResults, Item
<1>4. ApplyConditionResults(items, met) \in [1 .. Len(items) -> Item]
  BY <1>1, <1>3 DEF ApplyConditionResults
<1>5. ApplyConditionResults(items, met) \in Seq(Item)
  BY <1>1, <1>4, FunctionIsSeq
<1>. QED BY <1>1, <1>3, <1>4, <1>5

(* The tasks a run starts with go to the roles they name. *)
LEMMA RolesResolved ==
    /\ ResolveRoleAssignments \in Seq(Item)
    /\ \A i \in DOMAIN ResolveRoleAssignments :
          LET item == ResolveRoleAssignments[i] IN
          item.type \in {OwnerRole, CreatorRole} => item.assignee = Creator
<1> DEFINE T == [type : Types, conditional : BOOLEAN]
<1>1. Len(Tasks) \in Nat /\ DOMAIN Tasks = 1 .. Len(Tasks)
      /\ \A i \in DOMAIN Tasks : Tasks[i] \in T
  BY LenProperties, ElementOfSeq
<1>2. \A i \in DOMAIN Tasks :
          /\ ResolvedRole(Tasks[i].type) \in Assignees
          /\ Tasks[i].type \in {OwnerRole, CreatorRole}
                => ResolvedRole(Tasks[i].type) = Creator
  BY <1>1 DEF ResolvedRole, Assignees, Types, SpecificUser, OwnerRole, CreatorRole,
              PropertyUser
<1>3. ResolveRoleAssignments \in [1 .. Len(Tasks) -> Item]
  BY <1>1, <1>2 DEF ResolveRoleAssignments, Item, Assignees
<1>4. ResolveRoleAssignments \in Seq(Item)
  BY <1>1, <1>3, FunctionIsSeq
<1>. QED BY <1>1, <1>2, <1>4 DEF ResolveRoleAssignments

-----------------------------------------------------------------------------
(* The inductive invariant.  The copy a handler holds becomes the row, so  *)
(* owner and roles have to agree in every copy as well, and a handler may  *)
(* write a copy only if it has one.                                        *)

Kept(run) == \A i \in DOMAIN run.items : RoleKept(run, run.items[i])

Fits(request) ==
    /\ CanDo(request.todo, request.who, request.copy)
    /\ request.field = "user" => request.value \in Assignees
    /\ request.field = "select" => request.value \in Options
    /\ Kept(request.copy)

HandlersOK ==
    /\ hdl \in [Handlers -> {Idle} \cup Request]
    /\ \A h \in Handlers : hdl[h] # Idle => Fits(hdl[h])

IInv == TypeOK /\ RolesFollowOwner /\ HandlersOK

News == {"overwritten", "stale", "owner"}

LEMMA NoCopyKept == Kept(NoCopy)
BY DEF Kept, NoCopy

(* A request that fits may begin. *)
LEMMA BeginKeeps ==
    ASSUME IInv, NEW h \in Handlers,
           NEW todo, NEW who \in Assignees, NEW copy \in Run \cup {NoCopy},
           NEW field \in {"", "user", "select"}, NEW value \in Assignees \cup Options,
           CanDo(todo, who, copy), todo # <<>>, Kept(copy),
           field = "user" => value \in Assignees,
           field = "select" => value \in Options,
           Begin(h, todo, who, copy, field, value)
    PROVE  IInv'
<1> DEFINE r == [ todo   |-> todo,
                  who    |-> who,
                  copy   |-> copy,
                  field  |-> field,
                  value  |-> value,
                  behind |-> {} ]
<1>1. r \in Request /\ Fits(r)
  BY DEF Request, Fits, CanDo, Assignees
<1>. HIDE DEF r
<1>2. hdl' = [hdl EXCEPT ![h] = r] /\ UNCHANGED <<row, participants, followers, values, team, missed>>
  BY DEF Begin, r
<1>3. HandlersOK'
  BY <1>1, <1>2 DEF IInv, HandlersOK
<1>. QED BY <1>2, <1>3 DEF IInv, TypeOK, HandlersOK, RolesFollowOwner

(* So may a handler go on with steps it can take. *)
LEMMA AdvanceKeeps ==
    ASSUME HandlersOK, NEW h \in Handlers, hdl[h] # Idle,
           NEW todo, NEW copy \in Run \cup {NoCopy}, NEW news \in SUBSET News,
           CanDo(todo, hdl[h].who, copy), Kept(copy),
           Advance(h, todo, copy, news)
    PROVE  HandlersOK'
<1> DEFINE r(k) == IF k = h THEN IF todo = <<>> THEN Idle
                             ELSE [hdl[k] EXCEPT !.todo = todo, !.copy = copy]
                   ELSE IF hdl[k] = Idle THEN Idle
                        ELSE [hdl[k] EXCEPT !.behind = @ \cup news]
<1>1. ASSUME NEW k \in Handlers
      PROVE  r(k) \in {Idle} \cup Request /\ (r(k) # Idle => Fits(r(k)))
  <2>1. hdl[k] # Idle => hdl[k] \in Request /\ Fits(hdl[k])
    BY DEF HandlersOK
  <2>2. CASE k = h
    <3>1. CASE todo = <<>>
      BY <2>2, <3>1
    <3>2. CASE todo # <<>>
      <4>1. r(k) = [hdl[h] EXCEPT !.todo = todo, !.copy = copy]
        BY <2>2, <3>2
      <4>2. r(k) \in Request
        BY <2>1, <2>2, <3>2, <4>1 DEF Request, CanDo
      <4>3. Fits(r(k))
        BY <2>1, <2>2, <4>1 DEF Request, Fits
      <4>. QED BY <4>2, <4>3
    <3>. QED BY <3>1, <3>2
  <2>3. CASE k # h /\ hdl[k] = Idle
    BY <2>3
  <2>4. CASE k # h /\ hdl[k] # Idle
    <3>1. r(k) = [hdl[k] EXCEPT !.behind = @ \cup news]
      BY <2>4
    <3>2. r(k) \in Request
      BY <2>1, <2>4, <3>1 DEF Request, News
    <3>3. Fits(r(k))
      BY <2>1, <2>4, <3>1 DEF Request, Fits
    <3>. QED BY <3>2, <3>3
  <2>. QED BY <2>2, <2>3, <2>4
<1>2. hdl' = [k \in Handlers |-> r(k)]
  BY DEF Advance
<1>. HIDE DEF r
<1>. QED BY <1>1, <1>2 DEF HandlersOK

-----------------------------------------------------------------------------
(* The requests. *)

(* What a handler knows of the run it has read. *)
LEMMA RowFacts ==
    ASSUME IInv
    PROVE  /\ row \in Run /\ row.items \in Seq(Item) /\ row.owner \in Users
           /\ Kept(row)
           /\ DOMAIN row.items = 1 .. Len(row.items) /\ Len(row.items) \in Nat
           /\ \A i \in DOMAIN row.items : row.items[i] \in Item
<1>1. row \in Run /\ row.items \in Seq(Item) /\ row.owner \in Users
  BY DEF IInv, TypeOK, Run
<1>. QED BY <1>1, LenProperties, ElementOfSeq DEF IInv, RolesFollowOwner, Kept

(* Other tasks in the same run. *)
LEMMA CopyOfRow ==
    ASSUME IInv, NEW items \in Seq(Item),
           \A i \in DOMAIN items : RoleKept(row, items[i])
    PROVE  [row EXCEPT !.items = items] \in Run /\ Kept([row EXCEPT !.items = items])
<1>1. [row EXCEPT !.items = items] = [owner |-> row.owner, items |-> items]
  BY RowFacts DEF Run
<1>. QED BY <1>1, RowFacts DEF Run, Kept, RoleKept

(* A write of other tasks keeps the invariant. *)
LEMMA BeginWriteKeeps ==
    ASSUME IInv, NEW h \in Handlers, NEW u \in Users, NEW items \in Seq(Item),
           NEW a \in Assignees,
           \A i \in DOMAIN items : RoleKept(row, items[i]),
           BeginWrite(h, u, items, a)
    PROVE  IInv'
<1> DEFINE copy == [row EXCEPT !.items = items]
           todo == <<"write">> \o AddAssignee(u, a)
<1>1. copy \in Run /\ Kept(copy)
  BY CopyOfRow
<1>. HIDE DEF copy
<1>2. CanDo(todo, a, copy) /\ todo # <<>>
  <2>1. CASE AddAssignee(u, a) = <<>>
    <3>1. todo = <<"write">> /\ CanDo(<<"write">>, a, copy)
      BY <1>1, <2>1, PlansCanDo
    <3>2. <<"write">> # <<>>
      OBVIOUS
    <3>. HIDE DEF todo
    <3>. QED BY <3>1, <3>2
  <2>2. CASE AddAssignee(u, a) = Adding /\ a # None
    <3>1. CanDo(todo, a, copy)
      BY <1>1, <2>2, PlansCanDo DEF Assignees
    <3>2. Len(todo) = 4
      BY <2>2, ConcatProperties, PlansCanDo, <1>1 DEF CanDo, Adding, Steps
    <3>. QED BY <3>1, <3>2
  <2>. QED BY <2>1, <2>2 DEF AddAssignee
<1>. HIDE DEF todo
<1>3. Begin(h, todo, a, copy, "", None)
  BY DEF BeginWrite, todo, copy
<1>. QED BY <1>1, <1>2, <1>3, BeginKeeps DEF Assignees

LEMMA AssignTaskKeeps ==
    ASSUME IInv, NEW h \in Handlers, NEW u \in Users, NEW i \in DOMAIN row.items,
           NEW type \in Types, NEW a \in Assignees,
           type = OwnerRole => a = row.owner,
           type = CreatorRole => a = Creator,
           AssignTask(h, u, i, type, a)
    PROVE  IInv'
<1> DEFINE item == Assigned(row.items[i], type, a)
           items == [row.items EXCEPT ![i] = item]
<1>1. item \in Item /\ item.type = type /\ item.assignee = a
  BY RowFacts, AssignedTyping
<1>. HIDE DEF item
<1>2. items \in Seq(Item) /\ DOMAIN items = DOMAIN row.items
      /\ \A j \in DOMAIN items : items[j] = IF j = i THEN item ELSE row.items[j]
  BY <1>1, RowFacts, ExceptSeq
<1>3. \A j \in DOMAIN items : RoleKept(row, items[j])
  BY <1>1, <1>2, RowFacts DEF Kept, RoleKept
<1>4. BeginWrite(h, u, items, a)
  BY DEF AssignTask, item
<1>. HIDE DEF items
<1>. QED BY <1>2, <1>3, <1>4, BeginWriteKeeps

LEMMA TaskRequestKeeps ==
    ASSUME IInv, NEW h \in Handlers, NEW u \in Users, TaskRequest(h, u)
    PROVE  IInv'
<1>1. values.user \in Assignees
  BY DEF IInv, TypeOK, Values, Assignees
<1>2. ASSUME NEW i \in DOMAIN row.items, ModifyCheckedState(h, u, i) PROVE IInv'
  <2> DEFINE item == [row.items[i] EXCEPT !.modified = TRUE]
             items == [row.items EXCEPT ![i] = item]
  <2>1. item \in Item /\ item.type = row.items[i].type
        /\ item.assignee = row.items[i].assignee
    BY <1>2, RowFacts DEF Item
  <2>2. items = [row.items EXCEPT ![i].modified = TRUE]
    BY <1>2, RowFacts
  <2>. HIDE DEF item
  <2>3. items \in Seq(Item) /\ DOMAIN items = DOMAIN row.items
        /\ \A j \in DOMAIN items : items[j] = IF j = i THEN item ELSE row.items[j]
    BY <1>2, <2>1, RowFacts, ExceptSeq
  <2>4. \A j \in DOMAIN items : RoleKept(row, items[j])
    BY <1>2, <2>1, <2>3, RowFacts DEF Kept, RoleKept
  <2>5. BeginWrite(h, u, items, None)
    BY <1>2, <2>2 DEF ModifyCheckedState
  <2>. HIDE DEF items
  <2>. QED BY <2>3, <2>4, <2>5, BeginWriteKeeps DEF Assignees
<1>3. ASSUME NEW i \in DOMAIN row.items, NEW a \in Assignees, SetAssignee(h, u, i, a)
      PROVE  IInv'
  BY <1>3, AssignTaskKeeps
  DEF SetAssignee, Types, SpecificUser, OwnerRole, CreatorRole, PropertyUser
<1>4. ASSUME NEW i \in DOMAIN row.items, SetRoleAssignee(h, u, i) PROVE IInv'
  <2>1. CASE AssignTask(h, u, i, OwnerRole, row.owner)
    BY <1>4, <2>1, AssignTaskKeeps, RowFacts
    DEF Types, OwnerRole, CreatorRole, Assignees
  <2>2. CASE AssignTask(h, u, i, CreatorRole, Creator)
    BY <1>4, <2>2, AssignTaskKeeps DEF Types, OwnerRole, CreatorRole, Assignees
  <2>. QED BY <1>4, <2>1, <2>2 DEF SetRoleAssignee
<1>5. ASSUME NEW i \in DOMAIN row.items, SetPropertyUserAssignee(h, u, i) PROVE IInv'
  BY <1>1, <1>5, AssignTaskKeeps
  DEF SetPropertyUserAssignee, Types, OwnerRole, CreatorRole, PropertyUser
<1>6. ASSUME NEW type \in Types, NEW a \in Assignees, AddChecklistItem(h, u, type, a)
      PROVE  IInv'
  <2> DEFINE item == [ type        |-> type,
                       assignee    |-> a,
                       modified    |-> FALSE,
                       conditional |-> FALSE,
                       action      |-> "" ]
             items == Append(row.items, item)
  <2>1. item \in Item
    BY DEF Item, Assignees
  <2>2. RoleKept(row, item)
    BY <1>6 DEF AddChecklistItem, RoleKept, SpecificUser, OwnerRole, CreatorRole
  <2>. HIDE DEF item
  <2>3. items \in Seq(Item) /\ DOMAIN items = 1 .. Len(row.items) + 1
        /\ items[Len(row.items) + 1] = item
        /\ \A j \in 1 .. Len(row.items) : items[j] = row.items[j]
    BY <2>1, RowFacts, AppendProperties, LenProperties
  <2>4. \A j \in DOMAIN items : RoleKept(row, items[j])
    BY <2>2, <2>3, RowFacts DEF Kept
  <2>5. BeginWrite(h, u, items, None)
    BY <1>6 DEF AddChecklistItem, item
  <2>. HIDE DEF items
  <2>. QED BY <2>3, <2>4, <2>5, BeginWriteKeeps DEF Assignees
<1>. QED BY <1>2, <1>3, <1>4, <1>5, <1>6 DEF TaskRequest, Assignees

LEMMA PeopleRequestKeeps ==
    ASSUME IInv, NEW h \in Handlers, NEW u \in Users, PeopleRequest(h, u)
    PROVE  IInv'
<1>1. ASSUME NEW v \in Users, ChangeOwner(h, u, v) PROVE IInv'
  <2> DEFINE items == ResolveOwnerRoleAssignments(row.items, v)
             copy == [owner |-> v, items |-> items]
             todo == Adding \o <<"write">>
  <2>1. /\ items \in Seq(Item)
        /\ DOMAIN items = DOMAIN row.items
        /\ \A i \in DOMAIN row.items :
              /\ items[i].type = row.items[i].type
              /\ items[i].assignee = IF row.items[i].type = OwnerRole THEN v
                                     ELSE row.items[i].assignee
    <3>1. row.items \in Seq(Item) /\ OwnerRole \in Types /\ v \in Assignees
      BY RowFacts DEF Types, OwnerRole, Assignees
    <3>2. items = Reassigned(row.items, OwnerRole, v)
      BY DEF ResolveOwnerRoleAssignments
    <3>. HIDE DEF items
    <3>. QED BY <3>1, <3>2, ReassignedTyping
  <2>. HIDE DEF items
  <2>2. copy \in Run /\ Kept(copy)
    BY <2>1, RowFacts DEF Run, Kept, RoleKept, OwnerRole, CreatorRole
  <2>3. Begin(h, todo, v, copy, "", None)
    BY <1>1 DEF ChangeOwner, items
  <2>. HIDE DEF copy
  <2>4. CanDo(todo, v, copy)
    BY <2>2, PlansCanDo
  <2>5. Len(todo) = 4
    BY <2>2, ConcatProperties, PlansCanDo DEF CanDo, Adding, Steps
  <2>6. todo # <<>>
    BY <2>5
  <2>. HIDE DEF todo
  <2>. QED BY <2>2, <2>3, <2>4, <2>6, BeginKeeps DEF Assignees
<1>2. \A v \in Users : CanDo(Adding, v, NoCopy) /\ CanDo(Removing, v, NoCopy)
  BY RowFacts, PlansCanDo
<1>3. Adding # <<>> /\ Removing # <<>>
  BY DEF Adding, Removing
<1>4. ASSUME NEW v \in Users, AddParticipants(h, u, v) PROVE IInv'
  <2>1. Begin(h, Adding, v, NoCopy, "", None)
    BY <1>4 DEF AddParticipants
  <2>. QED BY <1>2, <1>3, <2>1, NoCopyKept, BeginKeeps DEF Assignees
<1>5. ASSUME NEW v \in Users, RemoveParticipants(h, u, v) PROVE IInv'
  <2>1. Begin(h, Removing, v, NoCopy, "", None)
    BY <1>5 DEF RemoveParticipants
  <2>. QED BY <1>2, <1>3, <2>1, NoCopyKept, BeginKeeps DEF Assignees
<1>. QED BY <1>1, <1>4, <1>5 DEF PeopleRequest

LEMMA PropertyRequestKeeps ==
    ASSUME IInv, NEW h \in Handlers, NEW u \in Users, PropertyRequest(h, u)
    PROVE  IInv'
<1>1. /\ \A a : CanDo(<<"upsert">>, a, NoCopy)
      /\ \A a : \A copy \in Run : CanDo(<<"upsert", "write">>, a, copy)
      /\ \A a \in Users : \A copy \in Run :
            CanDo(<<"upsert", "write">> \o Adding, a, copy)
      /\ <<"upsert", "write">> \o <<>> = <<"upsert", "write">>
  BY RowFacts, PlansCanDo
<1>2. <<"upsert">> # <<>> /\ <<"upsert", "write">> # <<>>
  OBVIOUS
<1>3. <<"upsert", "write">> \o Adding # <<>>
  <2>1. <<"upsert", "write">> \in Seq(Steps) /\ Adding \in Seq(Steps)
    BY DEF Steps, Adding
  <2>. QED BY <2>1, <1>2, ConcatSimplifications
<1>4. ASSUME NEW v \in Assignees, SetUserProperty(h, u, v) PROVE IInv'
  <2> DEFINE items == ResolvePropertyUserAssignments(row.items, v)
             copy == [row EXCEPT !.items = items]
             steps == <<"upsert", "write">>
                         \o IF items # row.items THEN AddAssignee(u, v) ELSE <<>>
  <2>1. /\ items \in Seq(Item)
        /\ DOMAIN items = DOMAIN row.items
        /\ \A i \in DOMAIN row.items :
              /\ items[i].type = row.items[i].type
              /\ items[i].assignee = IF row.items[i].type = PropertyUser THEN v
                                     ELSE row.items[i].assignee
    <3>1. row.items \in Seq(Item) /\ PropertyUser \in Types /\ v \in Assignees
      BY <1>4, RowFacts DEF Types, PropertyUser
    <3>2. items = Reassigned(row.items, PropertyUser, v)
      BY DEF ResolvePropertyUserAssignments
    <3>. HIDE DEF items
    <3>. QED BY <3>1, <3>2, ReassignedTyping
  <2>2. \A i \in DOMAIN items : RoleKept(row, items[i])
    BY <2>1, RowFacts DEF Kept, RoleKept, OwnerRole, CreatorRole, PropertyUser
  <2>3. copy \in Run /\ Kept(copy)
    BY <2>1, <2>2, CopyOfRow
  <2>4. \/ Begin(h, steps, v, copy, "user", v)
        \/ Begin(h, <<"upsert">>, None, NoCopy, "user", v)
    BY <1>4 DEF SetUserProperty
  <2>. HIDE DEF items, copy
  <2>5. CanDo(steps, v, copy) /\ steps # <<>>
    BY <1>1, <1>2, <1>3, <2>3 DEF AddAssignee, Assignees
  <2>. HIDE DEF steps
  <2>6. CASE Begin(h, steps, v, copy, "user", v)
    BY <1>4, <2>3, <2>5, <2>6, BeginKeeps
  <2>7. CASE Begin(h, <<"upsert">>, None, NoCopy, "user", v)
    BY <1>1, <1>2, <1>4, <2>7, NoCopyKept, BeginKeeps DEF Assignees
  <2>. QED BY <2>4, <2>6, <2>7
<1>5. ASSUME NEW v \in Options, SetSelectProperty(h, u, v) PROVE IInv'
  <2> DEFINE items == ApplyConditionResults(row.items, v \in Shown)
             copy == [row EXCEPT !.items = items]
  <2>0. (v \in Shown) \in BOOLEAN
    OBVIOUS
  <2>1. /\ items \in Seq(Item)
        /\ DOMAIN items = DOMAIN row.items
        /\ \A i \in DOMAIN row.items : /\ items[i].type = row.items[i].type
                                       /\ items[i].assignee = row.items[i].assignee
    BY <2>0, RowFacts, ConditionTyping
  <2>2. \A i \in DOMAIN items : RoleKept(row, items[i])
    BY <2>1, RowFacts DEF Kept, RoleKept
  <2>3. copy \in Run /\ Kept(copy)
    BY <2>1, <2>2, CopyOfRow
  <2>4. \/ Begin(h, <<"upsert", "write">>, None, copy, "select", v)
        \/ Begin(h, <<"upsert">>, None, NoCopy, "select", v)
    BY <1>5 DEF SetSelectProperty
  <2>. HIDE DEF items, copy
  <2>5. CASE Begin(h, <<"upsert", "write">>, None, copy, "select", v)
    BY <1>1, <1>2, <1>5, <2>3, <2>5, BeginKeeps DEF Assignees
  <2>6. CASE Begin(h, <<"upsert">>, None, NoCopy, "select", v)
    BY <1>1, <1>2, <1>5, <2>6, NoCopyKept, BeginKeeps DEF Assignees
  <2>. QED BY <2>4, <2>5, <2>6
<1>. QED BY <1>4, <1>5 DEF PropertyRequest, Assignees

-----------------------------------------------------------------------------
(* The steps. *)

(* What a handler that takes a step has, and what it may do next. *)
LEMMA StepFacts ==
    ASSUME IInv, NEW h \in Handlers, NEW step, AtStep(h, step)
    PROVE  /\ hdl[h] # Idle /\ hdl[h] \in Request /\ Fits(hdl[h])
           /\ hdl[h].copy \in Run \cup {NoCopy} /\ Kept(hdl[h].copy)
           /\ CanDo(Tail(hdl[h].todo), hdl[h].who, hdl[h].copy)
           /\ CanDo(SubSeq(Tail(hdl[h].todo), 3, Len(Tail(hdl[h].todo))),
                    hdl[h].who, hdl[h].copy)
           /\ step = "write" => /\ hdl[h].copy \in Run
                                /\ CanDo(Tail(hdl[h].todo), hdl[h].who, NoCopy)
           /\ step \in {"join", "follow"} => hdl[h].who \in Users
<1>1. hdl[h] # Idle /\ hdl[h] \in Request /\ Fits(hdl[h])
  BY DEF AtStep, IInv, HandlersOK
<1>2. /\ hdl[h].copy \in Run \cup {NoCopy} /\ Kept(hdl[h].copy)
      /\ hdl[h].todo # <<>> /\ CanDo(hdl[h].todo, hdl[h].who, hdl[h].copy)
  BY <1>1 DEF Request, Fits
<1>3. /\ CanDo(Tail(hdl[h].todo), hdl[h].who, hdl[h].copy)
      /\ step = "write" => /\ hdl[h].copy \in Run
                           /\ CanDo(Tail(hdl[h].todo), hdl[h].who, NoCopy)
      /\ step \in {"join", "follow"} => hdl[h].who \in Users
  BY <1>2, TailCanDo DEF AtStep
<1>. QED BY <1>1, <1>2, <1>3, RestCanDo

LEMMA NextStepKeeps ==
    ASSUME IInv, NEW h \in Handlers, NEW step, AtStep(h, step), NextStep(h)
    PROVE  HandlersOK'
<1>1. Advance(h, Tail(hdl[h].todo), hdl[h].copy, {})
  BY DEF NextStep
<1>. QED BY <1>1, StepFacts, AdvanceKeeps DEF IInv

LEMMA UpsertKeeps ==
    ASSUME IInv, NEW h \in Handlers, Upsert(h)
    PROVE  IInv'
<1>1. AtStep(h, "upsert")
  BY DEF Upsert
<1>2. PICK news \in SUBSET News : Advance(h, Tail(hdl[h].todo), hdl[h].copy, news)
  BY DEF Upsert, News
<1>3. HandlersOK'
  BY <1>1, <1>2, StepFacts, AdvanceKeeps DEF IInv
<1>4. values' \in Values
  BY <1>1, StepFacts DEF Upsert, IInv, TypeOK, Values, Fits, Assignees
<1>5. hdl[h].behind \cap {"stale"} \subseteq {"stale"}
  OBVIOUS
<1>. QED BY <1>3, <1>4, <1>5
         DEF Upsert, IInv, TypeOK, HandlersOK, RolesFollowOwner

LEMMA WriteRunKeeps ==
    ASSUME IInv, NEW h \in Handlers, WriteRun(h)
    PROVE  IInv'
<1>1. AtStep(h, "write")
  BY DEF WriteRun
<1>2. PICK news \in SUBSET News : Advance(h, Tail(hdl[h].todo), NoCopy, news)
  BY DEF WriteRun, News
<1>3. HandlersOK'
  BY <1>1, <1>2, StepFacts, NoCopyKept, AdvanceKeeps DEF IInv
<1>4. row' \in Run /\ Kept(row')
  BY <1>1, StepFacts DEF WriteRun
<1>5. RolesFollowOwner'
  BY <1>4 DEF RolesFollowOwner, Kept
<1>6. missed' \subseteq missed \cup {"overwritten", "stale"}
  BY DEF WriteRun
<1>. QED BY <1>3, <1>4, <1>5, <1>6 DEF WriteRun, IInv, TypeOK, HandlersOK

LEMMA CheckMemberKeeps ==
    ASSUME IInv, NEW h \in Handlers, CheckMember(h)
    PROVE  IInv'
<1>1. AtStep(h, "member")
  BY DEF CheckMember
<1>2. CASE hdl[h].who \in team
  <2>1. HandlersOK'
    BY <1>1, <1>2, NextStepKeeps DEF CheckMember
  <2>. QED BY <1>2, <2>1 DEF CheckMember, IInv, TypeOK, HandlersOK, RolesFollowOwner
<1>3. CASE hdl[h].who \notin team
  <2>1. Advance(h, SubSeq(Tail(hdl[h].todo), 3, Len(Tail(hdl[h].todo))), hdl[h].copy, {})
    BY <1>3 DEF CheckMember
  <2>2. HandlersOK'
    BY <1>1, <2>1, StepFacts, AdvanceKeeps DEF IInv
  <2>3. missed' \subseteq missed \cup {"passed"}
    BY <1>3 DEF CheckMember
  <2>. QED BY <2>2, <2>3 DEF CheckMember, IInv, TypeOK, HandlersOK, RolesFollowOwner
<1>. QED BY <1>2, <1>3

LEMMA JoinAndLeaveKeep ==
    ASSUME IInv, NEW h \in Handlers,
           Join(h) \/ Follow(h) \/ Leave(h) \/ Unfollow(h)
    PROVE  IInv'
<1>1. CASE Join(h)
  <2>1. HandlersOK'
    BY <1>1, NextStepKeeps DEF Join
  <2>2. participants' \subseteq Users
    BY <1>1, StepFacts DEF Join, IInv, TypeOK
  <2>. QED BY <1>1, <2>1, <2>2 DEF Join, IInv, TypeOK, HandlersOK, RolesFollowOwner
<1>2. CASE Follow(h)
  <2>1. HandlersOK'
    BY <1>2, NextStepKeeps DEF Follow
  <2>2. followers' \subseteq Users
    BY <1>2, StepFacts DEF Follow, IInv, TypeOK
  <2>. QED BY <1>2, <2>1, <2>2 DEF Follow, IInv, TypeOK, HandlersOK, RolesFollowOwner
<1>3. CASE Leave(h)
  <2>1. HandlersOK'
    BY <1>3, NextStepKeeps DEF Leave
  <2>. QED BY <1>3, <2>1 DEF Leave, IInv, TypeOK, HandlersOK, RolesFollowOwner
<1>4. CASE Unfollow(h)
  <2>1. HandlersOK'
    BY <1>4, NextStepKeeps DEF Unfollow
  <2>. QED BY <1>4, <2>1 DEF Unfollow, IInv, TypeOK, HandlersOK, RolesFollowOwner
<1>. QED BY <1>1, <1>2, <1>3, <1>4

LEMMA MishapKeeps ==
    ASSUME IInv,
           \/ \E h \in Handlers : Fail(h)
           \/ \E u \in Users : LeaveTeam(u)
    PROVE  IInv'
<1>1. ASSUME NEW h \in Handlers, Fail(h) PROVE IInv'
  <2>1. hdl' = [hdl EXCEPT ![h] = Idle]
    BY <1>1 DEF Fail
  <2>2. HandlersOK'
    BY <2>1 DEF IInv, HandlersOK
  <2>3. missed' \subseteq missed \cup {"unassigned", "unapplied"}
    BY <1>1 DEF Fail, Unfinished
  <2>. QED BY <1>1, <2>2, <2>3 DEF Fail, IInv, TypeOK, HandlersOK, RolesFollowOwner
<1>2. ASSUME NEW u \in Users, LeaveTeam(u) PROVE IInv'
  BY <1>2 DEF LeaveTeam, IInv, TypeOK, HandlersOK, RolesFollowOwner
<1>. QED BY <1>1, <1>2

-----------------------------------------------------------------------------
(* The theorems. *)

LEMMA InitIInv == Init => IInv
<1> SUFFICES ASSUME Init PROVE IInv
  OBVIOUS
<1> DEFINE new == ResolveRoleAssignments
           items == ApplyConditionResults(new, values.select \in Shown)
<1>1. /\ new \in Seq(Item)
      /\ \A i \in DOMAIN new :
            new[i].type \in {OwnerRole, CreatorRole} => new[i].assignee = Creator
      /\ (values.select \in Shown) \in BOOLEAN
  BY RolesResolved
<1>. HIDE DEF new
<1>2. /\ items \in Seq(Item)
      /\ DOMAIN items = DOMAIN new
      /\ \A i \in DOMAIN new : /\ items[i].type = new[i].type
                               /\ items[i].assignee = new[i].assignee
  BY <1>1, ConditionTyping
<1>. HIDE DEF items
<1>3. row = [owner |-> Creator, items |-> items]
  BY DEF Init, items, new
<1>4. row \in Run /\ RolesFollowOwner
  BY <1>1, <1>2, <1>3 DEF Run, RolesFollowOwner, RoleKept
<1>5. HandlersOK
  BY DEF Init, HandlersOK
<1>6. values \in Values
  BY DEF Init, Values
<1>. QED BY <1>4, <1>5, <1>6 DEF Init, IInv, TypeOK, HandlersOK

LEMMA NextIInv == IInv /\ [Next]_vars => IInv'
<1> SUFFICES ASSUME IInv, [Next]_vars PROVE IInv'
  OBVIOUS
<1>1. ASSUME NEW h \in Handlers, NEW u \in Users,
             TaskRequest(h, u) \/ PeopleRequest(h, u) \/ PropertyRequest(h, u)
      PROVE  IInv'
  BY <1>1, TaskRequestKeeps, PeopleRequestKeeps, PropertyRequestKeeps
<1>2. ASSUME NEW h \in Handlers, Upsert(h) PROVE IInv'
  BY <1>2, UpsertKeeps
<1>3. ASSUME NEW h \in Handlers, WriteRun(h) PROVE IInv'
  BY <1>3, WriteRunKeeps
<1>4. ASSUME NEW h \in Handlers, CheckMember(h) PROVE IInv'
  BY <1>4, CheckMemberKeeps
<1>5. ASSUME NEW h \in Handlers, Join(h) \/ Follow(h) \/ Leave(h) \/ Unfollow(h)
      PROVE  IInv'
  BY <1>5, JoinAndLeaveKeep
<1>6. ASSUME NEW h \in Handlers, Fail(h) PROVE IInv'
  BY <1>6, MishapKeeps
<1>7. ASSUME NEW u \in Users, LeaveTeam(u) PROVE IInv'
  BY <1>7, MishapKeeps
<1>8. CASE UNCHANGED vars
  BY <1>8 DEF vars, IInv, TypeOK, HandlersOK, RolesFollowOwner
<1>. QED BY <1>1, <1>2, <1>3, <1>4, <1>5, <1>6, <1>7, <1>8 DEF Next

LEMMA AlwaysIInv == Spec => []IInv
BY InitIInv, NextIInv, PTL DEF Spec

(* Every variable keeps its type: only users own the run, take part in it  *)
(* or follow it, and no handler writes a run it has no copy of.            *)
THEOREM TypeCorrect == Spec => []TypeOK
<1>1. IInv => TypeOK
  BY DEF IInv
<1>. QED BY <1>1, AlwaysIInv, PTL

(* However handlers overlap and wherever they fail, the tasks of the       *)
(* owner's role are the owner's of the same row and those of the creator's *)
(* role the creator's, or nobody has been put in yet.                      *)
THEOREM RolesKeepFollowing == Spec => []RolesFollowOwner
<1>1. IInv => RolesFollowOwner
  BY DEF IInv
<1>. QED BY <1>1, AlwaysIInv, PTL

-----------------------------------------------------------------------------
(* Visible work.  A handler whose copy nobody overtook shows every task    *)
(* that the row shows and somebody has worked on.                          *)

Shows(old, items) ==
    \A i \in DOMAIN old :
        old[i].modified /\ old[i].action # "hidden"
            => i \in DOMAIN items /\ items[i].action # "hidden"

CopiesShow ==
    \A h \in Handlers :
        hdl[h] # Idle /\ hdl[h].copy # NoCopy /\ "overwritten" \notin hdl[h].behind
            => Shows(row.items, hdl[h].copy.items)

LEMMA ShowsSame == ASSUME NEW items PROVE Shows(items, items)
BY DEF Shows

LEMMA AssignedShows ==
    ASSUME NEW items \in Seq(Item), NEW type, NEW user
    PROVE  /\ Shows(items, Reassigned(items, type, user))
           /\ \A i \in DOMAIN items :
                Shows(items, [items EXCEPT ![i] = Assigned(items[i], type, user)])
<1>1. \A i \in DOMAIN items : items[i] \in Item
  BY LenProperties, ElementOfSeq
<1>2. \A i \in DOMAIN items : Assigned(items[i], type, user).action = items[i].action
  BY <1>1 DEF Assigned, Item
<1>3. Shows(items, Reassigned(items, type, user))
  BY <1>2 DEF Shows, Reassigned
<1>. QED BY <1>2, <1>3 DEF Shows

LEMMA ConditionShows ==
    ASSUME NEW items \in Seq(Item), NEW met \in BOOLEAN
    PROVE  Shows(items, ApplyConditionResults(items, met))
<1>1. \A i \in DOMAIN items : items[i] \in Item
  BY LenProperties, ElementOfSeq
<1>2. \A i \in DOMAIN items : items[i].modified => ActionOf(items[i], met) # "hidden"
  BY <1>1 DEF ActionOf
<1>. QED BY <1>1, <1>2 DEF Shows, ApplyConditionResults, Item

LEMMA BeginShows ==
    ASSUME IInv, CopiesShow, NEW h \in Handlers, NEW todo, NEW who, NEW copy,
           NEW field, NEW value, copy # NoCopy => Shows(row.items, copy.items),
           Begin(h, todo, who, copy, field, value)
    PROVE  CopiesShow'
BY DEF Begin, CopiesShow, IInv, HandlersOK

LEMMA BeginWriteShows ==
    ASSUME IInv, CopiesShow, NEW h \in Handlers, NEW u, NEW items, NEW a,
           Shows(row.items, items), BeginWrite(h, u, items, a)
    PROVE  CopiesShow'
<1> DEFINE copy == [row EXCEPT !.items = items]
<1>1. copy.items = items
  BY RowFacts DEF Run
<1>2. Begin(h, <<"write">> \o AddAssignee(u, a), a, copy, "", None)
  BY DEF BeginWrite
<1>. HIDE DEF copy
<1>. QED BY <1>1, <1>2, BeginShows

LEMMA RequestShows ==
    ASSUME IInv, CopiesShow, NEW h \in Handlers, NEW u \in Users,
           TaskRequest(h, u) \/ PeopleRequest(h, u) \/ PropertyRequest(h, u)
    PROVE  CopiesShow'
<1>1. ASSUME NEW i \in DOMAIN row.items, ModifyCheckedState(h, u, i)
      PROVE  CopiesShow'
  <2>1. Shows(row.items, [row.items EXCEPT ![i].modified = TRUE])
    BY <1>1, RowFacts DEF Shows, Item
  <2>. QED BY <1>1, <2>1, BeginWriteShows DEF ModifyCheckedState
<1>2. ASSUME NEW i \in DOMAIN row.items, NEW type, NEW a, AssignTask(h, u, i, type, a)
      PROVE  CopiesShow'
  <2>1. Shows(row.items, [row.items EXCEPT ![i] = Assigned(row.items[i], type, a)])
    BY <1>2, RowFacts, AssignedShows
  <2>. QED BY <1>2, <2>1, BeginWriteShows DEF AssignTask
<1>3. ASSUME NEW type, NEW a, AddChecklistItem(h, u, type, a) PROVE CopiesShow'
  <2>1. PICK item : BeginWrite(h, u, Append(row.items, item), None)
    BY <1>3 DEF AddChecklistItem
  <2>2. Shows(row.items, Append(row.items, item))
    BY RowFacts DEF Shows
  <2>. QED BY <2>1, <2>2, BeginWriteShows
<1>4. TaskRequest(h, u) => CopiesShow'
  BY <1>1, <1>2, <1>3 DEF TaskRequest, SetAssignee, SetRoleAssignee, SetPropertyUserAssignee
<1>5. ASSUME NEW v \in Users, ChangeOwner(h, u, v) PROVE CopiesShow'
  <2>1. Shows(row.items, ResolveOwnerRoleAssignments(row.items, v))
    BY RowFacts, AssignedShows DEF ResolveOwnerRoleAssignments
  <2>. QED BY <1>5, <2>1, BeginShows DEF ChangeOwner
<1>6. ASSUME NEW v \in Users, AddParticipants(h, u, v) \/ RemoveParticipants(h, u, v)
      PROVE  CopiesShow'
  BY <1>6, BeginShows DEF AddParticipants, RemoveParticipants
<1>7. PeopleRequest(h, u) => CopiesShow'
  BY <1>5, <1>6 DEF PeopleRequest
<1>8. ASSUME NEW v, SetUserProperty(h, u, v) PROVE CopiesShow'
  <2> DEFINE items == ResolvePropertyUserAssignments(row.items, v)
             copy == [row EXCEPT !.items = items]
  <2>1. Shows(row.items, items)
    BY RowFacts, AssignedShows DEF ResolvePropertyUserAssignments
  <2>2. copy.items = items
    BY RowFacts DEF Run
  <2>3. \E todo, who, c : c \in {copy, NoCopy} /\ Begin(h, todo, who, c, "user", v)
    BY <1>8 DEF SetUserProperty
  <2>. HIDE DEF items, copy
  <2>. QED BY <2>1, <2>2, <2>3, BeginShows
<1>9. ASSUME NEW v, SetSelectProperty(h, u, v) PROVE CopiesShow'
  <2> DEFINE items == ApplyConditionResults(row.items, v \in Shown)
             copy == [row EXCEPT !.items = items]
  <2>0. (v \in Shown) \in BOOLEAN
    OBVIOUS
  <2>1. Shows(row.items, items)
    BY <2>0, RowFacts, ConditionShows
  <2>2. copy.items = items
    BY RowFacts DEF Run
  <2>3. \E todo, who, c : c \in {copy, NoCopy} /\ Begin(h, todo, who, c, "select", v)
    BY <1>9 DEF SetSelectProperty
  <2>. HIDE DEF items, copy
  <2>. QED BY <2>1, <2>2, <2>3, BeginShows
<1>10. PropertyRequest(h, u) => CopiesShow'
  BY <1>8, <1>9 DEF PropertyRequest
<1>. QED BY <1>4, <1>7, <1>10

(* Going on with the row unchanged. *)
LEMMA AdvanceShows ==
    ASSUME IInv, CopiesShow, NEW h \in Handlers, hdl[h] # Idle,
           NEW todo, NEW copy \in {hdl[h].copy, NoCopy}, NEW news,
           Advance(h, todo, copy, news), row' = row
    PROVE  CopiesShow'
<1> SUFFICES ASSUME NEW k \in Handlers, hdl'[k] # Idle, hdl'[k].copy # NoCopy,
                    "overwritten" \notin hdl'[k].behind
             PROVE  Shows(row.items, hdl'[k].copy.items)
  BY DEF CopiesShow
<1>1. hdl[k] # Idle => hdl[k] \in Request
  BY DEF IInv, HandlersOK
<1>2. CASE k = h
  <2>1. hdl'[k] = [hdl[k] EXCEPT !.todo = todo, !.copy = copy]
    BY <1>2 DEF Advance
  <2>2. hdl'[k].copy = copy /\ hdl'[k].behind = hdl[k].behind
    BY <1>1, <1>2, <2>1 DEF Request
  <2>. QED BY <1>2, <2>2 DEF CopiesShow
<1>3. CASE k # h
  <2>1. hdl[k] # Idle /\ hdl'[k] = [hdl[k] EXCEPT !.behind = @ \cup news]
    BY <1>3 DEF Advance
  <2>2. hdl'[k].copy = hdl[k].copy /\ hdl'[k].behind = hdl[k].behind \cup news
    BY <1>1, <2>1 DEF Request
  <2>. QED BY <2>1, <2>2 DEF CopiesShow
<1>. QED BY <1>2, <1>3

(* A write that changes the row leaves nobody with a copy of it. *)
LEMMA WriteRunShows ==
    ASSUME IInv, CopiesShow, NEW h \in Handlers, WriteRun(h)
    PROVE  CopiesShow'
<1>1. AtStep(h, "write") /\ row' = hdl[h].copy /\ hdl[h] # Idle
  BY DEF WriteRun, AtStep
<1>2. CASE hdl[h].copy = row
  <2>1. PICK news : Advance(h, Tail(hdl[h].todo), NoCopy, news)
    BY DEF WriteRun
  <2>. QED BY <1>1, <1>2, <2>1, AdvanceShows
<1>3. CASE hdl[h].copy # row
  <2>1. PICK news : "overwritten" \in news /\ Advance(h, Tail(hdl[h].todo), NoCopy, news)
    BY <1>3 DEF WriteRun
  <2> SUFFICES ASSUME NEW k \in Handlers, hdl'[k] # Idle
               PROVE  hdl'[k].copy = NoCopy \/ "overwritten" \in hdl'[k].behind
    BY DEF CopiesShow
  <2>2. hdl[k] # Idle => hdl[k] \in Request
    BY DEF IInv, HandlersOK
  <2>3. CASE k = h
    <3>1. hdl'[k] = [hdl[k] EXCEPT !.todo = Tail(hdl[h].todo), !.copy = NoCopy]
      BY <2>1, <2>3 DEF Advance
    <3>. QED BY <1>1, <2>2, <2>3, <3>1 DEF Request
  <2>4. CASE k # h
    <3>1. hdl[k] # Idle /\ hdl'[k] = [hdl[k] EXCEPT !.behind = @ \cup news]
      BY <2>1, <2>4 DEF Advance
    <3>. QED BY <2>1, <2>2, <3>1 DEF Request
  <2>. QED BY <2>3, <2>4
<1>. QED BY <1>2, <1>3

LEMMA NextShows == IInv /\ CopiesShow /\ [Next]_vars => CopiesShow'
<1> SUFFICES ASSUME IInv, CopiesShow, [Next]_vars PROVE CopiesShow'
  OBVIOUS
<1>1. ASSUME NEW h \in Handlers, NEW u \in Users,
             TaskRequest(h, u) \/ PeopleRequest(h, u) \/ PropertyRequest(h, u)
      PROVE  CopiesShow'
  BY <1>1, RequestShows
<1>2. ASSUME NEW h \in Handlers,
             Upsert(h) \/ CheckMember(h) \/ Join(h) \/ Follow(h) \/ Leave(h) \/ Unfollow(h)
      PROVE  CopiesShow'
  <2>1. hdl[h] # Idle /\ row' = row
    BY <1>2 DEF Upsert, CheckMember, Join, Follow, Leave, Unfollow, AtStep
  <2>2. \E todo, news : Advance(h, todo, hdl[h].copy, news)
    BY <1>2 DEF Upsert, CheckMember, Join, Follow, Leave, Unfollow, NextStep
  <2>. QED BY <2>1, <2>2, AdvanceShows
<1>3. ASSUME NEW h \in Handlers, WriteRun(h) PROVE CopiesShow'
  BY <1>3, WriteRunShows
<1>4. ASSUME NEW h \in Handlers, Fail(h) PROVE CopiesShow'
  BY <1>4 DEF Fail, CopiesShow, IInv, HandlersOK
<1>5. ASSUME NEW u \in Users, LeaveTeam(u) PROVE CopiesShow'
  BY <1>5 DEF LeaveTeam, CopiesShow
<1>6. CASE UNCHANGED vars
  BY <1>6 DEF vars, CopiesShow
<1>. QED BY <1>1, <1>2, <1>3, <1>4, <1>5, <1>6 DEF Next

LEMMA StepShows ==
    IInv /\ CopiesShow /\ [Next]_vars =>
        ("overwritten" \notin missed' => Shows(row.items, row'.items))
<1> SUFFICES ASSUME IInv, CopiesShow, [Next]_vars, "overwritten" \notin missed'
             PROVE  Shows(row.items, row'.items)
  OBVIOUS
<1>1. ASSUME NEW h \in Handlers, WriteRun(h) PROVE Shows(row.items, row'.items)
  <2>1. AtStep(h, "write") /\ row' = hdl[h].copy /\ "overwritten" \notin hdl[h].behind
    BY <1>1 DEF WriteRun
  <2>2. hdl[h] # Idle /\ hdl[h].copy # NoCopy
    BY <2>1, StepFacts DEF Run, NoCopy
  <2>. QED BY <2>1, <2>2 DEF CopiesShow
<1>2. CASE row' = row
  BY <1>2, ShowsSame
<1>3. ASSUME NEW h \in Handlers, NEW u \in Users,
             TaskRequest(h, u) \/ PeopleRequest(h, u) \/ PropertyRequest(h, u)
      PROVE  row' = row
  <2>1. TaskRequest(h, u) => row' = row
    BY DEF TaskRequest, ModifyCheckedState, SetAssignee, SetRoleAssignee,
           SetPropertyUserAssignee, AssignTask, AddChecklistItem, BeginWrite, Begin
  <2>2. PeopleRequest(h, u) => row' = row
    BY DEF PeopleRequest, ChangeOwner, AddParticipants, RemoveParticipants, Begin
  <2>3. PropertyRequest(h, u) => row' = row
    BY DEF PropertyRequest, SetUserProperty, SetSelectProperty, Begin
  <2>. QED BY <1>3, <2>1, <2>2, <2>3
<1>4. ASSUME NEW h \in Handlers,
             \/ Upsert(h) \/ CheckMember(h) \/ Join(h) \/ Follow(h)
             \/ Leave(h) \/ Unfollow(h) \/ Fail(h)
      PROVE  row' = row
  BY <1>4 DEF Upsert, CheckMember, Join, Follow, Leave, Unfollow, Fail
<1>5. ASSUME NEW u \in Users, LeaveTeam(u) PROVE row' = row
  BY <1>5 DEF LeaveTeam
<1>6. (UNCHANGED vars) => row' = row
  BY DEF vars
<1>. QED BY <1>1, <1>2, <1>3, <1>4, <1>5, <1>6 DEF Next

(* A task that is visible and that somebody has worked on is not hidden by *)
(* any step, as long as no handler overwrites another's row: neither by a  *)
(* condition nor by a change of owner, assignee or field.                  *)
THEOREM WorkStaysVisible == Spec => TouchedStaysVisible
<1>1. Init => CopiesShow
  BY DEF Init, CopiesShow
<1>2. IInv /\ CopiesShow /\ [Next]_vars =>
        [ "overwritten" \notin missed' =>
            \A i \in DOMAIN row.items :
                row.items[i].modified /\ row.items[i].action # "hidden"
                    => row'.items[i].action # "hidden" ]_vars
  BY StepShows DEF Shows
<1>. QED BY <1>1, <1>2, NextShows, AlwaysIInv, PTL DEF Spec, TouchedStaysVisible

-----------------------------------------------------------------------------
(* The owner takes part.                                                   *)

(* The ways in which the owner may be lost. *)
Lost == {"overwritten", "crossed", "passed"}

(* What is left of a change of owner, before and after the user joined; of *)
(* the other requests that write the run; and of the rest.                 *)
E4 == <<"member", "join", "follow", "write">>
E3 == <<"join", "follow", "write">>
E2 == <<"follow", "write">>
E1 == <<"write">>
W4 == <<"write", "member", "join", "follow">>
S2 == <<"upsert", "write">>
S5 == <<"upsert", "write", "member", "join", "follow">>
A3 == <<"member", "join", "follow">>
A2 == <<"join", "follow">>
A1 == <<"follow">>
R2 == <<"remove", "unfollow">>
R1 == <<"unfollow">>
S1 == <<"upsert">>

Enlisting == {E4, E3}
Enlisted  == {E2, E1}
Saving    == {W4, S2, S5}
Others    == {A3, A2, A1, R2, R1, S1}
Writing   == Enlisting \cup Enlisted \cup Saving
Lists     == Writing \cup Others

(* A copy nobody overtook has the owner of the row, or a new one who takes *)
(* part by the time it is written; and no owner is being removed.          *)
Ready(r, owner, members) ==
    /\ r.todo \in Writing /\ "overwritten" \notin r.behind
          => \/ r.copy.owner = owner
             \/ r.copy.owner = r.who /\ r.todo \in Enlisting
             \/ r.copy.owner = r.who /\ r.todo \in Enlisted /\ r.who \in members
    /\ r.todo = R2 /\ "owner" \notin r.behind
          => r.who # owner

Listed == \A h \in Handlers : hdl[h] # Idle => hdl[h].todo \in Lists

AllReady == \A h \in Handlers : hdl[h] # Idle => Ready(hdl[h], row.owner, participants)

OwnerInv == Listed /\ (missed \cap Lost = {} => AllReady /\ row.owner \in participants)

(* The lists requests start with. *)
LEMMA PlansListed ==
    /\ Adding \o <<"write">> = <<"member", "join", "follow", "write">>
    /\ <<"write">> \o <<>> = <<"write">>
    /\ <<"upsert", "write">> \o <<>> = <<"upsert", "write">>
    /\ <<"write">> \o Adding = <<"write", "member", "join", "follow">>
    /\ <<"upsert", "write">> \o Adding = <<"upsert", "write", "member", "join", "follow">>
<1>1. /\ Adding \in Seq(Steps) /\ Len(Adding) = 3
      /\ Adding[1] = "member" /\ Adding[2] = "join" /\ Adding[3] = "follow"
      /\ <<"write">> \in Seq(Steps) /\ <<"upsert", "write">> \in Seq(Steps)
  BY DEF Adding, Steps
<1>2. ASSUME NEW s \in Seq(Steps)
      PROVE  /\ Len(s) = 4 => s = <<s[1], s[2], s[3], s[4]>>
             /\ Len(s) = 5 => s = <<s[1], s[2], s[3], s[4], s[5]>>
  OBVIOUS
<1>. HIDE DEF Adding
<1>3. Adding \o <<"write">> = <<"member", "join", "follow", "write">>
  <2> DEFINE s == Adding \o <<"write">>
  <2>1. /\ s \in Seq(Steps) /\ Len(s) = 4
        /\ s[1] = Adding[1] /\ s[2] = Adding[2] /\ s[3] = Adding[3] /\ s[4] = "write"
    <3>1. s \in Seq(Steps) /\ Len(s) = Len(Adding) + Len(<<"write">>)
          /\ \A i \in 1 .. Len(Adding) + Len(<<"write">>) :
                s[i] = IF i <= Len(Adding) THEN Adding[i] ELSE <<"write">>[i - Len(Adding)]
      BY <1>1, ConcatProperties
    <3>. HIDE DEF s
    <3>. QED BY <1>1, <3>1
  <2>. HIDE DEF s
  <2>2. s = <<"member", "join", "follow", "write">>
    BY <1>1, <1>2, <2>1
  <2>. QED BY <2>2 DEF s
<1>4. <<"write">> \o Adding = <<"write", "member", "join", "follow">>
  <2> DEFINE s == <<"write">> \o Adding
  <2>1. /\ s \in Seq(Steps) /\ Len(s) = 4
        /\ s[1] = "write" /\ s[2] = Adding[1] /\ s[3] = Adding[2] /\ s[4] = Adding[3]
    <3>1. s \in Seq(Steps) /\ Len(s) = Len(<<"write">>) + Len(Adding)
          /\ \A i \in 1 .. Len(<<"write">>) + Len(Adding) :
                s[i] = IF i <= Len(<<"write">>) THEN <<"write">>[i] ELSE Adding[i - Len(<<"write">>)]
      BY <1>1, ConcatProperties
    <3>. HIDE DEF s
    <3>. QED BY <1>1, <3>1
  <2>. HIDE DEF s
  <2>2. s = <<"write", "member", "join", "follow">>
    BY <1>1, <1>2, <2>1
  <2>. QED BY <2>2 DEF s
<1>5. <<"upsert", "write">> \o Adding = <<"upsert", "write", "member", "join", "follow">>
  <2> DEFINE s == <<"upsert", "write">> \o Adding
  <2>1. /\ s \in Seq(Steps) /\ Len(s) = 5
        /\ s[1] = "upsert" /\ s[2] = "write"
        /\ s[3] = Adding[1] /\ s[4] = Adding[2] /\ s[5] = Adding[3]
    <3>1. s \in Seq(Steps) /\ Len(s) = Len(<<"upsert", "write">>) + Len(Adding)
          /\ \A i \in 1 .. Len(<<"upsert", "write">>) + Len(Adding) :
                s[i] = IF i <= Len(<<"upsert", "write">>) THEN <<"upsert", "write">>[i] ELSE Adding[i - Len(<<"upsert", "write">>)]
      BY <1>1, ConcatProperties
    <3>. HIDE DEF s
    <3>. QED BY <1>1, <3>1
  <2>. HIDE DEF s
  <2>2. s = <<"upsert", "write", "member", "join", "follow">>
    BY <1>1, <1>2, <2>1
  <2>. QED BY <2>2 DEF s
<1>. QED BY <1>1, <1>3, <1>4, <1>5, ConcatEmptySeq

(* What each list starts with and goes on with. *)
LEMMA ListTable ==
    /\ Head(E4) = "member"   /\ Tail(E4) = E3
    /\ Head(E3) = "join"     /\ Tail(E3) = E2
    /\ Head(E2) = "follow"   /\ Tail(E2) = E1
    /\ Head(E1) = "write"    /\ Tail(E1) = <<>>
    /\ Head(W4) = "write"    /\ Tail(W4) = A3
    /\ Head(S2) = "upsert"   /\ Tail(S2) = E1
    /\ Head(S5) = "upsert"   /\ Tail(S5) = W4
    /\ Head(A3) = "member"   /\ Tail(A3) = A2
    /\ Head(A2) = "join"     /\ Tail(A2) = A1
    /\ Head(A1) = "follow"   /\ Tail(A1) = <<>>
    /\ Head(R2) = "remove"   /\ Tail(R2) = R1
    /\ Head(R1) = "unfollow" /\ Tail(R1) = <<>>
    /\ Head(S1) = "upsert"   /\ Tail(S1) = <<>>
    /\ SubSeq(E3, 3, Len(E3)) = E1
    /\ SubSeq(A2, 3, Len(A2)) = <<>>
<1>1. SubSeq(<<"join", "follow">>, 3, 2) = <<>>
  BY SubSeqEmpty
<1>2. SubSeq(<<"join", "follow", "write">>, 3, 3) = <<"write">>
  <2> DEFINE s == SubSeq(<<"join", "follow", "write">>, 3, 3)
  <2>1. s \in Seq(Steps) /\ Len(s) = 1 /\ s[1] = "write"
    BY SubSeqProperties DEF Steps
  <2>. HIDE DEF s
  <2>2. s = <<"write">>
    BY <2>1
  <2>. QED BY <2>2 DEF s
<1>3. Len(E3) = 3 /\ Len(A2) = 2
  BY DEF E3, A2
<1>4. SubSeq(E3, 3, Len(E3)) = E1 /\ SubSeq(A2, 3, Len(A2)) = <<>>
  BY <1>1, <1>2, <1>3 DEF E3, A2, E1
<1>. QED BY <1>4 DEF E4, E3, E2, E1, W4, S2, S5, A3, A2, A1, R2, R1, S1

LEMMA ListsApart ==
    /\ <<>> \notin Lists
    /\ Others \cap Writing = {} /\ Enlisting \cap Enlisted = {}
    /\ \A todo \in Others : todo = R2 <=> Head(todo) = "remove"
BY DEF Lists, Writing, Enlisting, Enlisted, Saving, Others,
       E4, E3, E2, E1, W4, S2, S5, A3, A2, A1, R2, R1, S1

(* What follows a step of a list, the user being a member or not. *)
LEMMA ListsAfter ==
    ASSUME NEW todo \in Lists
    PROVE  /\ Tail(todo) \in Lists \cup {<<>>}
           /\ Head(todo) = "write" => Tail(todo) \in {A3, <<>>}
           /\ Head(todo) # "write" /\ todo \in Saving => Tail(todo) \in {W4, E1}
           /\ todo \in Enlisting =>
                 \/ Head(todo) = "member" /\ Tail(todo) \in Enlisting
                 \/ Head(todo) = "join" /\ Tail(todo) \in Enlisted
           /\ todo \in Enlisted =>
                 \/ Head(todo) = "follow" /\ Tail(todo) \in Enlisted
                 \/ Head(todo) = "write"
           /\ todo \in Others => Tail(todo) \in {A2, A1, R1, <<>>}
           /\ Head(todo) = "remove" <=> todo = R2
           /\ Head(todo) = "unfollow" => todo = R1
           /\ Head(todo) = "member" =>
                SubSeq(Tail(todo), 3, Len(Tail(todo))) \in {E1, <<>>}
BY ListTable DEF Lists, Writing, Enlisting, Enlisted, Saving, Others

(* What is written later was to be written before. *)
LEMMA ListsLater ==
    ASSUME NEW todo \in Lists, Head(todo) \notin {"write", "remove"}
    PROVE  /\ Tail(todo) # R2
           /\ Tail(todo) \in Writing =>
                 \/ todo \in Saving /\ todo \notin Enlisting \cup Enlisted
                 \/ todo \in Enlisting /\ Tail(todo) \in Enlisting
                 \/ todo \in Enlisting /\ Tail(todo) \in Enlisted /\ Head(todo) = "join"
                 \/ todo \in Enlisted /\ Tail(todo) \in Enlisted
<1>1. /\ {A2, A1, R1, <<>>} \cap Writing = {} /\ R2 \notin {A2, A1, R1, <<>>}
      /\ R2 \notin Writing
  BY ListTable, ListsApart DEF Lists, Others
<1>2. CASE todo \in Enlisting
  BY <1>1, <1>2, ListsAfter DEF Lists, Writing
<1>3. CASE todo \in Enlisted
  BY <1>1, <1>3, ListsAfter DEF Lists, Writing
<1>4. CASE todo \in Saving /\ todo \notin Enlisting \cup Enlisted
  BY <1>1, <1>4, ListsAfter DEF Lists, Writing, Enlisted, Saving
<1>5. CASE todo \in Others
  BY <1>1, <1>5, ListsAfter DEF Lists
<1>. QED BY <1>2, <1>3, <1>4, <1>5 DEF Lists, Writing

(* A handler is as ready when it is further behind or more users take part.*)
LEMMA ReadyStill ==
    ASSUME NEW r, NEW s, NEW owner, NEW members, NEW more,
           Ready(r, owner, members), members \subseteq more,
           s.todo = r.todo, s.who = r.who, s.copy = r.copy, r.behind \subseteq s.behind
    PROVE  Ready(s, owner, more)
BY DEF Ready

LEMMA BeginReady ==
    ASSUME IInv, OwnerInv, NEW h \in Handlers,
           NEW todo, NEW who, NEW copy, NEW field, NEW value, todo \in Lists,
           todo \in Writing =>
              \/ copy.owner = row.owner
              \/ copy.owner = who /\ todo \in Enlisting,
           todo = R2 => who # row.owner,
           Begin(h, todo, who, copy, field, value)
    PROVE  OwnerInv'
<1> DEFINE r == [ todo   |-> todo,
                  who    |-> who,
                  copy   |-> copy,
                  field  |-> field,
                  value  |-> value,
                  behind |-> {} ]
<1>1. r.todo = todo /\ Ready(r, row.owner, participants)
  BY DEF Ready
<1>2. hdl' = [hdl EXCEPT ![h] = r] /\ UNCHANGED <<row, participants, missed>>
  BY DEF Begin
<1>. HIDE DEF r
<1>3. \A k \in Handlers : hdl'[k] = IF k = h THEN r ELSE hdl[k]
  BY <1>2 DEF IInv, HandlersOK
<1>4. Listed'
  BY <1>1, <1>3 DEF OwnerInv, Listed
<1>5. AllReady => AllReady'
  BY <1>1, <1>2, <1>3 DEF AllReady
<1>. QED BY <1>2, <1>4, <1>5 DEF OwnerInv

LEMMA BeginWriteReady ==
    ASSUME IInv, OwnerInv, NEW h \in Handlers, NEW u, NEW items, NEW a,
           BeginWrite(h, u, items, a)
    PROVE  OwnerInv'
<1> DEFINE copy == [row EXCEPT !.items = items]
           todo == <<"write">> \o AddAssignee(u, a)
<1>1. copy.owner = row.owner
  BY RowFacts DEF Run
<1>2. todo \in {E1, W4}
  BY PlansListed DEF AddAssignee, E1, W4
<1>3. todo \in Lists /\ todo # R2
  BY <1>2, ListTable, ListsApart DEF Lists, Writing, Enlisted, Saving
<1>4. PICK field : Begin(h, todo, a, copy, field, None)
  BY DEF BeginWrite
<1>. HIDE DEF copy, todo
<1>. QED BY <1>1, <1>3, <1>4, BeginReady

LEMMA RequestReady ==
    ASSUME IInv, OwnerInv, NEW h \in Handlers, NEW u \in Users,
           TaskRequest(h, u) \/ PeopleRequest(h, u) \/ PropertyRequest(h, u)
    PROVE  OwnerInv'
<1>1. ASSUME TaskRequest(h, u) PROVE OwnerInv'
  BY <1>1, BeginWriteReady
  DEF TaskRequest, ModifyCheckedState, SetAssignee, SetRoleAssignee,
      SetPropertyUserAssignee, AssignTask, AddChecklistItem
<1>2. /\ E4 \in Lists /\ E4 \in Enlisting /\ E4 # R2
      /\ S1 \in Lists /\ S1 \notin Writing /\ S1 # R2
      /\ S2 \in Lists /\ S2 # R2 /\ S5 \in Lists /\ S5 # R2
      /\ A3 \in Lists /\ A3 \notin Writing /\ A3 # R2
      /\ R2 \in Lists /\ R2 \notin Writing
  BY ListTable, ListsApart DEF Lists, Writing, Enlisting, Saving, Others
<1>3. ASSUME NEW v \in Users, ChangeOwner(h, u, v) PROVE OwnerInv'
  <2> DEFINE copy == [owner |-> v, items |-> ResolveOwnerRoleAssignments(row.items, v)]
  <2>1. copy.owner = v
    OBVIOUS
  <2>2. Begin(h, E4, v, copy, "", None)
    BY <1>3, PlansListed DEF ChangeOwner, E4
  <2>. HIDE DEF copy
  <2>. QED BY <1>2, <2>1, <2>2, BeginReady
<1>4. ASSUME NEW v \in Users, AddParticipants(h, u, v) PROVE OwnerInv'
  <2>1. Begin(h, A3, v, NoCopy, "", None)
    BY <1>4 DEF AddParticipants, Adding, A3
  <2>. QED BY <1>2, <2>1, BeginReady
<1>5. ASSUME NEW v \in Users, RemoveParticipants(h, u, v) PROVE OwnerInv'
  <2>1. Begin(h, R2, v, NoCopy, "", None) /\ v # row.owner
    BY <1>5 DEF RemoveParticipants, Removing, R2
  <2>. QED BY <1>2, <2>1, BeginReady
<1>6. ASSUME NEW items, NEW field, NEW value, NEW who, NEW todo \in {S1, S2, S5},
             Begin(h, todo, who, [row EXCEPT !.items = items], field, value)
      PROVE  OwnerInv'
  <2> DEFINE copy == [row EXCEPT !.items = items]
  <2>1. copy.owner = row.owner
    BY RowFacts DEF Run
  <2>2. Begin(h, todo, who, copy, field, value)
    BY <1>6
  <2>. HIDE DEF copy
  <2>. QED BY <1>2, <2>1, <2>2, BeginReady
<1>7. ASSUME NEW field, NEW value, NEW who, Begin(h, S1, who, NoCopy, field, value)
      PROVE  OwnerInv'
  BY <1>2, <1>7, BeginReady
<1>8. ASSUME NEW v, SetUserProperty(h, u, v) PROVE OwnerInv'
  <2> DEFINE items == ResolvePropertyUserAssignments(row.items, v)
             steps == <<"upsert", "write">>
                         \o IF items # row.items THEN AddAssignee(u, v) ELSE <<>>
  <2>1. steps \in {S2, S5}
    BY PlansListed DEF AddAssignee, S2, S5
  <2>2. \/ Begin(h, steps, v, [row EXCEPT !.items = items], "user", v)
        \/ Begin(h, S1, None, NoCopy, "user", v)
    BY <1>8 DEF SetUserProperty, S1
  <2>. HIDE DEF items, steps
  <2>. QED BY <1>6, <1>7, <2>1, <2>2
<1>9. ASSUME NEW v, SetSelectProperty(h, u, v) PROVE OwnerInv'
  <2> DEFINE items == ApplyConditionResults(row.items, v \in Shown)
  <2>1. \/ Begin(h, S2, None, [row EXCEPT !.items = items], "select", v)
        \/ Begin(h, S1, None, NoCopy, "select", v)
    BY <1>9 DEF SetSelectProperty, S1, S2
  <2>. HIDE DEF items
  <2>. QED BY <1>6, <1>7, <2>1
<1>. QED BY <1>1, <1>3, <1>4, <1>5, <1>8, <1>9 DEF PeopleRequest, PropertyRequest

(* A handler that goes on keeps to the lists. *)
LEMMA AdvanceListed ==
    ASSUME IInv, Listed, NEW h \in Handlers, NEW todo, NEW copy, NEW news,
           todo \in Lists \cup {<<>>}, Advance(h, todo, copy, news)
    PROVE  Listed'
<1>1. \A k \in Handlers : hdl[k] # Idle => hdl[k] \in Request
  BY DEF IInv, HandlersOK
<1> SUFFICES ASSUME NEW k \in Handlers, hdl'[k] # Idle PROVE hdl'[k].todo \in Lists
  BY DEF Listed
<1>2. CASE k = h
  <2>1. todo # <<>> /\ hdl'[k] = [hdl[k] EXCEPT !.todo = todo, !.copy = copy]
    BY <1>2 DEF Advance
  <2>2. CASE hdl[k] = Idle
    <3>1. hdl'[k].todo = todo
      BY <2>1, <2>2 DEF Idle
    <3>. QED BY <2>1, <3>1
  <2>3. CASE hdl[k] # Idle
    BY <1>1, <2>1, <2>3 DEF Request
  <2>. QED BY <2>2, <2>3
<1>3. CASE k # h
  <2>1. hdl[k] # Idle /\ hdl'[k] = [hdl[k] EXCEPT !.behind = @ \cup news]
    BY <1>3 DEF Advance
  <2>. QED BY <1>1, <2>1 DEF Request, Listed
<1>. QED BY <1>2, <1>3

(* What the handlers hold when one has gone on. *)
LEMMA AdvanceFacts ==
    ASSUME IInv, NEW h \in Handlers, hdl[h] # Idle, NEW todo, NEW copy, NEW news,
           Advance(h, todo, copy, news)
    PROVE  /\ hdl'[h] # Idle =>
                /\ todo # <<>> /\ hdl'[h].todo = todo /\ hdl'[h].copy = copy
                /\ hdl'[h].who = hdl[h].who /\ hdl'[h].behind = hdl[h].behind
                /\ hdl'[h].field = hdl[h].field /\ hdl'[h].value = hdl[h].value
           /\ \A k \in Handlers : k # h /\ hdl'[k] # Idle =>
                /\ hdl[k] # Idle /\ hdl'[k].todo = hdl[k].todo
                /\ hdl'[k].copy = hdl[k].copy /\ hdl'[k].who = hdl[k].who
                /\ hdl'[k].behind = hdl[k].behind \cup news
                /\ hdl'[k].field = hdl[k].field /\ hdl'[k].value = hdl[k].value
<1>1. \A k \in Handlers : hdl[k] # Idle => hdl[k] \in Request
  BY DEF IInv, HandlersOK
<1>2. ASSUME hdl'[h] # Idle
      PROVE  /\ todo # <<>> /\ hdl'[h].todo = todo /\ hdl'[h].copy = copy
             /\ hdl'[h].who = hdl[h].who /\ hdl'[h].behind = hdl[h].behind
             /\ hdl'[h].field = hdl[h].field /\ hdl'[h].value = hdl[h].value
  <2>1. todo # <<>> /\ hdl'[h] = [hdl[h] EXCEPT !.todo = todo, !.copy = copy]
    BY <1>2 DEF Advance
  <2>. QED BY <1>1, <2>1 DEF Request
<1>3. ASSUME NEW k \in Handlers, k # h, hdl'[k] # Idle
      PROVE  /\ hdl[k] # Idle /\ hdl'[k].todo = hdl[k].todo
             /\ hdl'[k].copy = hdl[k].copy /\ hdl'[k].who = hdl[k].who
             /\ hdl'[k].behind = hdl[k].behind \cup news
             /\ hdl'[k].field = hdl[k].field /\ hdl'[k].value = hdl[k].value
  <2>1. hdl[k] # Idle /\ hdl'[k] = [hdl[k] EXCEPT !.behind = @ \cup news]
    BY <1>3 DEF Advance
  <2>. QED BY <1>1, <2>1 DEF Request
<1>. QED BY <1>2, <1>3

LEMMA AdvanceReady ==
    ASSUME IInv, AllReady, NEW h \in Handlers, hdl[h] # Idle, NEW todo, NEW copy, NEW news,
           Advance(h, todo, copy, news), row' = row, participants \subseteq participants',
           hdl'[h] # Idle => Ready(hdl'[h], row.owner, participants')
    PROVE  AllReady'
<1> SUFFICES ASSUME NEW k \in Handlers, hdl'[k] # Idle
             PROVE  Ready(hdl'[k], row.owner, participants')
  BY DEF AllReady
<1>1. CASE k # h
  <2>1. /\ hdl[k] # Idle /\ hdl'[k].todo = hdl[k].todo
        /\ hdl'[k].copy = hdl[k].copy /\ hdl'[k].who = hdl[k].who
        /\ hdl[k].behind \subseteq hdl'[k].behind
    BY <1>1, AdvanceFacts
  <2>2. Ready(hdl[k], row.owner, participants)
    BY <2>1 DEF AllReady
  <2>. QED BY <2>1, <2>2, ReadyStill
<1>. QED BY <1>1

(* Steps that leave the row alone and remove nobody. *)
LEMMA StepReady ==
    ASSUME IInv, OwnerInv, NEW h \in Handlers,
           \/ Upsert(h) \/ CheckMember(h) \/ Join(h) \/ Follow(h) \/ Unfollow(h)
    PROVE  OwnerInv'
<1> DEFINE todo == hdl[h].todo
           rest == SubSeq(Tail(todo), 3, Len(Tail(todo)))
<1>1. hdl[h] # Idle /\ row' = row /\ missed \cap Lost \subseteq missed'
  BY DEF Upsert, CheckMember, Join, Follow, Unfollow, AtStep, Lost
<1>2. todo \in Lists
  BY <1>1 DEF OwnerInv, Listed
<1>3. participants \subseteq participants'
  BY DEF Upsert, CheckMember, Join, Follow, Unfollow
<1>4. PICK next, news :
          /\ Advance(h, next, hdl[h].copy, news)
          /\ \/ next = Tail(todo)
             \/ /\ next = rest /\ Head(todo) = "member"
                /\ missed' = IF rest # <<>> THEN missed \cup {"passed"} ELSE missed
  BY DEF Upsert, CheckMember, Join, Follow, Unfollow, NextStep, AtStep
<1>5. /\ Head(todo) \in {"upsert", "member", "join", "follow", "unfollow"}
      /\ Head(todo) = "join" => hdl[h].who \in participants'
  BY DEF Upsert, CheckMember, Join, Follow, Unfollow, AtStep
<1>6. next \in Lists \cup {<<>>}
  BY <1>2, <1>4, ListsAfter, ListsApart DEF Lists, Writing, Enlisted
<1>7. Listed'
  BY <1>1, <1>4, <1>6, AdvanceListed DEF OwnerInv
<1>8. ASSUME missed' \cap Lost = {}, AllReady, hdl'[h] # Idle
      PROVE  Ready(hdl'[h], row.owner, participants')
  <2>1. /\ next # <<>> /\ hdl'[h].todo = next /\ hdl'[h].copy = hdl[h].copy
        /\ hdl'[h].who = hdl[h].who /\ hdl'[h].behind = hdl[h].behind
    BY <1>1, <1>4, <1>8, AdvanceFacts
  <2>2. Ready(hdl[h], row.owner, participants)
    BY <1>1, <1>8 DEF AllReady
  <2>3. next = Tail(todo)
    BY <1>4, <1>8, <2>1 DEF Lost
  <2>4. /\ next # R2
        /\ next \in Writing =>
              \/ todo \in Saving /\ todo \notin Enlisting \cup Enlisted
              \/ todo \in Enlisting /\ next \in Enlisting
              \/ todo \in Enlisting /\ next \in Enlisted /\ Head(todo) = "join"
              \/ todo \in Enlisted /\ next \in Enlisted
    BY <1>2, <1>5, <2>3, ListsLater
  <2>5. todo \in Enlisted => todo \notin Enlisting
    BY ListsApart
  <2>. HIDE DEF rest
  <2>. QED BY <1>3, <1>5, <2>1, <2>2, <2>4, <2>5 DEF Ready, Writing
<1>9. missed' \cap Lost = {} /\ AllReady => AllReady'
  BY <1>1, <1>3, <1>4, <1>8, AdvanceReady
<1>. QED BY <1>1, <1>3, <1>7, <1>9 DEF OwnerInv

(* Whoever leaves does not own the run and is not about to. *)
LEMMA LeaveReady ==
    ASSUME IInv, OwnerInv, NEW h \in Handlers, Leave(h)
    PROVE  OwnerInv'
<1>1. AtStep(h, "remove") /\ hdl[h] # Idle /\ row' = row
  BY DEF Leave, AtStep
<1>2. hdl[h].todo \in Lists
  BY <1>1 DEF OwnerInv, Listed
<1>3. hdl[h].todo = R2 /\ Tail(hdl[h].todo) = R1
  BY <1>1, <1>2, ListsAfter, ListTable DEF AtStep
<1>4. PICK news : Advance(h, R1, hdl[h].copy, news)
  BY <1>3 DEF Leave, NextStep
<1>5. R1 \in Lists /\ R1 \notin Writing /\ R1 # R2
  BY ListTable, ListsApart DEF Lists, Others
<1>6. Listed'
  BY <1>1, <1>4, <1>5, AdvanceListed DEF OwnerInv
<1>7. ASSUME missed' \cap Lost = {} PROVE AllReady' /\ row'.owner \in participants'
  <2>1. /\ missed \cap Lost = {} /\ "owner" \notin hdl[h].behind
        /\ ~ Crosses(h, {"follow", "write"})
    BY <1>7 DEF Leave, Lost
  <2>2. AllReady /\ row.owner \in participants
    BY <2>1 DEF OwnerInv
  <2>3. hdl[h].who # row.owner
    BY <1>1, <1>3, <2>1, <2>2 DEF AllReady, Ready
  <2>4. participants' = participants \ {hdl[h].who}
    BY DEF Leave
  <2>5. ASSUME NEW k \in Handlers, hdl'[k] # Idle
        PROVE  Ready(hdl'[k], row.owner, participants')
    <3>1. CASE k = h
      <4>1. hdl'[k].todo = R1
        BY <1>1, <1>4, <2>5, <3>1, AdvanceFacts
      <4>. QED BY <1>5, <4>1 DEF Ready
    <3>2. CASE k # h
      <4>1. /\ hdl[k] # Idle /\ hdl'[k].todo = hdl[k].todo
            /\ hdl'[k].copy = hdl[k].copy /\ hdl'[k].who = hdl[k].who
            /\ hdl'[k].behind = hdl[k].behind \cup news
        BY <1>1, <1>4, <2>5, <3>2, AdvanceFacts
      <4>2. Ready(hdl[k], row.owner, participants) /\ hdl[k].todo \in Lists
        BY <2>2, <4>1 DEF AllReady, OwnerInv, Listed
      <4>3. hdl[k].todo \in Enlisted => hdl[k].who # hdl[h].who
        BY <2>1, <4>1, <4>2, ListsAfter DEF Crosses
      <4>. QED BY <2>4, <4>1, <4>2, <4>3 DEF Ready
    <3>. QED BY <3>1, <3>2
  <2>6. AllReady'
    BY <1>1, <2>5 DEF AllReady
  <2>. QED BY <1>1, <2>2, <2>3, <2>4, <2>6
<1>. QED BY <1>6, <1>7 DEF OwnerInv

(* The row's owner is the same, or a user who takes part by now. *)
LEMMA WriteRunReady ==
    ASSUME IInv, OwnerInv, NEW h \in Handlers, WriteRun(h)
    PROVE  OwnerInv'
<1>1. AtStep(h, "write") /\ hdl[h] # Idle /\ row' = hdl[h].copy /\ participants' = participants
  BY DEF WriteRun, AtStep
<1>2. hdl[h].todo \in Lists /\ Head(hdl[h].todo) = "write"
  BY <1>1 DEF OwnerInv, Listed, AtStep
<1>3. /\ Tail(hdl[h].todo) \in {A3, <<>>}
      /\ hdl[h].todo \in Writing /\ hdl[h].todo \notin Enlisting
  BY <1>2, ListsAfter, ListTable DEF Lists, Writing, Enlisting, Enlisted, Saving, Others
<1>4. A3 \in Lists /\ A3 \notin Writing /\ A3 # R2
  BY ListTable, ListsApart DEF Lists, Others
<1>5. PICK next, news :
                  /\ next \in {A3, <<>>} /\ Advance(h, next, NoCopy, news)
                  /\ hdl[h].copy # row => "overwritten" \in news
                  /\ hdl[h].copy.owner # row.owner => "owner" \in news
  BY <1>3 DEF WriteRun
<1>6. Listed'
  BY <1>1, <1>4, <1>5, AdvanceListed DEF OwnerInv
<1>7. ASSUME missed' \cap Lost = {} PROVE AllReady' /\ row'.owner \in participants'
  <2>1. missed \cap Lost = {} /\ "overwritten" \notin hdl[h].behind
    BY <1>7 DEF WriteRun, Unfinished, Lost
  <2>2. AllReady /\ row.owner \in participants
    BY <2>1 DEF OwnerInv
  <2>3. row'.owner \in participants'
    BY <1>1, <1>3, <2>1, <2>2 DEF AllReady, Ready
  <2>4. ASSUME NEW k \in Handlers, hdl'[k] # Idle
        PROVE  Ready(hdl'[k], row'.owner, participants')
    <3>1. CASE k = h
      <4>1. hdl'[h].todo = A3
        BY <1>1, <1>3, <1>5, <2>4, <3>1, AdvanceFacts
      <4>. QED BY <1>4, <3>1, <4>1 DEF Ready
    <3>2. CASE k # h
      <4>1. /\ hdl[k] # Idle /\ hdl'[k].todo = hdl[k].todo
            /\ hdl'[k].copy = hdl[k].copy /\ hdl'[k].who = hdl[k].who
            /\ hdl'[k].behind = hdl[k].behind \cup news
        BY <1>1, <1>5, <2>4, <3>2, AdvanceFacts
      <4>2. Ready(hdl[k], row.owner, participants)
        BY <2>2, <4>1 DEF AllReady
      <4>. QED BY <1>1, <1>5, <4>1, <4>2 DEF Ready
    <3>. QED BY <3>1, <3>2
  <2>. QED BY <2>3, <2>4 DEF AllReady
<1>. QED BY <1>6, <1>7 DEF OwnerInv

LEMMA NextReady == IInv /\ OwnerInv /\ [Next]_vars => OwnerInv'
<1> SUFFICES ASSUME IInv, OwnerInv, [Next]_vars PROVE OwnerInv'
  OBVIOUS
<1>1. ASSUME NEW h \in Handlers, NEW u \in Users,
             TaskRequest(h, u) \/ PeopleRequest(h, u) \/ PropertyRequest(h, u)
      PROVE  OwnerInv'
  BY <1>1, RequestReady
<1>2. ASSUME NEW h \in Handlers,
             Upsert(h) \/ CheckMember(h) \/ Join(h) \/ Follow(h) \/ Unfollow(h)
      PROVE  OwnerInv'
  BY <1>2, StepReady
<1>3. ASSUME NEW h \in Handlers, WriteRun(h) \/ Leave(h) PROVE OwnerInv'
  BY <1>3, WriteRunReady, LeaveReady
<1>4. ASSUME NEW h \in Handlers, Fail(h) PROVE OwnerInv'
  <2>1. /\ row' = row /\ participants' = participants /\ missed \subseteq missed'
        /\ \A k \in Handlers : hdl'[k] = IF k = h THEN Idle ELSE hdl[k]
    BY <1>4 DEF Fail, IInv, HandlersOK
  <2>. QED BY <2>1 DEF OwnerInv, Listed, AllReady
<1>5. ASSUME NEW u \in Users, LeaveTeam(u) PROVE OwnerInv'
  BY <1>5 DEF LeaveTeam, OwnerInv, Listed, AllReady
<1>6. CASE UNCHANGED vars
  BY <1>6 DEF vars, OwnerInv, Listed, AllReady
<1>. QED BY <1>1, <1>2, <1>3, <1>4, <1>5, <1>6 DEF Next

(* The owner takes part in the run at every moment, however handlers       *)
(* overlap and wherever they fail, unless a handler overwrote another's    *)
(* row, or the new owner was being removed or left the team meanwhile.     *)
THEOREM OwnerStaysIn == Spec => []OwnerTakesPart
<1>1. Init => OwnerInv
  BY DEF Init, OwnerInv, Listed, AllReady
<1>2. OwnerInv => OwnerTakesPart
  BY DEF OwnerInv, OwnerTakesPart, Lost
<1>. QED BY <1>1, <1>2, NextReady, AlwaysIInv, PTL DEF Spec

-----------------------------------------------------------------------------
(* The two fields.  What holds of the tasks and the user field holds in    *)
(* the same way of the tasks and the select field, so both are argued at   *)
(* once for a field f.                                                     *)

Fields == {"user", "select"}

Held(f) == IF f = "user" THEN values.user ELSE values.select

Mark(f) == IF f = "user" THEN "unassigned" ELSE "unapplied"

NoAction == ""

Follows(item, v) == item.type = PropertyUser => item.assignee \in {v, None}

Applied(item, v) ==
    item.conditional =>
        IF v \in Shown THEN item.action = NoAction
        ELSE /\ item.action # NoAction
             /\ item.action = "shown_because_modified" => item.modified

(* The tasks are what the value of the field asks for. *)
Suits(f, items, v) ==
    \A i \in DOMAIN items : IF f = "user" THEN Follows(items[i], v) ELSE Applied(items[i], v)

Overtaken == {"overwritten", "stale"}
Changing  == {E4, E3, E2}
Settling  == {E1, W4}

(* What a handler writes suits the value it has stored, or, if it is about *)
(* something else, the value held as long as the row did.                  *)
FieldReady(f, r, items, v) ==
    /\ r.field = f => r.todo \notin Changing
    /\ r.field = f /\ r.todo \in Writing => Suits(f, r.copy.items, r.value)
    /\ r.field = f /\ r.todo \in Settling \cup {S1} /\ "stale" \notin r.behind => r.value = v
    /\ r.field # f /\ r.todo \in Writing /\ r.behind \cap Overtaken = {}
          => (Suits(f, items, v) => Suits(f, r.copy.items, v))
    /\ r.field = f /\ f = "user" /\ r.todo = S1 /\ r.behind \cap Overtaken = {}
          => Suits(f, items, v)

(* The value is stored and the tasks are still to be written. *)
Pending(f) == \E h \in Handlers : hdl[h] # Idle /\ hdl[h].field = f /\ hdl[h].todo \in Settling

HandlersSuit(f) ==
    \A h \in Handlers : hdl[h] # Idle => FieldReady(f, hdl[h], row.items, Held(f))

RowSuits(f) == Mark(f) \in missed \/ Pending(f) \/ Suits(f, row.items, Held(f))

FieldInv ==
    missed \cap Overtaken = {} => \A f \in Fields : HandlersSuit(f) /\ RowSuits(f)

-----------------------------------------------------------------------------
(* Tasks that suit a value. *)

LEMMA AssignedFields ==
    ASSUME NEW item \in Item, NEW type, NEW user
    PROVE  LET new == Assigned(item, type, user) IN
           /\ new.type = type /\ new.assignee = user /\ new.modified
           /\ new.conditional = item.conditional /\ new.action = item.action
BY DEF Assigned, Item

(* Work on a task takes nothing from what its condition calls for. *)
LEMMA WorkApplies ==
    ASSUME NEW item, NEW new, NEW v, Applied(item, v),
           new.conditional = item.conditional, new.action = item.action,
           item.modified => new.modified
    PROVE  Applied(new, v)
BY DEF Applied

LEMMA ActionApplies ==
    ASSUME NEW item \in Item, NEW v
    PROVE  item.conditional => Applied([item EXCEPT !.action = ActionOf(item, v \in Shown)], v)
<1> DEFINE action == ActionOf(item, v \in Shown)
           new == [item EXCEPT !.action = action]
<1>1. /\ v \in Shown => action = NoAction
      /\ v \notin Shown => action # NoAction
      /\ v \notin Shown /\ action = "shown_because_modified" => item.modified
  <2>1. /\ NoAction # "hidden" /\ NoAction # "shown_because_modified"
        /\ "hidden" # "shown_because_modified"
    BY Zenon DEF NoAction
  <2>2. v \in Shown => action = NoAction
    BY Zenon DEF ActionOf, NoAction
  <2>3. v \notin Shown /\ item.modified => action = "shown_because_modified"
    BY Zenon DEF ActionOf
  <2>4. v \notin Shown /\ ~ item.modified => action = "hidden"
    BY Zenon DEF ActionOf
  <2>. QED BY <2>1, <2>2, <2>3, <2>4, Zenon
<1>2. new.modified = item.modified /\ new.action = action
  BY DEF Item
<1>. HIDE DEF action, new
<1>3. Applied(new, v)
  BY <1>1, <1>2 DEF Applied
<1>. QED BY <1>3 DEF new, action

LEMMA ConditionSuits ==
    ASSUME NEW items \in Seq(Item), NEW v, NEW w
    PROVE  LET new == ApplyConditionResults(items, v \in Shown) IN
           /\ Suits("select", new, v)
           /\ Suits("user", items, w) => Suits("user", new, w)
<1> DEFINE new == ApplyConditionResults(items, v \in Shown)
<1>1. \A i \in DOMAIN items : items[i] \in Item
  BY LenProperties, ElementOfSeq
<1>2. DOMAIN new = DOMAIN items
  BY DEF ApplyConditionResults
<1>3. \A i \in DOMAIN items : Applied(new[i], v)
  BY <1>1, ActionApplies DEF ApplyConditionResults, Applied
<1>4. \A i \in DOMAIN items : new[i].type = items[i].type /\ new[i].assignee = items[i].assignee
  BY <1>1 DEF ApplyConditionResults, Item
<1>. HIDE DEF new
<1>5. Suits("select", new, v)
  BY <1>2, <1>3 DEF Suits
<1>6. Suits("user", items, w) => Suits("user", new, w)
  BY <1>2, <1>4 DEF Suits, Follows
<1>. QED BY <1>5, <1>6 DEF new

LEMMA ReassignedSuits ==
    ASSUME NEW items \in Seq(Item), NEW v, NEW w, NEW x
    PROVE  /\ Suits("user", Reassigned(items, PropertyUser, v), v)
           /\ Suits("user", items, w) => Suits("user", Reassigned(items, OwnerRole, x), w)
           /\ \A type : Suits("select", items, w)
                            => Suits("select", Reassigned(items, type, x), w)
<1>1. \A i \in DOMAIN items : items[i] \in Item
  BY LenProperties, ElementOfSeq
<1>2. \A type, user : DOMAIN Reassigned(items, type, user) = DOMAIN items
  BY DEF Reassigned
<1>3. ASSUME NEW i \in DOMAIN items
      PROVE  /\ Follows(Reassigned(items, PropertyUser, v)[i], v)
             /\ Follows(items[i], w) => Follows(Reassigned(items, OwnerRole, x)[i], w)
             /\ \A type : Applied(items[i], w) => Applied(Reassigned(items, type, x)[i], w)
  <2>1. /\ Follows(Reassigned(items, PropertyUser, v)[i], v)
        /\ Follows(items[i], w) => Follows(Reassigned(items, OwnerRole, x)[i], w)
    BY <1>1, AssignedFields DEF Reassigned, Follows, OwnerRole, PropertyUser
  <2>2. \A type : Applied(items[i], w) => Applied(Reassigned(items, type, x)[i], w)
    BY <1>1, AssignedFields, WorkApplies DEF Reassigned
  <2>. QED BY <2>1, <2>2
<1>. QED BY <1>2, <1>3 DEF Suits

(* Changing one task, or adding one. *)
LEMMA ChangedSuits ==
    ASSUME NEW items \in Seq(Item), NEW i \in DOMAIN items, NEW new, NEW v,
           new.conditional = items[i].conditional, new.action = items[i].action, new.modified
    PROVE  /\ Suits("select", items, v) => Suits("select", [items EXCEPT ![i] = new], v)
           /\ Follows(new, v) /\ Suits("user", items, v)
                 => Suits("user", [items EXCEPT ![i] = new], v)
<1> DEFINE changed == [items EXCEPT ![i] = new]
<1>1. DOMAIN changed = DOMAIN items
      /\ \A j \in DOMAIN items : changed[j] = IF j = i THEN new ELSE items[j]
  OBVIOUS
<1>. HIDE DEF changed
<1>2. Suits("select", items, v) => Suits("select", changed, v)
  BY <1>1, WorkApplies DEF Suits
<1>3. Follows(new, v) /\ Suits("user", items, v) => Suits("user", changed, v)
  BY <1>1 DEF Suits
<1>. QED BY <1>2, <1>3 DEF changed

LEMMA AddedSuits ==
    ASSUME NEW items \in Seq(Item), NEW new \in Item, NEW v
    PROVE  /\ Applied(new, v) /\ Suits("select", items, v)
                 => Suits("select", Append(items, new), v)
           /\ Follows(new, v) /\ Suits("user", items, v)
                 => Suits("user", Append(items, new), v)
<1> DEFINE added == Append(items, new)
<1>1. /\ DOMAIN items = 1 .. Len(items) /\ Len(items) \in Nat
      /\ DOMAIN added = 1 .. Len(items) + 1
      /\ added[Len(items) + 1] = new
      /\ \A j \in 1 .. Len(items) : added[j] = items[j]
  BY AppendProperties, LenProperties
<1>. HIDE DEF added
<1>2. \A j \in DOMAIN added : (j \in DOMAIN items /\ added[j] = items[j]) \/ added[j] = new
  BY <1>1
<1>3. Applied(new, v) /\ Suits("select", items, v) => Suits("select", added, v)
  BY <1>2 DEF Suits
<1>4. Follows(new, v) /\ Suits("user", items, v) => Suits("user", added, v)
  BY <1>2 DEF Suits
<1>. QED BY <1>3, <1>4 DEF added

-----------------------------------------------------------------------------
(* Requests. *)

LEMMA BeginSuits ==
    ASSUME IInv, FieldInv, NEW h \in Handlers,
           NEW todo, NEW who, NEW copy, NEW field, NEW value,
           \A f \in Fields :
              /\ field = f => todo \notin Changing \cup Settling
              /\ field = f /\ todo \in Writing => Suits(f, copy.items, value)
              /\ field = f /\ todo = S1 => value = Held(f)
              /\ field # f /\ todo \in Writing /\ Suits(f, row.items, Held(f))
                    => Suits(f, copy.items, Held(f))
              /\ field = f /\ f = "user" /\ todo = S1 => Suits(f, row.items, Held(f)),
           Begin(h, todo, who, copy, field, value)
    PROVE  FieldInv'
<1> DEFINE r == [ todo   |-> todo,
                  who    |-> who,
                  copy   |-> copy,
                  field  |-> field,
                  value  |-> value,
                  behind |-> {} ]
<1>1. r.todo = todo /\ r.copy = copy /\ r.field = field /\ r.value = value
  OBVIOUS
<1>2. hdl' = [hdl EXCEPT ![h] = r] /\ UNCHANGED <<row, values, missed>> /\ hdl[h] = Idle
  BY DEF Begin
<1>. HIDE DEF r
<1>3. \A k \in Handlers : hdl'[k] = IF k = h THEN r ELSE hdl[k]
  BY <1>2 DEF IInv, HandlersOK
<1>4. \A f : Held(f)' = Held(f) /\ Mark(f)' = Mark(f)
  BY <1>2 DEF Held, Mark
<1> SUFFICES ASSUME missed' \cap Overtaken = {}, NEW f \in Fields
             PROVE  HandlersSuit(f)' /\ RowSuits(f)'
  BY DEF FieldInv
<1>5. HandlersSuit(f) /\ RowSuits(f)
  BY <1>2 DEF FieldInv
<1>6. S1 \notin Settling
  BY ListTable DEF Settling
<1>7. FieldReady(f, r, row.items, Held(f))
  BY <1>1, <1>6 DEF FieldReady
<1>8. HandlersSuit(f)'
  BY <1>2, <1>3, <1>4, <1>5, <1>7 DEF HandlersSuit
<1>9. Pending(f) => Pending(f)'
  BY <1>2, <1>3 DEF Pending
<1>. QED BY <1>2, <1>4, <1>5, <1>8, <1>9 DEF RowSuits

LEMMA BeginWriteSuits ==
    ASSUME IInv, FieldInv, NEW h \in Handlers, NEW u, NEW items, NEW a,
           Suits("user", row.items, values.user) => Suits("user", items, values.user),
           Suits("select", row.items, values.select) => Suits("select", items, values.select),
           BeginWrite(h, u, items, a)
    PROVE  FieldInv'
<1> DEFINE copy == [row EXCEPT !.items = items]
<1>1. copy.items = items
  BY RowFacts DEF Run
<1>2. PICK field : field \notin Fields
                   /\ Begin(h, <<"write">> \o AddAssignee(u, a), a, copy, field, None)
  BY Zenon DEF BeginWrite, Fields
<1>. HIDE DEF copy
<1>3. \A f \in Fields : Suits(f, row.items, Held(f)) => Suits(f, copy.items, Held(f))
  BY <1>1 DEF Fields, Held
<1>. QED BY <1>2, <1>3, BeginSuits

LEMMA TaskRequestSuits ==
    ASSUME IInv, FieldInv, NEW h \in Handlers, NEW u \in Users, TaskRequest(h, u)
    PROVE  FieldInv'
<1>1. ASSUME NEW i \in DOMAIN row.items, ModifyCheckedState(h, u, i) PROVE FieldInv'
  <2> DEFINE new == [row.items[i] EXCEPT !.modified = TRUE]
  <2>1. /\ new.conditional = row.items[i].conditional /\ new.action = row.items[i].action
        /\ new.modified /\ new.type = row.items[i].type
        /\ new.assignee = row.items[i].assignee
    BY <1>1, RowFacts DEF Item
  <2>2. [row.items EXCEPT ![i] = new] = [row.items EXCEPT ![i].modified = TRUE]
    BY <1>1, RowFacts
  <2>. HIDE DEF new
  <2>3. Suits("user", row.items, values.user) => Follows(new, values.user)
    BY <2>1 DEF Suits, Follows
  <2>4. BeginWrite(h, u, [row.items EXCEPT ![i] = new], None)
    BY <1>1, <2>2 DEF ModifyCheckedState
  <2>. QED BY <1>1, <2>1, <2>3, <2>4, RowFacts, ChangedSuits, BeginWriteSuits
<1>2. ASSUME NEW i \in DOMAIN row.items, NEW type, NEW a, AssignTask(h, u, i, type, a),
             type = PropertyUser => a = values.user
      PROVE  FieldInv'
  <2> DEFINE new == Assigned(row.items[i], type, a)
  <2>1. /\ new.conditional = row.items[i].conditional /\ new.action = row.items[i].action
        /\ new.modified /\ new.type = type /\ new.assignee = a
    BY <1>2, RowFacts, AssignedFields
  <2>2. BeginWrite(h, u, [row.items EXCEPT ![i] = new], a)
    BY <1>2 DEF AssignTask
  <2>. HIDE DEF new
  <2>3. Follows(new, values.user)
    BY <1>2, <2>1 DEF Follows
  <2>. QED BY <1>2, <2>1, <2>2, <2>3, RowFacts, ChangedSuits, BeginWriteSuits
<1>3. ASSUME NEW type \in Types, NEW a \in Assignees, AddChecklistItem(h, u, type, a)
      PROVE  FieldInv'
  <2> DEFINE new == [ type        |-> type,
                      assignee    |-> a,
                      modified    |-> FALSE,
                      conditional |-> FALSE,
                      action      |-> "" ]
  <2>1. new \in Item /\ ~ new.conditional /\ new.type = type /\ new.assignee = a
    BY Zenon DEF Item, Assignees
  <2>2. BeginWrite(h, u, Append(row.items, new), None)
    BY <1>3 DEF AddChecklistItem
  <2>. HIDE DEF new
  <2>3. Applied(new, values.select)
    BY <2>1 DEF Applied
  <2>4. Follows(new, values.user)
    BY <1>3, <2>1 DEF Follows, AddChecklistItem, PropertyUser, SpecificUser
  <2>. QED BY <2>1, <2>2, <2>3, <2>4, RowFacts, AddedSuits, BeginWriteSuits
<1>4. SpecificUser # PropertyUser /\ OwnerRole # PropertyUser /\ CreatorRole # PropertyUser
  BY DEF SpecificUser, OwnerRole, CreatorRole, PropertyUser
<1>. QED
  BY <1>1, <1>2, <1>3, <1>4
  DEF TaskRequest, SetAssignee, SetRoleAssignee, SetPropertyUserAssignee, Assignees

LEMMA PeopleRequestSuits ==
    ASSUME IInv, FieldInv, NEW h \in Handlers, NEW u \in Users, PeopleRequest(h, u)
    PROVE  FieldInv'
<1>1. ASSUME NEW v \in Users, ChangeOwner(h, u, v) PROVE FieldInv'
  <2> DEFINE copy == [owner |-> v, items |-> ResolveOwnerRoleAssignments(row.items, v)]
  <2>1. /\ Suits("user", row.items, values.user) => Suits("user", copy.items, values.user)
        /\ Suits("select", row.items, values.select)
              => Suits("select", copy.items, values.select)
    BY RowFacts, ReassignedSuits DEF ResolveOwnerRoleAssignments
  <2>2. PICK field, todo : field \notin Fields /\ Begin(h, todo, v, copy, field, None)
    BY <1>1, Zenon DEF ChangeOwner, Fields
  <2>. HIDE DEF copy
  <2>3. \A f \in Fields : Suits(f, row.items, Held(f)) => Suits(f, copy.items, Held(f))
    BY <2>1 DEF Fields, Held
  <2>. QED BY <2>2, <2>3, BeginSuits
<1>2. A3 \notin Writing /\ R2 \notin Writing
  BY ListsApart DEF Others
<1>3. ASSUME NEW v \in Users, AddParticipants(h, u, v) \/ RemoveParticipants(h, u, v)
      PROVE  FieldInv'
  <2>1. PICK field, todo : /\ field \notin Fields /\ todo \in {A3, R2}
                           /\ Begin(h, todo, v, NoCopy, field, None)
    BY <1>3, Zenon DEF AddParticipants, RemoveParticipants, Adding, Removing, A3, R2, Fields
  <2>. QED BY <1>2, <2>1, BeginSuits
<1>. QED BY <1>1, <1>3 DEF PeopleRequest

LEMMA PropertyRequestSuits ==
    ASSUME IInv, FieldInv, NEW h \in Handlers, NEW u \in Users, PropertyRequest(h, u)
    PROVE  FieldInv'
<1>1. /\ {S1, S2, S5} \cap (Changing \cup Settling) = {}
      /\ S1 \notin Writing /\ S1 \notin {S2, S5}
  <2>1. {S1, S2, S5} \cap (Changing \cup Settling) = {}
    BY ListTable DEF Changing, Settling
  <2>2. S1 \notin Writing
    BY ListsApart DEF Others
  <2>. QED BY <2>1, <2>2 DEF Writing, Saving
<1>2. "user" # "select" /\ Held("user") = values.user /\ Held("select") = values.select
  BY DEF Held
<1>3. ASSUME NEW v, SetUserProperty(h, u, v) PROVE FieldInv'
  <2> DEFINE items == ResolvePropertyUserAssignments(row.items, v)
             copy == [row EXCEPT !.items = items]
             steps == <<"upsert", "write">>
                         \o IF items # row.items THEN AddAssignee(u, v) ELSE <<>>
  <2>1. copy.items = items
    BY RowFacts DEF Run
  <2>2. steps \in {S2, S5}
    BY PlansListed DEF AddAssignee, S2, S5
  <2>3. /\ Suits("user", items, v)
        /\ Suits("select", row.items, values.select) => Suits("select", items, values.select)
    BY RowFacts, ReassignedSuits DEF ResolvePropertyUserAssignments
  <2>4. \/ Begin(h, steps, v, copy, "user", v)
        \/ v = values.user /\ items = row.items /\ Begin(h, S1, None, NoCopy, "user", v)
    BY <1>3 DEF SetUserProperty, S1
  <2>. HIDE DEF items, copy, steps
  <2>5. CASE Begin(h, steps, v, copy, "user", v)
    BY <1>1, <1>2, <2>1, <2>2, <2>3, <2>5, BeginSuits DEF Fields
  <2>6. CASE v = values.user /\ items = row.items /\ Begin(h, S1, None, NoCopy, "user", v)
    BY <1>1, <1>2, <2>3, <2>6, BeginSuits DEF Fields
  <2>. QED BY <2>4, <2>5, <2>6
<1>4. ASSUME NEW v, SetSelectProperty(h, u, v) PROVE FieldInv'
  <2> DEFINE items == ApplyConditionResults(row.items, v \in Shown)
             copy == [row EXCEPT !.items = items]
  <2>1. copy.items = items
    BY RowFacts DEF Run
  <2>2. /\ Suits("select", items, v)
        /\ Suits("user", row.items, values.user) => Suits("user", items, values.user)
    BY RowFacts, ConditionSuits
  <2>3. \/ Begin(h, S2, None, copy, "select", v)
        \/ v = values.select /\ Begin(h, S1, None, NoCopy, "select", v)
    BY <1>4 DEF SetSelectProperty, S1, S2
  <2>. HIDE DEF items, copy
  <2>4. CASE Begin(h, S2, None, copy, "select", v)
    BY <1>1, <1>2, <2>1, <2>2, <2>4, BeginSuits DEF Fields
  <2>5. CASE v = values.select /\ Begin(h, S1, None, NoCopy, "select", v)
    BY <1>1, <1>2, <2>5, BeginSuits DEF Fields
  <2>. QED BY <2>3, <2>4, <2>5
<1>. QED BY <1>3, <1>4 DEF PropertyRequest

-----------------------------------------------------------------------------
(* Steps. *)

LEMMA ListsOn ==
    ASSUME NEW todo \in Lists
    PROVE  /\ Head(todo) = "upsert" =>
                \/ todo = S1 /\ Tail(todo) = <<>>
                \/ todo \in {S2, S5} /\ Tail(todo) \in Settling
           /\ Head(todo) = "write" => todo \in Settling /\ Tail(todo) \in {A3, <<>>}
           /\ Head(todo) \notin {"upsert", "write"} =>
                \/ todo \in Changing /\ Tail(todo) \in {E3, E2, E1}
                \/ Tail(todo) \in {A2, A1, R1, <<>>}
           /\ Head(todo) = "member" =>
                LET rest == SubSeq(Tail(todo), 3, Len(Tail(todo))) IN
                \/ todo \in Changing /\ rest = E1
                \/ rest = <<>>
BY ListTable DEF Lists, Writing, Enlisting, Enlisted, Saving, Others, Changing, Settling

LEMMA ListsOff ==
    /\ {A3, A2, A1, R1, <<>>} \cap (Writing \cup {S1}) = {}
    /\ {E3, E2, E1, S2, S5} \cup Settling \cup Changing \subseteq Writing
    /\ S1 \notin Settling /\ S1 \notin Writing
    /\ Settling \cap Changing = {}
    /\ <<>> \notin Lists
<1>1. {E3, E2, E1, S2, S5} \cup Settling \cup Changing \subseteq Writing
  BY DEF Writing, Enlisting, Enlisted, Saving, Changing, Settling
<1>2. {A3, A2, A1, R1, S1} \subseteq Others
  BY DEF Others
<1>3. S1 \notin {A3, A2, A1, R1}
  BY ListTable
<1>4. S1 \notin Settling /\ Settling \cap Changing = {}
  BY ListTable DEF Settling, Changing
<1>. QED BY <1>1, <1>2, <1>3, <1>4, ListsApart DEF Lists

(* The handlers that take no step, if the row is as it was or they know    *)
(* better, and so with the value.                                          *)
LEMMA OthersSuit ==
    ASSUME IInv, NEW f \in Fields, HandlersSuit(f), NEW h \in Handlers, hdl[h] # Idle,
           NEW todo, NEW copy, NEW news, Advance(h, todo, copy, news),
           row' = row \/ "overwritten" \in news,
           Held(f)' = Held(f) \/ "stale" \in news,
           hdl'[h] # Idle => FieldReady(f, hdl'[h], row'.items, Held(f)')
    PROVE  HandlersSuit(f)'
<1> SUFFICES ASSUME NEW k \in Handlers, hdl'[k] # Idle
             PROVE  FieldReady(f, hdl'[k], row'.items, Held(f)')
  BY DEF HandlersSuit
<1>1. CASE k # h
  <2>1. /\ hdl[k] # Idle /\ hdl'[k].todo = hdl[k].todo
        /\ hdl'[k].copy = hdl[k].copy /\ hdl'[k].who = hdl[k].who
        /\ hdl'[k].behind = hdl[k].behind \cup news
        /\ hdl'[k].field = hdl[k].field /\ hdl'[k].value = hdl[k].value
    BY <1>1, AdvanceFacts
  <2>2. FieldReady(f, hdl[k], row.items, Held(f))
    BY <2>1 DEF HandlersSuit
  <2>. QED BY <2>1, <2>2 DEF FieldReady, Overtaken
<1>. QED BY <1>1

(* Handlers that are not done stay so. *)
LEMMA StillBusy ==
    ASSUME IInv, NEW h \in Handlers, hdl[h] # Idle, NEW todo, NEW copy, NEW news,
           Advance(h, todo, copy, news)
    PROVE  /\ todo # <<>> => /\ hdl'[h] # Idle /\ hdl'[h].todo = todo
                             /\ hdl'[h].field = hdl[h].field
           /\ \A k \in Handlers : k # h /\ hdl[k] # Idle =>
                /\ hdl'[k] # Idle /\ hdl'[k].todo = hdl[k].todo
                /\ hdl'[k].field = hdl[k].field
<1>1. \A k \in Handlers : hdl[k] # Idle => hdl[k] \in Request /\ hdl[k].todo # <<>>
  BY DEF IInv, HandlersOK, Request
<1>2. ASSUME todo # <<>>
      PROVE  hdl'[h] # Idle /\ hdl'[h].todo = todo /\ hdl'[h].field = hdl[h].field
  <2>1. hdl'[h] = [hdl[h] EXCEPT !.todo = todo, !.copy = copy]
    BY <1>2 DEF Advance
  <2>2. hdl'[h].todo = todo /\ hdl'[h].field = hdl[h].field
    BY <1>1, <2>1 DEF Request
  <2>. QED BY <1>2, <2>2 DEF Idle
<1>3. ASSUME NEW k \in Handlers, k # h, hdl[k] # Idle
      PROVE  hdl'[k] # Idle /\ hdl'[k].todo = hdl[k].todo /\ hdl'[k].field = hdl[k].field
  <2>1. hdl'[k] = [hdl[k] EXCEPT !.behind = @ \cup news]
    BY <1>3 DEF Advance
  <2>2. hdl'[k].todo = hdl[k].todo /\ hdl'[k].field = hdl[k].field
    BY <1>1, <1>3, <2>1 DEF Request
  <2>. QED BY <1>1, <1>3, <2>2 DEF Idle
<1>. QED BY <1>2, <1>3

LEMMA StillPending ==
    ASSUME IInv, NEW f, Pending(f), NEW h \in Handlers, hdl[h] # Idle,
           NEW todo, NEW copy, NEW news, Advance(h, todo, copy, news),
           ~ (hdl[h].field = f /\ hdl[h].todo \in Settling)
    PROVE  Pending(f)'
BY StillBusy DEF Pending

LEMMA UpsertSuits ==
    ASSUME IInv, Listed, FieldInv, NEW h \in Handlers, Upsert(h)
    PROVE  FieldInv'
<1> SUFFICES ASSUME missed' \cap Overtaken = {}, NEW f \in Fields
             PROVE  HandlersSuit(f)' /\ RowSuits(f)'
  BY DEF FieldInv
<1>1. /\ hdl[h] # Idle /\ Head(hdl[h].todo) = "upsert" /\ row' = row
      /\ hdl[h].todo \in Lists
  BY DEF Upsert, AtStep, Listed
<1>2. /\ "stale" \notin hdl[h].behind /\ missed \cap Overtaken = {}
      /\ Mark(f) \in missed =>
            \/ Mark(f) \in missed'
            \/ f = "user" /\ hdl[h].field = f /\ hdl[h].behind = {}
  BY DEF Upsert, Overtaken, Mark, Fields
<1>3. HandlersSuit(f) /\ RowSuits(f)
  BY <1>2 DEF FieldInv
<1>4. FieldReady(f, hdl[h], row.items, Held(f))
  BY <1>1, <1>3 DEF HandlersSuit
<1>5. Held(f)' = IF hdl[h].field = f THEN hdl[h].value ELSE Held(f)
  BY DEF Upsert, Held, Fields
<1>6. PICK next, news : /\ Advance(h, next, hdl[h].copy, news)
                        /\ \/ hdl[h].todo = S1 /\ next = <<>>
                           \/ hdl[h].todo \in {S2, S5} /\ next \in Settling
                        /\ values' = values \/ "stale" \in news
  BY <1>1, ListsOn DEF Upsert
<1>7. Held(f)' = Held(f) \/ "stale" \in news
  BY <1>6 DEF Held
<1>8. Mark(f)' = Mark(f)
  BY DEF Mark
<1>9. CASE hdl[h].todo = S1 /\ next = <<>>
  <2>1. hdl'[h] = Idle
    BY <1>1, <1>6, <1>9, AdvanceFacts
  <2>2. HandlersSuit(f)'
    BY <1>1, <1>3, <1>6, <1>7, <2>1, OthersSuit
  <2>3. Held(f)' = Held(f)
    BY <1>2, <1>4, <1>5, <1>9 DEF FieldReady
  <2>4. Pending(f) => Pending(f)'
    BY <1>1, <1>6, <1>9, StillPending, ListsOff
  <2>5. CASE f = "user" /\ hdl[h].field = f /\ hdl[h].behind = {}
    <3>1. Suits(f, row.items, Held(f))
      BY <1>4, <1>9, <2>5 DEF FieldReady
    <3>. QED BY <1>1, <2>2, <2>3, <3>1 DEF RowSuits
  <2>6. CASE ~ (f = "user" /\ hdl[h].field = f /\ hdl[h].behind = {})
    BY <1>1, <1>2, <1>3, <1>8, <2>2, <2>3, <2>4, <2>6 DEF RowSuits
  <2>. QED BY <2>5, <2>6
<1>10. CASE hdl[h].todo \in {S2, S5} /\ next \in Settling
  <2>1. /\ hdl[h].todo \in Writing /\ next \in Writing
        /\ next \notin Changing /\ next # S1 /\ next # <<>>
    BY <1>10, ListsOff DEF Lists
  <2>2. ASSUME hdl'[h] # Idle PROVE FieldReady(f, hdl'[h], row'.items, Held(f)')
    <3>1. /\ hdl'[h].todo = next /\ hdl'[h].copy = hdl[h].copy
          /\ hdl'[h].behind = hdl[h].behind
          /\ hdl'[h].field = hdl[h].field /\ hdl'[h].value = hdl[h].value
      BY <1>1, <1>6, <2>2, AdvanceFacts
    <3>. QED BY <1>1, <1>4, <1>5, <1>10, <2>1, <3>1 DEF FieldReady
  <2>3. HandlersSuit(f)'
    BY <1>1, <1>3, <1>6, <1>7, <2>2, OthersSuit
  <2>4. CASE hdl[h].field = f
    <3>1. Pending(f)'
      BY <1>1, <1>6, <1>10, <2>1, <2>4, StillBusy DEF Pending
    <3>. QED BY <2>3, <3>1 DEF RowSuits
  <2>5. CASE hdl[h].field # f
    <3>1. Pending(f) => Pending(f)'
      BY <1>1, <1>6, <2>5, StillPending
    <3>. QED BY <1>1, <1>2, <1>3, <1>5, <1>8, <2>3, <2>5, <3>1 DEF RowSuits
  <2>. QED BY <2>4, <2>5
<1>. QED BY <1>6, <1>9, <1>10

LEMMA WriteRunSuits ==
    ASSUME IInv, Listed, FieldInv, NEW h \in Handlers, WriteRun(h)
    PROVE  FieldInv'
<1> SUFFICES ASSUME missed' \cap Overtaken = {}, NEW f \in Fields
             PROVE  HandlersSuit(f)' /\ RowSuits(f)'
  BY DEF FieldInv
<1>1. /\ hdl[h] # Idle /\ Head(hdl[h].todo) = "write" /\ row' = hdl[h].copy
      /\ hdl[h].todo \in Lists /\ values' = values
  BY DEF WriteRun, AtStep, Listed
<1>2. /\ hdl[h].todo \in Settling /\ hdl[h].todo \in Writing
      /\ Tail(hdl[h].todo) \in {A3, <<>>}
  BY <1>1, ListsOn, ListsOff
<1>3. /\ hdl[h].behind \cap Overtaken = {} /\ missed \cap Overtaken = {}
      /\ hdl[h].field # f /\ Mark(f) \in missed => Mark(f) \in missed'
  BY DEF WriteRun, Overtaken, Mark, Unfinished, Fields
<1>4. HandlersSuit(f) /\ RowSuits(f)
  BY <1>3 DEF FieldInv
<1>5. FieldReady(f, hdl[h], row.items, Held(f))
  BY <1>1, <1>4 DEF HandlersSuit
<1>6. Held(f)' = Held(f) /\ Mark(f)' = Mark(f)
  BY <1>1 DEF Held, Mark
<1>7. PICK next, news : /\ next \in {A3, <<>>} /\ Advance(h, next, NoCopy, news)
                        /\ hdl[h].copy # row => "overwritten" \in news
  BY <1>2 DEF WriteRun
<1>8. ASSUME hdl'[h] # Idle PROVE FieldReady(f, hdl'[h], row'.items, Held(f)')
  <2>1. hdl'[h].todo = A3
    BY <1>1, <1>7, <1>8, AdvanceFacts
  <2>2. A3 \notin Writing /\ A3 \notin Changing /\ A3 \notin Settling \cup {S1}
    BY ListsOff
  <2>. QED BY <2>1, <2>2 DEF FieldReady
<1>9. HandlersSuit(f)'
  BY <1>1, <1>4, <1>6, <1>7, <1>8, OthersSuit
<1>10. CASE hdl[h].field = f
  <2>1. Suits(f, hdl[h].copy.items, Held(f))
    BY <1>2, <1>3, <1>5, <1>10 DEF FieldReady, Overtaken
  <2>. QED BY <1>1, <1>6, <1>9, <2>1 DEF RowSuits
<1>11. CASE hdl[h].field # f
  <2>1. Pending(f) => Pending(f)'
    BY <1>1, <1>7, <1>11, StillPending
  <2>2. Suits(f, row.items, Held(f)) => Suits(f, hdl[h].copy.items, Held(f))
    BY <1>2, <1>3, <1>5, <1>11 DEF FieldReady
  <2>. QED BY <1>1, <1>3, <1>4, <1>6, <1>9, <1>11, <2>1, <2>2 DEF RowSuits
<1>. QED BY <1>10, <1>11

(* Steps about people. *)
LEMMA PeopleStepSuits ==
    ASSUME IInv, Listed, FieldInv, NEW h \in Handlers,
           CheckMember(h) \/ Join(h) \/ Follow(h) \/ Leave(h) \/ Unfollow(h)
    PROVE  FieldInv'
<1> DEFINE todo == hdl[h].todo
           rest == SubSeq(Tail(todo), 3, Len(Tail(todo)))
<1> SUFFICES ASSUME missed' \cap Overtaken = {}, NEW f \in Fields
             PROVE  HandlersSuit(f)' /\ RowSuits(f)'
  BY DEF FieldInv
<1>1. /\ hdl[h] # Idle /\ row' = row /\ values' = values /\ missed \subseteq missed'
      /\ Head(todo) \notin {"upsert", "write"} /\ todo \in Lists
  BY DEF CheckMember, Join, Follow, Leave, Unfollow, AtStep, Listed
<1>2. PICK next, news : /\ Advance(h, next, hdl[h].copy, news)
                        /\ \/ next = Tail(todo)
                           \/ next = rest /\ Head(todo) = "member"
  BY DEF CheckMember, Join, Follow, Leave, Unfollow, NextStep, AtStep
<1>3. \/ todo \in Changing /\ next \in {E3, E2, E1}
      \/ next \in {A2, A1, R1, <<>>}
  BY <1>1, <1>2, ListsOn
<1>. HIDE DEF rest
<1>4. HandlersSuit(f) /\ RowSuits(f)
  BY <1>1 DEF FieldInv
<1>5. FieldReady(f, hdl[h], row.items, Held(f))
  BY <1>1, <1>4 DEF HandlersSuit
<1>6. Held(f)' = Held(f) /\ Mark(f)' = Mark(f)
  BY <1>1 DEF Held, Mark
<1>7. ASSUME hdl'[h] # Idle PROVE FieldReady(f, hdl'[h], row'.items, Held(f)')
  <2>1. /\ hdl'[h].todo = next /\ next # <<>> /\ hdl'[h].copy = hdl[h].copy
        /\ hdl'[h].behind = hdl[h].behind /\ hdl'[h].field = hdl[h].field
    BY <1>1, <1>2, <1>7, AdvanceFacts
  <2>2. CASE todo \in Changing /\ next \in {E3, E2, E1}
    <3>1. hdl[h].field # f /\ todo \in Writing
      BY <1>5, <2>2, ListsOff DEF FieldReady
    <3>. QED BY <1>1, <1>5, <1>6, <2>1, <3>1 DEF FieldReady
  <2>3. CASE next \in {A2, A1, R1, <<>>}
    <3>1. next \notin Writing /\ next \notin Changing /\ next \notin Settling \cup {S1}
      BY <2>3, ListsOff
    <3>. QED BY <2>1, <3>1 DEF FieldReady
  <2>. QED BY <1>3, <2>2, <2>3
<1>8. HandlersSuit(f)'
  BY <1>1, <1>2, <1>4, <1>6, <1>7, OthersSuit
<1>9. todo \notin Settling
  BY <1>1, ListTable DEF Settling
<1>10. Pending(f) => Pending(f)'
  BY <1>1, <1>2, <1>9, StillPending
<1>. QED BY <1>1, <1>4, <1>6, <1>8, <1>10 DEF RowSuits

LEMMA FailSuits ==
    ASSUME IInv, FieldInv, NEW h \in Handlers, Fail(h)
    PROVE  FieldInv'
<1> SUFFICES ASSUME missed' \cap Overtaken = {}, NEW f \in Fields
             PROVE  HandlersSuit(f)' /\ RowSuits(f)'
  BY DEF FieldInv
<1>1. /\ hdl[h] # Idle /\ row' = row /\ values' = values /\ missed \subseteq missed'
      /\ Head(hdl[h].todo) = "write" /\ hdl[h].field = f => Mark(f) \in missed'
  BY DEF Fail, AtStep, Unfinished, Mark, Fields
<1>2. \A k \in Handlers : hdl'[k] = IF k = h THEN Idle ELSE hdl[k]
  BY DEF Fail, IInv, HandlersOK
<1>3. HandlersSuit(f) /\ RowSuits(f)
  BY <1>1 DEF FieldInv
<1>4. Held(f)' = Held(f) /\ Mark(f)' = Mark(f)
  BY <1>1 DEF Held, Mark
<1>5. HandlersSuit(f)'
  BY <1>1, <1>2, <1>3, <1>4 DEF HandlersSuit
<1>6. \A todo \in Settling : Head(todo) = "write"
  BY ListTable DEF Settling
<1>7. Pending(f) => Pending(f)' \/ Mark(f) \in missed'
  BY <1>1, <1>2, <1>6 DEF Pending
<1>. QED BY <1>1, <1>3, <1>4, <1>5, <1>7 DEF RowSuits

LEMMA NextSuits == IInv /\ Listed /\ FieldInv /\ [Next]_vars => FieldInv'
<1> SUFFICES ASSUME IInv, Listed, FieldInv, [Next]_vars PROVE FieldInv'
  OBVIOUS
<1>1. ASSUME NEW h \in Handlers, NEW u \in Users,
             TaskRequest(h, u) \/ PeopleRequest(h, u) \/ PropertyRequest(h, u)
      PROVE  FieldInv'
  BY <1>1, TaskRequestSuits, PeopleRequestSuits, PropertyRequestSuits
<1>2. ASSUME NEW h \in Handlers,
             \/ Upsert(h) \/ WriteRun(h) \/ Fail(h)
             \/ CheckMember(h) \/ Join(h) \/ Follow(h) \/ Leave(h) \/ Unfollow(h)
      PROVE  FieldInv'
  BY <1>2, UpsertSuits, WriteRunSuits, FailSuits, PeopleStepSuits
<1>3. ASSUME UNCHANGED <<row, values, hdl, missed>> PROVE FieldInv'
  BY <1>3 DEF FieldInv, HandlersSuit, RowSuits, Held, Mark, Pending
<1>4. ASSUME NEW u \in Users, LeaveTeam(u) PROVE FieldInv'
  BY <1>3, <1>4 DEF LeaveTeam
<1>5. CASE UNCHANGED vars
  BY <1>3, <1>5 DEF vars
<1>. QED BY <1>1, <1>2, <1>4, <1>5 DEF Next

LEMMA InitFieldInv == Init => FieldInv
<1> SUFFICES ASSUME Init PROVE FieldInv
  OBVIOUS
<1> DEFINE new == ResolveRoleAssignments
           items == ApplyConditionResults(new, values.select \in Shown)
<1>1. new \in Seq(Item)
  BY RolesResolved
<1>2. \A i \in DOMAIN Tasks : Tasks[i].type \in Types
  <2> DEFINE T == [type : Types, conditional : BOOLEAN]
  <2>1. \A i \in DOMAIN Tasks : Tasks[i] \in T
    BY LenProperties, ElementOfSeq
  <2>. QED BY <2>1
<1>3. Suits("user", new, values.user)
  BY <1>2 DEF Suits, Follows, ResolveRoleAssignments, ResolvedRole, Types,
              SpecificUser, OwnerRole, CreatorRole, PropertyUser
<1>. HIDE DEF new
<1>4. Suits("user", items, values.user) /\ Suits("select", items, values.select)
  BY <1>1, <1>3, ConditionSuits
<1>5. row.items = items
  BY DEF Init, items, new
<1>. HIDE DEF items
<1>6. \A f \in Fields : RowSuits(f)
  BY <1>4, <1>5 DEF Fields, RowSuits, Held
<1>7. \A f \in Fields : HandlersSuit(f)
  BY DEF Init, HandlersSuit
<1>. QED BY <1>6, <1>7 DEF FieldInv

LEMMA InitListed == Init => OwnerInv
BY DEF Init, OwnerInv, Listed, AllReady

LEMMA AlwaysFieldInv == Spec => []FieldInv
<1>1. OwnerInv => Listed
  BY DEF OwnerInv
<1>. QED BY <1>1, InitListed, NextReady, AlwaysIInv, InitFieldInv, NextSuits, PTL DEF Spec

LEMMA QuietSettled ==
    ASSUME FieldInv, Quiet, missed \cap Overtaken = {}, NEW f \in Fields, Mark(f) \notin missed
    PROVE  Suits(f, row.items, Held(f))
BY DEF FieldInv, Quiet, RowSuits, Pending

(* Between requests the tasks assigned through the user field have the     *)
(* user the field holds, unless a handler wrote what another had overtaken *)
(* or stored a value and failed to write the tasks; setting the same value *)
(* again puts that right.                                                  *)
THEOREM AssigneesAreHeld == Spec => []AssigneesFollowField
<1>1. ASSUME FieldInv PROVE AssigneesFollowField
  <2> SUFFICES ASSUME Quiet, missed \cap {"overwritten", "stale", "unassigned"} = {}
               PROVE  \A i \in DOMAIN row.items :
                        row.items[i].type = PropertyUser =>
                            row.items[i].assignee \in {values.user, None}
    BY DEF AssigneesFollowField
  <2>1. missed \cap Overtaken = {} /\ Mark("user") \notin missed /\ "user" \in Fields
    BY DEF Overtaken, Mark, Fields
  <2>2. Suits("user", row.items, values.user)
    BY <1>1, <2>1, QuietSettled DEF Held
  <2>. QED BY <2>2 DEF Suits, Follows
<1>. QED BY <1>1, AlwaysFieldInv, PTL

(* Between requests the conditional tasks are those the value of the       *)
(* select field calls for, with the same exceptions; here only setting     *)
(* another value repairs a write that failed.                              *)
THEOREM ConditionsHold == Spec => []ConditionsApplied
<1>1. ASSUME FieldInv PROVE ConditionsApplied
  <2> SUFFICES ASSUME Quiet, missed \cap {"overwritten", "stale", "unapplied"} = {}
               PROVE  \A i \in DOMAIN row.items :
                        row.items[i].conditional =>
                            IF values.select \in Shown THEN row.items[i].action = NoAction
                            ELSE /\ row.items[i].action # NoAction
                                 /\ row.items[i].action = "shown_because_modified"
                                        => row.items[i].modified
    BY Zenon DEF ConditionsApplied, NoAction
  <2>1. missed \cap Overtaken = {} /\ Mark("select") \notin missed /\ "select" \in Fields
    BY DEF Overtaken, Mark, Fields
  <2>2. Suits("select", row.items, values.select)
    BY <1>1, <2>1, QuietSettled DEF Held
  <2>. QED BY <2>2 DEF Suits, Applied
<1>. QED BY <1>1, AlwaysFieldInv, PTL
=============================================================================
