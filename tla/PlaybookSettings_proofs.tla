---------------------- MODULE PlaybookSettings_proofs ----------------------
(***************************************************************************)
(* That assignees stay invited, that edits that were stored stay, and that *)
(* the page shows what is stored, for any number of users and requests.    *)
(* The invariants add what is known of a request between its start, its    *)
(* validation and its statement: written onto what it has read it is       *)
(* valid, alone it has all edits, and the last one for a toggle brings     *)
(* what is shown.                                                          *)
(***************************************************************************)
EXTENDS PlaybookSettings, TLAPS

LEMMA MergedType ==
    ASSUME NEW d \in Playbook, NEW e \in Playbook, NEW columns
    PROVE  Merged(d, e, columns) \in Playbook
<1>1. \A c \in Columns : Merged(d, e, columns)[c] = d[c] \/ Merged(d, e, columns)[c] = e[c]
  BY DEF Merged
<1>2. /\ "checklists" \in Columns /\ "invited" \in Columns /\ "inviteOn" \in Columns
      /\ "linked" \in Columns /\ "autoArchive" \in Columns /\ "adminOnly" \in Columns
      /\ "ownerOnly" \in Columns /\ "newOnly" \in Columns
  BY DEF Columns, Settings, GraphQL
<1>3. Columns = {"checklists", "invited", "inviteOn", "linked",
                 "autoArchive", "adminOnly", "ownerOnly", "newOnly"}
  BY DEF Columns, Settings, GraphQL
<1> DEFINE m == Merged(d, e, columns)
<1>4. /\ m["checklists"] \in [edits : SUBSET Nat, assignees : SUBSET Users]
      /\ m["invited"] \in SUBSET Users /\ m["inviteOn"] \in BOOLEAN /\ m["linked"] \in BOOLEAN
      /\ m["autoArchive"] \in BOOLEAN /\ m["adminOnly"] \in BOOLEAN
      /\ m["ownerOnly"] \in BOOLEAN /\ m["newOnly"] \in BOOLEAN
  BY <1>1, <1>2 DEF Playbook
<1>5. m = [ checklists |-> m["checklists"], invited |-> m["invited"], inviteOn |-> m["inviteOn"],
            linked |-> m["linked"], autoArchive |-> m["autoArchive"], adminOnly |-> m["adminOnly"],
            ownerOnly |-> m["ownerOnly"], newOnly |-> m["newOnly"] ]
  BY <1>3 DEF Merged
<1> QED  BY <1>4, <1>5 DEF Playbook

LEMMA StartType ==
    ASSUME TypeOK, NEW for \in Settings \cup {"mutation"}, NEW STATE columns, columns \in SUBSET Columns,
           NEW STATE new, new \in Playbook, NEW STATE prev, prev \in BOOLEAN, NEW STATE forced, forced \in BOOLEAN,
           NEW step \in Steps, Start(for, columns, new, prev, forced, step)
    PROVE  requests' \subseteq Request
<1>1. \A r \in requests : [r EXCEPT !.alone = FALSE, !.raced = @ \/ r.for = for] \in Request
  BY DEF TypeOK, Request
<1>2. [ id |-> used.ops + 1, for |-> for, columns |-> columns, new |-> new,
        prev |-> prev, forced |-> forced, step |-> step, seen |-> new,
        raced |-> for # "mutation" /\ Rivals(for) # {},
        alone |-> Alone(columns) ] \in Request
  <2>1. (for # "mutation" /\ Rivals(for) # {}) \in BOOLEAN /\ Alone(columns) \in BOOLEAN
    BY DEF Alone
  <2>2. used.ops + 1 \in Nat
    BY DEF TypeOK
  <2> QED  BY <2>1, <2>2 DEF Request
<1> QED  BY <1>1, <1>2 DEF Start

LEMMA StepType ==
    ASSUME TypeOK, NEW r \in requests, NEW next \in Steps, Step(r, next)
    PROVE  requests' \subseteq Request
BY DEF TypeOK, Step, Request

LEMMA SettingType ==
    ASSUME NEW d \in Playbook, NEW s \in Settings, NEW value \in BOOLEAN
    PROVE  [d EXCEPT ![s] = value] \in Playbook
<1>1. CASE s = "autoArchive"  BY <1>1 DEF Playbook
<1>2. CASE s = "adminOnly"    BY <1>2 DEF Playbook
<1>3. CASE s = "ownerOnly"    BY <1>3 DEF Playbook
<1>4. CASE s = "newOnly"      BY <1>4 DEF Playbook
<1> QED  BY <1>1, <1>2, <1>3, <1>4 DEF Settings

LEMMA FilteredType ==
    ASSUME TypeOK, NEW r \in requests
    PROVE  Filtered(r) \in Playbook
BY DEF TypeOK, Request, Filtered, Playbook

LEMMA MutateType ==
    ASSUME TypeOK, NEW STATE columns, columns \in SUBSET Columns, NEW STATE new, new \in Playbook,
           Mutate(columns, new)
    PROVE  TypeOK'
<1>1. requests' \subseteq Request
  BY StartType DEF Mutate, Send, Steps
<1> QED  BY <1>1 DEF Mutate, Send, Spend, TypeOK

LEMMA ToggleType ==
    ASSUME TypeOK, NEW s \in Settings, NEW STATE value, value \in BOOLEAN, NEW STATE forced, forced \in BOOLEAN,
           ToggleFetched(s, value, forced)
    PROVE  TypeOK'
<1>1. [server EXCEPT ![s] = value] \in Playbook
  BY SettingType DEF TypeOK
<1>2. shown[s] \in BOOLEAN
  BY DEF TypeOK
<1>3. requests' \subseteq Request
  BY StartType, <1>1, <1>2 DEF ToggleFetched, Steps
<1> QED  BY <1>3 DEF ToggleFetched, Spend, Show, TypeOK

LEMMA NoMoreAloneType ==
    ASSUME TypeOK
    PROVE  NoMoreAlone(requests) \subseteq Request
<1>1. \A r \in requests : [r EXCEPT !.alone = FALSE] \in Request
  BY DEF TypeOK, Request
<1> QED  BY <1>1 DEF NoMoreAlone

LEMMA EndsType ==
    ASSUME TypeOK, NEW r \in requests, Ends(r)
    PROVE  /\ {server, apollo, restPlaybook}' \subseteq Playbook
           /\ shown' \in [Settings -> BOOLEAN] /\ latest' \in Nat
           /\ mode' \in [linked : BOOLEAN, check : BOOLEAN, due : BOOLEAN]
           /\ requests' \subseteq Request /\ team' \subseteq Users
           /\ written' \in [Subjects -> Nat]
BY DEF TypeOK, Ends, Rollback, Request

(* The variables have the values the code can give them. *)
THEOREM TypeCorrect == Spec => []TypeOK
<1>1. Init => TypeOK
  <2> SUFFICES ASSUME Init  PROVE TypeOK
    OBVIOUS
  <2>1. server \in Playbook
    BY DEF Init, Playbook
  <2>2. \A s \in Settings : server[s] \in BOOLEAN
    BY <2>1 DEF Playbook, Settings
  <2>3. shown \in [Settings -> BOOLEAN]
    BY <2>2 DEF Init
  <2>4. server.linked \in BOOLEAN
    BY <2>1 DEF Playbook
  <2>5. mode \in [linked : BOOLEAN, check : BOOLEAN, due : BOOLEAN]
    BY <2>4 DEF Init
  <2> QED  BY <2>1, <2>3, <2>5 DEF Init, TypeOK
<1>2. TypeOK /\ [Next]_vars => TypeOK'
  <2> SUFFICES ASSUME TypeOK, [Next]_vars  PROVE TypeOK'
    OBVIOUS
  <2>0. /\ server \in Playbook /\ apollo \in Playbook /\ restPlaybook \in Playbook
        /\ shown \in [Settings -> BOOLEAN] /\ requests \subseteq Request
    BY DEF TypeOK
  <2>1. ASSUME NEW assignees \in SUBSET Users, EditChecklists(assignees)  PROVE TypeOK'
    <3> DEFINE new == [apollo EXCEPT !.checklists = [ edits     |-> @.edits \cup {used.ops + used.trouble + 1},
                                                      assignees |-> assignees ],
                                     !.invited = @ \cup assignees,
                                     !.inviteOn = @ \/ assignees # {}]
               columns == {"checklists"}
                          \cup (IF new.invited # apollo.invited THEN {"invited"} ELSE {})
                          \cup (IF new.inviteOn # apollo.inviteOn THEN {"inviteOn"} ELSE {})
    <3>1. new \in Playbook
      <4>1. used.ops + used.trouble + 1 \in Nat
        BY DEF TypeOK
      <4>2. [edits |-> apollo.checklists.edits \cup {used.ops + used.trouble + 1}, assignees |-> assignees]
               \in [edits : SUBSET Nat, assignees : SUBSET Users]
        BY <2>0, <4>1 DEF Playbook
      <4>3. apollo.invited \cup assignees \in SUBSET Users
        BY <2>0 DEF Playbook
      <4>4. (apollo.inviteOn \/ assignees # {}) \in BOOLEAN
        OBVIOUS
      <4> QED  BY <2>0, <4>2, <4>3, <4>4 DEF Playbook
    <3>2. columns \in SUBSET Columns
      BY DEF Columns, GraphQL
    <3>3. Mutate(columns, new)
      BY <2>1 DEF EditChecklists
    <3> HIDE DEF new, columns
    <3> QED  BY <3>1, <3>2, <3>3, MutateType
  <2>2. ASSUME NEW u \in Users, HandleAddUserInvited(u)  PROVE TypeOK'
    <3>1. [apollo EXCEPT !.invited = @ \cup {u}] \in Playbook
      BY <2>0 DEF Playbook
    <3>2. {"invited"} \in SUBSET Columns
      BY DEF Columns, GraphQL
    <3> QED  BY <2>2, <3>1, <3>2, MutateType DEF HandleAddUserInvited
  <2>3. ASSUME NEW u \in Users, HandleRemoveUser(u)  PROVE TypeOK'
    <3>1. /\ [apollo EXCEPT !.checklists.assignees = @ \ {u}, !.invited = @ \ {u}] \in Playbook
          /\ [apollo EXCEPT !.invited = @ \ {u}] \in Playbook
      BY <2>0 DEF Playbook
    <3>2. {"checklists", "invited"} \in SUBSET Columns /\ {"invited"} \in SUBSET Columns
      BY DEF Columns, GraphQL
    <3> QED  BY <2>3, <3>1, <3>2, MutateType DEF HandleRemoveUser
  <2>4. CASE HandleToggle
    <3>1. /\ [apollo EXCEPT !.checklists.assignees = {}, !.inviteOn = FALSE] \in Playbook
          /\ [apollo EXCEPT !.inviteOn = ~@] \in Playbook
      BY <2>0 DEF Playbook
    <3>2. {"checklists", "inviteOn"} \in SUBSET Columns /\ {"inviteOn"} \in SUBSET Columns
      BY DEF Columns, GraphQL
    <3> QED  BY <2>4, <3>1, <3>2, MutateType DEF HandleToggle
  <2>5. CASE HandleChannelModeChange
    <3>1. mode' \in [linked : BOOLEAN, check : BOOLEAN, due : BOOLEAN]
      BY <2>5 DEF HandleChannelModeChange, TypeOK
    <3>2. used' \in [ops : Nat, trouble : Nat]
      BY <2>5 DEF HandleChannelModeChange, Spend, TypeOK
    <3> QED  BY <2>5, <3>1, <3>2 DEF HandleChannelModeChange, TypeOK
  <2>6. CASE HandleAutoArchiveChange
    BY <2>6, <2>0, ToggleType DEF HandleAutoArchiveChange, Settings
  <2>7. CASE ForcedLinkedReset
    BY <2>7, <2>0, ToggleType DEF ForcedLinkedReset, Settings, Playbook
  <2>8. CASE HandleAdminOnlyEditChange
    BY <2>8, <2>0, ToggleType DEF HandleAdminOnlyEditChange, Settings
  <2>9. CASE HandleOwnerGroupOnlyActionsChange
    BY <2>9, <2>0, ToggleType DEF HandleOwnerGroupOnlyActionsChange, Settings
  <2>10. CASE HandleNewChannelOnlyChange
    <3>1. [restPlaybook EXCEPT !.newOnly = ~shown.newOnly,
                               !.linked = @ /\ ~(~shown.newOnly)] \in Playbook
      BY <2>0 DEF Playbook, Settings
    <3>2. requests' \subseteq Request
      <4> DEFINE new == [restPlaybook EXCEPT !.newOnly = ~shown.newOnly,
                                             !.linked = @ /\ ~(~shown.newOnly)]
      <4>1. Start("newOnly", Columns, new, shown.newOnly, FALSE, "save")
        BY <2>10 DEF HandleNewChannelOnlyChange
      <4>2. shown.newOnly \in BOOLEAN /\ "newOnly" \in Settings \cup {"mutation"}
        BY <2>0 DEF Settings
      <4>3. new \in Playbook
        BY <3>1
      <4> HIDE DEF new
      <4> QED  BY <4>1, <4>2, <4>3, StartType DEF Steps
    <3>3. shown' \in [Settings -> BOOLEAN]
      BY <2>10, <2>0 DEF HandleNewChannelOnlyChange, Show
    <3>4. used' \in [ops : Nat, trouble : Nat]
      BY <2>10 DEF HandleNewChannelOnlyChange, Spend, TypeOK
    <3> QED  BY <2>10, <3>2, <3>3, <3>4 DEF HandleNewChannelOnlyChange, TypeOK
  <2>11. CASE SendChannelMode
    <3>1. mode.linked \in BOOLEAN /\ {"linked"} \in SUBSET Columns
      BY DEF TypeOK, Columns, GraphQL
    <3>2. [apollo EXCEPT !.linked = mode.linked] \in Playbook
      BY <2>0, <3>1 DEF Playbook
    <3>3. requests' \subseteq Request
      BY <2>11, <3>1, <3>2, StartType DEF SendChannelMode, Send, Steps
    <3> QED  BY <2>11, <3>3 DEF SendChannelMode, Send, TypeOK
  <2>12. ASSUME NEW r \in requests, Fetched(r)  PROVE TypeOK'
    <3>1. r \in Request
      BY <2>0
    <3>2. r.for \in Settings => [server EXCEPT ![r.for] = r.new[r.for]] \in Playbook
      <4>1. ASSUME r.for \in Settings  PROVE r.new[r.for] \in BOOLEAN
        BY <3>1, <4>1 DEF Request, Playbook, Settings
      <4> QED  BY <4>1, <2>0, SettingType
    <3>3. r.for \notin Settings => [server EXCEPT ![r.for] = r.new[r.for]] = server
      <4>1. r.for \notin Settings => r.for = "mutation"
        BY <3>1 DEF Request
      <4> QED  BY <4>1, <2>0 DEF Playbook
    <3>4. [server EXCEPT ![r.for] = r.new[r.for]] \in Playbook
      BY <3>2, <3>3, <2>0
    <3>5. [r EXCEPT !.new = [server EXCEPT ![r.for] = r.new[r.for]], !.step = "save"] \in Request
      BY <3>1, <3>4 DEF Request, Steps
    <3> QED  BY <2>12, <3>5 DEF Fetched, TypeOK
  <2>13. ASSUME NEW r \in requests, Accept(r)  PROVE TypeOK'
    <3>1. [r EXCEPT !.new = Filtered(r), !.seen = server, !.step = "write"] \in Request
      BY <2>0, FilteredType DEF Request, Steps
    <3> QED  BY <2>13, <3>1 DEF Accept, TypeOK
  <2>14. ASSUME NEW r \in requests, Write(r)  PROVE TypeOK'
    <3>1. Merged(server, r.new, r.columns) \in Playbook
      BY <2>0, MergedType DEF Request
    <3>2. requests' \subseteq Request
      BY <2>14, StepType DEF Write, Steps
    <3>3. written' \in [Subjects -> Nat]
      BY <2>14 DEF Write, TypeOK, Request
    <3> QED  BY <2>14, <3>1, <3>2, <3>3 DEF Write, TypeOK
  <2>15. ASSUME NEW r \in requests, Answer(r)  PROVE TypeOK'
    <3>1. server.linked \in BOOLEAN
      BY <2>0 DEF Playbook
    <3> QED  BY <2>15, <3>1 DEF Answer, TypeOK
  <2>16. ASSUME NEW r \in requests, Refuse(r)  PROVE TypeOK'
    BY <2>16, EndsType DEF Refuse, TypeOK
  <2>17. ASSUME NEW r \in requests, Fail(r)  PROVE TypeOK'
    BY <2>17, EndsType DEF Fail, Spend, TypeOK
  <2>18. CASE OtherEdit
    <3>1. server' \in Playbook
      <4>1. [server EXCEPT !.checklists.edits = @ \cup {used.ops + used.trouble + 1}] \in Playbook
        BY <2>0 DEF Playbook, TypeOK
      <4>2. \A s \in {"autoArchive", "adminOnly"} : [server EXCEPT ![s] = ~@] \in Playbook
        BY <2>0 DEF Playbook
      <4> QED  BY <2>18, <4>1, <4>2 DEF OtherEdit
    <3>2. requests' \subseteq Request
      BY <2>18, NoMoreAloneType DEF OtherEdit
    <3> QED  BY <2>18, <3>1, <3>2 DEF OtherEdit, Spend, TypeOK
  <2>19. ASSUME NEW u \in Users, LeaveTeam(u)  PROVE TypeOK'
    <3>1. requests' \subseteq Request
      BY <2>19, NoMoreAloneType DEF LeaveTeam
    <3> QED  BY <2>19, <3>1 DEF LeaveTeam, Spend, TypeOK
  <2>20. CASE UNCHANGED vars
    BY <2>20 DEF vars, TypeOK
  <2> QED  BY <2>1, <2>2, <2>3, <2>4, <2>5, <2>6, <2>7, <2>8, <2>9, <2>10, <2>11, <2>12, <2>13,
              <2>14, <2>15, <2>16, <2>17, <2>18, <2>19, <2>20 DEF Next
<1> QED  BY <1>1, <1>2, PTL DEF Spec

-----------------------------------------------------------------------------
(* Validity of what is stored. *)

(* Toggles write everything. *)
WritesAll(r) == r.for # "mutation" => r.columns = Columns

(* A request that has been validated is valid by itself when it writes     *)
(* everything, and onto what it has read when it is a mutation.            *)
Checked(r) ==
    r.step = "write" =>
        IF r.for = "mutation"
        THEN r.columns \cap Related # {} => ValidatePreAssignment(Merged(r.seen, r.new, r.columns))
        ELSE ValidatePreAssignment(r.new)

Excused == why \cap {"crossed", "filtered"} # {}

(* The inductive invariant. *)
Invited ==
    /\ \A r \in requests : WritesAll(r)
    /\ ~Excused => ValidatePreAssignment(server) /\ \A r \in requests : Checked(r)

(* Reasons are never forgotten. *)
LEMMA Remembered ==
    ASSUME Excused, why \subseteq why'
    PROVE  Excused'
BY DEF Excused

(* Validation looks at three columns. *)
LEMMA SameRelated ==
    ASSUME NEW d, NEW e, \A c \in Related : d[c] = e[c]
    PROVE  ValidatePreAssignment(d) <=> ValidatePreAssignment(e)
BY DEF ValidatePreAssignment, Related

LEMMA MergedColumn ==
    ASSUME NEW d, NEW e, NEW columns, NEW c \in Columns
    PROVE  Merged(d, e, columns)[c] = IF c \in columns THEN e[c] ELSE d[c]
BY DEF Merged

LEMMA RelatedColumns == Related \subseteq Columns
BY DEF Related, Columns, GraphQL

(* A step that changes neither what is stored nor what a validated request *)
(* holds keeps the invariant.                                              *)
LEMMA QuietStep ==
    ASSUME Invited, TypeOK, why \subseteq why',
           ~Excused' => (ValidatePreAssignment(server) => ValidatePreAssignment(server')),
           \A q \in requests' :
               \/ q.step # "write" /\ WritesAll(q)
               \/ \E r \in requests : /\ q.step = r.step /\ q.for = r.for /\ q.columns = r.columns
                                      /\ q.new = r.new /\ q.seen = r.seen
    PROVE  Invited'
<1>1. \A q \in requests' : WritesAll(q)
  BY DEF Invited, WritesAll
<1>2. ASSUME ~Excused'  PROVE ~Excused
  BY <1>2, Remembered
<1>3. ASSUME ~Excused', NEW q \in requests'  PROVE Checked(q)
  BY <1>2, <1>3 DEF Invited, Checked
<1>4. ~Excused' => ValidatePreAssignment(server')
  BY <1>2 DEF Invited
<1>5. ValidatePreAssignment(server)' <=> ValidatePreAssignment(server')
  BY DEF ValidatePreAssignment
<1> QED  BY <1>1, <1>3, <1>4, <1>5 DEF Invited, Checked, WritesAll

LEMMA StartKeeps ==
    ASSUME Invited, TypeOK, NEW for, NEW STATE columns, NEW STATE new, NEW STATE prev,
           NEW STATE forced, NEW step, Start(for, columns, new, prev, forced, step),
           step # "write", for # "mutation" => columns = Columns, UNCHANGED <<server, why>>
    PROVE  Invited'
<1>1. ASSUME NEW q \in requests'
      PROVE  \/ q.step = step /\ q.for = for /\ q.columns = columns
             \/ \E r \in requests : /\ q.step = r.step /\ q.for = r.for /\ q.columns = r.columns
                                    /\ q.new = r.new /\ q.seen = r.seen
  <2>1. \A r \in requests :
           LET x == [r EXCEPT !.alone = FALSE, !.raced = @ \/ r.for = for]
           IN  /\ x.step = r.step /\ x.for = r.for /\ x.columns = r.columns
               /\ x.new = r.new /\ x.seen = r.seen
    <3> SUFFICES ASSUME NEW r \in requests, NEW raced, NEW alone
                 PROVE  LET x == [r EXCEPT !.alone = alone, !.raced = raced]
                        IN  /\ x.step = r.step /\ x.for = r.for /\ x.columns = r.columns
                            /\ x.new = r.new /\ x.seen = r.seen
      OBVIOUS
    <3>1. r \in Request
      BY DEF TypeOK
    <3> QED  BY <3>1 DEF Request
  <2> DEFINE X(r) == [r EXCEPT !.alone = FALSE, !.raced = @ \/ r.for = for]
             r0 == [ id |-> used.ops + 1, for |-> for, columns |-> columns, new |-> new,
                     prev |-> prev, forced |-> forced, step |-> step, seen |-> new,
                     raced |-> for # "mutation" /\ Rivals(for) # {},
                     alone |-> Alone(columns) ]
  <2>2. requests' = {r0} \cup {X(r) : r \in requests}
    BY DEF Start
  <2>3. r0.step = step /\ r0.for = for /\ r0.columns = columns
    OBVIOUS
  <2> HIDE DEF X, r0
  <2>4. CASE q = r0
    BY <2>3, <2>4
  <2>5. CASE q # r0
    <3>1. PICK r \in requests : q = X(r)
      BY <2>2, <2>5, <1>1
    <3> QED  BY <2>1, <3>1 DEF X
  <2> QED  BY <2>4, <2>5
<1> QED  BY <1>1, QuietStep DEF WritesAll

LEMMA EndsKeeps ==
    ASSUME Invited, TypeOK, NEW r \in requests, Ends(r)
    PROVE  Invited'
BY QuietStep DEF Ends, Invited

(* A validated request stores what keeps assignees invited, unless others  *)
(* changed what it was validated against.                                  *)
LEMMA WriteKeeps ==
    ASSUME Invited, TypeOK, NEW r \in requests, Write(r)
    PROVE  Invited'
<1>1. r \in Request /\ server \in Playbook
  BY DEF TypeOK
<1>2. why \subseteq why'
  BY DEF Write
<1>3. ASSUME ~Excused'  PROVE ValidatePreAssignment(server')
  <2>1. ~Excused /\ Checked(r) /\ ValidatePreAssignment(server) /\ WritesAll(r) /\ r.step = "write"
    BY <1>2, <1>3, Remembered DEF Invited, Write
  <2>2. server' = Merged(server, r.new, r.columns)
    BY DEF Write
  <2>3. CASE r.for # "mutation"
    <3>1. \A c \in Related : server'[c] = r.new[c]
      BY <2>1, <2>2, <2>3, MergedColumn, RelatedColumns DEF WritesAll
    <3> QED  BY <2>1, <2>3, <3>1, SameRelated DEF Checked
  <2>4. CASE r.for = "mutation"
    <3>1. \A c \in Related : r.seen[c] = server[c]
      BY <2>4, <1>3 DEF Write, Spoils, Excused
    <3>2. \A c \in Related : server'[c] = Merged(r.seen, r.new, r.columns)[c]
      BY <2>2, <3>1, MergedColumn, RelatedColumns
    <3>3. CASE r.columns \cap Related # {}
      BY <2>1, <2>4, <3>2, <3>3, SameRelated DEF Checked
    <3>4. CASE r.columns \cap Related = {}
      <4>1. \A c \in Related : server'[c] = server[c]
        BY <2>2, <3>4, MergedColumn, RelatedColumns
      <4> QED  BY <2>1, <4>1, SameRelated
    <3> QED  BY <3>3, <3>4
  <2> QED  BY <2>3, <2>4
<1>4. \A q \in requests' :
          \/ q.step # "write" /\ WritesAll(q)
          \/ \E x \in requests : /\ q.step = x.step /\ q.for = x.for /\ q.columns = x.columns
                                 /\ q.new = x.new /\ q.seen = x.seen
  BY <1>1 DEF Write, Step, Invited, WritesAll, Request
<1> QED  BY <1>2, <1>3, <1>4, QuietStep

(* Validation establishes what the statement needs.  A mutation that named *)
(* a user who has left is excused.                                         *)
LEMMA AcceptKeeps ==
    ASSUME Invited, TypeOK, NEW r \in requests, Accept(r)
    PROVE  Invited'
<1> DEFINE s == [r EXCEPT !.new = Filtered(r), !.seen = server, !.step = "write"]
<1>1. r \in Request /\ server \in Playbook
  BY DEF TypeOK
<1>2. /\ s.new = Filtered(r) /\ s.seen = server /\ s.for = r.for /\ s.columns = r.columns
      /\ requests' = (requests \ {r}) \cup {s} /\ server' = server /\ why \subseteq why'
  BY <1>1 DEF Accept, Request
<1>3. WritesAll(s)
  BY <1>2 DEF Invited, WritesAll
<1>4. ASSUME ~Excused'  PROVE Checked(s)
  <2>1. Valid(r.columns, Validated(r))
    BY DEF Accept
  <2>2. CASE r.for = "mutation"
    <3>1. r.new = Filtered(r)
      BY <1>4, <2>2 DEF Accept, Excused
    <3>2. Validated(r) = Merged(s.seen, s.new, s.columns)
      BY <1>2, <2>2, <3>1 DEF Validated
    <3> HIDE DEF s
    <3> QED  BY <2>1, <2>2, <1>2, <3>2 DEF Checked, Valid, Related
  <2>3. CASE r.for # "mutation"
    <3>1. r.columns = Columns
      BY <2>3 DEF Invited, WritesAll
    <3>2. \A c \in Related : Validated(r)[c] = Filtered(r)[c]
      BY <2>3, <3>1, MergedColumn, RelatedColumns DEF Validated
    <3>3. ValidatePreAssignment(Validated(r))
      BY <2>1, <3>1, RelatedColumns DEF Valid, Related
    <3> HIDE DEF s
    <3> QED  BY <2>3, <1>2, <3>2, <3>3, SameRelated DEF Checked
  <2> QED  BY <2>2, <2>3
<1>5. ~Excused' => ~Excused
  BY <1>2, Remembered
<1> HIDE DEF s
<1> QED  BY <1>2, <1>3, <1>4, <1>5 DEF Invited, WritesAll, Checked, ValidatePreAssignment

(* Assignees are invited in the database, whatever requests cross, unless  *)
(* two mutations cross or one named a user outside the team.               *)
THEOREM AssigneesStayInvited == Spec => []AssigneesAreInvited
<1>1. Init => Invited
  BY DEF Init, Invited, ValidatePreAssignment
<1>2. Invited /\ TypeOK /\ [Next]_vars => Invited'
  <2> SUFFICES ASSUME Invited, TypeOK, [Next]_vars  PROVE Invited'
    OBVIOUS
  <2>1. ASSUME NEW STATE columns, NEW STATE new, Send(columns, new)
        PROVE  Invited'
    BY <2>1, StartKeeps DEF Send
  <2>2. ASSUME NEW assignees \in SUBSET Users, EditChecklists(assignees)  PROVE Invited'
    BY <2>2, <2>1 DEF EditChecklists, Mutate
  <2>3. ASSUME NEW u \in Users, HandleAddUserInvited(u) \/ HandleRemoveUser(u)  PROVE Invited'
    BY <2>3, <2>1 DEF HandleAddUserInvited, HandleRemoveUser, Mutate
  <2>4. CASE HandleToggle \/ SendChannelMode
    BY <2>4, <2>1 DEF HandleToggle, SendChannelMode, Mutate
  <2>5. ASSUME NEW s, NEW STATE value, NEW STATE forced, ToggleFetched(s, value, forced)
        PROVE  Invited'
    BY <2>5, StartKeeps DEF ToggleFetched
  <2>6. CASE \/ HandleAutoArchiveChange \/ ForcedLinkedReset
             \/ HandleAdminOnlyEditChange \/ HandleOwnerGroupOnlyActionsChange
    BY <2>6, <2>5 DEF HandleAutoArchiveChange, ForcedLinkedReset, HandleAdminOnlyEditChange,
                      HandleOwnerGroupOnlyActionsChange
  <2>7. CASE HandleNewChannelOnlyChange
    BY <2>7, StartKeeps DEF HandleNewChannelOnlyChange
  <2>8. ASSUME NEW r \in requests, Fetched(r)  PROVE Invited'
    <3> DEFINE y == [r EXCEPT !.new = [server EXCEPT ![r.for] = r.new[r.for]], !.step = "save"]
    <3>1. requests' = (requests \ {r}) \cup {y}
      BY <2>8 DEF Fetched
    <3>2. y.step = "save" /\ y.for = r.for /\ y.columns = r.columns
      BY DEF TypeOK, Request
    <3>3. WritesAll(y)
      BY <3>2 DEF Invited, WritesAll
    <3> HIDE DEF y
    <3> QED  BY <2>8, <3>1, <3>2, <3>3, QuietStep DEF Fetched
  <2>9. ASSUME NEW r \in requests, Accept(r)  PROVE Invited'
    BY <2>9, AcceptKeeps
  <2>10. ASSUME NEW r \in requests, Write(r)  PROVE Invited'
    BY <2>10, WriteKeeps
  <2>11. ASSUME NEW r \in requests, Answer(r)  PROVE Invited'
    BY <2>11, QuietStep DEF Answer
  <2>12. ASSUME NEW r \in requests, Refuse(r) \/ Fail(r)  PROVE Invited'
    BY <2>12, EndsKeeps DEF Refuse, Fail
  <2>13. ASSUME NoMoreAlone(requests) = requests', why \subseteq why',
                ValidatePreAssignment(server) => ValidatePreAssignment(server')
         PROVE  Invited'
    BY <2>13, QuietStep DEF NoMoreAlone, TypeOK, Request
  <2>14. CASE OtherEdit
    <3>1. \A c \in {"invited", "inviteOn"} : server'[c] = server[c]
      BY <2>14 DEF OtherEdit, TypeOK, Playbook
    <3>2. server'.checklists.assignees = server.checklists.assignees
      BY <2>14 DEF OtherEdit, TypeOK, Playbook
    <3> QED  BY <2>14, <2>13, <3>1, <3>2 DEF OtherEdit, ValidatePreAssignment
  <2>15. ASSUME NEW u \in Users, LeaveTeam(u)  PROVE Invited'
    BY <2>15, <2>13 DEF LeaveTeam
  <2>16. CASE HandleChannelModeChange
    BY <2>16, QuietStep DEF HandleChannelModeChange, Invited
  <2>17. CASE UNCHANGED vars
    BY <2>17 DEF vars, Invited, Excused, Checked, WritesAll, ValidatePreAssignment
  <2> QED  BY <2>2, <2>3, <2>4, <2>6, <2>7, <2>8, <2>9, <2>10, <2>11, <2>12, <2>14, <2>15, <2>16, <2>17 DEF Next
<1>3. Invited => AssigneesAreInvited
  BY DEF Invited, AssigneesAreInvited, Excused
<1> QED  BY <1>1, <1>2, <1>3, TypeCorrect, PTL DEF Spec
-----------------------------------------------------------------------------
(* Edits that were stored. *)

(* A request that has the page and the server for itself is the only one,  *)
(* and has all the edits there are until it is written.                    *)
AloneKeeps ==
    \A r \in requests : r.alone =>
        /\ requests = {r}
        /\ r.for # "newOnly" /\ r.step # "answer" /\ "checklists" \in r.columns =>
              server.checklists.edits \subseteq r.new.checklists.edits

(* A request started on an up-to-date page has them when its playbook does *)
(* on the condition that what the page has is what is stored.              *)
LEMMA StartAlone ==
    ASSUME TypeOK, NEW for, NEW STATE columns, NEW STATE new, NEW STATE prev,
           NEW STATE forced, NEW step, Start(for, columns, new, prev, forced, step),
           UNCHANGED server, columns \in SUBSET Columns,
           for # "newOnly" /\ "checklists" \in columns /\ apollo.checklists = server.checklists =>
              server.checklists.edits \subseteq new.checklists.edits
    PROVE  AloneKeeps'
<1> DEFINE X(r) == [r EXCEPT !.alone = FALSE, !.raced = @ \/ r.for = for]
           r0 == [ id |-> used.ops + 1, for |-> for, columns |-> columns, new |-> new,
                   prev |-> prev, forced |-> forced, step |-> step, seen |-> new,
                   raced |-> for # "mutation" /\ Rivals(for) # {},
                   alone |-> Alone(columns) ]
<1>1. requests' = {r0} \cup {X(r) : r \in requests}
  BY DEF Start
<1>2. ASSUME NEW r \in requests  PROVE ~X(r).alone
  <2>1. r \in Request
    BY DEF TypeOK
  <2>2. PICK raced : raced = (r.raced \/ r.for = for)
    OBVIOUS
  <2>3. X(r) = [r EXCEPT !.alone = FALSE, !.raced = raced]
    BY <2>2
  <2> HIDE DEF X
  <2> QED  BY <2>1, <2>3 DEF Request
<1>3. /\ r0.alone => Alone(columns)
      /\ r0.for = for /\ r0.columns = columns /\ r0.new = new
  OBVIOUS
<1> HIDE DEF X, r0
<1> SUFFICES ASSUME NEW q \in requests', q.alone
             PROVE  /\ requests' = {q}
                    /\ q.for # "newOnly" /\ q.step # "answer" /\ "checklists" \in q.columns =>
                          server.checklists.edits \subseteq q.new.checklists.edits
  BY DEF AloneKeeps
<1>4. q = r0
  BY <1>1, <1>2
<1>5. requests = {} /\ apollo.checklists = server.checklists
  BY <1>3, <1>4 DEF Alone, UpToDate, GraphQL
<1> QED  BY <1>1, <1>3, <1>4, <1>5

LEMMA MutateAlone ==
    ASSUME TypeOK, NEW STATE columns, NEW STATE new, Send(columns, new),
           columns \in SUBSET Columns,
           "checklists" \in columns => apollo.checklists.edits \subseteq new.checklists.edits
    PROVE  AloneKeeps'
BY StartAlone DEF Send

LEMMA ToggleAlone ==
    ASSUME TypeOK, NEW s \in Settings, NEW STATE value, NEW STATE forced,
           ToggleFetched(s, value, forced)
    PROVE  AloneKeeps'
<1>1. [server EXCEPT ![s] = value].checklists = server.checklists
  BY DEF TypeOK, Playbook, Settings
<1> QED  BY <1>1, StartAlone DEF ToggleFetched

(* What happens to a request leaves no other when it is alone.             *)
LEMMA ReplacedAlone ==
    ASSUME AloneKeeps, NEW r \in requests, NEW q, requests' = (requests \ {r}) \cup {q},
           q.alone = r.alone, q.for = r.for, q.columns = r.columns,
           r.alone /\ q.for # "newOnly" /\ q.step # "answer" /\ "checklists" \in q.columns =>
              server'.checklists.edits \subseteq q.new.checklists.edits
    PROVE  AloneKeeps'
<1> SUFFICES ASSUME NEW x \in requests', x.alone
             PROVE  /\ requests' = {x}
                    /\ x.for # "newOnly" /\ x.step # "answer" /\ "checklists" \in x.columns =>
                          server'.checklists.edits \subseteq x.new.checklists.edits
  BY DEF AloneKeeps
<1>1. x = q \/ (x \in requests /\ x # r)
  OBVIOUS
<1>2. x # q => FALSE
  BY <1>1 DEF AloneKeeps
<1>3. requests = {r}
  BY <1>2 DEF AloneKeeps
<1> QED  BY <1>2, <1>3

LEMMA FewerAlone ==
    ASSUME AloneKeeps, requests' \subseteq requests, UNCHANGED server
    PROVE  AloneKeeps'
BY DEF AloneKeeps

LEMMA NoneAlone ==
    ASSUME TypeOK, requests' = NoMoreAlone(requests)
    PROVE  AloneKeeps'
<1>1. \A r \in requests : ~[r EXCEPT !.alone = FALSE].alone
  BY DEF TypeOK, Request
<1> QED  BY <1>1 DEF NoMoreAlone, AloneKeeps

(* The statement of a request that is alone keeps the edits.               *)
LEMMA WriteAlone ==
    ASSUME AloneKeeps, TypeOK, NEW r \in requests, Write(r)
    PROVE  /\ AloneKeeps'
           /\ r.alone /\ r.for # "newOnly" =>
                 server.checklists.edits \subseteq server'.checklists.edits
<1>1. r \in Request /\ r.step = "write" /\ server' = Merged(server, r.new, r.columns)
  BY DEF TypeOK, Write
<1>2. server'.checklists = IF "checklists" \in r.columns THEN r.new.checklists ELSE server.checklists
  BY <1>1, MergedColumn DEF Columns, GraphQL
<1>3. r.alone /\ r.for # "newOnly" =>
         server.checklists.edits \subseteq server'.checklists.edits
  BY <1>1, <1>2 DEF AloneKeeps
<1> DEFINE q == [r EXCEPT !.step = "answer"]
<1>4. /\ requests' = (requests \ {r}) \cup {q}
      /\ q.alone = r.alone /\ q.for = r.for /\ q.columns = r.columns /\ q.step = "answer"
  BY <1>1 DEF Write, Step, Request
<1> HIDE DEF q
<1> QED  BY <1>3, <1>4, ReplacedAlone

LEMMA AloneStep ==
    ASSUME AloneKeeps, TypeOK, [Next]_vars
    PROVE  AloneKeeps'
<1>1. ASSUME NEW assignees \in SUBSET Users, EditChecklists(assignees)  PROVE AloneKeeps'
  <2> DEFINE new == [apollo EXCEPT !.checklists = [ edits     |-> @.edits \cup {used.ops + used.trouble + 1},
                                                    assignees |-> assignees ],
                                   !.invited = @ \cup assignees,
                                   !.inviteOn = @ \/ assignees # {}]
             columns == {"checklists"}
                        \cup (IF new.invited # apollo.invited THEN {"invited"} ELSE {})
                        \cup (IF new.inviteOn # apollo.inviteOn THEN {"inviteOn"} ELSE {})
  <2>1. apollo.checklists.edits \subseteq new.checklists.edits
    <3>1. PICK on : on = (apollo.inviteOn \/ assignees # {})
      OBVIOUS
    <3>2. new = [apollo EXCEPT !.checklists = [ edits     |-> apollo.checklists.edits \cup {used.ops + used.trouble + 1},
                                                assignees |-> assignees ],
                               !.invited = apollo.invited \cup assignees,
                               !.inviteOn = on]
      BY <3>1
    <3> HIDE DEF new
    <3> QED  BY <3>2 DEF TypeOK, Playbook
  <2>2. columns \in SUBSET Columns
    BY DEF Columns, GraphQL
  <2>3. Send(columns, new)
    BY <1>1 DEF EditChecklists, Mutate
  <2> HIDE DEF new, columns
  <2> QED  BY <2>1, <2>2, <2>3, MutateAlone
<1>2. ASSUME NEW u \in Users, HandleAddUserInvited(u)  PROVE AloneKeeps'
  BY <1>2, MutateAlone DEF HandleAddUserInvited, Mutate, Columns, GraphQL
<1>3. ASSUME NEW u \in Users, HandleRemoveUser(u)  PROVE AloneKeeps'
  <2>1. [apollo EXCEPT !.checklists.assignees = @ \ {u}, !.invited = @ \ {u}].checklists.edits
           = apollo.checklists.edits
    BY DEF TypeOK, Playbook
  <2>2. {"invited"} \in SUBSET Columns /\ {"checklists", "invited"} \in SUBSET Columns
    BY DEF Columns, GraphQL
  <2> QED  BY <1>3, <2>1, <2>2, MutateAlone DEF HandleRemoveUser, Mutate
<1>4. CASE HandleToggle
  <2>1. [apollo EXCEPT !.checklists.assignees = {}, !.inviteOn = FALSE].checklists.edits
           = apollo.checklists.edits
    BY DEF TypeOK, Playbook
  <2>2. {"inviteOn"} \in SUBSET Columns /\ {"checklists", "inviteOn"} \in SUBSET Columns
    BY DEF Columns, GraphQL
  <2> QED  BY <1>4, <2>1, <2>2, MutateAlone DEF HandleToggle, Mutate
<1>5. CASE SendChannelMode
  BY <1>5, MutateAlone DEF SendChannelMode, Columns, GraphQL
<1>6. CASE \/ HandleAutoArchiveChange \/ ForcedLinkedReset
           \/ HandleAdminOnlyEditChange \/ HandleOwnerGroupOnlyActionsChange
  BY <1>6, ToggleAlone DEF HandleAutoArchiveChange, ForcedLinkedReset,
        HandleAdminOnlyEditChange, HandleOwnerGroupOnlyActionsChange, Settings
<1>7. CASE HandleNewChannelOnlyChange
  BY <1>7, StartAlone DEF HandleNewChannelOnlyChange
<1>8. ASSUME NEW r \in requests, Fetched(r)  PROVE AloneKeeps'
  <2> DEFINE d == [server EXCEPT ![r.for] = r.new[r.for]]
             q == [r EXCEPT !.new = d, !.step = "save"]
  <2>1. r \in Request /\ server \in Playbook
    BY DEF TypeOK
  <2>2. d.checklists = server.checklists
    BY <2>1 DEF Request, Settings, Playbook
  <2>3. q.alone = r.alone /\ q.for = r.for /\ q.columns = r.columns /\ q.new = d
    BY <2>1 DEF Request
  <2>4. requests' = (requests \ {r}) \cup {q} /\ server' = server
    BY <1>8 DEF Fetched
  <2> HIDE DEF d, q
  <2> QED  BY <2>2, <2>3, <2>4, ReplacedAlone
<1>9. ASSUME NEW r \in requests, Accept(r)  PROVE AloneKeeps'
  <2> DEFINE q == [r EXCEPT !.new = Filtered(r), !.seen = server, !.step = "write"]
  <2>1. r \in Request
    BY DEF TypeOK
  <2>2. Filtered(r).checklists = r.new.checklists
    BY <2>1 DEF Filtered, Request, Playbook
  <2>3. q.alone = r.alone /\ q.for = r.for /\ q.columns = r.columns /\ q.new = Filtered(r)
    BY <2>1 DEF Request
  <2>4. requests' = (requests \ {r}) \cup {q} /\ server' = server /\ r.step = "save"
    BY <1>9 DEF Accept
  <2>5. r.alone /\ r.for # "newOnly" /\ "checklists" \in r.columns =>
           server.checklists.edits \subseteq r.new.checklists.edits
    BY <2>4 DEF AloneKeeps
  <2> HIDE DEF q
  <2> QED  BY <2>2, <2>3, <2>4, <2>5, ReplacedAlone
<1>10. ASSUME NEW r \in requests, Write(r)  PROVE AloneKeeps'
  BY <1>10, WriteAlone
<1>11. ASSUME NEW r \in requests, Answer(r) \/ Refuse(r) \/ Fail(r)  PROVE AloneKeeps'
  BY <1>11, FewerAlone DEF Answer, Refuse, Fail, Ends
<1>12. CASE OtherEdit \/ \E u \in Users : LeaveTeam(u)
  BY <1>12, NoneAlone DEF OtherEdit, LeaveTeam
<1>13. CASE HandleChannelModeChange \/ UNCHANGED vars
  BY <1>13, FewerAlone DEF HandleChannelModeChange, vars
<1> QED  BY <1>1, <1>2, <1>3, <1>4, <1>5, <1>6, <1>7, <1>8, <1>9, <1>10, <1>11, <1>12, <1>13 DEF Next

(* Edits of others are added; what else changes the database is a write.   *)
LEMMA OnlyWritesDrop ==
    ASSUME AloneKeeps, TypeOK, [Next]_vars
    PROVE  ~(server.checklists.edits \subseteq server'.checklists.edits)
              => \E r \in requests : Write(r) /\ (r.for = "newOnly" \/ ~r.alone)
<1>1. ASSUME NEW r \in requests, Write(r)
      PROVE  r.alone /\ r.for # "newOnly" =>
                server.checklists.edits \subseteq server'.checklists.edits
  BY <1>1, WriteAlone
<1>2. CASE OtherEdit
  <2>1. server' = [server EXCEPT !.checklists.edits = @ \cup {used.ops + used.trouble + 1}]
           => server.checklists.edits \subseteq server'.checklists.edits
    BY DEF TypeOK, Playbook
  <2>2. \A s \in {"autoArchive", "adminOnly"} :
           server' = [server EXCEPT ![s] = ~@] => server'.checklists = server.checklists
    BY DEF TypeOK, Playbook
  <2> QED  BY <1>2, <2>1, <2>2 DEF OtherEdit
<1>3. CASE \/ \E assignees \in SUBSET Users : EditChecklists(assignees)
           \/ \E u \in Users : HandleAddUserInvited(u) \/ HandleRemoveUser(u) \/ LeaveTeam(u)
           \/ HandleToggle \/ HandleChannelModeChange \/ SendChannelMode
  BY <1>3 DEF EditChecklists, HandleAddUserInvited, HandleRemoveUser, LeaveTeam, HandleToggle,
              HandleChannelModeChange, SendChannelMode, Mutate, Send
<1>4. CASE \/ HandleAutoArchiveChange \/ ForcedLinkedReset \/ HandleAdminOnlyEditChange
           \/ HandleOwnerGroupOnlyActionsChange \/ HandleNewChannelOnlyChange
  BY <1>4 DEF HandleAutoArchiveChange, ForcedLinkedReset, HandleAdminOnlyEditChange,
              HandleOwnerGroupOnlyActionsChange, HandleNewChannelOnlyChange, ToggleFetched
<1>5. CASE \E r \in requests : Fetched(r) \/ Accept(r) \/ Answer(r) \/ Refuse(r) \/ Fail(r)
  BY <1>5 DEF Fetched, Accept, Answer, Refuse, Fail, Ends
<1>6. CASE UNCHANGED vars
  BY <1>6 DEF vars
<1> QED  BY <1>1, <1>2, <1>3, <1>4, <1>5, <1>6 DEF Next

(* An edit that was stored stays, whatever requests, failures and edits of *)
(* others come between, unless a request that was not alone writes, or the *)
(* new-channel-only toggle (outline.tsx, updatePlaybook with the playbook  *)
(* of the day the page was opened).                                        *)
THEOREM StoredEditsStay == Spec => EditsSurvive
<1>1. Init => AloneKeeps
  BY DEF Init, AloneKeeps
<1>2. AloneKeeps /\ TypeOK /\ [Next]_vars => AloneKeeps'
  BY AloneStep
<1>3. AloneKeeps /\ TypeOK /\ [Next]_vars =>
         [~(server.checklists.edits \subseteq server'.checklists.edits)
           => \E r \in requests : Write(r) /\ (r.for = "newOnly" \/ ~r.alone)]_vars
  BY OnlyWritesDrop
<1>4. Spec => []AloneKeeps
  BY <1>1, <1>2, TypeCorrect, PTL DEF Spec
<1> QED  BY <1>3, <1>4, TypeCorrect, PTL DEF Spec, EditsSurvive

-----------------------------------------------------------------------------
(* What is shown. *)

Clean == why \cap {"overwrote", "reordered", "failed", "forced", "unlinked",
                   "answerLost", "others"} = {}

(* Toggles write everything; mutations do not fetch before, and the channel*)
(* mode is sent alone.                                                     *)
Shape(r) ==
    /\ r.for # "mutation" => r.columns = Columns
    /\ r.for = "mutation" => /\ r.step # "fetch"
                             /\ r.columns \subseteq GraphQL
                             /\ "linked" \in r.columns => r.columns = {"linked"}

(* The last number given to a request for s.                               *)
Given(s) == IF s = "linked" /\ ~mode.due THEN used.ops + 1 ELSE used.ops

Numbered ==
    /\ \A r \in requests : Subject(r) \in Subjects => r.id <= Given(Subject(r))
    /\ \A s \in Subjects : written[s] <= Given(s)
    /\ \A q, r \in requests :
          Subject(q) = Subject(r) /\ Subject(r) \in Subjects /\ q.id = r.id => q = r

(* Two toggles can be under way twice; a request that had no rival is the  *)
(* only one of its toggle.                                                 *)
Races ==
    \A r \in requests : r.for # "mutation" =>
        /\ r.raced => r.for \in {"autoArchive", "adminOnly"}
        /\ ~r.raced => /\ \A q \in requests : q.for = r.for => q = r
                       /\ r.for = "adminOnly" => r.id = latest

Orderly ==
    /\ \A r \in requests : Shape(r)
    /\ Numbered /\ Races
    /\ mode.linked # mode.check => mode.due

Unwritten(s) == {r \in requests : Subject(r) = s /\ r.step # "answer"}

(* v is what s will be in the database: a request is on its way that is    *)
(* the last one, or it is there and what is on its way came too late.      *)
ToBeStored(s, v) ==
    \/ \E last \in Unwritten(s) :
          /\ last.new[s] = v /\ written[s] < last.id
          /\ s = "adminOnly" => last.id = latest
          /\ \A r \in Unwritten(s) : r.id <= last.id
    \/ server[s] = v /\ \A r \in Unwritten(s) : r.id < written[s]

(* The mode sent last, or that of the page's copy, is shown or there is a  *)
(* click to be sent; the copy is behind only until an answer.              *)
ModeFollows ==
    /\ \E v \in BOOLEAN : /\ ToBeStored("linked", v)
                          /\ mode.due \/ mode.check \in {v, apollo.linked}
    /\ apollo.linked # server.linked =>
          \E r \in requests : Subject(r) = "linked" /\ r.step = "answer"

(* A toggle without rivals goes back to what is stored.                    *)
GoesBack ==
    \A r \in requests : r.for # "mutation" /\ ~r.raced /\ r.step # "answer" => r.prev = server[r.for]

Settled == Clean => ModeFollows /\ GoesBack /\ \A s \in Settings : ToBeStored(s, shown[s])

ShownInv == Orderly /\ Settled

LEMMA SubjectOf ==
    ASSUME NEW r \in Request, Shape(r)
    PROVE  /\ \A s \in Settings : Subject(r) = s <=> r.for = s
           /\ Subject(r) = "linked" <=> r.columns = {"linked"}
           /\ r.columns = {"linked"} => r.for = "mutation"
           /\ "linked" \in r.columns /\ r.for = "mutation" => Subject(r) = "linked"
           /\ Subject(r) \in Subjects \cup {"mutation"}
<1>1. Columns # {"linked"} /\ "linked" \notin Settings /\ "mutation" \notin Settings
      /\ "autoArchive" \in Columns
  BY DEF Columns, Settings, GraphQL
<1>2. r.for \in Settings \cup {"mutation"}
  BY DEF Request
<1>3. r.columns = {"linked"} => r.for = "mutation"
  BY <1>1, <1>2 DEF Shape
<1> QED  BY <1>1, <1>2, <1>3 DEF Shape, Subject, Subjects

LEMMA CleanBefore ==
    ASSUME Clean', why \subseteq why'
    PROVE  Clean
BY DEF Clean

(* Requests go on, or away, and keep what they are for.                    *)
LEMMA OrderlyMapped ==
    ASSUME Orderly, TypeOK, NEW f, requests' \subseteq {f[r] : r \in requests},
           \A r \in requests : /\ f[r].id = r.id /\ f[r].for = r.for
                               /\ f[r].columns = r.columns /\ f[r].raced = r.raced
                               /\ f[r].step = "fetch" => r.step = "fetch",
           used'.ops = used.ops, mode'.due = mode.due, latest' = latest,
           mode'.linked # mode'.check => mode'.due,
           \A s \in Subjects : written'[s] <= Given(s)
    PROVE  Orderly'
<1>1. ASSUME NEW q \in requests'
      PROVE  \E r \in requests : /\ q = f[r] /\ q.id = r.id /\ q.for = r.for
                                 /\ q.columns = r.columns /\ q.raced = r.raced
                                 /\ q.step = "fetch" => r.step = "fetch"
                                 /\ Subject(q) = Subject(r)
  BY DEF Subject
<1>2. \A s : Given(s)' = Given(s)
  BY DEF Given
<1>3. \A q \in requests' : Shape(q)
  BY <1>1 DEF Orderly, Shape
<1>4. Numbered'
  <2>1. ASSUME NEW q \in requests', Subject(q) \in Subjects  PROVE q.id <= Given(Subject(q))
    BY <1>1, <2>1 DEF Orderly, Numbered
  <2>2. ASSUME NEW q \in requests', NEW p \in requests',
               Subject(q) = Subject(p), Subject(p) \in Subjects, q.id = p.id
        PROVE  q = p
    <3>1. PICK r \in requests : q = f[r] /\ q.id = r.id /\ Subject(q) = Subject(r)
      BY <1>1
    <3>2. PICK x \in requests : p = f[x] /\ p.id = x.id /\ Subject(p) = Subject(x)
      BY <1>1
    <3>3. r = x
      BY <2>2, <3>1, <3>2 DEF Orderly, Numbered
    <3> QED  BY <3>1, <3>2, <3>3
  <2>3. \A s \in Subjects : written'[s] <= Given(s)
    OBVIOUS
  <2> HIDE DEF Orderly
  <2> QED  BY <1>2, <2>1, <2>2, <2>3 DEF Numbered, Subject
<1>5. Races'
  <2> SUFFICES ASSUME NEW q \in requests', q.for # "mutation"
               PROVE  /\ q.raced => q.for \in {"autoArchive", "adminOnly"}
                      /\ ~q.raced => /\ \A p \in requests' : p.for = q.for => p = q
                                     /\ q.for = "adminOnly" => q.id = latest
    BY DEF Races
  <2>1. PICK r \in requests : q = f[r] /\ q.id = r.id /\ q.for = r.for /\ q.raced = r.raced
    BY <1>1
  <2>2. ASSUME ~q.raced, NEW p \in requests', p.for = q.for  PROVE p = q
    <3>1. PICK x \in requests : p = f[x] /\ p.for = x.for
      BY <1>1
    <3>2. x = r
      BY <2>1, <2>2, <3>1 DEF Orderly, Races
    <3> QED  BY <2>1, <3>1, <3>2
  <2> QED  BY <2>1, <2>2 DEF Orderly, Races
<1> QED  BY <1>3, <1>4, <1>5 DEF Orderly, Shape

(* What will be stored for s does not change where requests for s go on.   *)
LEMMA StillToBeStored ==
    ASSUME NEW s, NEW v, ToBeStored(s, v),
           server'[s] = server[s], written'[s] = written[s], s = "adminOnly" => latest' = latest,
           \A q \in Unwritten(s)' : \E r \in Unwritten(s) : q.id = r.id,
           \A r \in Unwritten(s) :
              \/ s = "adminOnly" /\ r.id # latest
              \/ \E q \in Unwritten(s)' : q.id = r.id /\ q.new[s] = r.new[s]
    PROVE  ToBeStored(s, v)'
<1>1. CASE server[s] = v /\ \A r \in Unwritten(s) : r.id < written[s]
  <2>1. \A q \in Unwritten(s)' : q.id < written'[s]
    BY <1>1
  <2> QED  BY <1>1, <2>1 DEF ToBeStored
<1>2. ASSUME NEW last \in Unwritten(s), last.new[s] = v, written[s] < last.id,
             s = "adminOnly" => last.id = latest,
             \A r \in Unwritten(s) : r.id <= last.id
      PROVE  ToBeStored(s, v)'
  <2>1. PICK q \in Unwritten(s)' : q.id = last.id /\ q.new[s] = last.new[s]
    BY <1>2
  <2>2. \A x \in Unwritten(s)' : x.id <= q.id
    BY <1>2, <2>1
  <2>3. q.new[s] = v /\ written'[s] < q.id /\ (s = "adminOnly" => q.id = latest')
    BY <1>2, <2>1
  <2> QED  BY <2>2, <2>3 DEF ToBeStored
<1> QED  BY <1>1, <1>2 DEF ToBeStored

(* A request goes on and is not written.                                   *)
LEMMA CarriedStored ==
    ASSUME ShownInv, TypeOK, NEW f, requests' = {f[r] : r \in requests},
           \A r \in requests :
              /\ f[r].id = r.id /\ f[r].for = r.for /\ f[r].columns = r.columns
              /\ f[r].raced = r.raced /\ f[r].prev = r.prev
              /\ f[r].step = "answer" <=> r.step = "answer"
              /\ f[r].step = "fetch" => r.step = "fetch"
              /\ Subject(r) \in Subjects => f[r].new[Subject(r)] = r.new[Subject(r)],
           UNCHANGED <<server, apollo, shown, mode, latest, written>>, used'.ops = used.ops,
           why \subseteq why'
    PROVE  ShownInv'
<1>1. Orderly'
  BY OrderlyMapped DEF ShownInv, Orderly, Numbered
<1>2. ASSUME Clean'  PROVE (ModeFollows /\ GoesBack /\ \A s \in Settings : ToBeStored(s, shown[s]))'
  <2>1. ModeFollows /\ GoesBack /\ \A s \in Settings : ToBeStored(s, shown[s])
    BY <1>2, CleanBefore DEF ShownInv, Settled
  <2>2. \A r \in requests : f[r] \in requests' /\ Subject(f[r]) = Subject(r)
    BY DEF Subject
  <2>3. \A q \in requests' : \E r \in requests : q = f[r]
    OBVIOUS
  <2>4. ASSUME NEW s \in Subjects, NEW v, ToBeStored(s, v)  PROVE ToBeStored(s, v)'
    <3>1. \A q \in Unwritten(s)' : \E r \in Unwritten(s) : q.id = r.id
      BY <2>2, <2>3 DEF Unwritten, Subject
    <3>2. \A r \in Unwritten(s) : \E q \in Unwritten(s)' : q.id = r.id /\ q.new[s] = r.new[s]
      BY <2>2, <2>4 DEF Unwritten, Subject
    <3> QED  BY <2>4, <3>1, <3>2, StillToBeStored
  <2>5. ModeFollows'
    <3>1. PICK v \in BOOLEAN : ToBeStored("linked", v) /\ (mode.due \/ mode.check \in {v, apollo.linked})
      BY <2>1 DEF ModeFollows
    <3>2. ToBeStored("linked", v)'
      BY <2>4, <3>1 DEF Subjects
    <3>3. apollo.linked # server.linked =>
              \E q \in requests' : Subject(q) = "linked" /\ q.step = "answer"
      BY <2>1, <2>2 DEF ModeFollows
    <3> QED  BY <3>1, <3>2, <3>3 DEF ModeFollows, Subject
  <2>6. GoesBack'
    BY <2>1, <2>3 DEF GoesBack
  <2>7. \A s \in Settings : ToBeStored(s, shown[s])'
    BY <2>1, <2>4 DEF Subjects
  <2> QED  BY <2>5, <2>6, <2>7
<1> QED  BY <1>1, <1>2 DEF ShownInv, Settled

(* A new request: r0; the others have its toggle as a rival.               *)
Added(r0, for) ==
    requests' = {r0} \cup {[r EXCEPT !.alone = FALSE, !.raced = @ \/ r.for = for] : r \in requests}

LEMMA StartAdds ==
    ASSUME NEW for, NEW STATE columns, NEW STATE new, NEW STATE prev,
           NEW STATE forced, NEW step, Start(for, columns, new, prev, forced, step)
    PROVE  \E r0 : /\ Added(r0, for) /\ r0.id = used.ops + 1 /\ r0.for = for
                   /\ r0.columns = columns /\ r0.new = new /\ r0.prev = prev /\ r0.step = step
                   /\ ~r0.raced => for = "mutation" \/ Rivals(for) = {}
                   /\ r0.raced => for # "mutation" /\ Rivals(for) # {}
<1> DEFINE r0 == [ id |-> used.ops + 1, for |-> for, columns |-> columns, new |-> new,
                   prev |-> prev, forced |-> forced, step |-> step, seen |-> new,
                   raced |-> for # "mutation" /\ Rivals(for) # {},
                   alone |-> Alone(columns) ]
<1>1. Added(r0, for)
  BY DEF Start, Added
<1>2. /\ r0.id = used.ops + 1 /\ r0.for = for /\ r0.columns = columns /\ r0.new = new
      /\ r0.prev = prev /\ r0.step = step
  OBVIOUS
<1>3. r0.raced <=> (for # "mutation" /\ Rivals(for) # {})
  BY Zenon
<1> HIDE DEF r0
<1> QED  BY <1>1, <1>2, <1>3

LEMMA AddedRequests ==
    ASSUME TypeOK, NEW r0, NEW for, Added(r0, for)
    PROVE  \E f : /\ requests' = {r0} \cup {f[r] : r \in requests}
                  /\ \A r \in requests :
                        /\ f[r].id = r.id /\ f[r].for = r.for /\ f[r].columns = r.columns
                        /\ f[r].new = r.new /\ f[r].prev = r.prev /\ f[r].step = r.step
                        /\ Subject(f[r]) = Subject(r)
                        /\ f[r].raced <=> (r.raced \/ r.for = for)
<1> DEFINE X(r) == [r EXCEPT !.alone = FALSE, !.raced = @ \/ r.for = for]
           f == [r \in requests |-> X(r)]
<1>1. ASSUME NEW r \in requests
      PROVE  /\ X(r).id = r.id /\ X(r).for = r.for /\ X(r).columns = r.columns
             /\ X(r).new = r.new /\ X(r).prev = r.prev /\ X(r).step = r.step
             /\ Subject(X(r)) = Subject(r)
             /\ X(r).raced <=> (r.raced \/ r.for = for)
  <2>1. r \in Request
    BY DEF TypeOK
  <2>2. PICK raced : raced = (r.raced \/ r.for = for)
    OBVIOUS
  <2>3. X(r) = [r EXCEPT !.alone = FALSE, !.raced = raced]
    BY <2>2
  <2> HIDE DEF X
  <2>4. /\ X(r).id = r.id /\ X(r).for = r.for /\ X(r).columns = r.columns
        /\ X(r).new = r.new /\ X(r).prev = r.prev /\ X(r).step = r.step
        /\ X(r).raced = raced
    BY <2>1, <2>3 DEF Request
  <2> QED  BY <2>2, <2>4, Zenon DEF Subject
<1>2. requests' = {r0} \cup {X(r) : r \in requests}
  BY DEF Added
<1> HIDE DEF X
<1>3. \A r \in requests : f[r] = X(r)
  OBVIOUS
<1>4. requests' = {r0} \cup {f[r] : r \in requests}
  BY <1>2, <1>3
<1> HIDE DEF f
<1>5. \A r \in requests :
         /\ f[r].id = r.id /\ f[r].for = r.for /\ f[r].columns = r.columns
         /\ f[r].new = r.new /\ f[r].prev = r.prev /\ f[r].step = r.step
         /\ Subject(f[r]) = Subject(r)
         /\ f[r].raced <=> (r.raced \/ r.for = for)
  BY <1>1, <1>3
<1> QED  BY <1>4, <1>5

(* A new request has the highest number for what it sets.                  *)
LEMMA StartOrderly ==
    ASSUME Orderly, TypeOK, NEW r0, NEW for, Added(r0, for), r0.for = for, Shape(r0),
           r0.id = used.ops + 1,
           ~r0.raced => for = "mutation" \/ Rivals(for) = {},
           for # "mutation" /\ Rivals(for) # {} => for \in {"autoArchive", "adminOnly"},
           r0.raced => for # "mutation" /\ Rivals(for) # {},
           IF for = "adminOnly" THEN latest' = used.ops + 1 ELSE latest' = latest,
           used'.ops \in Nat, \A s \in Subjects : Given(s)' >= Given(s),
           Subject(r0) \in Subjects =>
              used.ops + 1 <= Given(Subject(r0))' /\ Given(Subject(r0)) < used.ops + 1,
           UNCHANGED written, mode'.linked # mode'.check => mode'.due
    PROVE  Orderly'
<1>0. /\ \A r \in requests : r.id \in Nat
      /\ written \in [Subjects -> Nat] /\ used.ops \in Nat /\ r0.id \in Nat
      /\ \A s : Given(s) \in Nat /\ Given(s)' \in Nat
  BY DEF TypeOK, Request, Given
<1>1. PICK f : /\ requests' = {r0} \cup {f[r] : r \in requests}
               /\ \A r \in requests :
                     /\ f[r].id = r.id /\ f[r].for = r.for /\ f[r].columns = r.columns
                     /\ f[r].new = r.new /\ f[r].prev = r.prev /\ f[r].step = r.step
                     /\ Subject(f[r]) = Subject(r)
                     /\ f[r].raced <=> (r.raced \/ r.for = for)
  BY AddedRequests
<1>2. \A q \in requests' : q = r0 \/ \E r \in requests : q = f[r]
  BY <1>1
<1>3. \A q \in requests' : Shape(q)
  BY <1>1, <1>2 DEF Orderly, Shape
<1>4. Numbered'
  <2>1. ASSUME NEW q \in requests', Subject(q) \in Subjects  PROVE q.id <= Given(Subject(q))'
    <3>1. CASE q = r0
      BY <2>1, <3>1
    <3>2. ASSUME NEW r \in requests, q = f[r]  PROVE q.id <= Given(Subject(q))'
      <4>1. r.id <= Given(Subject(r)) /\ q.id = r.id /\ Subject(q) = Subject(r)
        BY <1>1, <2>1, <3>2 DEF Orderly, Numbered
      <4>2. Given(Subject(q))' >= Given(Subject(q))
        BY <2>1
      <4> HIDE DEF Orderly
      <4> QED  BY <4>1, <4>2, <1>0
    <3> QED  BY <1>2, <3>1, <3>2
  <2>2. ASSUME NEW q \in requests', NEW p \in requests',
               Subject(q) = Subject(p), Subject(p) \in Subjects, q.id = p.id
        PROVE  q = p
    <3>1. ASSUME NEW x \in requests, Subject(x) = Subject(r0), Subject(r0) \in Subjects
          PROVE  x.id # r0.id
      <4>1. x.id <= Given(Subject(r0)) /\ Given(Subject(r0)) < r0.id
        BY <3>1 DEF Orderly, Numbered
      <4> QED  BY <4>1, <1>0
    <3>2. ASSUME NEW x \in requests, NEW y \in requests, q = f[x], p = f[y]  PROVE x = y
      BY <1>1, <2>2, <3>2 DEF Orderly, Numbered
    <3>3. CASE q = r0 /\ p # r0
      BY <1>1, <1>2, <2>2, <3>1, <3>3
    <3>4. CASE q # r0 /\ p = r0
      BY <1>1, <1>2, <2>2, <3>1, <3>4
    <3>5. CASE q # r0 /\ p # r0
      BY <1>2, <3>2, <3>5
    <3> QED  BY <3>3, <3>4, <3>5
  <2>3. \A s \in Subjects : written'[s] <= Given(s)'
    <3> TAKE s \in Subjects
    <3>1. written[s] <= Given(s) /\ Given(s) <= Given(s)' /\ written[s] \in Nat
      BY <1>0 DEF Orderly, Numbered
    <3> QED  BY <3>1, <1>0
  <2> HIDE DEF Orderly
  <2> QED  BY <2>1, <2>2, <2>3 DEF Numbered, Subject
<1>5. Races'
  <2> SUFFICES ASSUME NEW q \in requests', q.for # "mutation"
               PROVE  /\ q.raced => q.for \in {"autoArchive", "adminOnly"}
                      /\ ~q.raced => /\ \A p \in requests' : p.for = q.for => p = q
                                     /\ q.for = "adminOnly" => q.id = latest'
    BY DEF Races
  <2>1. CASE q = r0
    <3>1. ~q.raced => \A x \in requests : x.for # for
      BY <2>1 DEF Rivals
    <3>2. ~q.raced => \A p \in requests' : p.for = q.for => p = q
      BY <1>1, <1>2, <2>1, <3>1
    <3> QED  BY <2>1, <3>2
  <2>2. ASSUME NEW r \in requests, q = f[r]
        PROVE  /\ q.raced => q.for \in {"autoArchive", "adminOnly"}
               /\ ~q.raced => /\ \A p \in requests' : p.for = q.for => p = q
                              /\ q.for = "adminOnly" => q.id = latest'
    <3>1. q.for = r.for /\ q.id = r.id /\ (q.raced <=> (r.raced \/ r.for = for))
      BY <1>1, <2>2
    <3>2. r.for = for => for \in {"autoArchive", "adminOnly"}
      BY <3>1 DEF Rivals
    <3>3. ASSUME ~q.raced, NEW p \in requests', p.for = q.for  PROVE p = q
      <4>1. p # r0
        BY <3>1, <3>3
      <4>2. PICK x \in requests : p = f[x] /\ p.for = x.for
        BY <1>1, <1>2, <4>1
      <4>3. x = r
        BY <3>1, <3>3, <4>2 DEF Orderly, Races
      <4> QED  BY <2>2, <4>2, <4>3
    <3> QED  BY <3>1, <3>2, <3>3 DEF Orderly, Races
  <2> QED  BY <1>2, <2>1, <2>2
<1> QED  BY <1>3, <1>4, <1>5 DEF Orderly, Shape

(* What is shown will be stored when the new request is.                   *)
LEMMA StartSettled ==
    ASSUME ShownInv, TypeOK, NEW r0, NEW for, Added(r0, for), r0.for = for, Shape(r0),
           r0 \in Request, r0.id = used.ops + 1, r0.step # "answer",
           ~r0.raced => for = "mutation" \/ Rivals(for) = {},
           IF for = "adminOnly" THEN latest' = used.ops + 1 ELSE latest' = latest,
           Subject(r0) \in Subjects => Given(Subject(r0)) < used.ops + 1,
           for # "mutation" => r0.prev = shown[for],
           shown' = IF for = "mutation" THEN shown ELSE [shown EXCEPT ![for] = r0.new[for]],
           IF Subject(r0) = "linked" THEN mode'.check = r0.new.linked ELSE mode' = mode,
           UNCHANGED <<server, apollo, written, why>>
    PROVE  Settled'
<1> SUFFICES ASSUME Clean'
             PROVE  (ModeFollows /\ GoesBack /\ \A s \in Settings : ToBeStored(s, shown[s]))'
  BY DEF Settled
<1>0. /\ \A r \in requests : r.id \in Nat /\ r \in Request
      /\ written \in [Subjects -> Nat] /\ used.ops \in Nat /\ r0.id \in Nat
      /\ \A s : Given(s) \in Nat
  BY DEF TypeOK, Request, Given
<1>1. PICK f : /\ requests' = {r0} \cup {f[r] : r \in requests}
               /\ \A r \in requests :
                     /\ f[r].id = r.id /\ f[r].for = r.for /\ f[r].columns = r.columns
                     /\ f[r].new = r.new /\ f[r].prev = r.prev /\ f[r].step = r.step
                     /\ Subject(f[r]) = Subject(r)
                     /\ f[r].raced <=> (r.raced \/ r.for = for)
  BY AddedRequests
<1>2. \A q \in requests' : q = r0 \/ \E r \in requests : q = f[r]
  BY <1>1
<1>3. \A r \in requests : f[r] \in requests'
  BY <1>1
<1>4. ModeFollows /\ GoesBack /\ \A s \in Settings : ToBeStored(s, shown[s])
  BY CleanBefore DEF ShownInv, Settled
<1>5. /\ \A s \in Settings : Subject(r0) = s <=> for = s
      /\ Subject(r0) = "linked" => for = "mutation"
      /\ for \in Settings \cup {"mutation"}
  BY SubjectOf DEF Request
<1>6. ASSUME NEW s \in Subjects, s # Subject(r0), NEW v, ToBeStored(s, v)
      PROVE  ToBeStored(s, v)'
  <2>1. \A q \in Unwritten(s)' : \E r \in Unwritten(s) : q.id = r.id
    <3> TAKE q \in Unwritten(s)'
    <3>1. q \in requests' /\ Subject(q) = s /\ q.step # "answer"
      BY DEF Unwritten, Subject
    <3>2. PICK r \in requests : q = f[r]
      BY <1>2, <1>6, <3>1
    <3> QED  BY <1>1, <3>1, <3>2 DEF Unwritten
  <2>2. \A r \in Unwritten(s) : \E q \in Unwritten(s)' : q.id = r.id /\ q.new[s] = r.new[s]
    <3> TAKE r \in Unwritten(s)
    <3>1. r \in requests /\ Subject(r) = s /\ r.step # "answer"
      BY DEF Unwritten
    <3>2. f[r] \in requests' /\ Subject(f[r]) = s /\ f[r].step # "answer"
      BY <1>1, <1>3, <3>1
    <3>3. f[r] \in Unwritten(s)'
      BY <3>2 DEF Unwritten, Subject
    <3> QED  BY <1>1, <3>1, <3>3
  <2>3. s = "adminOnly" => latest' = latest
    BY <1>5, <1>6 DEF Settings
  <2> QED  BY <1>6, <2>1, <2>2, <2>3, StillToBeStored
<1>7. ASSUME NEW s \in Subjects, s = Subject(r0)  PROVE ToBeStored(s, r0.new[s])'
  <2>1. r0 \in Unwritten(s)'
    BY <1>1, <1>7 DEF Unwritten, Subject
  <2>2. \A q \in Unwritten(s)' : q.id <= r0.id
    <3> TAKE q \in Unwritten(s)'
    <3>1. q \in requests' /\ Subject(q) = s
      BY DEF Unwritten, Subject
    <3>2. ASSUME NEW r \in requests, q = f[r]  PROVE q.id <= r0.id
      <4>1. q.id = r.id /\ r.id <= Given(s)
        BY <1>1, <1>7, <3>1, <3>2 DEF ShownInv, Orderly, Numbered
      <4> QED  BY <4>1, <1>0, <1>7
    <3> QED  BY <1>0, <1>2, <3>1, <3>2
  <2>3. written'[s] < r0.id
    <3>1. written[s] <= Given(s) /\ written[s] \in Nat /\ Given(s) < r0.id
      BY <1>0, <1>7 DEF ShownInv, Orderly, Numbered
    <3> QED  BY <3>1, <1>0
  <2>4. s = "adminOnly" => r0.id = latest'
    BY <1>5, <1>7 DEF Settings
  <2> QED  BY <2>1, <2>2, <2>3, <2>4 DEF ToBeStored
<1>8. \A s \in Settings : ToBeStored(s, shown[s])'
  <2> TAKE s \in Settings
  <2>1. s \in Subjects /\ s # "mutation"
    BY DEF Subjects, Settings
  <2>2. CASE s = for
    <3>1. shown'[s] = r0.new[s]
      BY <2>1, <2>2 DEF TypeOK
    <3> QED  BY <1>5, <1>7, <2>1, <2>2, <3>1
  <2>3. CASE s # for
    <3>1. shown'[s] = shown[s]
      BY <2>3 DEF TypeOK
    <3> QED  BY <1>4, <1>5, <1>6, <2>1, <2>3, <3>1
  <2> QED  BY <2>2, <2>3
<1>9. GoesBack'
  <2> SUFFICES ASSUME NEW q \in requests', q.for # "mutation", ~q.raced, q.step # "answer"
               PROVE  q.prev = server[q.for]
    BY DEF GoesBack
  <2>1. CASE q = r0
    <3>1. for \in Settings /\ Rivals(for) = {}
      BY <1>5, <2>1
    <3>2. Unwritten(for) = {}
      BY <1>0, <3>1, SubjectOf DEF Unwritten, Rivals, ShownInv, Orderly
    <3>3. server[for] = shown[for]
      BY <1>4, <3>1, <3>2 DEF ToBeStored
    <3> QED  BY <2>1, <3>3
  <2>2. ASSUME NEW r \in requests, q = f[r]  PROVE q.prev = server[q.for]
    BY <1>1, <1>4, <2>2 DEF GoesBack
  <2> QED  BY <1>2, <2>1, <2>2
<1>10. ModeFollows'
  <2>1. apollo.linked # server.linked =>
            \E q \in requests' : Subject(q) = "linked" /\ q.step = "answer"
    BY <1>1, <1>3, <1>4 DEF ModeFollows
  <2>2. CASE Subject(r0) = "linked"
    <3>1. ToBeStored("linked", r0.new["linked"])'
      BY <1>7, <2>2 DEF Subjects
    <3>2. r0.new.linked \in BOOLEAN
      BY DEF Request, Playbook
    <3> QED  BY <2>1, <2>2, <3>1, <3>2 DEF ModeFollows, Subject
  <2>3. CASE Subject(r0) # "linked"
    <3>1. PICK v \in BOOLEAN : ToBeStored("linked", v) /\ (mode.due \/ mode.check \in {v, apollo.linked})
      BY <1>4 DEF ModeFollows
    <3>2. ToBeStored("linked", v)'
      BY <1>6, <2>3, <3>1 DEF Subjects
    <3> QED  BY <2>1, <2>3, <3>1, <3>2 DEF ModeFollows, Subject
  <2> QED  BY <2>2, <2>3
<1> QED  BY <1>8, <1>9, <1>10

LEMMA StartShown ==
    ASSUME ShownInv, TypeOK, TypeOK', NEW for, NEW STATE columns, NEW STATE new, NEW STATE prev,
           NEW STATE forced, NEW step, Start(for, columns, new, prev, forced, step),
           for # "mutation" => columns = Columns,
           for = "mutation" => /\ step # "fetch"
                               /\ columns \subseteq GraphQL
                               /\ "linked" \in columns => columns = {"linked"},
           step # "answer",
           for # "mutation" /\ Rivals(for) # {} => for \in {"autoArchive", "adminOnly"},
           IF for = "adminOnly" THEN latest' = used.ops + 1 ELSE latest' = latest,
           for # "mutation" => prev = shown[for],
           shown' = IF for = "mutation" THEN shown ELSE [shown EXCEPT ![for] = new[for]],
           IF columns = {"linked"}
           THEN mode.due /\ ~mode'.due /\ mode'.linked = mode'.check /\ mode'.check = new.linked /\ used' = used
           ELSE mode' = mode /\ used'.ops = used.ops + 1,
           UNCHANGED <<server, apollo, written, why>>
    PROVE  ShownInv'
<1>1. PICK r0 : /\ Added(r0, for) /\ r0.id = used.ops + 1 /\ r0.for = for
                /\ r0.columns = columns /\ r0.new = new /\ r0.prev = prev /\ r0.step = step
                /\ ~r0.raced => for = "mutation" \/ Rivals(for) = {}
                /\ r0.raced => for # "mutation" /\ Rivals(for) # {}
  BY StartAdds
<1>2. r0 \in Request /\ Shape(r0)
  BY <1>1 DEF TypeOK, Added, Shape
<1>3. /\ Subject(r0) = "linked" <=> columns = {"linked"}
      /\ Subject(r0) \in Subjects => Subject(r0) = "linked" \/ Subject(r0) = for
  BY <1>1, <1>2, SubjectOf DEF Subject
<1>4. used.ops \in Nat /\ used'.ops \in Nat
  BY DEF TypeOK
<1>5. \A s \in Subjects : Given(s)' >= Given(s)
  BY <1>4 DEF Given
<1>6. Subject(r0) \in Subjects =>
         used.ops + 1 <= Given(Subject(r0))' /\ Given(Subject(r0)) < used.ops + 1
  <2>1. CASE columns = {"linked"}
    <3>1. Given("linked") = used.ops /\ Given("linked")' = used.ops + 1
      BY <2>1 DEF Given
    <3> QED  BY <1>3, <1>4, <2>1, <3>1
  <2>2. CASE columns # {"linked"}
    <3>1. \A s : s # "linked" => Given(s) = used.ops /\ Given(s)' = used.ops + 1
      BY <2>2 DEF Given
    <3> QED  BY <1>3, <1>4, <2>2, <3>1
  <2> QED  BY <2>1, <2>2
<1>7. mode'.linked # mode'.check => mode'.due
  BY DEF ShownInv, Orderly
<1>8. Orderly'
  BY <1>1, <1>2, <1>4, <1>5, <1>6, <1>7, StartOrderly DEF ShownInv
<1>9. Settled'
  BY <1>1, <1>2, <1>3, <1>6, StartSettled
<1> QED  BY <1>8, <1>9 DEF ShownInv

LEMMA MutateShown ==
    ASSUME ShownInv, TypeOK, TypeOK', NEW STATE columns, NEW STATE new, Mutate(columns, new),
           columns \subseteq {"checklists", "invited", "inviteOn"}
    PROVE  ShownInv'
<1>1. columns \subseteq GraphQL /\ "linked" \notin columns /\ columns # {"linked"}
  BY DEF GraphQL
<1>2. used'.ops = used.ops + 1
  BY DEF Mutate, Spend, TypeOK
<1>3. Start("mutation", columns, new, FALSE, FALSE, "save")
  BY DEF Mutate, Send
<1>4. UNCHANGED <<server, apollo, shown, latest, written, why, mode>>
  BY DEF Mutate, Send
<1> QED  BY <1>1, <1>2, <1>3, <1>4, StartShown

LEMMA ToggleShown ==
    ASSUME ShownInv, TypeOK, TypeOK', NEW s \in Settings, NEW STATE value, NEW STATE forced,
           ToggleFetched(s, value, forced),
           Rivals(s) # {} => s \in {"autoArchive", "adminOnly"}
    PROVE  ShownInv'
<1>1. /\ s # "mutation" /\ Columns # {"linked"} /\ s \in Columns
  BY DEF Settings, Columns, GraphQL
<1>2. used'.ops = used.ops + 1
  BY DEF ToggleFetched, Spend, TypeOK
<1>3. Start(s, Columns, [server EXCEPT ![s] = value], shown[s], forced, "fetch")
  BY DEF ToggleFetched
<1>4. [server EXCEPT ![s] = value][s] = value
  BY DEF TypeOK, Playbook, Settings
<1>5. /\ UNCHANGED <<server, apollo, written, why, mode>>
      /\ shown' = [shown EXCEPT ![s] = value]
      /\ latest' = IF s = "adminOnly" THEN used.ops + 1 ELSE latest
  BY DEF ToggleFetched, Show
<1> HIDE DEF ToggleFetched
<1> QED  BY <1>1, <1>2, <1>3, <1>4, <1>5, StartShown

LEMMA NewOnlyShown ==
    ASSUME ShownInv, TypeOK, TypeOK', HandleNewChannelOnlyChange
    PROVE  ShownInv'
<1> DEFINE value == ~shown.newOnly
           new == [restPlaybook EXCEPT !.newOnly = value, !.linked = @ /\ ~value]
<1>1. /\ "newOnly" # "mutation" /\ Columns # {"linked"}
  BY DEF Settings, Columns, GraphQL
<1>2. used'.ops = used.ops + 1
  BY DEF HandleNewChannelOnlyChange, Spend, TypeOK
<1>3. Start("newOnly", Columns, new, shown.newOnly, FALSE, "save")
  BY DEF HandleNewChannelOnlyChange
<1>4. new["newOnly"] = value
  BY DEF TypeOK, Playbook
<1>5. /\ UNCHANGED <<server, apollo, written, why, mode, latest>>
      /\ shown' = [shown EXCEPT !["newOnly"] = value] /\ Rivals("newOnly") = {}
  BY DEF HandleNewChannelOnlyChange, Show
<1> HIDE DEF new, value
<1> QED  BY <1>1, <1>2, <1>3, <1>4, <1>5, StartShown

LEMMA SendModeShown ==
    ASSUME ShownInv, TypeOK, TypeOK', SendChannelMode
    PROVE  ShownInv'
<1> DEFINE new == [apollo EXCEPT !.linked = mode.linked]
<1>1. {"linked"} \subseteq GraphQL
  BY DEF GraphQL
<1>2. /\ mode.due /\ ~mode'.due /\ mode'.linked = mode'.check /\ mode'.check = mode.linked
  BY DEF SendChannelMode, TypeOK
<1>3. Start("mutation", {"linked"}, new, FALSE, FALSE, "save")
  BY DEF SendChannelMode, Send
<1>4. new.linked = mode.linked
  BY DEF TypeOK, Playbook
<1>5. UNCHANGED <<server, apollo, written, why, used, latest, shown>>
  BY DEF SendChannelMode, Send
<1> HIDE DEF new
<1> QED  BY <1>1, <1>2, <1>3, <1>4, <1>5, StartShown

(* A click counts as used up, and makes the mode due.                      *)
LEMMA ClickShown ==
    ASSUME ShownInv, TypeOK, HandleChannelModeChange
    PROVE  ShownInv'
<1>1. /\ used.ops \in Nat /\ used'.ops = used.ops + 1 /\ mode'.due /\ mode'.check = mode.check
      /\ UNCHANGED <<server, apollo, shown, latest, requests, written, why>>
  BY DEF HandleChannelModeChange, Spend, TypeOK
<1>2. \A s : Given(s) <= Given(s)' /\ Given(s) \in Nat /\ Given(s)' \in Nat
  BY <1>1 DEF Given
<1>3. \A r \in requests : r.id \in Nat
  BY DEF TypeOK, Request
<1>4. \A s \in Subjects : written[s] \in Nat
  BY DEF TypeOK
<1>5. Orderly /\ Settled
  BY DEF ShownInv
<1>6. Numbered'
  <2>1. ASSUME NEW r \in requests, Subject(r) \in Subjects  PROVE r.id <= Given(Subject(r))'
    <3>1. r.id <= Given(Subject(r))
      BY <1>5, <2>1 DEF Orderly, Numbered
    <3> QED  BY <3>1, <1>2, <1>3
  <2>2. ASSUME NEW s \in Subjects  PROVE written[s] <= Given(s)'
    <3>1. written[s] <= Given(s)
      BY <1>5 DEF Orderly, Numbered
    <3> QED  BY <3>1, <1>2, <1>4
  <2>3. \A q, r \in requests :
          Subject(q) = Subject(r) /\ Subject(r) \in Subjects /\ q.id = r.id => q = r
    BY <1>5 DEF Orderly, Numbered
  <2> QED  BY <1>1, <2>1, <2>2, <2>3 DEF Numbered, Subject
<1>7. Races'
  BY <1>1, <1>5 DEF Orderly, Races
<1>8. Orderly'
  BY <1>1, <1>5, <1>6, <1>7 DEF Orderly, Shape
<1>9. Settled'
  <2>1. \A s, v : ToBeStored(s, v) => ToBeStored(s, v)'
    BY <1>1 DEF ToBeStored, Unwritten, Subject
  <2>2. Clean' => Clean
    BY <1>1 DEF Clean
  <2>3. ModeFollows => ModeFollows'
    BY <1>1, <2>1 DEF ModeFollows, Subject
  <2>4. GoesBack => GoesBack'
    BY <1>1 DEF GoesBack
  <2>5. \A s : shown'[s] = shown[s]
    BY <1>1
  <2> QED  BY <1>5, <2>1, <2>2, <2>3, <2>4, <2>5 DEF Settled
<1> QED  BY <1>8, <1>9 DEF ShownInv

LEMMA ReplacedShown ==
    ASSUME ShownInv, TypeOK, NEW r \in requests, NEW q, requests' = (requests \ {r}) \cup {q},
           q.id = r.id, q.for = r.for, q.columns = r.columns, q.raced = r.raced, q.prev = r.prev,
           q.step = "answer" <=> r.step = "answer", q.step # "fetch",
           Subject(r) \in Subjects => q.new[Subject(r)] = r.new[Subject(r)],
           UNCHANGED <<server, apollo, shown, mode, latest, written, used>>, why \subseteq why'
    PROVE  ShownInv'
<1> DEFINE f == [x \in requests |-> IF x = r THEN q ELSE x]
<1>1. requests' = {f[x] : x \in requests}
  OBVIOUS
<1>2. \A x \in requests : f[x] = IF x = r THEN q ELSE x
  OBVIOUS
<1> HIDE DEF f
<1> QED  BY <1>1, <1>2, CarriedStored

LEMMA FetchedShown ==
    ASSUME ShownInv, TypeOK, NEW r \in requests, Fetched(r)
    PROVE  ShownInv'
<1> DEFINE d == [server EXCEPT ![r.for] = r.new[r.for]]
           q == [r EXCEPT !.new = d, !.step = "save"]
<1>1. r \in Request /\ server \in Playbook /\ r.step = "fetch" /\ Shape(r)
  BY DEF TypeOK, Fetched, ShownInv, Orderly
<1>2. r.for \in Settings /\ Subject(r) = r.for
  BY <1>1, SubjectOf DEF Shape, Request
<1>3. d[r.for] = r.new[r.for]
  BY <1>1, <1>2 DEF Settings, Playbook
<1>4. /\ q.id = r.id /\ q.for = r.for /\ q.columns = r.columns /\ q.raced = r.raced
      /\ q.prev = r.prev /\ q.new = d /\ q.step = "save"
  BY <1>1 DEF Request
<1>5. requests' = (requests \ {r}) \cup {q}
  BY DEF Fetched
<1>6. UNCHANGED <<server, apollo, shown, mode, latest, written, used, why>>
  BY DEF Fetched
<1> HIDE DEF d, q
<1> QED  BY <1>1, <1>2, <1>3, <1>4, <1>5, <1>6, ReplacedShown

LEMMA AcceptShown ==
    ASSUME ShownInv, TypeOK, NEW r \in requests, Accept(r)
    PROVE  ShownInv'
<1> DEFINE q == [r EXCEPT !.new = Filtered(r), !.seen = server, !.step = "write"]
<1>1. r \in Request /\ r.step = "save" /\ Shape(r)
  BY DEF TypeOK, Accept, ShownInv, Orderly
<1>2. \A s \in Subjects : Filtered(r)[s] = r.new[s]
  BY <1>1 DEF Filtered, Request, Playbook, Subjects, Settings
<1>3. /\ q.id = r.id /\ q.for = r.for /\ q.columns = r.columns /\ q.raced = r.raced
      /\ q.prev = r.prev /\ q.new = Filtered(r) /\ q.step = "write"
  BY <1>1 DEF Request
<1>4. requests' = (requests \ {r}) \cup {q}
  BY DEF Accept
<1>5. UNCHANGED <<server, apollo, shown, mode, latest, written, used>> /\ why \subseteq why'
  BY DEF Accept
<1> HIDE DEF q
<1> QED  BY <1>1, <1>2, <1>3, <1>4, <1>5, ReplacedShown

LEMMA WriteShown ==
    ASSUME ShownInv, TypeOK, NEW r \in requests, Write(r)
    PROVE  ShownInv'
<1> DEFINE q == [r EXCEPT !.step = "answer"]
           f == [x \in requests |-> IF x = r THEN q ELSE x]
           S == Subject(r)
<1>1. r \in Request /\ r.step = "write" /\ Shape(r) /\ Orderly /\ Settled
  BY DEF TypeOK, Write, ShownInv, Orderly
<1>2. /\ q.id = r.id /\ q.for = r.for /\ q.columns = r.columns /\ q.raced = r.raced
      /\ q.step = "answer" /\ Subject(q) = S
  BY <1>1 DEF Request, Subject
<1>3. /\ requests' = (requests \ {r}) \cup {q} /\ why' = why \cup Spoils(r)
      /\ server' = Merged(server, r.new, r.columns)
      /\ written' = [s \in Subjects |-> IF s = S THEN r.id ELSE written[s]]
      /\ UNCHANGED <<apollo, shown, mode, latest, used>>
  BY DEF Write, Step
<1>4. \A x \in requests : f[x] = IF x = r THEN q ELSE x
  OBVIOUS
<1>5. requests' = {f[x] : x \in requests}
  BY <1>3
<1> HIDE DEF q, f
<1>6. \A s \in Subjects : written'[s] <= Given(s)
  BY <1>1, <1>3 DEF Orderly, Numbered
<1>7. Orderly'
  <2>1. \A x \in requests : /\ f[x].id = x.id /\ f[x].for = x.for /\ f[x].columns = x.columns
                            /\ f[x].raced = x.raced
                            /\ f[x].step = "fetch" => x.step = "fetch"
    BY <1>2, <1>4
  <2>2. mode'.linked # mode'.check => mode'.due
    BY <1>1, <1>3 DEF Orderly
  <2>3. used'.ops = used.ops /\ mode'.due = mode.due /\ latest' = latest
    BY <1>3
  <2>4. requests' \subseteq {f[x] : x \in requests}
    BY <1>5
  <2> HIDE DEF S
  <2> QED  BY <1>1, <1>6, <2>1, <2>2, <2>3, <2>4, OrderlyMapped
<1> SUFFICES ASSUME Clean'
             PROVE  (ModeFollows /\ GoesBack /\ \A s \in Settings : ToBeStored(s, shown[s]))'
  BY <1>7 DEF ShownInv, Settled
<1>8. ModeFollows /\ GoesBack /\ \A s \in Settings : ToBeStored(s, shown[s])
  BY <1>1, <1>3, CleanBefore DEF Settled
<1>9. ASSUME NEW s \in Subjects, s # S  PROVE server'[s] = server[s] /\ written'[s] = written[s]
  <2>1. s \in Columns /\ server'[s] = IF s \in r.columns THEN r.new[s] ELSE server[s]
    BY <1>3, MergedColumn DEF Subjects, Columns, Settings, GraphQL
  <2>2. CASE r.for = "mutation"
    <3>1. s \notin r.columns
      BY <1>1, <1>9, <2>2, SubjectOf DEF Shape, Subjects, Settings, GraphQL
    <3> QED  BY <1>3, <1>9, <2>1, <3>1
  <2>3. CASE r.for # "mutation"
    <3>1. S = r.for
      BY <1>1, <2>3, SubjectOf DEF Request
    <3>2. r.new[s] = server[s]
      BY <1>3, <1>9, <2>3, <3>1 DEF Clean, Spoils, Subjects
    <3> QED  BY <1>3, <1>9, <2>1, <3>2
  <2> QED  BY <2>2, <2>3
<1>10. ASSUME NEW s \in Subjects, NEW v, ToBeStored(s, v), s # S  PROVE ToBeStored(s, v)'
  <2>1. Unwritten(s)' = Unwritten(s)
    BY <1>2, <1>3, <1>10 DEF Unwritten, Subject
  <2> HIDE DEF S
  <2> QED  BY <1>3, <1>9, <1>10, <2>1, StillToBeStored
<1>11. ASSUME NEW v, ToBeStored(S, v), S \in Subjects  PROVE ToBeStored(S, v)'
  <2>1. Unwritten(S)' = Unwritten(S) \ {r} /\ r \in Unwritten(S)
    BY <1>1, <1>2, <1>3 DEF Unwritten, Subject
  <2>2. server'[S] = r.new[S] /\ written'[S] = r.id
    <3>1. S \in Columns /\ server'[S] = IF S \in r.columns THEN r.new[S] ELSE server[S]
      BY <1>3, <1>11, MergedColumn DEF Subjects, Columns, Settings, GraphQL
    <3>2. S \in r.columns
      BY <1>1, <1>11, <3>1, SubjectOf DEF Shape, Subject, Subjects, Request, Settings
    <3> QED  BY <1>3, <1>11, <3>1, <3>2
  <2>3. ~(written[S] > r.id)
    BY <1>3, <1>11 DEF Clean, Spoils
  <2>4. r.id \in Nat /\ written[S] \in Nat /\ \A x \in Unwritten(S) : x.id \in Nat
    BY <1>1, <1>11 DEF TypeOK, Request, Unwritten
  <2>5. \A x \in Unwritten(S) : x # r => x.id # r.id
    BY <1>1, <1>11 DEF Orderly, Numbered, Unwritten
  <2>6. ~(server[S] = v /\ \A x \in Unwritten(S) : x.id < written[S])
    BY <2>1, <2>3, <2>4
  <2>7. PICK last \in Unwritten(S) : /\ last.new[S] = v /\ written[S] < last.id
                                     /\ S = "adminOnly" => last.id = latest
                                     /\ \A x \in Unwritten(S) : x.id <= last.id
    BY <1>11, <2>6 DEF ToBeStored
  <2>8. CASE last = r
    <3>1. \A x \in Unwritten(S)' : x.id < written'[S]
      BY <2>1, <2>2, <2>4, <2>5, <2>7, <2>8
    <3>2. server'[S] = v
      BY <2>2, <2>7, <2>8
    <3> QED  BY <3>1, <3>2 DEF ToBeStored, Unwritten, Subject
  <2>9. CASE last # r
    <3>1. last \in Unwritten(S)' /\ written'[S] < last.id
      BY <2>1, <2>2, <2>4, <2>5, <2>7, <2>9
    <3>2. \A x \in Unwritten(S)' : x.id <= last.id
      BY <2>1, <2>7
    <3> QED  BY <1>3, <2>7, <3>1, <3>2 DEF ToBeStored, Unwritten, Subject
  <2> QED  BY <2>8, <2>9
<1>12. \A s \in Subjects : \A v : ToBeStored(s, v) => ToBeStored(s, v)'
  <2> SUFFICES ASSUME NEW s \in Subjects, NEW v, ToBeStored(s, v)  PROVE ToBeStored(s, v)'
    OBVIOUS
  <2>1. CASE s # S
    BY <1>10, <2>1
  <2>2. CASE s = S
    <3>1. ToBeStored(S, v) /\ S \in Subjects
      BY <2>2
    <3>2. ToBeStored(S, v)'
      BY <1>11, <3>1
    <3> QED  BY <2>2, <3>2 DEF ToBeStored, Unwritten, Subject
  <2> QED  BY <2>1, <2>2
<1>13. \A s \in Settings : ToBeStored(s, shown[s])'
  BY <1>3, <1>8, <1>12 DEF Subjects
<1>14. GoesBack'
  <2> SUFFICES ASSUME NEW x \in requests', x.for # "mutation", ~x.raced, x.step # "answer"
               PROVE  x.prev = server'[x.for]
    BY DEF GoesBack
  <2>1. x \in requests /\ x # r
    BY <1>2, <1>3
  <2>2. x \in Request /\ x.for \in Settings
    BY <2>1 DEF TypeOK, Request
  <2>3. x.for # r.for
    BY <1>1, <2>1 DEF Orderly, Races
  <2>4. x.for # S
    BY <1>1, <2>2, <2>3, SubjectOf
  <2> QED  BY <1>8, <1>9, <2>1, <2>2, <2>4 DEF GoesBack, Subjects
<1>15. ModeFollows'
  <2>1. PICK v \in BOOLEAN : ToBeStored("linked", v) /\ (mode.due \/ mode.check \in {v, apollo.linked})
    BY <1>8 DEF ModeFollows
  <2>2. ToBeStored("linked", v)'
    BY <1>12, <2>1 DEF Subjects
  <2>3. apollo.linked # server'.linked =>
            \E x \in requests' : Subject(x) = "linked" /\ x.step = "answer"
    <3>1. CASE S = "linked"
      BY <1>2, <1>3, <3>1
    <3>2. CASE S # "linked"
      <4>1. server'.linked = server.linked
        BY <1>9, <3>2 DEF Subjects
      <4>2. ASSUME NEW x \in requests, Subject(x) = "linked", x.step = "answer"  PROVE x \in requests'
        BY <1>1, <1>3, <4>2
      <4> QED  BY <1>8, <4>1, <4>2 DEF ModeFollows
    <3> QED  BY <3>1, <3>2
  <2> QED  BY <1>3, <2>1, <2>2, <2>3 DEF ModeFollows, Subject
<1> QED  BY <1>13, <1>14, <1>15

(* Requests that end leave what is to be stored.                           *)
LEMMA GoneOrderly ==
    ASSUME Orderly, TypeOK, NEW r \in requests, requests' = requests \ {r},
           used'.ops = used.ops, mode'.due = mode.due, mode'.linked # mode'.check => mode'.due,
           UNCHANGED <<latest, written>>
    PROVE  Orderly'
<1> DEFINE f == [x \in requests |-> x]
<1>1. \A x \in requests : f[x] = x
  OBVIOUS
<1>2. requests' \subseteq {f[x] : x \in requests}
  BY <1>1
<1> HIDE DEF f
<1>3. \A x \in requests : /\ f[x].id = x.id /\ f[x].for = x.for /\ f[x].columns = x.columns
                          /\ f[x].raced = x.raced
                          /\ f[x].step = "fetch" => x.step = "fetch"
  BY <1>1
<1>4. \A s \in Subjects : written'[s] <= Given(s)
  BY DEF Orderly, Numbered
<1> HIDE DEF Orderly
<1> QED  BY <1>2, <1>3, <1>4, OrderlyMapped

LEMMA AnswerShown ==
    ASSUME ShownInv, TypeOK, NEW r \in requests, Answer(r)
    PROVE  ShownInv'
<1>1. r \in Request /\ r.step = "answer" /\ Shape(r) /\ Orderly /\ Settled
  BY DEF TypeOK, Answer, ShownInv, Orderly
<1>2. /\ requests' = requests \ {r}
      /\ UNCHANGED <<server, shown, latest, used, written, why>>
      /\ apollo' = server \/ (apollo' = apollo /\ r.for = "ownerOnly")
      /\ \/ /\ apollo' # apollo /\ mode'.linked = server.linked
            /\ mode'.check = server.linked /\ mode'.due = mode.due
         \/ mode' = mode /\ (apollo' = apollo \/ mode.linked # mode.check)
  BY DEF Answer, TypeOK
<1>3. mode.linked # mode.check => mode.due
  BY <1>1 DEF Orderly
<1>4. Orderly'
  BY <1>1, <1>2, <1>3, GoneOrderly
<1> SUFFICES ASSUME Clean'
             PROVE  (ModeFollows /\ GoesBack /\ \A s \in Settings : ToBeStored(s, shown[s]))'
  BY <1>4 DEF ShownInv, Settled
<1>5. ModeFollows /\ GoesBack /\ \A s \in Settings : ToBeStored(s, shown[s])
  BY <1>1, <1>2, CleanBefore DEF Settled
<1>6. \A s : Unwritten(s)' = Unwritten(s)
  BY <1>1, <1>2 DEF Unwritten, Subject
<1>7. \A s, v : ToBeStored(s, v) => ToBeStored(s, v)'
  BY <1>2, <1>6 DEF ToBeStored
<1>8. GoesBack'
  BY <1>2, <1>5 DEF GoesBack
<1>9. ModeFollows'
  <2>1. PICK v \in BOOLEAN : ToBeStored("linked", v) /\ (mode.due \/ mode.check \in {v, apollo.linked})
    BY <1>5 DEF ModeFollows
  <2>2. mode'.due \/ mode'.check \in {v, apollo'.linked}
    BY <1>2, <1>3, <2>1
  <2>3. apollo'.linked # server'.linked =>
            \E x \in requests' : Subject(x) = "linked" /\ x.step = "answer"
    <3> SUFFICES ASSUME apollo'.linked # server.linked
                 PROVE  \E x \in requests' : Subject(x) = "linked" /\ x.step = "answer"
      BY <1>2
    <3>1. apollo' = apollo /\ r.for = "ownerOnly"
      BY <1>2
    <3>2. Subject(r) # "linked"
      BY <1>1, <3>1, SubjectOf
    <3> QED  BY <1>2, <1>5, <3>1, <3>2 DEF ModeFollows
  <2> QED  BY <1>7, <2>1, <2>2, <2>3 DEF ModeFollows, Subject
<1> QED  BY <1>2, <1>5, <1>7, <1>8, <1>9

LEMMA EndsShown ==
    ASSUME ShownInv, TypeOK, NEW r \in requests, Ends(r), used'.ops = used.ops
    PROVE  ShownInv'
<1>1. r \in Request /\ Shape(r) /\ Orderly /\ Settled
  BY DEF TypeOK, ShownInv, Orderly
<1>2. /\ requests' = requests \ {r} /\ why' = why \cup Apart(r)
      /\ UNCHANGED <<server, apollo, mode, latest, written>>
      /\ shown' = IF r.for = "mutation" \/ r.forced \/ (r.for = "adminOnly" /\ r.id # latest)
                  THEN shown ELSE [shown EXCEPT ![r.for] = r.prev]
  BY DEF Ends, Rollback
<1>3. mode.linked # mode.check => mode.due
  BY <1>1 DEF Orderly
<1>4. Orderly'
  BY <1>1, <1>2, <1>3, GoneOrderly
<1> SUFFICES ASSUME Clean'
             PROVE  (ModeFollows /\ GoesBack /\ \A s \in Settings : ToBeStored(s, shown[s]))'
  BY <1>4 DEF ShownInv, Settled
<1>5. ModeFollows /\ GoesBack /\ \A s \in Settings : ToBeStored(s, shown[s])
  BY <1>1, <1>2, CleanBefore DEF Settled
<1>6. /\ ~(r.for = "autoArchive" /\ r.raced)
      /\ ~(r.for = "adminOnly" /\ r.raced /\ r.id = latest)
      /\ ~r.forced /\ r.columns # {"linked"} /\ r.step # "answer"
  BY <1>2 DEF Clean, Apart
<1>7. Subject(r) # "linked" /\ (r.for # "mutation" => Subject(r) = r.for /\ r.for \in Settings)
  BY <1>1, <1>6, SubjectOf DEF Request
<1>8. \A s : Unwritten(s)' = Unwritten(s) \ {r}
  BY <1>2 DEF Unwritten, Subject
<1>9. \A x \in Unwritten(Subject(r)) : Subject(x) = Subject(r) /\ x \in requests
  BY DEF Unwritten
<1>10. ASSUME NEW s \in Subjects, s # Subject(r), NEW v, ToBeStored(s, v)  PROVE ToBeStored(s, v)'
  <2>1. Unwritten(s)' = Unwritten(s)
    BY <1>8, <1>10 DEF Unwritten
  <2> QED  BY <1>2, <1>10, <2>1, StillToBeStored
<1>11. GoesBack'
  BY <1>2, <1>5 DEF GoesBack
<1>12. ModeFollows'
  <2>1. PICK v \in BOOLEAN : ToBeStored("linked", v) /\ (mode.due \/ mode.check \in {v, apollo.linked})
    BY <1>5 DEF ModeFollows
  <2>2. ToBeStored("linked", v)'
    BY <1>7, <1>10, <2>1 DEF Subjects
  <2>3. apollo.linked # server.linked =>
            \E x \in requests' : Subject(x) = "linked" /\ x.step = "answer"
    BY <1>2, <1>5, <1>7 DEF ModeFollows
  <2> QED  BY <1>2, <2>1, <2>2, <2>3 DEF ModeFollows, Subject
<1>13. ASSUME NEW s \in Settings  PROVE ToBeStored(s, shown[s])'
  <2>0. s \in Subjects
    BY DEF Subjects
  <2>1. CASE r.for = "mutation"
    <3>1. s # Subject(r)
      BY <1>1, <2>1, SubjectOf DEF Settings
    <3> QED  BY <1>2, <1>5, <1>10, <2>0, <2>1, <3>1
  <2>2. CASE r.for # "mutation" /\ s # r.for
    <3>1. shown'[s] = shown[s] /\ s # Subject(r)
      BY <1>2, <1>7, <2>2 DEF TypeOK
    <3> QED  BY <1>5, <1>10, <2>0, <3>1
  <2>3. CASE r.for # "mutation" /\ s = r.for /\ ~r.raced
    <3>1. r.for = "adminOnly" => r.id = latest
      BY <1>1, <2>3 DEF Orderly, Races
    <3>2. shown'[s] = r.prev
      BY <1>2, <1>6, <2>3, <3>1 DEF TypeOK
    <3>3. r.prev = server[s]
      BY <1>5, <1>6, <2>3 DEF GoesBack
    <3>4. \A x \in requests : x.for = s => x = r
      BY <1>1, <2>3 DEF Orderly, Races
    <3>5. \A x \in Unwritten(s) : x.for = s /\ x \in requests
      BY <1>1, SubjectOf DEF Unwritten, Orderly, TypeOK
    <3>6. Unwritten(s)' = {}
      BY <1>8, <3>4, <3>5
    <3> QED  BY <1>2, <3>2, <3>3, <3>6 DEF ToBeStored
  <2>4. CASE r.for # "mutation" /\ s = r.for /\ r.raced
    <3>1. s = "adminOnly" /\ r.id # latest
      BY <1>1, <1>6, <2>4 DEF Orderly, Races
    <3>2. shown' = shown
      BY <1>2, <2>4, <3>1
    <3>3. \A q \in Unwritten(s)' : \E x \in Unwritten(s) : q.id = x.id
      BY <1>8
    <3>4. \A x \in Unwritten(s) :
             \/ s = "adminOnly" /\ x.id # latest
             \/ \E q \in Unwritten(s)' : q.id = x.id /\ q.new[s] = x.new[s]
      BY <1>8, <3>1
    <3> QED  BY <1>2, <1>5, <3>2, <3>3, <3>4, StillToBeStored
  <2> QED  BY <2>1, <2>2, <2>3, <2>4
<1> QED  BY <1>11, <1>12, <1>13

(* A user who leaves the team disturbs nothing shown.                      *)
LEMMA LeaveShown ==
    ASSUME ShownInv, TypeOK, NEW u \in Users, LeaveTeam(u)
    PROVE  ShownInv'
<1> DEFINE f == [r \in requests |-> [r EXCEPT !.alone = FALSE]]
<1>1. requests' = {f[r] : r \in requests}
  BY DEF LeaveTeam, NoMoreAlone
<1>2. \A r \in requests :
         /\ f[r].id = r.id /\ f[r].for = r.for /\ f[r].columns = r.columns
         /\ f[r].raced = r.raced /\ f[r].prev = r.prev /\ f[r].step = r.step
         /\ f[r].new = r.new
  BY DEF TypeOK, Request
<1>3. used'.ops = used.ops
  BY DEF LeaveTeam, Spend, TypeOK
<1>4. UNCHANGED <<server, apollo, shown, mode, latest, written, why>>
  BY DEF LeaveTeam
<1> HIDE DEF f
<1> QED  BY <1>1, <1>2, <1>3, <1>4, CarriedStored

LEMMA OthersShown ==
    ASSUME ShownInv, TypeOK, OtherEdit
    PROVE  ShownInv'
<1> DEFINE f == [r \in requests |-> [r EXCEPT !.alone = FALSE]]
<1>1. requests' = {f[r] : r \in requests}
  BY DEF OtherEdit, NoMoreAlone
<1>2. \A r \in requests :
         /\ f[r].id = r.id /\ f[r].for = r.for /\ f[r].columns = r.columns
         /\ f[r].raced = r.raced /\ f[r].step = r.step
  BY DEF TypeOK, Request
<1>3. used'.ops = used.ops
  BY DEF OtherEdit, Spend, TypeOK
<1>4. UNCHANGED <<mode, latest, written>> /\ ~Clean'
  BY DEF OtherEdit, Clean
<1>5. Orderly /\ (mode.linked # mode.check => mode.due) /\ \A s \in Subjects : written[s] <= Given(s)
  BY DEF ShownInv, Orderly, Numbered
<1> HIDE DEF f
<1>6. requests' \subseteq {f[r] : r \in requests}
  BY <1>1
<1>7. Orderly'
  BY <1>2, <1>3, <1>4, <1>5, <1>6, OrderlyMapped
<1> QED  BY <1>4, <1>7 DEF ShownInv, Settled

LEMMA ShownStart == Init => ShownInv
<1> SUFFICES ASSUME Init  PROVE ShownInv
  OBVIOUS
<1>1. /\ requests = {} /\ apollo = server /\ ~mode.due
      /\ mode.linked = server.linked /\ mode.check = server.linked /\ server.linked \in BOOLEAN
      /\ \A s \in Settings : shown[s] = server[s]
      /\ used.ops = 0 /\ \A s \in Subjects : written[s] = 0
  BY DEF Init
<1>2. \A s : ToBeStored(s, server[s])
  BY <1>1 DEF ToBeStored, Unwritten
<1>3. ModeFollows
  <2>1. ToBeStored("linked", server["linked"])
    BY <1>2
  <2> QED  BY <1>1, <2>1 DEF ModeFollows
<1>4. Orderly
  BY <1>1 DEF Orderly, Numbered, Races, Given
<1> QED  BY <1>1, <1>2, <1>3, <1>4 DEF ShownInv, Settled, GoesBack

LEMMA ShownStep ==
    ASSUME ShownInv, TypeOK, TypeOK', [Next]_vars
    PROVE  ShownInv'
<1>1. ASSUME NEW assignees \in SUBSET Users, EditChecklists(assignees)  PROVE ShownInv'
  BY <1>1, MutateShown DEF EditChecklists
<1>2. ASSUME NEW u \in Users, HandleAddUserInvited(u) \/ HandleRemoveUser(u)  PROVE ShownInv'
  BY <1>2, MutateShown DEF HandleAddUserInvited, HandleRemoveUser
<1>3. CASE HandleToggle
  BY <1>3, MutateShown DEF HandleToggle
<1>4. CASE HandleAutoArchiveChange \/ ForcedLinkedReset
  BY <1>4, ToggleShown DEF HandleAutoArchiveChange, ForcedLinkedReset, Settings
<1>5. CASE HandleAdminOnlyEditChange \/ HandleOwnerGroupOnlyActionsChange
  BY <1>5, ToggleShown DEF HandleAdminOnlyEditChange, HandleOwnerGroupOnlyActionsChange, Settings
<1>6. CASE HandleNewChannelOnlyChange \/ SendChannelMode \/ HandleChannelModeChange
  BY <1>6, NewOnlyShown, SendModeShown, ClickShown
<1>7. ASSUME NEW r \in requests, Fetched(r) \/ Accept(r) \/ Write(r) \/ Answer(r)
      PROVE  ShownInv'
  BY <1>7, FetchedShown, AcceptShown, WriteShown, AnswerShown
<1>8. ASSUME NEW r \in requests, Refuse(r) \/ Fail(r)  PROVE ShownInv'
  <2>1. used'.ops = used.ops
    BY <1>8 DEF Refuse, Fail, Spend, TypeOK
  <2> QED  BY <1>8, <2>1, EndsShown DEF Refuse, Fail
<1>9. CASE OtherEdit \/ \E u \in Users : LeaveTeam(u)
  BY <1>9, OthersShown, LeaveShown
<1>10. CASE UNCHANGED vars
  <2>1. UNCHANGED <<server, apollo, shown, mode, latest, requests, used, written, why>>
    BY <1>10 DEF vars
  <2> QED  BY <2>1 DEF ShownInv, Orderly, Settled, Shape, Numbered, Races, ModeFollows, GoesBack,
                       ToBeStored, Unwritten, Given, Clean, Subject
<1> QED  BY <1>1, <1>2, <1>3, <1>4, <1>5, <1>6, <1>7, <1>8, <1>9, <1>10 DEF Next

(* Once all is answered the page shows the toggles and the channel mode    *)
(* that are stored, however requests and failures interleaved, but for the *)
(* ways ShownIsStored names (outline.tsx; validation and storing of the    *)
(* playbook's update).                                                     *)
THEOREM StoredIsShown == Spec => []ShownIsStored
<1>1. ShownInv /\ TypeOK /\ TypeOK' /\ [Next]_vars => ShownInv'
  BY ShownStep
<1>2. ShownInv => ShownIsStored
  <2> SUFFICES ASSUME ShownInv, Quiet, Clean
               PROVE  (\A s \in Settings : shown[s] = server[s]) /\ mode.linked = server.linked
    BY DEF ShownIsStored, Clean
  <2>1. \A s : Unwritten(s) = {}
    BY DEF Quiet, Unwritten
  <2>2. ModeFollows /\ \A s \in Settings : ToBeStored(s, shown[s])
    BY DEF ShownInv, Settled
  <2>3. PICK v \in BOOLEAN : ToBeStored("linked", v) /\ (mode.due \/ mode.check \in {v, apollo.linked})
    BY <2>2 DEF ModeFollows
  <2>4. v = server.linked /\ apollo.linked = server.linked
    BY <2>1, <2>2, <2>3 DEF ToBeStored, ModeFollows, Quiet
  <2>5. mode.linked = server.linked
    BY <2>3, <2>4 DEF ShownInv, Orderly, Quiet
  <2> QED  BY <2>1, <2>2, <2>5 DEF ToBeStored
<1>3. Spec => []ShownInv
  BY ShownStart, <1>1, TypeCorrect, PTL DEF Spec
<1> QED  BY <1>2, <1>3, PTL
=============================================================================
